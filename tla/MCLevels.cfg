CONSTANTS
  a = a
  b = b
  tombstone = tombstone
  Absent = Absent
  NoFile = NoFile
  Keys <- MCKeys
  Values <- MCValues
  Tombstones <- MCTombstones
  L0_COMPACTION_THRESHOLD = 2
  MaxStamp = 6
  ClockTicks <- StrictTicks
  MaxFaults = 1
  FlushTables <- SparseTables
SPECIFICATION LevelSpec
INVARIANTS
  LevelTypeOK
  L1Disjoint
  TrackedFilesExist
  MergeIsInstallable
PROPERTIES
  CompactionKeepsUncontested
CHECK_DEADLOCK FALSE
