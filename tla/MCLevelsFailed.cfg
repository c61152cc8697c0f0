CONSTANTS
  a = a
  b = b
  tombstone = tombstone
  Absent = Absent
  NoFile = NoFile
  Keys <- MCKeys
  Values <- MCValues
  Tombstones <- MCTombstones
  L0_COMPACTION_THRESHOLD = 2
  MaxStamp = 4
  ClockTicks <- StrictTicks
  MaxFaults = 0
  FlushTables <- SparseTables
SPECIFICATION LevelSpec
PROPERTIES
  FailedCompactionHidesNothing
CHECK_DEADLOCK FALSE
