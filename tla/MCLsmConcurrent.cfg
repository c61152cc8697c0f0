CONSTANTS
  c1 = c1
  c2 = c2
  Absent = Absent
  NoFile = NoFile
  Torn = Torn
  Keys <- MCKeys2
  Values <- MCValues
  Tombstones <- MCTombstones
  Entries <- MCEntries
  Clients = {c1, c2}
  Calls <- TwoWriters
  Bytes <- SecondIsLong
  FLUSH_THRESHOLD = 1
  L0_COMPACTION_THRESHOLD = 1
  MaxWrites = 2
  MaxStamp = 5
  ClockTicks <- StrictTicks
  MaxFaults = 1
  MaxRestarts = 1
  TornCrash = FALSE
SPECIFICATION LsmFairSpec
INVARIANTS
  LsmTypeOK
  TrackedFilesExist
  SoleSetIsKept
PROPERTIES
  CallsReturn
  DropReturns
  L0IsCompacted
