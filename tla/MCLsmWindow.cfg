CONSTANTS
  c1 = c1
  c2 = c2
  Absent = Absent
  NoFile = NoFile
  Torn = Torn
  Keys <- MCKeys2
  Values <- MCValues
  Tombstones <- MCTombstones
  Entries <- MCEntries
  Clients = {c1, c2}
  Calls <- OwnKeys
  Bytes <- SameSize
  FLUSH_THRESHOLD = 2
  L0_COMPACTION_THRESHOLD = 2
  MaxWrites = 2
  MaxStamp = 6
  ClockTicks <- StrictTicks
  MaxFaults = 0
  MaxRestarts = 0
  TornCrash = FALSE
SPECIFICATION LsmSpec
INVARIANTS
  SetsAreRead
