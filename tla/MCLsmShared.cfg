CONSTANTS
  c1 = c1
  c2 = c2
  Absent = Absent
  NoFile = NoFile
  Torn = Torn
  Keys <- MCKeys2
  Values <- MCValues
  Tombstones <- MCTombstones
  Entries <- MCEntries
  Clients = {c1, c2}
  Calls <- SharedKey
  Bytes <- EvenAreLong
  FLUSH_THRESHOLD = 2
  L0_COMPACTION_THRESHOLD = 2
  MaxWrites = 5
  MaxStamp = 3
  ClockTicks <- StrictTicks
  MaxFaults = 1
  MaxRestarts = 0
  TornCrash = FALSE
SPECIFICATION FreshSpec
INVARIANTS
  RecoveredIsFresh
PROPERTIES
  ReadsAreFresh
