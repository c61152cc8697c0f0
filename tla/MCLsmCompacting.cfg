CONSTANTS
  c1 = c1
  c2 = c2
  Absent = Absent
  NoFile = NoFile
  Torn = Torn
  Keys <- MCKeys2
  Values <- MCValues
  Tombstones <- MCTombstones
  Entries <- MCEntries
  Clients = {c1}
  Calls <- SetsAndGets
  Bytes <- SecondIsLong
  FLUSH_THRESHOLD = 2
  L0_COMPACTION_THRESHOLD = 1
  MaxWrites = 4
  MaxStamp = 6
  ClockTicks <- StrictTicks
  MaxFaults = 1
  MaxRestarts = 1
  TornCrash = TRUE
SPECIFICATION FreshSpec
INVARIANTS
  KeysNeverVanish
  RecoveredIsFresh
PROPERTIES
  ReadsAreFresh
