CONSTANTS
  c1 = c1
  c2 = c2
  Absent = Absent
  NoFile = NoFile
  Torn = Torn
  Keys <- MCKeys2
  Values <- MCValues
  Tombstones <- MCTombstones
  Entries <- MCEntries
  Clients = {c1}
  Calls <- EveryCall
  Bytes <- SecondIsLong
  FLUSH_THRESHOLD = 2
  L0_COMPACTION_THRESHOLD = 4
  MaxWrites = 4
  MaxStamp = 3
  ClockTicks <- StrictTicks
  MaxFaults = 0
  MaxRestarts = 1
  TornCrash = FALSE
SPECIFICATION LsmSpec
INVARIANTS
  AlwaysRecoverable
  ReplayRebuildsMem
  AnswersWereWritten
PROPERTIES
  ImplementsKVStore
