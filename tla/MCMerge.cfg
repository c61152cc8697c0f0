CONSTANTS
  a = a
  b = b
  tombstone = tombstone
  Absent = Absent
  NoFile = NoFile
  Keys <- MCKeys
  Values <- MCValues
  Tombstones <- MCTombstones
  HashBits = 8
  fnv_1a <- MCfnv
  djb2 <- MCdjb2
  CHECKPOINT = 2
  record_size <- MCSizes
  Flushed <- MCFlushed
  MaxSources = 3
  MaxFaults = 1
SPECIFICATION MergeSpec
INVARIANTS
  MergeTypeOK
  HeapHoldsHeads
  LookupsAreExact
PROPERTIES
  ImplementsAtomicMerge
  MergeEnds
CHECK_DEADLOCK FALSE
