CONSTANTS
  Torn = Torn
  MaxAppends = 3
  Entries = {1, 2, 3}
  CellBits = 2
  WordCells = 2
  Polynomial <- MCPolynomial
  Payload <- MCPayload
SPECIFICATION BytesSpec
INVARIANTS
  SessionTypeOK
  ReplayIsInOrder
  TornTailLosesNothing
  BytesReplayAsFrames
  AlteredDataIsCaught
