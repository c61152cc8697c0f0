CONSTANTS
  Torn = Torn
  MaxAppends = 3
  Entries = {1, 2, 3}
SPECIFICATION SessionSpec
INVARIANTS
  PromisedIsReplayed
