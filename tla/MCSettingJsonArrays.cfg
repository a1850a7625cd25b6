SPECIFICATION Spec
CONSTANTS
  Modules = {"NSA_RA"}
  Settings <- MCTwoArrays
  Orders <- ArraysOrders
  Cells <- IntCells
  Behind = {0}
  NoDocument = NoDocument
INVARIANT EntryHasAll
