SPECIFICATION Spec
CONSTANTS
  Levels <- MCLevels
  Filters <- MCFilters
  TraceBit = "trace"
  Console = TRUE
  MemoryFails = TRUE
  MaxMessages = 4
  MaxStores = 2
INVARIANTS TypeOK InOrderOnce OnlyLateForgotten TextOutlivesMessage
PROPERTIES LeavesDelivered DrainEnds
