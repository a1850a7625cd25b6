SPECIFICATION Spec
CONSTANTS
  Values <- MCValues
  Half = 1
  Above <- MCAbove
  Behind <- MCBehind
  Cap = 2
  Junk = Junk
  MemoryFails = TRUE
INVARIANTS TypeOK Filled SetTells ErrorsKnown
PROPERTY RefusedKeepsValues
