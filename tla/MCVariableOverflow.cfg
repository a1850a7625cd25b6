SPECIFICATION Spec
CONSTANTS
  Values <- MCValues
  Half = 1
  Above <- MCAbove
  Behind <- MCBehind
  Cap = 2
  Junk = Junk
  MemoryFails = FALSE
INVARIANT OverflowTold
