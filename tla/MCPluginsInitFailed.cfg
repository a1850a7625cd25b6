SPECIFICATION Spec
CONSTANTS
  Files = {f1, f2}
  Others = {dot}
  NONE = NONE
  Directories <- Listings
  ReusesEntry = FALSE
  Faults = {"init_failed"}
  MaxStores = 1
INVARIANT FailedInitForgotten
