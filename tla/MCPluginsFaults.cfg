SPECIFICATION Spec
CONSTANTS
  Files = {f1, f2}
  Others = {dot}
  NONE = NONE
  Directories <- WindowsListings
  ReusesEntry = TRUE
  Faults = {"dir_not_found", "open_error", "init_not_found", "no_init_call", "no_module", "init_failed", "no_library_node"}
  MaxStores = 1
INVARIANTS TypeOK HandlesKept
