SPECIFICATION Spec
CONSTANTS
  Files = {f1, f2}
  Others = {dot}
  NONE = NONE
  Directories <- Listings
  ReusesEntry = FALSE
  Faults = {"dir_not_found", "open_error", "init_not_found", "no_init_call"}
  MaxStores = 2
INVARIANTS CodeMapped LoadedOnce SettingsReachPlugins ExitOwed
PROPERTY IamReturns
