SPECIFICATION Spec
CONSTANTS
  Modules <- MCModules
  Settings <- MCSettings
  Orders <- MCOrders
  Cells <- MCCells
  Behind = {0, 1}
  NoDocument = NoDocument
INVARIANTS TypeOK EntriesKept DumpTells DefaultsComeBack StoredIsLoaded NewEntryComplete
