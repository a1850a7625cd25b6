SPECIFICATION Spec
CONSTANTS
  Listings <- MCListings
  DetIds = {0, 1, 2}
  SetCount = 2
  BufferSize = 6
  MaxSym = 2
INVARIANTS TypeOK AnyOrderSafe RunsAsAsked
PROPERTIES ViewerComplete CallsReturn
