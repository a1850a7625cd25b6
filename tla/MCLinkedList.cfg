SPECIFICATION Spec
CONSTANTS
  Addr = {a1, a2, a3, a4}
  NULL = NULL
  Data = {d1, d2}
  MaxReentry = 2
INVARIANTS TypeOK Linked Counted Cursor
PROPERTIES ListPromise CallReturns
