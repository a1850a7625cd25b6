SPECIFICATION Spec
CONSTANTS
  Point <- MCPoint
  Radius = {0, 2}
  Distance <- MCDistance
  DetRadius = 1
  DetCount = 2
  AttemptMax = 2
  ActivationLimit = 1
  Tables <- MCTables
  FitsCounted = 2
  Far = 9
  NoRow = NoRow
INVARIANT ValidHasSeenAll
