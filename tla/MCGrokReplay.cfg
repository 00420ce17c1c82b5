SPECIFICATION Spec
CONSTANTS
  Keys = {"k1", "k2"}
  HeaderSets <- MCHeaderSets
  ResponseIds = {r1, r2}
  ItemId = "i"
  CallIds <- MCCallIds
  MaxItems = 2
  MaxOpen = 1
  Menu <- MCMenu
SYMMETRY Symmetry
CHECK_DEADLOCK FALSE
INVARIANTS ReplaySound SessionContinuesLatestTurn
