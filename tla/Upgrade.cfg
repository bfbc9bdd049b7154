SPECIFICATION Spec
CONSTANTS
  u1 = u1
  u2 = u2
  NoAsset = NoAsset
  Upgraders = {u1, u2}
  Offers = {{"phs", "lsp"}, {"phs"}, {"lsp"}, NoAsset}
  RunFrom = {"exe", "old"}
  MaxStarts = 2
  MaxFaults = 1
  MaxMoves = 1
CHECK_DEADLOCK FALSE
INVARIANTS ABinaryIsKept EndedUpgradesLeaveABinary
PROPERTIES UpToDateIsTrue
