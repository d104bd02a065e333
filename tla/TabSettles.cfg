SPECIFICATION FairSpec
CONSTANTS
  None = None
  w1 = w1
  w2 = w2
  Workspaces = {w1, w2}
  Tabs <- AllTabs
  MaxAsks = 3
  MaxMoves = 2
INVARIANTS OneChain AcceptedIsListed
PROPERTIES ViewSettles
CHECK_DEADLOCK FALSE
