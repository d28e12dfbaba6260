SPECIFICATION FairSpec
CONSTANTS
  n1 = n1
  n2 = n2
  n3 = n3
  Node <- Nodes3
  Pos <- Pos3
  Viewer = {n1, n2}
  Key <- Keys3
  Size = 8
  RepFactor = 2
  MaxStart = 3
INVARIANT ViewExact
INVARIANT RouteExact
INVARIANT OnePrimary
PROPERTY MinimalMoves
PROPERTY DownLeaves
CHECK_DEADLOCK FALSE
