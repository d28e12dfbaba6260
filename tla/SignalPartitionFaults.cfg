SPECIFICATION Spec
CONSTANTS
  Row = {x1, x2, x3}
  Opaque = {x3}
  Reader = {}
  L0Trigger = 2
  IoFaults = TRUE
  MaxSeq = 4
  MaxCrash = 1
SYMMETRY Symmetry
INVARIANT DurableRows
PROPERTY ImplementsRowStore
CHECK_DEADLOCK FALSE
