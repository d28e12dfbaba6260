SPECIFICATION Spec
CONSTANTS
  Entry = {e1, e2, e3, e4}
  DataLen = 2
  Cap = 4
  Faults = TRUE
  MaxCheck = 2
  MaxCrash = 1
  None = None
INVARIANT RecoverExact
INVARIANT NothingInvented
