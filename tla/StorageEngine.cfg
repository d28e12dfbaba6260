SPECIFICATION Spec
CONSTANTS
  a1 = a1
  a2 = a2
  a3 = a3
  b1 = b1
  k1 = k1
  k2 = k2
  None = None
  Row <- Rows4
  Key <- Keys
  KeyOf <- KeyOfRow
  SignalOf <- SignalOfRow
  Opaque = {b1}
  Writer = {w1}
  MemCap = 2
  QueueCap = 1
  Faults = TRUE
  MaxMem = 6
INVARIANT Accounted
INVARIANT AtMostOnce
INVARIANT WalFirst
CHECK_DEADLOCK FALSE
SYMMETRY Symmetry
