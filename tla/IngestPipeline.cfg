SPECIFICATION FairSpec
CONSTANTS
  Batch = {b1, b2, b3}
  Malformed = {b3}
  Depth = 2
  Faults = TRUE
  MaxSend = 2
INVARIANT HandledInOrder
INVARIANT OncePerAnswer
PROPERTY AcceptedHandled
CHECK_DEADLOCK FALSE
