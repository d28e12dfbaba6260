SPECIFICATION FairSpec
CONSTANTS
  r1 = r1
  r2 = r2
  Node = {r1, r2}
  Replica = {r1}
  Writer = {w1, w2}
  BUFFER_PER_REPLICA = 2
  MaxCalls = 4
  MaxDeaths = 1
  Entry = {e1, e2}
  Record = {e1}
  Stream = {1, 2}
  AckCap = 1
  MaxFeed = 3
  Target = {r1, r2}
  Batches <- MCBatches
INVARIANT EachOnce
INVARIANT CallOrder
INVARIANT AnsweredInOrder
INVARIANT AcceptedIsStored
INVARIANT WholeOrNamed
PROPERTY Progress
CHECK_DEADLOCK FALSE
