SPECIFICATION FairSpec
CONSTANTS
  c1 = c1
  c2 = c2
  p1 = p1
  p2 = p2
  s1 = s1
  s2 = s2
  Config <- MCConfig
  Pods <- MCPods
  Claim <- MCClaim
  First <- MCFirst
  MaxGeneration = 3
  MaxChanges = 1
  MaxFaults = 1
  MaxRestarts = 1
INVARIANT StatusTrue
INVARIANT ConfigFirst
PROPERTY Converges
