SPECIFICATION FairSpec
CONSTANTS
  Row = {x1, x2, x3}
  Opaque = {x3}
  Reader = {q1}
  L0Trigger = 2
  IoFaults = FALSE
  MaxSeq = 5
  MaxCrash = 1
PROPERTY VisibleAgain
INVARIANT RegistryExact
INVARIANT SettledQueryComplete
PROPERTY NeverOverwritten
