\* One query at a time, over small tables.
CONSTANTS
  NULL = NULL
  IntMax = 64
  UnitNs <- MCUnitNs
  Now = 40
  FloatUnit = 6
  SecondNs = 10
  BatchSize = 2
  Texts <- MCTexts
  Tables <- MCTables
  LateFiles <- MCLateFiles
  Slots = {0, 3}
SPECIFICATION Spec
INVARIANTS
  ParsesAsWritten
  NoWrongRow
  NoRowLost
  LimitServed
  Ordered
  AggregatesExact
  PrunesSoundly
  OptimizerKeeps
