SPECIFICATION Spec
CONSTANTS
  Consumers = {0}
  Keys = {k1, k2}
  MaxPower = 1
  MaxVscId = 3
  DebtFlags = {FALSE, TRUE}
CONSTRAINT SetsOrDebt
SYMMETRY KeySymmetry
INVARIANTS
  ReplicaMatchesLog
  AppliedSetWasPublished
  DiffsHaveTheirBase
  DebtFlagFollows
  IInv
PROPERTIES
  ImplementsReplication
