SPECIFICATION Spec
CONSTANTS
  NoForkUntil = 5
  Consumers = {1, 2}
  ChainIds = {"a", "b", "p"}
  ProviderChainId = "p"
  NoChain = "none"
  Revision <- TwoRevisions
  Unbonding = 3
  Grace = 1
  MaxPause = 4
  Trusting = 2
  MaxClockDrift = 1
  Forkable = {"a"}
  Limit = 1
  MaxStep = 2
  Horizon = 5
  EndOfTime = 8
CONSTRAINT TwoConsumersOrForks
INVARIANTS
  SchedulesMatchPhases
  ChainIdsAreExclusive
  LaunchedAreResponsive
PROPERTIES
  ForkIsNotMistakenForDeath
  SameForkPausesOnce
CHECK_DEADLOCK FALSE
