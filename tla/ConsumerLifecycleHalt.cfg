CONSTANTS
  NoForkUntil = 0
  Consumers = {1}
  ChainIds = {"a", "b", "p"}
  ProviderChainId = "p"
  NoChain = "none"
  Revision <- TwoRevisions
  Unbonding = 2
  Grace = 1
  MaxPause = 2
  Trusting = 1
  MaxClockDrift = 0
  Forkable = {}
  Limit = 1
  MaxStep = 2
  Horizon = 4
  EndOfTime = 6
SPECIFICATION Spec
INVARIANT FailedLaunchIsReset
CHECK_DEADLOCK FALSE
