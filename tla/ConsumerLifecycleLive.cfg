CONSTANTS
  NoForkUntil = 0
  Consumers = {1, 2}
  ChainIds = {"a", "b"}
  ProviderChainId = "p"
  NoChain = "none"
  Revision <- SameRevision
  Unbonding = 1
  Grace = 1
  MaxPause = 2
  Trusting = 1
  MaxClockDrift = 0
  Forkable = {}
  Limit = 1
  MaxStep = 1
  Horizon = 3
  EndOfTime = 11
SPECIFICATION FairSpec
PROPERTY PausesAndStopsEnd
