SPECIFICATION DTSpec
CONSTANTS
  Consumers = {1}
  v1 = v1
  v2 = v2
  a1 = a1
  a2 = a2
  a3 = a3
  KeyChangesEnd = 5
  EvidenceEnd = 2
  Validators = {v1, v2}
  Addrs = {a1, a2, a3}
  NoAddr = NoAddr
  NoVal = NoVal
  InitialAddr <- TwoValidators
  Unbonding = 11
  EndOfTime = 14
  Rotators = {v2}
  Assigners = {v1, v2}
  Leavers = {v1}
  MaxSeen = 0
  ParamChoices <- GovernedParams
  InitialParams <- LateParams
  Trusting = 6
  GraceEnd = 1
  MinHeight = 1
  BlocksPerEpoch = 2
  Windows <- ManyWindows
  AnchorLag = 1
  Amounts = {0, 1}
CONSTRAINT WindowsOrKeys
ACTION_CONSTRAINT OneMessageEach
INVARIANTS
  DTInv
  FloorHidesNothingFresh
  EscrowBacksAccusation
  ChallengeReachesSlash
  EntriesAreLive
PROPERTIES
  WindowAcceptedOnce
