SPECIFICATION DTSpec
CONSTANTS
  Consumers = {1}
  v1 = v1
  v2 = v2
  a1 = a1
  a2 = a2
  a3 = a3
  KeyChangesEnd = 0
  EvidenceEnd = 2
  Validators = {v1}
  Addrs = {a1, a2, a3}
  NoAddr = NoAddr
  NoVal = NoVal
  InitialAddr <- OneValidator
  Unbonding = 9
  EndOfTime = 5
  Rotators = {v1}
  Assigners = {v1}
  Leavers = {}
  MaxSeen = 0
  ParamChoices <- OnlyLate
  InitialParams <- LateParams
  Trusting = 7
  GraceEnd = 1
  MinHeight = 1
  BlocksPerEpoch = 2
  Windows <- TwoWindows
  AnchorLag = 0
  Amounts = {1}
PROPERTIES
  NoWindowAcceptedTwice
