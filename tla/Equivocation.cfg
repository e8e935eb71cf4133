SPECIFICATION EQSpec
CONSTANTS
  Consumers = {1, 2}
  v1 = v1
  v2 = v2
  a1 = a1
  a2 = a2
  a3 = a3
  a4 = a4
  x = x
  FirstTime = 1
  SecondTime = 2
  Validators = {v1, v2}
  Addrs = {a1, a2, a3, a4}
  NoAddr = NoAddr
  NoVal = NoVal
  InitialAddr <- TwoValidators
  Unbonding = 2
  EndOfTime = 4
  Rotators = {v1}
  Assigners = {v1, v2}
  Leavers = {v1}
  MaxSeen = 1
  ChainIds = {x, y}
  NoChain = NoChain
  MinHeight <- FirstHeight
  Heights = {1, 2}
  JailDuration = 1
  MaxVotes = 2
  Policies = {TRUE, FALSE}
SYMMETRY FreshSymmetry
CONSTRAINT AllParts
INVARIANTS
  ConsumerKeysAreDistinct
  IndexesAgree
  EvidenceFindsItsValidator
  EQInv
  ProvenIsPunishable
  EvidencePunishesSigner
