SPECIFICATION Spec
CONSTANTS
  Consumers = {1}
  v1 = v1
  v2 = v2
  a1 = a1
  a2 = a2
  a3 = a3
  a4 = a4
  Validators = {v1, v2}
  Addrs = {a1, a2, a3, a4}
  NoAddr = NoAddr
  NoVal = NoVal
  InitialAddr <- TwoValidators
  Unbonding = 1
  EndOfTime = 2
  Rotators = {v2}
  Assigners = {v1, v2}
  Leavers = {}
  MaxSeen = 0
SYMMETRY FreshSymmetry
INVARIANTS
  NoSharedConsumerKey
