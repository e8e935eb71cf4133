SPECIFICATION FPSpec
CONSTANTS
  v1 = v1
  v2 = v2
  LedgerFee = 2
  LedgerTime = 3
  LedgerFunds = 3
  LargeDeposit = 4
  EscrowTime = 4
  Depositors = {d1}
  Community = community
  Validators = {v1, v2}
  FeeChoices = {2, 4}
  Overrides = {3}
  BlocksPerEpoch = 1
  InfractionChoices <- TwoInfractionParams
  MinDepositBlocks = 0
  InitialFunds = 8
  Amounts = {1, 2, 4}
  Gifts = {2}
  MaxShares = 10
  MaxTime = 6
CONSTRAINT AllParts
SYMMETRY ValidatorSymmetry
INVARIANTS
  FPInv
  TokensAreConserved
  EscrowIsFunded
  EvidenceIsPricedByItsEpoch
PROPERTIES
  OthersAreNotDiluted
  NobodyIsPaidShort
