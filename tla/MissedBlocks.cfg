SPECIFICATION Spec
CONSTANTS
  FirstVal = 1
  TwoValsUntil = 6
  ChangesUntil = 5
  Pairs <- TwoPairs
  InitialPair <- Three
  Vals = {1, 2}
  NoPair = NoPair
  MaxPending = 1
  MaxSends = 1
  Timeout = 2
  MaxAge = 2
  Challenge = 2
  MaxHeight = 7
  MaxVscs = 2
  MaxChanges = 2
  MaxPauses = 1
  MaxRestarts = 1
CONSTRAINT ChangesOrTwoVals
INVARIANTS
  MBInv
  EvidenceMatchesVotes
  OffendersAreReported
  NextWindowFollowsProvider
  InFlightSurvivesAChange
