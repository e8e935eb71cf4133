SPECIFICATION SMFairSpec
CONSTANTS
  Threshold = 2
  Graces = {2, 5}
  MaxGrace = 5
  PacketTimeout = 2
  NoClock = NoClock
  DebtFlags = {TRUE, FALSE}
  QueueAge = 1
  MaxAcks = 1
  StartDelay = 1
INVARIANTS
  SMInv
PROPERTIES
  SafeModeBeforeRemoval
  Recovers
