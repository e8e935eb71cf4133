SPECIFICATION LiveSpec
CONSTANTS
  Consumers = {0}
  Keys = {k1, k2}
  MaxPower = 1
  MaxVscId = 3
  DebtFlags = {FALSE}
PROPERTIES
  Converges
