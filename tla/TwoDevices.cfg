\* Two devices race for two payments over two gateways that may lag; one fault.
SPECIFICATION Spec
CONSTANTS
  n1 = n1
  n2 = n2
  g1 = g1
  g2 = g2
  a = a
  b = b
  Notes = {n1, n2}
  Tabs = {a, b}
  Gateways = {g1, g2}
  Preferred = g1
  PaidAt <- TwoPaid
  Birthday = 0
  FirstHeight = 2
  MaxHeight = 4
  ExpiryDelta = 2
  MaxTries = 2
  MaxFaults = 1
SYMMETRY TabSymmetry
INVARIANTS ScreenMatchesChain SentStands FailedIsHonest CallInv
CHECK_DEADLOCK FALSE
