\* One device, one note, one unanswered call: a retry that loses to itself.
SPECIFICATION Spec
CONSTANTS
  n1 = n1
  n2 = n2
  g1 = g1
  g2 = g2
  a = a
  b = b
  Notes = {n1}
  Tabs = {a}
  Gateways = {g1, g2}
  Preferred = g1
  PaidAt <- OnePaid
  Birthday = 1
  FirstHeight = 1
  MaxHeight = 3
  ExpiryDelta = 1
  MaxTries = 2
  MaxFaults = 1
INVARIANT NothingSentFromHere
CHECK_DEADLOCK FALSE
