\* Two devices that keep going, one fault; sweeps are mined before they expire.
SPECIFICATION FairSpec
CONSTANTS
  n1 = n1
  n2 = n2
  g1 = g1
  g2 = g2
  a = a
  b = b
  Notes = {n1}
  Tabs = {a, b}
  Gateways = {g1, g2}
  Preferred = g1
  PaidAt <- OnePaid
  Birthday = 1
  FirstHeight = 1
  MaxHeight = 2
  ExpiryDelta = 3
  MaxTries = 2
  MaxFaults = 1
INVARIANT TypeOK
PROPERTIES EveryTabSettles EnvelopeEmptied
CHECK_DEADLOCK FALSE
