\* One page, closed while the route is signed, opened after the quote ran out.
SPECIFICATION FairSpec
CONSTANTS
  a = a
  b = b
  w1 = w1
  w2 = w2
  NoOne = NoOne
  Tabs = {a}
  First = a
  Wallets = {w1, w2}
  Told = w1
  Gift = "usdc"
  Steps = 2
  MaxAttempts = 2
  MaxSweeps = 2
  MaxLooks = 1
  MaxCloses = 1
  MaxFaults = 0
  TakesGas = FALSE
  MayExpire = TRUE
PROPERTY StoppedIsPickedUp
CHECK_DEADLOCK FALSE
