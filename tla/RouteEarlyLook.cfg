\* One page, closed and opened again between the two deposits of a USDC gift.
SPECIFICATION Spec
CONSTANTS
  a = a
  b = b
  w1 = w1
  w2 = w2
  NoOne = NoOne
  Tabs = {a}
  First = a
  Wallets = {w1, w2}
  Told = w1
  Gift = "usdc"
  Steps = 2
  MaxAttempts = 2
  MaxSweeps = 2
  MaxLooks = 1
  MaxCloses = 1
  MaxFaults = 0
  TakesGas = TRUE
  MayExpire = FALSE
INVARIANT SaidIsSo
CHECK_DEADLOCK FALSE
