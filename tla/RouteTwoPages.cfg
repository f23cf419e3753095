\* Two pages of one link, two wallets, a USDC gift, one fault, one closed page.
SPECIFICATION FairSpec
CONSTANTS
  a = a
  b = b
  w1 = w1
  w2 = w2
  NoOne = NoOne
  Tabs = {a, b}
  First = a
  Wallets = {w1, w2}
  Told = w1
  Gift = "usdc"
  Steps = 2
  MaxAttempts = 2
  MaxSweeps = 2
  MaxLooks = 1
  MaxCloses = 1
  MaxFaults = 1
  TakesGas = FALSE
  MayExpire = TRUE
INVARIANTS TypeOK OneRecipient HandedOverAtTheEnd ScreenNotAhead SaidIsSo
PROPERTIES EndStaysOnScreen GiftArrives
CHECK_DEADLOCK FALSE
