\* One or two envelopes, two results, a chain of three blocks that may lose one.
SPECIFICATION FairSpec
CONSTANTS
  Ids = {1, 2, 3}
  Rows = 2
  MaxTip = 3
  MaxPays = 2
  MaxRollback = 1
  ReorgMargin = 0
  MaxLag = 1
  Generations = 2
  NoBirthday = NoBirthday
INVARIANTS TypeOK OneDriver NeverSkips FinalLinkCovers LinksOpenTheirRows
PROPERTIES LooksAreWanted ImplementsCalls ImplementsWatch EveryoneIsAnswered PaymentIsSeen
CHECK_DEADLOCK FALSE
