SPECIFICATION FairSpec
CONSTANTS
  ServiceFee = 30000
  InEnvelope = 100000
  Spends = 3
  ExtraZat = 20000
  Assets = {"usdc", "sol"}
  MaxLies = 1
  MaxRequests = 2
  MaxTurns = 2
  MaxAsks = 2
INVARIANTS TypeOK SweptAsShown DepositsAnswerThePlan QuotedIsPaid PageAndCoreAgree
  AskedAsVouched GatesPassed
PROPERTIES BusyEnds TrackerTells
CHECK_DEADLOCK FALSE
