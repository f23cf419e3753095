SPECIFICATION Spec
CONSTANTS
  ServiceFee = 30000
  InEnvelope = 100000
  Spends = 3
  ExtraZat = 20000
  Assets = {"usdc"}
  MaxLies = 0
  MaxRequests = 2
  MaxTurns = 2
  MaxAsks = 1
INVARIANTS GatesStopDeposit
CHECK_DEADLOCK FALSE
