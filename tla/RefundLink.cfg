\* The same walk, asked whether a refund is found by the link that was swept.
SPECIFICATION Spec
CONSTANTS
  n1 = n1
  n2 = n2
  Notes = {n1, n2}
  MaxHeight = 3
  ChunkBlocks = 2
  Lookback = 3
  NoBirthday = NoBirthday
INVARIANT RefundOpens
CHECK_DEADLOCK FALSE
