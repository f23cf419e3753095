\* Two notes, six heights, chunks of two blocks, every chain and every link; the sweep
\* walks at most two blocks past the newest note and meets at most two faults.
SPECIFICATION MCSpec
CONSTANTS
  n1 = n1
  n2 = n2
  Notes = {n1, n2}
  MaxHeight = 5
  ChunkBlocks = 2
  Lookback = 3
  NoBirthday = NoBirthday
  WalkCap = 2
  MaxSlips = 2
  SweptLinks = {0}
  SweptTips = {5}
INVARIANTS TypeOK WalkInv AnswerExact EarlyHonest WitnessExact RefusedForACause
PROPERTY ImplementsPromise
CHECK_DEADLOCK FALSE
