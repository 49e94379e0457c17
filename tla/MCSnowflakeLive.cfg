\* One process, Redis or manual worker ids, a clock that is set back, fairness.
CONSTANTS
  p1 = p1
  p2 = p2
  p3 = p3
  c1 = c1
  c2 = c2
  Proc = {p1}
  Caller = {c1, c2}
  SequenceMask = 1
  MaxWorkerID = 3
  ManualWorkerIDs <- TwoManual
  ClockMayStepBack = TRUE
  MaxClock = 2
  MaxIncr = 1
  MaxIssued = 3
SPECIFICATION FairSpec
INVARIANTS TimestampsNeverDecrease
PROPERTIES CallsReturn
