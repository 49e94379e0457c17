\* A clock that is set back and returns: an id is returned twice.
CONSTANTS
  p1 = p1
  p2 = p2
  p3 = p3
  c1 = c1
  c2 = c2
  Proc = {p1}
  Caller = {c1}
  SequenceMask = 1
  MaxWorkerID = 3
  ManualWorkerIDs <- NoManual
  ClockMayStepBack = TRUE
  MaxClock = 2
  MaxIncr = 0
  MaxIssued = 9
SPECIFICATION Spec
INVARIANTS UniqueInDistributeSystem
