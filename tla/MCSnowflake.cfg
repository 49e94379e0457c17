\* Two processes of two goroutines; clocks only move forward.
CONSTANTS
  p1 = p1
  p2 = p2
  p3 = p3
  c1 = c1
  c2 = c2
  Proc = {p1, p2}
  Caller = {c1, c2}
  SequenceMask = 1
  MaxWorkerID = 3
  ManualWorkerIDs <- NoManual
  ClockMayStepBack = FALSE
  MaxClock = 2
  MaxIncr = 1
  MaxIssued = 9
SPECIFICATION Spec
SYMMETRY ProcSymmetry
INVARIANTS TypeOK UniqueIDs IncreasingIDs NeverRefused
