\* Two processes of a group, one of which is started again, and two messages.
\* Processes end: the model may stop.
CONSTANTS
  p1 = p1
  p2 = p2
  Process = {p1, p2}
  MaxMessages = 2
  MaxFaults = 1
  MaxStarts = 3
CHECK_DEADLOCK FALSE
SPECIFICATION Spec
INVARIANTS TypeOK CommittedIsHandled NeverPanics
PROPERTIES ClosesCleanly Delivered
