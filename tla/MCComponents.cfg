\* Three goroutines, every kind of resource in one of the programs.
CONSTANTS
  t1 = t1
  t2 = t2
  t3 = t3
  Thread = {t1, t2, t3}
  Programs <- MCPrograms
SPECIFICATION Spec
INVARIANTS TypeOK ReverseOrder RequestsFindResourcesOpen ClosedUnlessLost
PROPERTY CloseReturns
