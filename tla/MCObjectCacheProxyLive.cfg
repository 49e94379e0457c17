\* Stale values go, of two records; publishers and the shutdown end.  The mapping may panic,
\* and Redis fails only when its client is closed.
CONSTANTS
  i1 = i1
  i2 = i2
  p1 = p1
  p2 = p2
  j1 = j1
  j2 = j2
  r1 = r1
  r2 = r2
  s1 = s1
  s2 = s2
  Absent = Absent
  Id = {i1, i2}
  Publisher = {p1, p2}
  Job = {j1}
  Reader = {r1}
  Saver = {s1}
  ChanCap = 1
  BatchSize = 2
  MappingMayPanic = TRUE
  RedisMayFail = FALSE
  MayShutDown = TRUE
  MaxVersion = 2
  KeysExpire = FALSE
SPECIFICATION ObjectFairSpec
CONSTRAINTS FewChanges FewReads
PROPERTIES StaleGoes PipelineReturns
