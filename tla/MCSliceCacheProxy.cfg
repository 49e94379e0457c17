\* One list in two versions, chosen freely, and two concurrent reloads.
CONSTANTS
  i1 = i1
  p1 = p1
  j1 = j1
  k1 = k1
  k2 = k2
  Absent = Absent
  Id = {i1}
  Publisher = {p1}
  Job = {j1}
  ChanCap = 1
  BatchSize = 1
  MappingMayPanic = TRUE
  RedisMayFail = TRUE
  MayShutDown = FALSE
  MaxVersion = 1
  Member = {1, 2, 3}
  Marker = 4
  CacheCapacity = 2
  MaxOffset = 1
  MaxLimit = 2
  Reloader = {k1, k2}
  ExpireTime = 1
SPECIFICATION SliceSpec
SYMMETRY Symmetry
INVARIANTS SliceTypeOK HitsAreExact ExpirationUnderWay
PROPERTIES ListsSpec
