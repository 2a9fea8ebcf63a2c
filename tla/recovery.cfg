SPECIFICATION Spec
CONSTANTS
  c1 = c1  c2 = c2  a1 = a1  s1 = s1  t1 = t1  r1 = r1  p1 = p1  k1 = k1
  Absent = Absent
  MaxEntities = 3
  MaxCrashes = 2
  Ids <- SmallIds
INVARIANTS NeverCorrupt NothingOpen
PROPERTIES OutcomeUnknown EndedStays
CHECK_DEADLOCK FALSE
