SPECIFICATION Spec
CONSTANTS
  p1 = p1
  t1 = t1
  p2 = p2
  t2 = t2
  p3 = p3
  t3 = t3
  p4 = p4
  t4 = t4
  Ptr = {p1, p2, p3, p4}
  Text = {t1, t2, t3, t4}
  TextOf <- OneEach
  Value = {v1}
  Null = Null
  Missing = Missing
  MaxHash = 3
  InitialSize = 3
  Growth = 2
  OwnsKeys = TRUE
  MemoryMayFail = FALSE
INVARIANTS
  LookupsEnd
