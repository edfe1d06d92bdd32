SPECIFICATION Spec
CONSTANTS
  p1 = p1
  t1 = t1
  p2 = p2
  t2 = t2
  p3 = p3
  t3 = t3
  p4 = p4
  t4 = t4
  Ptr = {p1, p2, p3, p4}
  Text = {t1, t2, t3}
  TextOf <- TwoOfFourAlike
  Value = {v1}
  Null = Null
  Missing = Missing
  MaxHash = 3
  InitialSize = 2
  Growth = 2
  OwnsKeys = FALSE
  MemoryMayFail = TRUE
INVARIANTS
  TypeOK
  SizeCounts
  Reachable
  IteratesAll
  PlainCallsReturn

  
CHECK_DEADLOCK FALSE
