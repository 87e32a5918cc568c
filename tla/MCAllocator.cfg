CONSTANTS
  t1 = t1
  t2 = t2
  b1 = b1
  b2 = b2
  b3 = b3
  Thread = {t1, t2}
  Block = {b1, b2, b3}
  Domain = {"ros", "middleware"}
  Size = {1, 2, 8}
  Count = {5}
  HeaderSize = 2
  Threshold <- MCThreshold
  Spiram = TRUE
  SizeMax = 8
  FailAt = 2
  MaxCalls = 5
SPECIFICATION Spec
SYMMETRY Symmetry
INVARIANTS TypeOK LiveBytesExact HeapIsOwned HeaderIsTrue InjectedOnce
CHECK_DEADLOCK FALSE
