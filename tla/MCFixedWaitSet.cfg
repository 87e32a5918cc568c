CONSTANTS
  s1 = s1
  s2 = s2
  g1 = g1
  null = null
  Entity = {s1, s2, g1}
  Null = null
  Capacity = 2
  MaxRequest = 3
  DetachMayFail = FALSE
SPECIFICATION Spec
INVARIANTS TypeOK WaitCoversRequest FixedSetNoChurn
