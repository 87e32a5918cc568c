\* One core, stalls longer than the deadline.
CONSTANTS
  Period = 2
  Deadline = 2
  Expiry = 2
  Sequence = {0}
  BadSequence = {}
  Delays = {}
  SingleCore = TRUE
  MaxStall = 3
  CounterMod = 8
  MaxTime = 8
  MaxStarts = 1
SPECIFICATION Spec
INVARIANT OutputMissIsFault
