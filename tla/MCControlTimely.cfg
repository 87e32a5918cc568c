\* One core, stalls of at most half the deadline.
CONSTANTS
  Period = 2
  Deadline = 2
  Expiry = 1
  Sequence = {0, 1}
  BadSequence = {1}
  Delays = {}
  SingleCore = TRUE
  MaxStall = 1
  CounterMod = 4
  MaxTime = 8
  MaxStarts = 1
SPECIFICATION Spec
INVARIANTS StatusIsTrue EffortAgeBounded
