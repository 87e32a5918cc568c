\* Any interleaving of the threads, stalls of a period, overruns by
\* the test delay, stale commands, a wrapping counter, a restart.  After its
\* last stop the application may rest.
CONSTANTS
  Period = 1
  Deadline = 1
  Expiry = 1
  Sequence = {0}
  BadSequence = {}
  Delays = {2}
  SingleCore = FALSE
  MaxStall = 1
  CounterMod = 2
  MaxTime = 2
  MaxStarts = 2
SPECIFICATION FairSpec
INVARIANTS TypeOK ReleaseAccounting MissIsFault JoinedBeforeReuse EffortHasFreshCommand
PROPERTIES ImplementsContract StopReturns
CHECK_DEADLOCK FALSE
