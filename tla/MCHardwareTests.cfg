\* One unit is about 5 s.  Lag < Hold < LossHold < PhaseTimeout, Completion <
\* MatchTimeout < PeerTimeout and Recovery < Scheduled as in the source; --cycles is 2.
\* WaitTimeout, --timeout of graph-inbound, only has to exceed the start of a
\* worker and the sight of the board.  In graph-outbound a unit is 2.7 s, so that
\* TransitionHold is 8 s; InitialHold (15 s) and PeerTimeout (90 s) are rounded
\* down, which leaves the peer less time.  Word lets the product wrap at six samples.
SPECIFICATION FairSpec
CONSTANTS
  Lag = 1
  Hold = 2
  LossHold = 3
  PhaseTimeout = 6
  WaitTimeout = 2
  Cycles = 2
  BootTime = 2
  InitialHold = 4
  TransitionHold = 3
  PeerTimeout = 7
  Case <- MCCase
  Scheduled = 3
  Recovery = 2
  HistoryLast = 3
  MatchTimeout = 6
  Completion = 3
  Prior = {0, 1, 2}
  Sequence = 2
  ControlTimeout = 2
  MaxResets = 1
  Interval <- MCInterval
  MinimumMatches = 3
  MinimumSamples = 2
  PerRecord = 2
  Word = 640
  MaximumDelta = 1
  Full = 2
  Kept = 2
  Reconnect = TRUE
  MaxBoots = 2
  MaxReports = 3
  MaxNoise = 1
INVARIANTS TypeOK PassIsReal TimelyPasses NoOrphans CaptureIsExact
PROPERTIES BothEnd
