--------------------------- MODULE HardwareTests ---------------------------
(***************************************************************************)
(* The tests of a board with a desktop program at the other end.  One of   *)
(* them is run: a part of the Wi-Fi acceptance test, chosen in main of     *)
(* samples/wifi/peer.py and of samples/wifi/src/main.c (the exchange of    *)
(* samples or one direction of the graph), the check of the static_control *)
(* topics, or the capture of its reports.                                  *)
(***************************************************************************)
EXTENDS Integers, Sequences

CONSTANTS Lag, Hold, LossHold, PhaseTimeout, WaitTimeout,
          Cycles, BootTime, InitialHold, TransitionHold, PeerTimeout,
          Case, Scheduled, Recovery, HistoryLast, MatchTimeout, Completion,
          Prior, Sequence, ControlTimeout, MaxResets,
          Interval, MinimumMatches, MinimumSamples, PerRecord, Word,
          MaximumDelta, Full, Kept, Reconnect, MaxBoots, MaxReports, MaxNoise

ASSUME HardwareAssumption ==
  /\ \A n \in {Lag, Hold, LossHold, PhaseTimeout, WaitTimeout, Cycles,
               BootTime, InitialHold, TransitionHold, PeerTimeout, Scheduled,
               Recovery, HistoryLast, MatchTimeout, Completion, Sequence,
               ControlTimeout, MinimumMatches, MinimumSamples, PerRecord,
               Word, Full, Kept, MaxBoots} :
       n \in Nat \ {0}
  /\ {MaxResets, MaximumDelta, MaxReports, MaxNoise} \subseteq Nat
  /\ Kept <= Full /\ Prior \subseteq Nat /\ Reconnect \in BOOLEAN
  /\ \A c \in Case : c.depth \in Nat \ {0}
  /\ \E c \in Case : TRUE

VARIABLES
  role,
  device, view, peer, proc, graph, told, patience, pipe, order, age, shown,
  board, shows, cache, watcher, delay,
  case, pc, left, sent, recovery, sees, since, next, queue, got, reported,
    lost,
  run, status, effort, prior, command, shown_sequence, current, published,
    commanded, known, states, tester, stage,
  boot, counters, printed, wire, port, reset_pending, recent, matches, result,
    log,
  fault

inbound == <<device, view, peer, proc, graph, told, patience, pipe, order,
             age, shown>>

outbound == <<board, shows, cache, watcher, delay>>

exchange == <<case, pc, left, sent, recovery, sees, since, next, queue, got,
              reported, lost>>

control == <<run, status, effort, prior, command, shown_sequence, current,
             published, commanded, known, states, tester, stage>>

capture == <<boot, counters, printed, wire, port, reset_pending, recent,
             matches, result, log>>

vars == <<role, inbound, outbound, exchange, control, capture, fault>>

Role == {"graph-inbound", "graph-outbound", "exchange", "control", "capture"}

In == INSTANCE GraphInbound

Out == INSTANCE GraphOutbound WITH peer <- watcher, age <- delay

X == INSTANCE WifiExchange WITH age <- since

P == INSTANCE ControlPeer WITH PeerTimeout <- ControlTimeout,
       reported <- shown_sequence, told <- published, sent <- commanded,
       peer <- tester

E == INSTANCE SerialEvidence

TypeOK ==
  /\ role \in Role
  /\ role = "graph-inbound" => In!TypeOK
  /\ role = "graph-outbound" => Out!TypeOK
  /\ role = "exchange" => X!TypeOK
  /\ role = "control" => P!TypeOK
  /\ role = "capture" => E!TypeOK

-----------------------------------------------------------------------------
\* Only the chosen part runs.
IsInbound ==
  /\ role = "graph-inbound"
  /\ UNCHANGED <<role, outbound, exchange, control, capture>>

IsOutbound ==
  /\ role = "graph-outbound"
  /\ UNCHANGED <<role, inbound, exchange, control, capture>>

IsExchange ==
  /\ role = "exchange"
  /\ UNCHANGED <<role, inbound, outbound, control, capture>>

IsControl ==
  /\ role = "control"
  /\ UNCHANGED <<role, inbound, outbound, exchange, capture>>

IsCapture ==
  /\ role = "capture"
  /\ UNCHANGED <<role, inbound, outbound, exchange, control, fault>>

Next ==
  \/ IsInbound /\ In!Next
  \/ IsOutbound /\ Out!Next
  \/ IsExchange /\ X!Next
  \/ IsControl /\ P!Next
  \/ IsCapture /\ E!Next

Init ==
  /\ role \in Role
  /\ In!Init /\ Out!Init /\ X!Init /\ P!Init /\ E!Init
  /\ role # "exchange" => case = CHOOSE c \in Case : TRUE
  /\ role # "control" => prior = CHOOSE n \in Prior : TRUE
  /\ role # "capture" => ~reset_pending

Spec == Init /\ [][Next]_vars

Tick ==
  \/ IsInbound /\ In!Tick
  \/ IsOutbound /\ Out!Tick
  \/ IsExchange /\ X!Tick
  \/ IsControl /\ P!Tick

\* The programs of the desktop and of the board; of an exchange, the writer
\* and the reader, whichever is which.
Desktop ==
  \/ IsInbound /\ In!Peer
  \/ IsOutbound /\ (Out!PeerPolls \/ Out!ScriptStops)
  \/ IsExchange /\ X!Writer
  \/ IsControl /\ P!Peer
  \/ IsCapture /\ E!TimesOut

Firmware ==
  \/ IsInbound /\ In!DevicePoll
  \/ IsOutbound /\ (Out!BoardGoesOn \/ Out!Restart)
  \/ IsExchange /\ X!Reader

\* What DDS owes them, and the peer's workers.
Workers ==
  \/ IsInbound /\ In!WorkerStep
  \/ IsExchange /\ X!Deliver

Discovery ==
  \/ IsInbound /\ \E w \in In!Worker : In!Discover(w)
  \/ IsOutbound /\ Out!Discover
  \/ IsExchange /\ \E s \in {"w", "r"} : X!Discover(s)

\* Time passes, however often the sides poll; what was started runs.
FairSpec ==
  /\ Spec
  /\ SF_vars(Tick) /\ WF_vars(Desktop) /\ WF_vars(Firmware)
  /\ WF_vars(Workers) /\ WF_vars(Discovery)

-----------------------------------------------------------------------------
\* What a test reports did happen.  The board reports its last inbound phase
\* only if the workers' graph went through all of them; the peer an outbound
\* phase only when the board has come to it in the boot of that cycle, however
\* announcements and the boot before mix in its cache; the peer's publisher
\* success only if the board's reader is complete, unless a call failed or
\* something was late; the control peer only if one run of the board accepted
\* its command, reported it ACTIVE and then STALE.  A log that the metrics
\* check accepts comes from boots that kept "at most 32 new middleware
\* allocation attempts between adjacent one-second samples" and no ROS
\* attempt, and the timing check notices a reset.
PassIsReal ==
  /\ role = "graph-inbound" => In!PassIsReal
  /\ role = "graph-outbound" => Out!PassIsReal
  /\ role = "exchange" => X!PeerPassIsComplete
  /\ role = "control" => P!PassIsReal
  /\ role = "capture" => E!MetricsPassIsReal /\ E!TimingIsOneBoot

\* What went well is accepted.  If no call failed and nothing was late, both
\* sides of the inbound test pass, and both sides of an exchange that counts
\* matches (no --skip-match), whichever was started first: with the board as a
\* best-effort reader if no more samples were lost than the peer makes up for
\* (MAX_RECOVERY_SAMPLES), otherwise if none was.  The peer sees every outbound
\* phase before the board leaves it; and the control peer's one command is
\* enough on a board that was just started.  A timing run of one boot at its
\* full rate is accepted by final_record if a release took a microsecond and
\* the product in timing_percentile fits 32 bits.
TimelyPasses ==
  /\ role = "graph-inbound" => In!TimelyPasses
  /\ role = "graph-outbound" => Out!TimelyPasses
  /\ role = "exchange" => X!TimelyPasses
  /\ role = "control" => P!TimelyPasses
  /\ role = "capture" => E!TimingAcceptsRun

\* Whichever way the process of run_graph_inbound ends by itself, no worker
\* process outlives it.
NoOrphans == role = "graph-inbound" => In!NoOrphans

\* capture_esp32.py counts exactly the reports, however the line was cut into
\* chunks, or put together from two after a disconnect: what it has counted
\* the metrics check will find, and while it reads, trimming the buffer never
\* drops a report that is still coming.
CaptureIsExact ==
  role = "capture" => E!MatchesAreRecords /\ E!NoMarkerMissed

\* Both sides come to an end, also if the other one is never started, dies or
\* fails: every wait of both programs is limited.  So do the inbound workers,
\* even those of a peer that was terminated, or that cannot leave because its
\* second start failed: the script ends it and the closed pipe ends them.
BothEnd ==
  []<>(/\ role = "graph-inbound" => In!Settled
       /\ role = "graph-outbound" => Out!Settled
       /\ role = "exchange" => X!Settled
       /\ role = "control" => P!Settled
       /\ role = "capture" => result # "reading")

=============================================================================
