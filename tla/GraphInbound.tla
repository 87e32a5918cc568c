---------------------------- MODULE GraphInbound ----------------------------
(***************************************************************************)
(* The inbound half of the ROS graph acceptance test.  The board           *)
(* (run_graph_node, samples/wifi/src/main.c) polls its graph cache for     *)
(* five phases.  The desktop (run_graph_inbound, samples/wifi/peer.py)     *)
(* goes through them with worker processes, each a DDS participant of its  *)
(* own, which it commands over pipes, kills and restarts.  The two sides   *)
(* share nothing but discovery and time: the peer holds each phase for a   *)
(* fixed time and never learns what the board saw.                         *)
(*                                                                         *)
(* Discovery is external: an announcement arrives within Lag, and so does  *)
(* the loss of a killed participant.  A fault is a worker that dies or     *)
(* cannot be started, a graph query that fails, discovery that takes       *)
(* longer, or run_hardware_case.sh stopping the peer.                      *)
(***************************************************************************)
EXTENDS Integers, Sequences

CONSTANTS
  Lag,           \* longest regular delay of discovery, start-up and lease
  Hold,          \* GRAPH_HOLD_SECONDS
  LossHold,      \* GRAPH_LOSS_HOLD_SECONDS
  PhaseTimeout,  \* GRAPH_PHASE_TIMEOUT_MS
  WaitTimeout    \* --timeout of the peer

VARIABLES
  device,   \* the board: its phase, the query it is at and the time left
            \*   for the phase
  view,     \* its graph cache: what it knows of each worker
  peer,     \* where run_graph_inbound is, and the time left there
  proc,     \* the worker processes
  graph,    \* what each worker offers
  told,     \* whether it reported the board's visibility (visibility_reported)
  patience, \* time to its visibility_deadline
  pipe,     \* its messages to the peer
  order,    \* "reduce" is under way to the first worker
  age,      \* how long something of the worker's has been due
  fault,    \* the one thing that went wrong
  shown     \* history: how many phases the workers' graph has gone through

vars == <<device, view, peer, proc, graph, told, patience, pipe, order, age,
          fault, shown>>

workers == <<proc, graph, told, patience, pipe, order>>

\* Named for their profiles; "initial" and "restart" are the node alpha.
Worker == {"initial", "beta", "restart"}

\* The peer reads nothing of beta but its "ready": what beta reports later is
\* left out.
Reporter == Worker \ {"beta"}

Graph == [node : BOOLEAN, pubs : 0..2, subs : 0..2]

Nothing == [node |-> FALSE, pubs |-> 0, subs |-> 0]

\* What a worker creates: graph_inbound_worker.
Offer(w) ==
  CASE w = "initial" -> [node |-> TRUE, pubs |-> 2, subs |-> 2]
    [] w = "beta"    -> [node |-> TRUE, pubs |-> 1, subs |-> 0]
    [] w = "restart" -> [node |-> TRUE, pubs |-> 0, subs |-> 1]

Waiting == {"alpha_ready", "beta_ready", "alpha_visible", "reducing",
            "restart_ready", "restart_visible"}

Sleeping == {"initial", "reduced", "participant_lost", "restart",
             "restart_lost"}

Ended == {"passed", "failed"}

\* The peer's process is gone: it has ended or was terminated.
Gone == Ended \cup {"terminated"}

TypeOK ==
  /\ device \in [at : {"off", "poll", "done", "error"}, phase : 1..5,
                 query : 1..4, left : 0..PhaseTimeout]
  /\ view \in [Worker -> Graph] /\ graph \in [Worker -> Graph]
  /\ peer.at \in {"start", "start_beta", "stuck"} \cup Waiting \cup Sleeping
                   \cup Gone
  /\ peer.left \in Nat
  /\ proc \in [Worker -> {"none", "starting", "up", "dead"}]
  /\ told \in [Reporter -> BOOLEAN]
  /\ patience \in [Reporter -> 0..WaitTimeout]
  /\ \A w \in Worker : Len(pipe[w]) <= 3
  /\ order \in BOOLEAN
  /\ age \in [Worker -> 0..Lag]
  /\ fault \in {"none", "crash", "delay", "start", "stop"}
  /\ shown \in 0..5

-----------------------------------------------------------------------------
(***************************************************************************)
(* The phases.                                                             *)
(***************************************************************************)

\* phases[] of run_graph_node.
Expected(phase) ==
  CASE phase = 1 -> [alpha |-> TRUE,  beta |-> TRUE,  a |-> TRUE,  b |-> TRUE,
                     pubs |-> 2, subs |-> 2]
    [] phase = 2 -> [alpha |-> TRUE,  beta |-> FALSE, a |-> TRUE,  b |-> FALSE,
                     pubs |-> 1, subs |-> 0]
    [] phase = 4 -> [alpha |-> TRUE,  beta |-> FALSE, a |-> TRUE,  b |-> FALSE,
                     pubs |-> 0, subs |-> 1]
    [] OTHER     -> [alpha |-> FALSE, beta |-> FALSE, a |-> FALSE, b |-> FALSE,
                     pubs |-> 0, subs |-> 0]

\* rcl_count_publishers and rcl_count_subscribers on graph_remote_a.
Pubs(g) == g["initial"].pubs + g["restart"].pubs
Subs(g) == g["initial"].subs + g["restart"].subs

\* graph_matches: what each of its four queries has to find.
QueryMatches(query, g, expected) ==
  CASE query = 1 -> /\ (g["initial"].node \/ g["restart"].node) = expected.alpha
                    /\ g["beta"].node = expected.beta
    [] query = 2 -> /\ (Pubs(g) + Subs(g) > 0) = expected.a
                    /\ (g["beta"].pubs > 0) = expected.b
    [] query = 3 -> Pubs(g) = expected.pubs
    [] query = 4 -> Subs(g) = expected.subs

GraphMatches(g, phase) ==
  \A query \in 1..4 : QueryMatches(query, g, Expected(phase))

\* The workers' graph changes to g.
Show(g) ==
  /\ graph' = g
  /\ shown' = IF shown < 5 /\ GraphMatches(g, shown + 1) THEN shown + 1
              ELSE shown

-----------------------------------------------------------------------------
(***************************************************************************)
(* Faults, discovery and time.                                             *)
(***************************************************************************)

Fault(kind) == fault = "none" /\ fault' = kind

Alive(w) == proc[w] \in {"starting", "up"}

\* A worker process dies by itself, and with it its participant.
Crash(w) ==
  /\ Alive(w) /\ Fault("crash")
  /\ proc' = [proc EXCEPT ![w] = "dead"]
  /\ Show([graph EXCEPT ![w] = Nothing])
  /\ age' = [age EXCEPT ![w] = 0]
  /\ UNCHANGED <<device, view, peer, told, patience, pipe, order>>

\* One announcement reaches the cache; a lost participant goes as a whole.
Announced(known, offered) ==
  IF offered = Nothing THEN {Nothing}
  ELSE {g \in {[known EXCEPT !.node = TRUE],
               [known EXCEPT !.pubs = IF @ < offered.pubs THEN @ + 1 ELSE @ - 1],
               [known EXCEPT !.subs = IF @ < offered.subs THEN @ + 1 ELSE @ - 1]} :
          \E field \in {"node", "pubs", "subs"} :
            g[field] # known[field] /\ known[field] # offered[field]}

Discover(w) ==
  /\ device.at = "poll" /\ view[w] # graph[w]
  /\ \E g \in Announced(view[w], graph[w]) : view' = [view EXCEPT ![w] = g]
  /\ UNCHANGED <<device, peer, workers, age, fault, shown>>

\* What is due: a start, an announcement to the board, the board's to the
\* worker.
Due(w) ==
  \/ proc[w] = "starting"
  \/ device.at = "poll" /\ view[w] # graph[w]
  \/ device.at = "poll" /\ proc[w] = "up" /\ w \in Reporter /\ ~told[w]

\* Something is late: it was due for Lag, or the board boots too late for the
\* first worker to see it.
Late ==
  \/ \E w \in Worker : Due(w) /\ age[w] = Lag
  \/ /\ device.at = "off" /\ proc["initial"] = "up"
     /\ patience["initial"] <= Lag + 1

\* Which worker the peer waits for.
Awaited ==
  CASE peer.at \in {"alpha_ready", "alpha_visible", "reducing"} -> "initial"
    [] peer.at = "beta_ready" -> "beta"
    [] OTHER -> "restart"

\* Both sides poll many times in a unit of time.
Busy ==
  \/ peer.at \in {"start", "start_beta"}
  \/ peer.at = "terminated" /\ \E w \in Worker : proc[w] = "up"
  \/ peer.at \in Sleeping \cup Waiting /\ peer.left = 0
  \/ peer.at \in Waiting /\ (pipe[Awaited] # <<>> \/ proc[Awaited] = "dead")
  \/ order /\ proc["initial"] = "up"
  \/ /\ device.at = "poll"
     /\ \/ device.query > 1
        \/ device.left = 0
        \/ GraphMatches(view, device.phase)

Down(n) == IF n > 0 THEN n - 1 ELSE 0

Tick ==
  /\ ~Busy
  /\ peer.at \notin Gone \/ device.at = "poll"
  /\ \/ (~Late \/ fault = "delay") /\ UNCHANGED fault
     \/ Late /\ Fault("delay")
  /\ peer' = [peer EXCEPT !.left = Down(@)]
  /\ device' = IF device.at = "poll" THEN [device EXCEPT !.left = Down(@)]
               ELSE device
  /\ patience' = [w \in Reporter |-> Down(patience[w])]
  /\ age' = [w \in Worker |->
               IF Due(w) /\ age[w] < Lag THEN age[w] + 1
               ELSE IF Due(w) THEN Lag ELSE 0]
  /\ UNCHANGED <<view, proc, graph, told, pipe, order, shown>>

-----------------------------------------------------------------------------
(***************************************************************************)
(* graph_inbound_worker.  The peer never sends its "stop".                 *)
(***************************************************************************)

WorkerReady(w) ==
  /\ proc[w] = "starting"
  /\ proc' = [proc EXCEPT ![w] = "up"]
  /\ Show([graph EXCEPT ![w] = Offer(w)])
  /\ pipe' = [pipe EXCEPT ![w] = Append(@, "ready")]
  /\ patience' = [v \in Reporter |-> IF v = w THEN WaitTimeout ELSE patience[v]]
  /\ age' = [age EXCEPT ![w] = 0]
  /\ UNCHANGED <<device, view, peer, told, order, fault>>

\* The board is visible, or has not been until the deadline.
WorkerReports(w) ==
  /\ proc[w] = "up" /\ ~told[w] /\ peer.at # "terminated"
  /\ \E message \in {"visible", "visibility_timeout"} :
       /\ IF message = "visible" THEN device.at = "poll" ELSE patience[w] = 0
       /\ pipe' = [pipe EXCEPT ![w] = Append(@, message)]
  /\ told' = [told EXCEPT ![w] = TRUE]
  /\ patience' = [patience EXCEPT ![w] = 0]
  /\ UNCHANGED <<device, view, peer, proc, graph, order, age, fault, shown>>

WorkerReduces ==
  /\ proc["initial"] = "up" /\ order
  /\ order' = FALSE
  /\ Show([graph EXCEPT !["initial"] = [node |-> TRUE, pubs |-> 1, subs |-> 0]])
  /\ pipe' = [pipe EXCEPT !["initial"] = Append(@, "reduced")]
  /\ age' = [age EXCEPT !["initial"] = 0]
  /\ UNCHANGED <<device, view, peer, proc, told, patience, fault>>

\* Once the peer is gone its end of the pipe is closed: to send raises
\* BrokenPipeError and to receive EOFError, which ends the worker.
WorkerLeaves(w) ==
  /\ Alive(w) /\ peer.at = "terminated"
  /\ proc' = [proc EXCEPT ![w] = "dead"]
  /\ Show([graph EXCEPT ![w] = Nothing])
  /\ age' = [age EXCEPT ![w] = 0]
  /\ UNCHANGED <<device, view, peer, told, patience, pipe, order, fault>>

-----------------------------------------------------------------------------
(***************************************************************************)
(* run_graph_inbound.                                                      *)
(***************************************************************************)

\* Mutant of Time: the first phase is not held.
TimeNoHold(at) ==
  IF at \in Waiting THEN WaitTimeout
  ELSE IF at = "restart" THEN Hold
  ELSE IF at \in Sleeping \ {"initial"} THEN LossHold ELSE 0

\* How long the peer waits or sleeps at a point.
Time(at) ==
  IF at \in Waiting THEN WaitTimeout
  ELSE IF at \in {"initial", "restart"} THEN Hold
  ELSE IF at \in Sleeping THEN LossHold ELSE 0

Goes(at) == peer' = [at |-> at, left |-> Time(at)]

\* terminate_worker of the workers in W, if they are alive.
Terminate(W) ==
  LET killed == {w \in W : Alive(w)}
  IN  /\ proc' = [w \in Worker |-> IF w \in killed THEN "dead" ELSE proc[w]]
      /\ Show([w \in Worker |-> IF w \in killed THEN Nothing ELSE graph[w]])
      /\ age' = [w \in Worker |-> IF w \in killed THEN 0 ELSE age[w]]

\* Mutant of Ends: the restarted worker is forgotten.
EndsTwo(at) == Goes(at) /\ Terminate({"initial", "beta"})

\* The finally clause.
Ends(at) == Goes(at) /\ Terminate(Worker)

\* start_graph_worker.
Launch(w) ==
  /\ proc' = [proc EXCEPT ![w] = "starting"]
  /\ age' = [age EXCEPT ![w] = 0]
  /\ UNCHANGED <<graph, shown>>

\* The first two workers are started before the try.  If the second start
\* raises, nobody terminates the first worker, and Python does not exit while
\* a process that it started is alive.
PeerStart ==
  /\ \/ /\ peer.at = "start"
        /\ Goes("start_beta") /\ Launch("initial") /\ UNCHANGED fault
     \/ /\ peer.at = "start_beta"
        /\ Goes("alpha_ready") /\ Launch("beta") /\ UNCHANGED fault
     \/ /\ peer.at \in {"start", "start_beta"} /\ Fault("start")
        /\ Goes(IF peer.at = "start" THEN "failed" ELSE "stuck")
        /\ UNCHANGED <<proc, graph, age, shown>>
  /\ UNCHANGED <<device, view, told, patience, pipe, order>>

\* What the peer waits for, and what comes next.
Answer ==
  IF peer.at \in {"alpha_ready", "beta_ready", "restart_ready"} THEN "ready"
  ELSE IF peer.at = "reducing" THEN "reduced" ELSE "visible"

After ==
  CASE peer.at = "alpha_ready"     -> "beta_ready"
    [] peer.at = "beta_ready"      -> "alpha_visible"
    [] peer.at = "alpha_visible"   -> "initial"
    [] peer.at = "reducing"        -> "reduced"
    [] peer.at = "restart_ready"   -> "restart_visible"
    [] peer.at = "restart_visible" -> "restart"

\* wait_for_worker takes the next message.  Another message than the expected
\* one is dropped.  Once the reduction is confirmed the peer kills beta.
PeerReceives ==
  /\ peer.at \in Waiting /\ peer.left > 0 /\ pipe[Awaited] # <<>>
  /\ pipe' = [pipe EXCEPT ![Awaited] = Tail(@)]
  /\ LET message == Head(pipe[Awaited])
     IN  IF message = Answer
         THEN /\ Goes(After)
              /\ Terminate(IF peer.at = "reducing" THEN {"beta"} ELSE {})
         ELSE IF message = "visibility_timeout" \/ proc[Awaited] = "dead"
         THEN Ends("failed")
         ELSE UNCHANGED <<peer, proc, graph, age, shown>>
  /\ UNCHANGED <<device, view, told, patience, order, fault>>

\* Its deadline passes, or the worker is gone: at the end of the pipe recv
\* raises EOFError.
PeerGivesUp ==
  /\ peer.at \in Waiting
  /\ peer.left = 0 \/ (pipe[Awaited] = <<>> /\ proc[Awaited] = "dead")
  /\ Ends("failed")
  /\ UNCHANGED <<device, view, told, patience, pipe, order, fault>>

\* A hold is over.  Sending to a dead worker raises BrokenPipeError, and
\* the start of the third worker may raise too; both are inside the try.
PeerWakes ==
  /\ peer.at \in Sleeping /\ peer.left = 0
  /\ \/ /\ peer.at = "initial" /\ proc["initial"] = "up"
        /\ order' = TRUE /\ Goes("reducing")
        /\ UNCHANGED <<proc, graph, age, shown>>
     \/ /\ peer.at = "initial" /\ proc["initial"] = "dead"
        /\ Ends("failed") /\ UNCHANGED order
     \/ /\ peer.at = "reduced"
        /\ Goes("participant_lost") /\ Terminate({"initial"})
        /\ UNCHANGED order
     \/ /\ peer.at = "participant_lost"
        /\ \/ Goes("restart_ready") /\ Launch("restart") /\ UNCHANGED fault
           \/ Ends("failed") /\ Fault("start")
        /\ UNCHANGED order
     \/ /\ peer.at = "restart"
        /\ Goes("restart_lost") /\ Terminate({"restart"}) /\ UNCHANGED order
     \/ peer.at = "restart_lost" /\ Ends("passed") /\ UNCHANGED order
  /\ peer.at # "participant_lost" => UNCHANGED fault
  /\ UNCHANGED <<device, view, told, patience, pipe>>

\* The signal of run_hardware_case.sh ends Python at once, without the finally
\* clause.
Terminated ==
  /\ peer.at \notin Gone /\ Goes("terminated")
  /\ UNCHANGED <<device, view, workers, age, shown>>

\* The script terminates the peer when the capture ends without the board's
\* last marker: the board has given up, or was never seen in all that time.
ScriptStops ==
  /\ device.at = "error" \/ (device.at = "off" /\ fault # "none")
  /\ Terminated /\ UNCHANGED fault

\* It does so too when it is itself stopped or gives up before that.
ScriptExits == Fault("stop") /\ Terminated

Peer ==
  PeerStart \/ PeerReceives \/ PeerGivesUp \/ PeerWakes \/ ScriptStops

-----------------------------------------------------------------------------
(***************************************************************************)
(* run_graph_node.                                                         *)
(***************************************************************************)

Polling(phase) == [at |-> "poll", phase |-> phase, query |-> 1,
                   left |-> PhaseTimeout]

\* The board has joined the network and starts with the first phase.
Boot ==
  /\ device.at = "off" /\ peer.at # "start"
  /\ device' = Polling(1)
  /\ age' = [w \in Worker |-> IF proc[w] = "starting" THEN age[w] ELSE 0]
  /\ UNCHANGED <<view, peer, workers, fault, shown>>

\* Mutant of PollEnds: the last phase is looked for past the end of the table.
PollEndsLate(matches) ==
  device' = IF ~matches THEN [device EXCEPT !.query = 1]
            ELSE IF device.phase <= 5 THEN Polling(device.phase + 1)
            ELSE [device EXCEPT !.at = "done", !.query = 1]

\* The poll is over: the next phase, or a short sleep.
PollEnds(matches) ==
  device' = IF ~matches THEN [device EXCEPT !.query = 1]
            ELSE IF device.phase < 5 THEN Polling(device.phase + 1)
            ELSE [device EXCEPT !.at = "done", !.query = 1]

\* Mutant of Query: the last query decides.
QueryLast ==
  IF device.query < 4 THEN device' = [device EXCEPT !.query = @ + 1]
  ELSE PollEnds(QueryMatches(4, view, Expected(device.phase)))

\* The next of the four queries of graph_matches; the cache may change
\* between them.  After a mismatch the others make no difference.
Query ==
  LET ok == QueryMatches(device.query, view, Expected(device.phase))
  IN  IF ok /\ device.query < 4 THEN device' = [device EXCEPT !.query = @ + 1]
      ELSE PollEnds(ok)

\* wait_for_graph_phase.  A query that fails ends its poll without a match.
DevicePoll ==
  /\ device.at = "poll"
  /\ \/ device.left > 0 /\ Query /\ UNCHANGED fault
     \/ device.left > 0 /\ PollEnds(FALSE) /\ Fault("delay")
     \/ /\ device.left = 0 /\ device.query = 1
        /\ device' = [device EXCEPT !.at = "error"] /\ UNCHANGED fault
  /\ UNCHANGED <<view, peer, workers, age, shown>>

\* Both sides have come to an end, and so have the workers.
Settled ==
  /\ peer.at \in Gone /\ device.at # "poll"
  /\ \A w \in Worker : ~Alive(w)

Finished == Settled /\ UNCHANGED vars

-----------------------------------------------------------------------------
Init ==
  /\ device = [Polling(1) EXCEPT !.at = "off"]
  /\ view = [w \in Worker |-> Nothing] /\ graph = [w \in Worker |-> Nothing]
  /\ peer = [at |-> "start", left |-> 0]
  /\ proc = [w \in Worker |-> "none"]
  /\ told = [w \in Reporter |-> FALSE]
  /\ patience = [w \in Reporter |-> 0]
  /\ pipe = [w \in Worker |-> <<>>]
  /\ order = FALSE
  /\ age = [w \in Worker |-> 0]
  /\ fault = "none" /\ shown = 0

WorkerStep ==
  \/ \E w \in Worker : WorkerReady(w) \/ WorkerLeaves(w)
  \/ \E w \in Reporter : WorkerReports(w)
  \/ WorkerReduces

Next ==
  \/ Tick \/ Peer \/ ScriptExits \/ WorkerStep \/ Boot \/ DevicePoll \/ Finished
  \/ \E w \in Worker : Crash(w) \/ Discover(w)

Spec == Init /\ [][Next]_vars

-----------------------------------------------------------------------------
\* "All five phases must pass": a phase the board reports was really there, in
\* this order, although its queries are not atomic and the cache runs behind,
\* unless the workers die by themselves or with a peer that is terminated.
PassIsReal ==
  fault # "crash" /\ peer.at # "terminated" =>
    /\ device.phase - 1 <= shown
    /\ device.at = "done" => shown = 5

\* A peer that has ended by itself has left no worker process behind: a start
\* that fails, a worker that dies, a wait that ends in vain and the pass all
\* terminate what was started, or do not end.  Settled is about the others.
NoOrphans == peer.at \in Ended => \A w \in Worker : ~Alive(w)

\* Without faults the fixed holds are long enough: the board never misses a
\* phase and the peer never gives up, in whatever order announcements arrive.
TimelyPasses ==
  fault = "none" =>
    device.at # "error" /\ peer.at \notin {"failed", "stuck", "terminated"}

=============================================================================
