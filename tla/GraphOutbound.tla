--------------------------- MODULE GraphOutbound ---------------------------
(***************************************************************************)
(* The outbound half of the ROS graph acceptance test.  The board          *)
(* (run_graph_pubsub, samples/wifi/src/main.c) shows a publisher and a     *)
(* subscription, then the subscription, then only its node, and ends; it   *)
(* is restarted for every cycle (run_hardware_case.sh).  The desktop       *)
(* (run_graph_outbound, samples/wifi/peer.py) polls its own graph cache    *)
(* for each of these, and for the node to be gone.                         *)
(*                                                                         *)
(* Discovery is external: each change reaches the peer's cache within Lag  *)
(* and by itself.  Each boot is a participant of its own, and the node is  *)
(* known by its name: what the cache has of any boot is found.             *)
(***************************************************************************)
EXTENDS Integers

CONSTANTS
  Cycles,          \* --cycles, and the boots of the board
  Lag,             \* longest regular discovery
  BootTime,        \* least time from a reset to the node: Wi-Fi, DHCP (external)
  InitialHold,     \* GRAPH_INITIAL_HOLD_MS
  TransitionHold,  \* GRAPH_TRANSITION_HOLD_MS
  PeerTimeout      \* --timeout of the peer

VARIABLES
  board,   \* where the board is, in which boot, and the time left there
  shows,   \* what each boot has announced
  cache,   \* what the peer knows of each boot
  peer,    \* its cycle and phase, the query it is at, what the last one
           \*   found, whether it has polled of late, and the time left
  age,     \* how long an announcement has been due
  fault    \* the one thing that went wrong

vars == <<board, shows, cache, peer, age, fault>>

Boot == 1..Cycles

Field == {"node", "pub", "sub"}

Nothing == [f \in Field |-> FALSE]

Ended == {"passed", "failed"}

TypeOK ==
  /\ board.at \in {"off", "pubsub", "subscription_only", "node_only", "done",
                   "error"}
  /\ board.boot \in Boot /\ board.left \in Nat
  /\ shows \in [Boot -> [Field -> BOOLEAN]]
  /\ cache \in [Boot -> [Field -> BOOLEAN]]
  /\ peer.at \in {"polling"} \cup Ended /\ peer.phase \in 1..4
  /\ peer.cycle \in Boot /\ peer.query \in {"none", "pubs", "subs"}
  /\ peer.left \in 0..PeerTimeout
  /\ peer.found \in BOOLEAN /\ peer.polled \in BOOLEAN
  /\ age \in 0..Lag
  /\ fault \in {"none", "call", "delay"}

Fault(kind) == fault = "none" /\ fault' = kind

Active == peer.at \notin Ended

\* What the peer's cache has of the board's node.
Known(f) == \E b \in Boot : cache[b][f] /\ cache[b].node

-----------------------------------------------------------------------------
(***************************************************************************)
(* The board.                                                              *)
(***************************************************************************)

\* The board is where it says, and shows only the given entities.
Shows(at, entities, time) ==
  /\ board' = [board EXCEPT !.at = at, !.left = time]
  /\ shows' = [shows EXCEPT ![board.boot] = [f \in Field |-> f \in entities]]
  /\ age' = 0

BoardStarts ==
  /\ board.at = "off" /\ board.left = 0
  /\ Shows("pubsub", Field, InitialHold)
  /\ UNCHANGED <<cache, peer, fault>>

\* A hold is over: rcl_publisher_fini, rcl_subscription_fini, and in main
\* rcl_node_fini.
BoardGoesOn ==
  /\ board.left = 0
  /\ \/ /\ board.at = "pubsub"
        /\ Shows("subscription_only", {"node", "sub"}, TransitionHold)
     \/ /\ board.at = "subscription_only"
        /\ Shows("node_only", {"node"}, TransitionHold)
     \/ board.at = "node_only" /\ Shows("done", {}, 0)
  /\ UNCHANGED <<cache, peer, fault>>

\* A call fails: the rest is finalised.  Without its marker the script gives
\* up and terminates the peer.
BoardFails ==
  /\ board.at \notin {"done", "error"}
  /\ Fault("call")
  /\ Shows("error", {}, 0)
  /\ UNCHANGED <<cache, peer>>

ScriptStops ==
  /\ board.at = "error" /\ Active
  /\ peer' = [peer EXCEPT !.at = "failed", !.query = "none"]
  /\ UNCHANGED <<board, shows, cache, age, fault>>

\* The board is reset once its CLEANUP marker was captured, whatever the peer
\* has seen.
Restart ==
  /\ board.at = "done" /\ board.boot < Cycles
  /\ board' = [at |-> "off", boot |-> board.boot + 1,
               left |-> BootTime]
  /\ UNCHANGED <<shows, cache, peer, age, fault>>

-----------------------------------------------------------------------------
(***************************************************************************)
(* Discovery and time.                                                     *)
(***************************************************************************)

\* One announcement reaches the cache; what belongs to a lost node is not
\* found any more.
Discover ==
  /\ \E b \in Boot, f \in Field :
       /\ cache[b][f] # shows[b][f]
       /\ cache' = [cache EXCEPT ![b] =
                      IF f = "node" /\ ~shows[b].node THEN Nothing
                      ELSE [@ EXCEPT ![f] = ~@]]
  /\ peer' = [peer EXCEPT !.polled = ~Active]
  /\ age' = IF cache' = shows THEN 0 ELSE age
  /\ UNCHANGED <<board, shows, fault>>

Late ==
  \/ cache # shows /\ age = Lag
  \/ board.at = "off" /\ peer.left <= Lag + 2

Down(n) == IF n > 0 THEN n - 1 ELSE 0

\* The peer polls many times in a unit of time.
Tick ==
  /\ Active /\ board.at # "error"
  /\ peer.left > 0
  /\ board.left > 0 \/ (board.at = "done" /\ board.boot = Cycles)
     \/ board.at = "off"
  /\ \/ peer.polled /\ (~Late \/ fault = "delay") /\ UNCHANGED fault
     \/ Late /\ Fault("delay")
  /\ board' = [board EXCEPT !.left = Down(@)]
  /\ peer' = [peer EXCEPT !.left = Down(@), !.polled = FALSE]
  /\ age' = IF cache # shows /\ age < Lag THEN age + 1 ELSE age
  /\ UNCHANGED <<shows, cache>>

-----------------------------------------------------------------------------
(***************************************************************************)
(* run_graph_outbound.                                                     *)
(***************************************************************************)

\* The phases: is the publisher seen, is the subscription.
Expected(phase) ==
  CASE phase = 1 -> [pub |-> TRUE,  sub |-> TRUE]
    [] phase = 2 -> [pub |-> FALSE, sub |-> TRUE]
    [] phase = 3 -> [pub |-> FALSE, sub |-> FALSE]

\* wait_for_condition goes on, or is over: the next phase or cycle.
PollEnds(matches) ==
  IF ~matches
  THEN peer' = [peer EXCEPT !.query = "none", !.polled = TRUE]
  ELSE peer' =
    [peer EXCEPT !.query = "none", !.polled = FALSE, !.left = PeerTimeout,
       !.phase = IF @ < 4 THEN @ + 1 ELSE 1,
       !.cycle = IF peer.phase = 4 /\ @ < Cycles THEN @ + 1 ELSE @,
       !.at = IF peer.phase = 4 /\ peer.cycle = Cycles THEN "passed" ELSE @]

\* Mutant of PollNode: the node is not looked for before its entities.
PollNodeAlways ==
  IF peer.phase = 4 THEN PollEnds(~Known("node"))
  ELSE peer' = [peer EXCEPT !.query = "pubs"]

\* device_node_visible: without the node there is no state to compare.
PollNode ==
  IF peer.phase = 4 THEN PollEnds(~Known("node"))
  ELSE IF Known("node") THEN peer' = [peer EXCEPT !.query = "pubs"]
  ELSE PollEnds(FALSE)

\* Mutant of PollQuery: the publishers are not compared.
PollQuerySubs ==
  IF ~Known("node")
  THEN peer' = [peer EXCEPT !.at = "failed", !.query = "none"]
  ELSE IF peer.query = "pubs"
  THEN peer' = [peer EXCEPT !.query = "subs", !.found = Known("pub")]
  ELSE PollEnds(Known("sub") = Expected(peer.phase).sub)

\* The two queries by node, with the cache changing between them.  They raise
\* an error, which ends the peer, if the node has gone since it was seen.
PollQuery ==
  IF ~Known("node")
  THEN peer' = [peer EXCEPT !.at = "failed", !.query = "none"]
  ELSE IF peer.query = "pubs"
  THEN peer' = [peer EXCEPT !.query = "subs", !.found = Known("pub")]
  ELSE PollEnds(/\ peer.found = Expected(peer.phase).pub
                /\ Known("sub") = Expected(peer.phase).sub)

\* wait_for_condition
PeerPolls ==
  /\ Active
  /\ \/ peer.query = "none" /\ peer.left > 0 /\ PollNode
     \/ peer.query # "none" /\ PollQuery
     \/ /\ peer.query = "none" /\ peer.left = 0
        /\ peer' = [peer EXCEPT !.at = "failed"]
  /\ UNCHANGED <<board, shows, cache, age, fault>>

Finished == ~Active /\ UNCHANGED vars

Next ==
  \/ BoardStarts \/ BoardGoesOn \/ BoardFails \/ ScriptStops \/ Restart
  \/ Discover \/ Tick \/ PeerPolls \/ Finished

Init ==
  /\ board = [at |-> "off", boot |-> 1, left |-> BootTime]
  /\ shows = [b \in Boot |-> Nothing] /\ cache = [b \in Boot |-> Nothing]
  /\ peer = [at |-> "polling", cycle |-> 1, phase |-> 1, query |-> "none",
             found |-> FALSE, polled |-> FALSE, left |-> PeerTimeout]
  /\ age = 0 /\ fault = "none"

Spec == Init /\ [][Next]_vars

-----------------------------------------------------------------------------
\* How many phases the board has gone through in all its boots, and how many
\* the peer has reported.
Reached ==
  4 * (board.boot - 1) + (CASE board.at = "off" -> 0
                            [] board.at = "pubsub" -> 1
                            [] board.at = "subscription_only" -> 2
                            [] board.at = "node_only" -> 3
                            [] OTHER -> 4)

Reported ==
  IF peer.at = "passed" THEN 4 * Cycles
  ELSE IF peer.at = "failed" THEN 0 ELSE 4 * (peer.cycle - 1) + peer.phase - 1

\* Unless a call on the board failed, the peer reports a phase only when the
\* board has come to it in the boot of that cycle: not because announcements
\* arrive one by one, late, or between its two queries, and not because the
\* cache still has the boot before.
PassIsReal == fault # "call" => Reported <= Reached

\* If no call failed and nothing was late the peer sees every phase before
\* the board leaves it, and no query by node meets a node that has gone.
TimelyPasses == fault = "none" => peer.at # "failed"

\* The peer has come to an end.
Settled == peer.at \in Ended

=============================================================================
