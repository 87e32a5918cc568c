---------------------------- MODULE ControlPeer ----------------------------
(***************************************************************************)
(* samples/static_control/peer.py, the desktop's check of the command and  *)
(* state topics, against a board that keeps ControlContract: control_entry *)
(* reports a status with the sequence number of the last command, and main *)
(* publishes the last report.  Both topics are best-effort.  A reset may   *)
(* come at any time.  A unit of time is longer than a command lives, and   *)
(* everything due happens within a unit, unless there is a fault.          *)
(***************************************************************************)
EXTENDS Integers

CONSTANTS
  Prior,        \* sequence numbers the board may already have; 0 is none
  Sequence,     \* --sequence
  PeerTimeout,  \* --timeout, of each wait
  MaxResets     \* bound on resets of the board

VARIABLES
  run, status, effort,   \* the board's reports, as in ControlContract
  prior,     \* what the board had accepted before
  command,   \* command_snapshot: its sequence number, and if it is fresh
  reported,  \* command_sequence of the last report
  current,   \* the last report is of the command as it is
  told,      \* the last report was published for the peer
  sent,      \* the peer's command is under way
  known,     \* the topics whose reader the writer's side has discovered
  states,    \* what the peer received; only what is among it matters
  peer,      \* where the peer is, and the time left there
  stage,     \* history: how far a run of the board has come with the
             \*   peer's command: 1 accepted, 2 reported ACTIVE, 3 STALE
  fault      \* what went wrong first

vars == <<run, status, effort, prior, command, reported, current, told, sent,
          known, states, peer, stage, fault>>

board == <<run, status, effort, command, reported, current, stage>>

C == INSTANCE ControlContract

Topic == {"command", "state"}

Ended == {"passed", "failed"}

Waiting == {"disabled", "active", "stale"}

TypeOK ==
  /\ run \in 0..MaxResets
  /\ status \in {"DISABLED", "ACTIVE", "STALE", "FAULT"}
  /\ effort \in BOOLEAN /\ prior \in Prior
  /\ command.sequence \in Prior \cup {0, Sequence}
  /\ command.fresh \in BOOLEAN
  /\ {reported} \subseteq Prior \cup {0, Sequence}
  /\ {current, told, sent} \subseteq BOOLEAN /\ known \subseteq Topic
  /\ \A s \in states : s.status \in {"DISABLED", "ACTIVE", "STALE", "FAULT"}
  /\ peer.at \in Waiting \cup Ended /\ peer.left \in 0..PeerTimeout
  /\ stage \in 0..3
  /\ fault \in {"none", "deadline", "loss", "reset", "delay"}

\* Faults may come together; the first is remembered.
Fault(kind) == fault' = IF fault = "none" THEN kind ELSE fault

-----------------------------------------------------------------------------
(***************************************************************************)
(* The board.                                                              *)
(***************************************************************************)

\* What control_entry reports when no deadline was missed.
CycleStatus ==
  IF status = "FAULT" THEN "FAULT"
  ELSE IF command.sequence = 0 THEN "DISABLED"
  ELSE IF command.fresh THEN "ACTIVE" ELSE "STALE"

\* A cycle that changes the report: one that the contract allows.
ControlCycle ==
  /\ C!Report
  /\ effort' = (status' = "ACTIVE")
  /\ \/ ~current /\ status' = CycleStatus /\ UNCHANGED fault
     \/ status # "FAULT" /\ status' = "FAULT" /\ Fault("deadline")
  /\ reported' = command.sequence
  /\ current' = TRUE /\ told' = FALSE
  /\ stage' = IF stage = 1 /\ status' = "ACTIVE" THEN 2
              ELSE IF stage = 2 /\ status' = "STALE" THEN 3 ELSE stage
  /\ UNCHANGED <<prior, command, sent, known, states, peer>>

\* command_callback: any sequence number is accepted.
Accept ==
  /\ sent
  /\ sent' = FALSE
  /\ command' = [sequence |-> Sequence, fresh |-> TRUE]
  /\ current' = FALSE
  /\ stage' = IF stage = 0 THEN 1 ELSE stage
  /\ UNCHANGED <<run, status, effort, prior, reported, told, known, states,
                 peer, fault>>

\* COMMAND_EXPIRY_MS is longer than TELEMETRY_PERIOD_MS: in time, an ACTIVE
\* report is published before the command expires.
Expire ==
  /\ command.fresh /\ current
  /\ \/ told /\ UNCHANGED fault
     \/ ~told /\ Fault("delay")
  /\ command' = [command EXCEPT !.fresh = FALSE]
  /\ current' = FALSE
  /\ UNCHANGED <<run, status, effort, prior, reported, told, sent, known,
                 states, peer, stage>>

\* main publishes the last report; before the peer's subscription has been
\* discovered it is for nobody.
Telemetry ==
  /\ "state" \in known
  /\ told' = TRUE
  /\ \/ /\ states' = states \cup {[status |-> status, sequence |-> reported]}
        /\ UNCHANGED fault
     \/ ~told /\ Fault("loss") /\ UNCHANGED states
  /\ UNCHANGED <<board, prior, sent, known, peer>>

\* The peer may go on counting the subscription of the run that is over.
Reset ==
  /\ run < MaxResets
  /\ C!Restart
  /\ Fault("reset")
  /\ command' = [sequence |-> 0, fresh |-> FALSE]
  /\ reported' = 0 /\ current' = TRUE /\ told' = FALSE
  /\ stage' = IF stage = 3 THEN 3 ELSE 0
  /\ sent' = FALSE /\ known' \in SUBSET (known \ {"state"})
  /\ UNCHANGED <<prior, states, peer>>

-----------------------------------------------------------------------------
(***************************************************************************)
(* The peer.                                                               *)
(***************************************************************************)

Discover ==
  /\ \E t \in Topic \ known : known' = known \cup {t}
  /\ UNCHANGED <<board, prior, told, sent, states, peer, fault>>

Has(s, n) == \E state \in states : state.status = s /\ state.sequence = n

Disabled == \E state \in states : state.status = "DISABLED"

\* Mutant of Reached: a STALE report is not looked for.
ReachedActive(at) ==
  CASE at = "disabled" -> "command" \in known /\ Disabled
    [] at = "active"   -> Has("ACTIVE", Sequence)
    [] at = "stale"    -> Has("ACTIVE", Sequence)

\* Mutant of Reached: the board's subscription is not waited for.
ReachedEarly(at) ==
  CASE at = "disabled" -> Disabled
    [] at = "active"   -> Has("ACTIVE", Sequence)
    [] at = "stale"    -> Has("STALE", Sequence)

\* The predicates of wait_for.
Reached(at) ==
  CASE at = "disabled" -> "command" \in known /\ Disabled
    [] at = "active"   -> Has("ACTIVE", Sequence)
    [] at = "stale"    -> Has("STALE", Sequence)

Waits(at) == peer' = [at |-> at, left |-> PeerTimeout]

Ends(at) == peer' = [at |-> at, left |-> 0]

\* The command is published once, for the subscriptions discovered by then.
PeerPublishes ==
  /\ peer.at = "disabled" /\ peer.left > 0 /\ Reached("disabled")
  /\ Waits("active")
  /\ \/ sent' = ("command" \in known) /\ UNCHANGED fault
     \/ Fault("loss") /\ UNCHANGED sent
  /\ UNCHANGED <<board, prior, told, known, states>>

PeerGoesOn ==
  /\ peer.left > 0
  /\ \/ peer.at = "active" /\ Reached("active") /\ Waits("stale")
     \/ /\ peer.at = "stale" /\ Reached("stale")
        /\ Ends(IF \E s \in states : s.status = "FAULT" THEN "failed"
                ELSE "passed")
  /\ UNCHANGED <<board, prior, told, sent, known, states, fault>>

\* Mutant of PeerGivesUp: the deadline is set inside the loop of wait_for.
PeerGivesUpAnew ==
  /\ peer.at \in Waiting /\ peer.left = 0
  /\ Waits(peer.at)
  /\ UNCHANGED <<board, prior, told, sent, known, states, fault>>

PeerGivesUp ==
  /\ peer.at \in Waiting /\ peer.left = 0
  /\ Ends("failed")
  /\ UNCHANGED <<board, prior, told, sent, known, states, fault>>

Peer == PeerPublishes \/ PeerGoesOn \/ PeerGivesUp

\* Something is about to happen.
Busy ==
  \/ sent \/ ~told \/ known # Topic \/ ~current \/ command.fresh
  \/ peer.at \in Waiting /\ Reached(peer.at)

Tick ==
  /\ peer.at \in Waiting /\ peer.left > 0
  /\ \/ ~Busy /\ UNCHANGED fault
     \/ Busy /\ Fault("delay")
  /\ peer' = [peer EXCEPT !.left = @ - 1]
  /\ UNCHANGED <<board, prior, told, sent, known, states>>

Finished == peer.at \in Ended /\ UNCHANGED vars

Next ==
  \/ ControlCycle \/ Accept \/ Expire \/ Telemetry \/ Reset \/ Discover
  \/ Peer \/ Tick \/ Finished

\* The board has just started, or its earlier command has expired.
Init ==
  /\ run = 0 /\ effort = FALSE
  /\ prior \in Prior
  /\ status = IF prior = 0 THEN "DISABLED" ELSE "STALE"
  /\ command = [sequence |-> prior, fresh |-> FALSE]
  /\ reported = prior /\ current = TRUE /\ told = FALSE
  /\ sent = FALSE /\ known = {} /\ states = {}
  /\ peer = [at |-> "disabled", left |-> PeerTimeout]
  /\ stage = 0 /\ fault = "none"

Spec == Init /\ [][Next]_vars

-----------------------------------------------------------------------------
\* "requires ACTIVE then STALE for the same sequence": unless the board had
\* this sequence number before, the peer passes only if one run of the board
\* accepted the peer's command, reported it ACTIVE and then STALE, whatever
\* reports were lost and whenever the board was reset.
PassIsReal ==
  peer.at = "passed" /\ prior # Sequence => stage = 3

\* If nothing was lost or late and no deadline was missed, the peer passes on
\* a board that was just started.
TimelyPasses ==
  fault = "none" /\ prior = 0 => peer.at # "failed"

\* "Use --sequence N with a newer value if the board has already accepted a
\* command without a reset": then too the peer passes if nothing was lost or
\* late and no deadline was missed.
NewerSequencePasses ==
  fault = "none" /\ Sequence > prior => peer.at # "failed"

\* The peer has come to an end.
Settled == peer.at \in Ended

=============================================================================
