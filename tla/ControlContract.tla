--------------------------- MODULE ControlContract ---------------------------
(***************************************************************************)
(* What samples/static_control promises a reader of its state: "Outputs    *)
(* begin disabled. A command expires 250 ms after local receipt. Expiry    *)
(* sets the state to STATUS_STALE and disables effort until a fresh        *)
(* command is accepted. A missed release or output deadline sets a         *)
(* latched fault. Restarting the application is the only way to clear it." *)
(* Time and commands are left out: only the order of the reports remains.  *)
(***************************************************************************)
EXTENDS Naturals

VARIABLES
  run,      \* number of starts so far
  status,   \* the reported status
  effort    \* whether the reported effort may be non-zero

cvars == <<run, status, effort>>

Init == run = 0 /\ status = "DISABLED" /\ effort = FALSE

\* A start: outputs begin disabled and an earlier fault is forgotten.
Restart == run' = run + 1 /\ status' = "DISABLED" /\ effort' = FALSE

\* What a report may follow: a fault stays, and a controller that has seen a
\* command never goes back to DISABLED.
MayFollow(next) ==
  /\ status = "FAULT" => next = "FAULT"
  /\ status \in {"ACTIVE", "STALE"} => next # "DISABLED"

\* A report: only an ACTIVE one carries an effort.
Report ==
  \E next \in {"DISABLED", "ACTIVE", "STALE", "FAULT"} :
    /\ MayFollow(next)
    /\ status' = next
    /\ effort' \in {FALSE, next = "ACTIVE"}
    /\ UNCHANGED run

Next == Restart \/ Report

Spec == Init /\ [][Next]_cvars
=============================================================================
