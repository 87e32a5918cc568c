-------------------------- MODULE MCHardwareTests --------------------------
(***************************************************************************)
(* The cases of the exchange: both roles of the board, best-effort and     *)
(* reliable with a history shorter than the schedule, transient-local with *)
(* a history of one, of some and of more than all values, and zenoh-pico,  *)
(* where matches cannot be counted.  And the intervals of the reports:     *)
(* quiet, with too many middleware allocations, with a ROS allocation;     *)
(* late in their releases, in their completions, in both.                  *)
(***************************************************************************)
EXTENDS HardwareTests

Volatile(reliability, observable) ==
  [role : {"pub", "sub"}, reliability : {reliability},
   durability : {"volatile"}, depth : {2}, observable : {observable}]

MCCase ==
  Volatile("best_effort", TRUE) \cup Volatile("reliable", TRUE)
  \cup Volatile("best_effort", FALSE)
  \cup [role : {"pub", "sub"}, reliability : {"reliable"},
        durability : {"transient_local"}, depth : {1, 2, 4},
        observable : {TRUE}]

MCInterval ==
  {[ros |-> 0, middleware |-> 1, samples |-> 2, release |-> 1,
    completion |-> 0, measured |-> 2],
   [ros |-> 0, middleware |-> 2, samples |-> 2, release |-> 0,
    completion |-> 1, measured |-> 0],
   [ros |-> 1, middleware |-> 1, samples |-> 3, release |-> 3,
    completion |-> 2, measured |-> 3]}

=============================================================================
