----------------------------- MODULE Deployment -----------------------------
(***************************************************************************)
(* Start-up and clean-up of a fixed deployment: main of                    *)
(* samples/static_control around ros2z_deployment_init and                 *)
(* ros2z_deployment_fini, the C code that tools/compile_deployment.py      *)
(* (generate_source) writes.  Every call into rcl, rclc and the support    *)
(* library can fail; a failed init leaves nothing behind, a failed fini    *)
(* leaves its object.                                                      *)
(***************************************************************************)
EXTENDS Integers, Sequences

CONSTANT
  Kind      \* the endpoints of the deployment in order, each "publisher" or
            \*   "subscription"

Endpoint == 1..Len(Kind)

Subscription == {e \in Endpoint : Kind[e] = "subscription"}

\* The rcl objects.  Endpoint e is object e.
Support == -1
Node == 0
Executor == Len(Kind) + 1
Object == -1..Len(Kind) + 1

VARIABLES
  live,         \* objects that are initialised
  flags,        \* node_initialized, *_initialized, executor_initialized of
                \*   the context; support_initialized of main
  handles,      \* subscriptions in the executor
  prepared,     \* rclc_executor_prepare succeeded
  pc,           \* where main and the generated functions are
  at,           \* the endpoint or object that pc is about
  deployment_initialized,
  control_started,
  finalized,    \* history: how often each object's fini was called
  failed        \* history: a fini failed

deployment == <<live, flags, handles, prepared, pc, at,
                deployment_initialized, control_started, finalized, failed>>

DeploymentTypeOK ==
  /\ live \subseteq Object /\ flags \subseteq Object
  /\ handles \subseteq Subscription
  /\ prepared \in BOOLEAN
  /\ pc \in {"support", "init", "add", "prepare", "start", "spin",
             "stop", "fini", "support_fini", "done"}
  /\ at \in Support..Executor + 1
  /\ deployment_initialized \in BOOLEAN /\ control_started \in BOOLEAN
  /\ finalized \in [Object -> Nat]
  /\ failed \in BOOLEAN

-----------------------------------------------------------------------------
(***************************************************************************)
(* main, up to the deployment.                                             *)
(***************************************************************************)

\* rclc_support_init
SupportInit ==
  /\ pc = "support"
  /\ \/ /\ live' = live \cup {Support} /\ flags' = flags \cup {Support}
        /\ pc' = "init" /\ at' = Node
     \/ pc' = "stop" /\ UNCHANGED <<live, flags, at>>
  /\ UNCHANGED <<handles, prepared, deployment_initialized, control_started,
                 finalized, failed>>

(***************************************************************************)
(* ros2z_deployment_init.                                                  *)
(***************************************************************************)

\* Mutant of Last: one object too many.
LastPast == Executor + 1

\* Where the objects end: no executor without a subscription.
Last == IF Subscription = {} THEN Len(Kind) ELSE Executor

\* Mutant of From: the one after e is passed over.
FromAfter(e) == {s \in Subscription : s > e}

\* The subscriptions from e on.
From(e) == {s \in Subscription : s >= e}

\* On to the first of them.
ToFirst(S) == \E e \in S : at' = e /\ \A f \in S : e <= f

\* Mutant of InitFails: every error returns directly.
InitFailsReturns == pc' = "stop" /\ UNCHANGED at

\* An error return: the objects made so far are finalised, and main cleans up
\* without calling ros2z_deployment_fini.  rclc_node_init_default returns
\* directly.
InitFails ==
  IF at = Node /\ pc = "init" THEN pc' = "stop" /\ UNCHANGED at
  ELSE pc' = "fini" /\ at' = Executor

\* rclc_node_init_default, rclc_<kind>_init of each endpoint in order,
\* rclc_executor_init.
ObjectInit ==
  /\ pc = "init" /\ at <= Last
  /\ \/ /\ live' = live \cup {at} /\ flags' = flags \cup {at}
        /\ at' = at + 1
        /\ UNCHANGED pc
     \/ InitFails /\ UNCHANGED <<live, flags>>
  /\ UNCHANGED <<handles, prepared, deployment_initialized, control_started,
                 finalized, failed>>

\* All objects are there.
ObjectsDone ==
  /\ pc = "init" /\ at > Last
  /\ IF Subscription = {}
     THEN pc' = "start" /\ deployment_initialized' = TRUE /\ UNCHANGED at
     ELSE /\ pc' = "add" /\ ToFirst(Subscription)
          /\ UNCHANGED deployment_initialized
  /\ UNCHANGED <<live, flags, handles, prepared, control_started, finalized,
                 failed>>

\* rclc_executor_add_subscription of each subscription in order.
AddSubscription ==
  /\ pc = "add"
  /\ \/ /\ handles' = handles \cup {at}
        /\ IF From(at + 1) = {} THEN pc' = "prepare" /\ UNCHANGED at
           ELSE ToFirst(From(at + 1)) /\ UNCHANGED pc
     \/ InitFails /\ UNCHANGED handles
  /\ UNCHANGED <<live, flags, prepared, deployment_initialized,
                 control_started, finalized, failed>>

\* rclc_executor_prepare
ExecutorPrepare ==
  /\ pc = "prepare"
  /\ \/ /\ prepared' = TRUE /\ deployment_initialized' = TRUE
        /\ pc' = "start" /\ UNCHANGED at
     \/ InitFails /\ UNCHANGED <<prepared, deployment_initialized>>
  /\ UNCHANGED <<live, flags, handles, control_started, finalized, failed>>

\* static_control_start; after it main loops for good.
ControlStart ==
  /\ pc = "start"
  /\ \/ pc' = "spin" /\ control_started' = TRUE
     \/ pc' = "stop" /\ UNCHANGED control_started
  /\ UNCHANGED <<live, flags, handles, prepared, at, deployment_initialized,
                 finalized, failed>>

(***************************************************************************)
(* The cleanup label of main, and ros2z_deployment_fini.                   *)
(***************************************************************************)

\* Mutant of NeedsFini: clean-up after a failed initialisation as well.
NeedsFiniAlways == Support \in flags

NeedsFini == deployment_initialized

\* static_control_stop, if it was started, and the call of
\* ros2z_deployment_fini.
Cleanup ==
  /\ pc = "stop"
  /\ control_started' = FALSE
  /\ IF NeedsFini THEN pc' = "fini" /\ at' = Executor
     ELSE pc' = "support_fini" /\ UNCHANGED at
  /\ UNCHANGED <<live, flags, handles, prepared, deployment_initialized,
                 finalized, failed>>

\* The fini of object o: it ends the object or fails.
Fini(o) ==
  /\ finalized' = [finalized EXCEPT ![o] = @ + 1]
  /\ \/ live' = live \ {o} /\ UNCHANGED failed
     \/ failed' = TRUE /\ UNCHANGED live

\* After the generated fini: back in ros2z_deployment_init, whose caller goes
\* to the clean-up, or in the clean-up.
AfterFini == IF deployment_initialized THEN "support_fini" ELSE "stop"

\* Mutant of NextFini: in the order of initialisation.
NextFiniForward(o) == IF o = Executor THEN Node ELSE o + 1

\* The executor, the endpoints from last to first, the node.
NextFini(o) == o - 1

\* ros2z_deployment_fini goes on after a failure.
FiniObject ==
  /\ pc = "fini"
  /\ IF at \in flags THEN Fini(at) ELSE UNCHANGED <<live, finalized, failed>>
  /\ at' = NextFini(at)
  /\ pc' = IF at' \in Endpoint \cup {Node} THEN "fini" ELSE AfterFini
  /\ UNCHANGED <<flags, handles, prepared, deployment_initialized,
                 control_started>>

\* rclc_support_fini
SupportFini ==
  /\ pc = "support_fini"
  /\ IF Support \in flags THEN Fini(Support)
     ELSE UNCHANGED <<live, finalized, failed>>
  /\ pc' = "done"
  /\ UNCHANGED <<flags, handles, prepared, at, deployment_initialized,
                 control_started>>

Step ==
  \/ SupportInit \/ ObjectInit \/ ObjectsDone \/ AddSubscription
  \/ ExecutorPrepare \/ ControlStart \/ Cleanup \/ FiniObject \/ SupportFini

DeploymentInit ==
  /\ live = {} /\ flags = {} /\ handles = {}
  /\ prepared = FALSE
  /\ pc = "support" /\ at = Support
  /\ deployment_initialized = FALSE /\ control_started = FALSE
  /\ finalized = [o \in Object |-> 0]
  /\ failed = FALSE

-----------------------------------------------------------------------------
(***************************************************************************)
(* Properties.                                                             *)
(***************************************************************************)

\* Whatever call of the start-up failed, main returns with no rcl object
\* alive, unless a fini itself failed: ros2z_deployment_init undoes its own
\* part and the cleanup label the rest.
CleanExit == pc = "done" /\ ~failed => live = {}

\* No object is finalised twice, although ros2z_deployment_fini never clears
\* the *_initialized flags and has two callers, the error paths of
\* ros2z_deployment_init and the cleanup label.
FinalizedOnce == \A o \in Object : finalized[o] <= 1

\* What has to end before o may: the executor before the subscriptions it
\* holds, every object of the deployment before its node, all before the
\* support.
Dependents(o) ==
  CASE o = Support -> Object \ {Support}
    [] o = Node    -> Object \ {Support, Node}
    [] o \in handles -> {Executor}
    [] OTHER -> {}

\* An object is finalised only after the fini of every live object that
\* depends on it was called, on the error paths of ros2z_deployment_init too.
DependentsFirst ==
  [][\A o \in Object : finalized'[o] > finalized[o] =>
       \A d \in Dependents(o) \cap live : finalized[d] > 0]_deployment

\* main enters its loop only with every object alive and every subscription
\* in a prepared executor, as rclc_executor_spin_some needs.
SpinIsReady ==
  pc = "spin" => /\ live = Support..Last
                 /\ handles = Subscription
                 /\ prepared \/ Subscription = {}

=============================================================================
