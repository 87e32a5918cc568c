-------------------------- MODULE StaticMainProofs --------------------------
(***************************************************************************)
(* main of samples/static_control makes and undoes the objects of any      *)
(* deployment in order: every number of endpoints, every mixture of        *)
(* publishers and subscriptions, and every combination of failing calls.   *)
(***************************************************************************)
EXTENDS StaticMain, TLAPS

-----------------------------------------------------------------------------
\* The objects above n that were made have been finalised, once each, and
\* those up to n have not; unless a fini failed, just the latter are alive.
Undone(n) ==
  /\ live \subseteq flags
  /\ \A o \in Object : finalized[o] = IF o \in flags /\ o > n THEN 1 ELSE 0
  /\ ~failed => \A o \in flags : o \in live <=> o <= n

\* How far down the clean-up has come.
Frontier(n) ==
  /\ pc \notin {"stop", "fini", "support_fini", "done"} => n = Executor
  /\ pc = "stop" /\ deployment_initialized => n = Executor
  /\ pc = "stop" /\ ~deployment_initialized => n = Support
  /\ pc = "fini" => n = at /\ at \in Node..Executor
  /\ pc = "support_fini" => n = Support
  /\ pc = "done" => n = Support - 1

Cleaned == \E n \in Support - 1..Executor : Frontier(n) /\ Undone(n)

\* The objects are made from the support upwards, and the executor is given
\* the subscriptions in order.
Built ==
  /\ pc = "support" => flags = {} /\ handles = {}
  /\ pc = "init" => /\ at \in Node..Last + 1
                    /\ flags = Support..at - 1 /\ handles = {}
  /\ pc = "add" => at \in Subscription
                   /\ handles = {s \in Subscription : s < at}
  /\ pc \in {"add", "prepare", "start", "spin"} => flags = Support..Last
  /\ pc \in {"prepare", "start", "spin"} => handles = Subscription

\* deployment_initialized is set at the end of ros2z_deployment_init.
Flagged ==
  /\ pc \in {"start", "spin"}
       => deployment_initialized /\ (prepared \/ Subscription = {})
  /\ pc \in {"support", "init", "add", "prepare"} => ~deployment_initialized
  /\ pc \notin {"stop", "fini", "support_fini", "done"} => ~failed

Typed ==
  /\ live \subseteq Object /\ flags \subseteq Object
  /\ handles \subseteq Subscription
  /\ pc \in {"support", "init", "add", "prepare", "start", "spin",
             "stop", "fini", "support_fini", "done"}
  /\ at \in Support..Executor + 1
  /\ finalized \in [Object -> Nat]

\* The inductive invariant.
Orderly == Typed /\ Built /\ Flagged /\ Cleaned

\* The numbers of the objects.
LEMMA Numbers ==
  /\ Len(Kind) \in Nat /\ Support = -1 /\ Node = 0
  /\ Executor = Len(Kind) + 1 /\ Object = -1..Len(Kind) + 1
  /\ Endpoint = 1..Len(Kind) /\ Subscription \subseteq Endpoint
  /\ Last = IF Subscription = {} THEN Len(Kind) ELSE Len(Kind) + 1
BY MainAssumption
   DEF Support, Node, Executor, Object, Endpoint, Subscription, Last

LEMMA OrderlyInit == Init => Orderly
<1> SUFFICES ASSUME DeploymentInit PROVE Orderly
  BY DEF Init
<1>1. Typed
  BY Numbers DEF DeploymentInit, Typed
<1>2. Built
  BY DEF DeploymentInit, Built
<1>3. Flagged
  BY Zenon DEF DeploymentInit, Flagged
<1>4. Frontier(Executor) /\ Undone(Executor)
  BY DEF DeploymentInit, Undone, Frontier
<1>5. Executor \in Support - 1..Executor
  BY Numbers
<1> QED BY <1>1, <1>2, <1>3, <1>4, <1>5 DEF Orderly, Cleaned

-----------------------------------------------------------------------------
(***************************************************************************)
(* What the steps do to the objects.                                       *)
(***************************************************************************)

\* Before the clean-up all that was made is alive.
LEMMA AllAlive ==
  ASSUME Typed, Undone(Executor), ~failed
  PROVE  live = flags
<1>1. \A o \in flags : o <= Executor
  BY Numbers DEF Typed
<1>2. flags \subseteq live
  BY <1>1 DEF Undone
<1> QED BY <1>2 DEF Undone

\* One more object is made.
LEMMA MadeOne ==
  ASSUME Typed, Undone(Executor), ~failed, NEW o \in Object,
         live' = live \cup {o}, flags' = flags \cup {o},
         finalized' = finalized, failed' = failed
  PROVE  Undone(Executor)'
BY SMTT(60), AllAlive, Numbers DEF Typed, Undone

\* If there is none between them, the frontier may be either.
LEMMA SameFrontier ==
  ASSUME Typed, NEW n \in Int, NEW m \in Int, Undone(n),
         \A o \in flags : o > n <=> o > m,
         live' = live, flags' = flags, finalized' = finalized, failed' = failed
  PROVE  Undone(m)'
BY Numbers DEF Typed, Undone

\* Object n is finalised, if it was made: it is alive no more or failed is set.
LEMMA FinalizedOne ==
  ASSUME Typed, NEW n \in Object, Undone(n), flags' = flags,
         IF n \in flags THEN Fini(n) ELSE UNCHANGED <<live, finalized, failed>>
  PROVE  /\ Undone(n - 1)'
         /\ live' \subseteq Object /\ finalized' \in [Object -> Nat]
<1> USE Numbers
<1>1. CASE n \in flags
  <2>1. Fini(n)
    BY <1>1
  <2>2. \A o \in Object :
          finalized'[o] = IF o \in flags' /\ o > n - 1 THEN 1 ELSE 0
    BY <1>1, <2>1 DEF Typed, Undone, Fini
  <2>3. live' \subseteq flags'
    BY <2>1 DEF Undone, Fini
  <2>4. ~failed' => \A o \in flags' : o \in live' <=> o <= n - 1
    <3>1. SUFFICES ASSUME ~failed'
                   PROVE  \A o \in flags' : o \in live' <=> o <= n - 1
      OBVIOUS
    <3>2. live' = live \ {n} /\ ~failed
      BY <2>1, <3>1 DEF Fini
    <3> QED BY <3>2 DEF Typed, Undone
  <2>5. live' \subseteq Object /\ finalized' \in [Object -> Nat]
    <3>1. finalized' = [finalized EXCEPT ![n] = @ + 1] /\ live' \subseteq live
      BY Zenon, <2>1 DEF Fini
    <3>2. finalized' \in [Object -> Nat]
      BY SMTT(60), <3>1 DEF Typed
    <3> QED BY Zenon, <3>1, <3>2 DEF Typed
  <2>6. Undone(n - 1)'
    BY Zenon, <2>2, <2>3, <2>4 DEF Undone
  <2> QED BY <2>5, <2>6
<1>2. CASE n \notin flags
  <2>1. UNCHANGED <<live, finalized, failed>>
    BY <1>2
  <2>2. \A o \in flags : o > n <=> o > n - 1
    BY <1>2 DEF Typed
  <2>3. Undone(n - 1)'
    BY <2>1, <2>2, SameFrontier
  <2> QED BY <2>1, <2>3 DEF Typed
<1> QED BY <1>1, <1>2

-----------------------------------------------------------------------------
LEMMA FlaggedStep == ASSUME Orderly, Step PROVE Flagged'
<1>f. Flagged
  BY DEF Orderly
<1>1. CASE SupportInit
  BY Zenon, <1>f, <1>1 DEF SupportInit, Flagged
<1>2. CASE ObjectInit
  BY Zenon, <1>f, <1>2 DEF ObjectInit, InitFails, Flagged
<1>3. CASE ObjectsDone
  BY Zenon, <1>f, <1>3 DEF ObjectsDone, Flagged
<1>4. CASE AddSubscription
  BY Zenon, <1>f, <1>4 DEF AddSubscription, InitFails, Flagged
<1>5. CASE ExecutorPrepare
  BY Zenon, <1>f, <1>5 DEF ExecutorPrepare, InitFails, Flagged
<1>6. CASE ControlStart
  BY Zenon, <1>f, <1>6 DEF ControlStart, Flagged
<1>7. CASE Cleanup
  BY Zenon, <1>7 DEF Cleanup, Flagged
<1>8. CASE FiniObject
  <2>1. pc' \in {"fini", "support_fini", "stop"}
    BY Zenon, <1>8 DEF FiniObject, AfterFini
  <2> QED BY Zenon, <2>1 DEF Flagged
<1>9. CASE SupportFini
  BY Zenon, <1>9 DEF SupportFini, Flagged
<1> QED BY <1>1, <1>2, <1>3, <1>4, <1>5, <1>6, <1>7, <1>8, <1>9 DEF Step

LEMMA OrderlyStep == ASSUME Orderly, Step PROVE Orderly'
<1> USE Numbers
<1>o. Typed /\ Built /\ Flagged
  BY DEF Orderly
<1>f. Flagged'
  BY FlaggedStep
<1>n. PICK n \in Support - 1..Executor : Frontier(n) /\ Undone(n)
  BY DEF Orderly, Cleaned
<1>c. ASSUME NEW m \in Support - 1..Executor, Typed', Built', Frontier(m)',
             Undone(m)'
      PROVE  Orderly'
  BY <1>c, <1>f DEF Orderly, Cleaned
<1>1. CASE SupportInit
  <2>p. pc = "support"
    BY <1>1 DEF SupportInit
  <2>1. Typed'
    BY SMTT(60), <1>1, <1>o DEF SupportInit, Typed
  <2>2. Built'
    <3>1. flags = {} /\ handles = {}
      BY <2>p, <1>o DEF Built
    <3>2. Support..Node - 1 = {Support}
      OBVIOUS
    <3>3. CASE pc' = "init"
      <4>1. at' = Node /\ flags' = Support..at' - 1 /\ handles' = {}
        BY <1>1, <3>1, <3>2, <3>3 DEF SupportInit
      <4>2. at' \in Node..Last + 1
        BY <4>1
      <4> QED BY <3>3, <4>1, <4>2 DEF Built
    <3>4. CASE pc' = "stop"
      BY <3>4 DEF Built
    <3> QED BY <1>1, <3>3, <3>4 DEF SupportInit
  <2>3. n = Executor /\ flags = {}
    BY <2>p, <1>o, <1>n DEF Frontier, Built
  <2>4. ~failed /\ ~deployment_initialized
    BY Zenon, <2>p, <1>o DEF Flagged
  <2>5. CASE pc' = "init"
    <3>1. Undone(Executor)'
      BY <1>1, <1>o, <1>n, <2>3, <2>4, <2>5, MadeOne DEF SupportInit
    <3>2. Frontier(Executor)'
      BY <2>5 DEF Frontier
    <3> QED BY <1>c, <2>1, <2>2, <3>1, <3>2
  <2>6. CASE pc' = "stop"
    <3>1. Undone(Support)'
      BY <1>1, <1>o, <1>n, <2>3, <2>6, SameFrontier DEF SupportInit
    <3>2. ~deployment_initialized'
      BY Zenon, <1>1, <2>4 DEF SupportInit
    <3>3. Frontier(Support)'
      BY <2>6, <3>2 DEF Frontier
    <3> QED BY <1>c, <2>1, <2>2, <3>1, <3>3
  <2> QED BY <1>1, <2>5, <2>6 DEF SupportInit
<1>u. ASSUME UNCHANGED <<live, flags, finalized, failed>>
      PROVE  Undone(n)'
  BY <1>u, <1>o, <1>n, SameFrontier
\* An error return of ros2z_deployment_init behind the node.
<1>e. ASSUME n = Executor, pc' = "fini", at' = Executor,
             UNCHANGED <<live, flags, handles, finalized, failed>>
      PROVE  Orderly'
  <2>1. Typed'
    BY <1>e, <1>o DEF Typed
  <2>2. Built'
    BY <1>e DEF Built
  <2>3. Frontier(n)'
    BY <1>e DEF Frontier
  <2> QED BY <1>c, <1>e, <1>u, <2>1, <2>2, <2>3
<1>2. CASE ObjectInit
  <2>p. pc = "init" /\ at \in Node..Last /\ flags = Support..at - 1
    BY <1>2, <1>o DEF ObjectInit, Built, Typed
  <2>1. n = Executor /\ handles = {}
    BY <2>p, <1>o, <1>n DEF Frontier, Built
  <2>2. ~failed /\ ~deployment_initialized
    BY Zenon, <2>p, <1>o DEF Flagged
  <2>3. handles' = handles /\ finalized' = finalized
    BY <1>2 DEF ObjectInit
  <2>4. failed' = failed /\ ~deployment_initialized'
    BY Zenon, <1>2, <2>2 DEF ObjectInit
  <2>5. CASE /\ live' = live \cup {at} /\ flags' = flags \cup {at}
             /\ at' = at + 1 /\ UNCHANGED pc
    <3>1. at \in Object /\ at' \in Node..Last + 1
      BY <2>p, <2>5
    <3>2. Undone(Executor)'
      BY <1>o, <1>n, <2>1, <2>2, <2>3, <2>4, <2>5, <3>1, MadeOne
    <3>3. flags' = Support..at' - 1
      BY <2>p, <2>5
    <3>4. Typed'
      BY <1>o, <2>3, <2>5, <3>1 DEF Typed
    <3>5. Built'
      BY SMTT(60), <2>p, <2>1, <2>3, <2>5, <3>1, <3>3 DEF Built
    <3>6. Frontier(Executor)'
      BY <2>p, <2>5 DEF Frontier
    <3> QED BY <1>c, <3>2, <3>4, <3>5, <3>6
  <2>6. CASE InitFails /\ UNCHANGED <<live, flags>>
    <3>1. CASE at = Node
      <4>1. pc' = "stop" /\ at' = at
        BY <2>p, <2>6, <3>1 DEF InitFails
      <4>2. Undone(Support)'
        BY <1>o, <1>n, <2>p, <2>1, <2>3, <2>4, <2>6, <3>1, SameFrontier
      <4>3. Typed'
        BY <1>o, <2>3, <2>6, <4>1 DEF Typed
      <4>4. Built'
        BY <4>1 DEF Built
      <4>5. Frontier(Support)'
        BY <2>4, <4>1 DEF Frontier
      <4> QED BY <1>c, <4>2, <4>3, <4>4, <4>5
    <3>2. CASE at # Node
      BY <1>e, <2>1, <2>3, <2>4, <2>6, <3>2 DEF InitFails
    <3> QED BY <3>1, <3>2
  <2> QED BY <1>2, <2>5, <2>6 DEF ObjectInit
<1>3. CASE ObjectsDone
  <2>p. pc = "init" /\ flags = Support..Last /\ handles = {}
    BY SMTT(60), <1>3, <1>o DEF ObjectsDone, Built, Typed
  <2>1. n = Executor
    BY <2>p, <1>n DEF Frontier
  <2>2. UNCHANGED <<live, flags, handles, finalized>>
    BY <1>3 DEF ObjectsDone
  <2>3. Undone(n)'
    BY Zenon, <1>3, <1>u DEF ObjectsDone
  <2>4. CASE Subscription = {} /\ pc' = "start" /\ at' = at
    <3>1. Typed' /\ Built' /\ Frontier(n)'
      BY <1>o, <2>p, <2>1, <2>2, <2>4 DEF Typed, Built, Frontier
    <3> QED BY <1>c, <2>3, <3>1
  <2>5. CASE pc' = "add" /\ ToFirst(Subscription)
    <3>1. at' \in Subscription /\ \A f \in Subscription : at' <= f
      BY <2>5 DEF ToFirst
    <3>2. \A s \in Subscription : ~(s < at')
      BY <3>1
    <3>3. handles' = {s \in Subscription : s < at'}
      BY Zenon, <2>p, <2>2, <3>2
    <3>4. Typed'
      BY SMTT(60), <1>o, <2>2, <2>5, <3>1 DEF Typed
    <3>5. Built'
      BY Zenon, <2>p, <2>2, <2>5, <3>1, <3>3 DEF Built
    <3>6. Frontier(n)'
      BY <2>1, <2>5 DEF Frontier
    <3> QED BY <1>c, <2>3, <3>4, <3>5, <3>6
  <2> QED BY Zenon, <1>3, <2>4, <2>5 DEF ObjectsDone
<1>4. CASE AddSubscription
  <2>p. /\ pc = "add" /\ flags = Support..Last /\ at \in Subscription
        /\ handles = {s \in Subscription : s < at}
    BY <1>4, <1>o DEF AddSubscription, Built
  <2>1. n = Executor
    BY <2>p, <1>n DEF Frontier
  <2>2. UNCHANGED <<live, flags, finalized>>
    BY <1>4 DEF AddSubscription
  <2>3. failed' = failed
    BY Zenon, <1>4 DEF AddSubscription
  <2>4. Undone(n)'
    BY <1>u, <2>2, <2>3
  <2>5. CASE /\ handles' = handles \cup {at} /\ From(at + 1) = {}
             /\ pc' = "prepare" /\ at' = at
    <3>0. \A s \in Subscription : s < at \/ s = at
      BY <2>p, <2>5 DEF From
    <3>1. handles' = Subscription
      BY Zenon, <2>p, <2>5, <3>0
    <3>2. Typed' /\ Built' /\ Frontier(n)'
      BY <1>o, <2>p, <2>1, <2>2, <2>5, <3>1 DEF Typed, Built, Frontier
    <3> QED BY <1>c, <2>4, <3>2
  <2>6. CASE /\ handles' = handles \cup {at} /\ ToFirst(From(at + 1))
             /\ pc' = pc
    <3>1. at' \in From(at + 1) /\ \A f \in From(at + 1) : at' <= f
      BY <2>6 DEF ToFirst
    <3>2. \A s \in Subscription : s < at' <=> s < at \/ s = at
      BY <2>p, <3>1 DEF From
    <3>3. handles' = {s \in Subscription : s < at'}
      BY Zenon, <2>p, <2>6, <3>2
    <3>4. Typed'
      BY SMTT(60), <1>o, <2>p, <2>2, <2>6, <3>1 DEF Typed, From
    <3>5. Built'
      BY <2>p, <2>2, <2>6, <3>1, <3>3 DEF Built, From
    <3>6. Frontier(n)'
      BY <2>p, <2>1, <2>6 DEF Frontier
    <3> QED BY <1>c, <2>4, <3>4, <3>5, <3>6
  <2>7. CASE InitFails /\ handles' = handles
    BY <1>e, <2>p, <2>1, <2>2, <2>3, <2>7 DEF InitFails
  <2> QED BY Zenon, <1>4, <2>5, <2>6, <2>7 DEF AddSubscription
<1>5. CASE ExecutorPrepare
  <2>p. pc = "prepare" /\ flags = Support..Last /\ handles = Subscription
    BY <1>5, <1>o DEF ExecutorPrepare, Built
  <2>1. n = Executor
    BY <2>p, <1>n DEF Frontier
  <2>2. UNCHANGED <<live, flags, handles, finalized>>
    BY <1>5 DEF ExecutorPrepare
  <2>3. failed' = failed
    BY Zenon, <1>5 DEF ExecutorPrepare
  <2>4. CASE pc' = "start" /\ at' = at
    <3>1. Typed' /\ Built' /\ Frontier(n)'
      BY SMTT(60), <1>o, <2>p, <2>1, <2>2, <2>4 DEF Typed, Built, Frontier
    <3> QED BY <1>c, <1>u, <2>2, <2>3, <3>1
  <2>5. CASE InitFails
    BY <1>e, <2>p, <2>1, <2>2, <2>3, <2>5 DEF InitFails
  <2> QED BY Zenon, <1>5, <2>4, <2>5 DEF ExecutorPrepare
<1>6. CASE ControlStart
  <2>p. pc = "start" /\ flags = Support..Last /\ handles = Subscription
    BY <1>6, <1>o DEF ControlStart, Built
  <2>1. n = Executor
    BY <2>p, <1>n DEF Frontier
  <2>2. UNCHANGED <<live, flags, handles, finalized, at>>
        /\ pc' \in {"spin", "stop"}
    BY <1>6 DEF ControlStart
  <2>3. failed' = failed /\ deployment_initialized'
    BY Zenon, <1>6, <1>o, <2>p DEF ControlStart, Flagged
  <2>4. Typed' /\ Built'
    BY Zenon, <1>o, <2>p, <2>2 DEF Typed, Built
  <2>5. Frontier(n)'
    BY <2>1, <2>2, <2>3 DEF Frontier
  <2> QED BY <1>c, <1>u, <2>2, <2>3, <2>4, <2>5
<1>7. CASE Cleanup
  <2>1. UNCHANGED <<live, flags, handles, finalized>> /\ pc = "stop"
    BY <1>7 DEF Cleanup
  <2>2. failed' = failed
    BY Zenon, <1>7 DEF Cleanup
  <2>3. CASE deployment_initialized /\ pc' = "fini" /\ at' = Executor
    <3>1. n = Executor
      BY <2>1, <2>3, <1>n DEF Frontier
    <3> QED BY <1>e, <2>1, <2>2, <2>3, <3>1
  <2>4. CASE ~deployment_initialized /\ pc' = "support_fini" /\ at' = at
    <3>1. n = Support
      BY <2>1, <2>4, <1>n DEF Frontier
    <3>2. Typed' /\ Built' /\ Frontier(n)'
      BY <1>o, <2>1, <2>4, <3>1 DEF Typed, Built, Frontier
    <3> QED BY <1>c, <1>u, <2>1, <2>2, <3>2
  <2> QED BY Zenon, <1>7, <2>3, <2>4 DEF Cleanup, NeedsFini
<1>8. CASE FiniObject
  <2>1. n = at /\ n \in Node..Executor /\ n \in Object
    BY <1>8, <1>n DEF FiniObject, Frontier
  <2>2. /\ Undone(n - 1)' /\ live' \subseteq Object
        /\ finalized' \in [Object -> Nat]
    BY <1>8, <1>o, <1>n, <2>1, FinalizedOne DEF FiniObject
  <2>3. at' = n - 1 /\ UNCHANGED <<flags, handles>>
    BY <1>8, <2>1 DEF FiniObject, NextFini
  <2>4. CASE n > Node
    <3>1. pc' = "fini" /\ n - 1 \in Node..Executor
      BY <1>8, <2>1, <2>3, <2>4 DEF FiniObject
    <3>2. Typed' /\ Built' /\ Frontier(n - 1)'
      BY SMTT(60), <1>o, <2>2, <2>3, <3>1 DEF Typed, Built, Frontier
    <3> QED BY <1>c, <2>1, <2>2, <3>2
  <2>5. CASE n = Node
    <3>1. at' \notin Endpoint \cup {Node} /\ n - 1 = Support
      BY <2>3, <2>5
    <3>2. pc' = AfterFini
      BY Zenon, <1>8, <3>1 DEF FiniObject
    <3>3. /\ pc' \in {"support_fini", "stop"}
          /\ pc' = "stop" => ~deployment_initialized'
      BY Zenon, <1>8, <3>2 DEF FiniObject, AfterFini
    <3>4. Typed' /\ Built'
      BY SMTT(60), <1>o, <2>2, <2>3, <3>1, <3>3 DEF Typed, Built
    <3>5. Frontier(Support)'
      BY <3>3 DEF Frontier
    <3> QED BY <1>c, <2>2, <3>1, <3>4, <3>5
  <2> QED BY <2>1, <2>4, <2>5
<1>9. CASE SupportFini
  <2>1. n = Support /\ n \in Object
    BY <1>9, <1>n DEF SupportFini, Frontier
  <2>2. UNCHANGED <<flags, handles, at>> /\ pc' = "done"
    BY <1>9 DEF SupportFini
  <2>3. /\ Undone(n - 1)' /\ live' \subseteq Object
        /\ finalized' \in [Object -> Nat]
    BY <1>9, <1>o, <1>n, <2>1, <2>2, FinalizedOne DEF SupportFini
  <2>4. Typed' /\ Built' /\ Frontier(n - 1)'
    BY <1>o, <2>1, <2>2, <2>3 DEF Typed, Built, Frontier
  <2> QED BY <1>c, <2>1, <2>3, <2>4
<1> QED BY <1>1, <1>2, <1>3, <1>4, <1>5, <1>6, <1>7, <1>8, <1>9 DEF Step

\* Outside the deployment nothing changes it.
LEMMA OrderlyNext == ASSUME Orderly, [Next]_vars PROVE Orderly'
<1>1. CASE Step
  BY <1>1, OrderlyStep
<1>2. CASE UNCHANGED deployment
  BY <1>2 DEF deployment, Orderly, Typed, Built, Flagged, Cleaned, Frontier,
              Undone
<1>3. Step \/ UNCHANGED deployment
  BY DEF Next, Network, Connect, Deploy, StartProbe, Probe, Finished, vars
<1> QED BY <1>1, <1>2, <1>3

LEMMA AlwaysOrderly == Spec => []Orderly
BY OrderlyInit, OrderlyNext, PTL DEF Spec

-----------------------------------------------------------------------------
\* main finalises every object that it made once, and leaves none when it
\* returns, whichever rclc call fails and whenever the network goes.
THEOREM ExactlyOnce == Spec => []FinalizedExactlyOnce
<1>1. ASSUME Orderly PROVE FinalizedExactlyOnce
  <2>1. PICK n \in Support - 1..Executor : Frontier(n) /\ Undone(n)
    BY <1>1 DEF Orderly, Cleaned
  <2>2. FinalizedOnce
    BY <2>1 DEF Undone, FinalizedOnce
  <2>3. ASSUME pc = "done", ~failed PROVE live = {}
    <3>1. \A o \in flags : o \notin live
      <4>1. n = Support - 1
        BY <2>1, <2>3 DEF Frontier
      <4>2. \A o \in flags : ~(o <= n)
        BY <1>1, <4>1, Numbers DEF Orderly, Typed
      <4> QED BY Zenon, <2>1, <2>3, <4>2 DEF Undone
    <3> QED BY Zenon, <2>1, <3>1 DEF Undone
  <2> QED BY <2>2, <2>3 DEF FinalizedExactlyOnce, CleanExit
<1> QED BY <1>1, AlwaysOrderly, PTL

\* main enters its loop, which calls rclc_executor_spin_some, with all of the
\* deployment in place.
THEOREM ReadyToSpin == Spec => []SpinIsReady
<1>1. ASSUME Orderly, pc = "spin"
      PROVE  live = Support..Last /\ handles = Subscription
  <2>1. PICK n \in Support - 1..Executor : Frontier(n) /\ Undone(n)
    BY <1>1 DEF Orderly, Cleaned
  <2>2. n = Executor /\ flags = Support..Last /\ handles = Subscription
    BY <1>1, <2>1 DEF Orderly, Built, Frontier
  <2>3. ~failed
    BY Zenon, <1>1 DEF Orderly, Flagged
  <2> QED BY <1>1, <2>1, <2>2, <2>3, AllAlive DEF Orderly
<1>2. ASSUME Orderly, pc = "spin" PROVE prepared \/ Subscription = {}
  BY Zenon, <1>2 DEF Orderly, Flagged
<1>3. Orderly => SpinIsReady
  BY Zenon, <1>1, <1>2 DEF SpinIsReady
<1> QED BY <1>3, AlwaysOrderly, PTL

\* Objects are finalised in the reverse of the order they depend on each
\* other in, by the error paths of ros2z_deployment_init and by the cleanup
\* label alike.
THEOREM DependentsEndFirst == Spec => DependentsFirst
<1> DEFINE Ordered ==
      \A o \in Object : finalized'[o] > finalized[o] =>
        \A d \in Dependents(o) \cap live : finalized[d] > 0
<1>1. ASSUME Orderly, Next PROVE [Ordered]_deployment
  <2> USE Numbers
  <2>1. PICK n \in Support - 1..Executor : Frontier(n) /\ Undone(n)
    BY <1>1 DEF Orderly, Cleaned
  <2>2. ASSUME NEW o \in Object, n = o, Fini(o) PROVE Ordered
    <3>1. SUFFICES ASSUME NEW x \in Object, finalized'[x] > finalized[x],
                          NEW d \in Dependents(x) \cap live
                   PROVE  finalized[d] > 0
      OBVIOUS
    <3>2. x = o
      <4>1. finalized' = [finalized EXCEPT ![o] = @ + 1]
        BY Zenon, <2>2 DEF Fini
      <4>2. finalized \in [Object -> Nat]
        BY <1>1 DEF Orderly, Typed
      <4> QED BY SMTT(60), <3>1, <4>1, <4>2
    <3>3. d \in flags /\ d \in Object
      BY Zenon, <1>1, <2>1, <3>1 DEF Undone, Orderly, Typed
    <3>4. handles \subseteq Endpoint
      BY <1>1 DEF Orderly, Typed
    <3>5. \/ x = Support /\ d # Support
          \/ x = Node /\ d # Support /\ d # Node
          \/ x \in Endpoint /\ d = Executor
      BY Zenon, <3>1, <3>4 DEF Dependents
    <3>6. d > x
      BY <3>3, <3>5
    <3> QED BY <2>1, <2>2, <3>2, <3>3, <3>6 DEF Undone
  <2>3. ASSUME finalized' = finalized PROVE Ordered
    BY SMTT(30), <1>1, <2>3 DEF Orderly, Typed
  <2>4. CASE FiniObject
    <3>1. n = at /\ at \in Object
      BY <2>1, <2>4 DEF FiniObject, Frontier
    <3> QED BY <2>2, <2>3, <2>4, <3>1 DEF FiniObject
  <2>5. CASE SupportFini
    <3>1. n = Support /\ Support \in Object
      BY SMTT(60), <2>1, <2>5 DEF SupportFini, Frontier
    <3> QED BY <2>2, <2>3, <2>5, <3>1 DEF SupportFini
  <2>6. \/ FiniObject \/ SupportFini \/ finalized' = finalized
    BY Zenon, <1>1 DEF Next, Network, Connect, Deploy, StartProbe, Probe, Finished,
                vars, deployment, Step, SupportInit, ObjectInit, ObjectsDone,
                AddSubscription, ExecutorPrepare, ControlStart, Cleanup
  <2> QED BY <2>3, <2>4, <2>5, <2>6
<1>2. ASSUME Orderly, [Next]_vars PROVE [Ordered]_deployment
  BY <1>1, <1>2 DEF vars
<1> QED BY <1>2, AlwaysOrderly, PTL DEF Spec, DependentsFirst

-----------------------------------------------------------------------------
(***************************************************************************)
(* Type correctness of main and of the station.                            *)
(***************************************************************************)

Flags ==
  /\ prepared \in BOOLEAN /\ deployment_initialized \in BOOLEAN
  /\ control_started \in BOOLEAN /\ failed \in BOOLEAN

LEMMA FlagsStep == ASSUME Flags, Step PROVE Flags'
<1>1. ASSUME NEW o, Fini(o) PROVE failed' \in BOOLEAN
  BY Zenon, <1>1 DEF Fini, Flags
<1> QED BY Zenon, <1>1
        DEF Step, SupportInit, ObjectInit, ObjectsDone, AddSubscription,
            ExecutorPrepare, ControlStart, Cleanup, FiniObject, SupportFini,
            Flags

\* The statuses of both threads, whichever one moves.
LEMMA ThreadMoves ==
  ASSUME thread \in [main : W!MainPoint, probe : W!ProbePoint], NEW x
  PROVE  /\ x \in W!MainPoint => 
              /\ [thread EXCEPT !["main"] = x].main = x
              /\ [thread EXCEPT !["main"] = x].probe = thread.probe
              /\ [thread EXCEPT !["main"] = x]
                   \in [main : W!MainPoint, probe : W!ProbePoint]
         /\ x \in W!ProbePoint => 
              /\ [thread EXCEPT !["probe"] = x].probe = x
              /\ [thread EXCEPT !["probe"] = x].main = thread.main
              /\ [thread EXCEPT !["probe"] = x]
                   \in [main : W!MainPoint, probe : W!ProbePoint]
OBVIOUS

LEMMA StationTypeInit == ASSUME W!Init PROVE W!TypeOK
<1>1. events \in Seq(W!Event)
  BY DEF W!Init
<1>2. sem \in [W!Sem -> 0..1] /\ drops \in 0..MaxDrops
  BY MainAssumption DEF W!Init
<1>3. thread \in [main : W!MainPoint, probe : W!ProbePoint]
  BY DEF W!Init, W!MainPoint, W!ProbePoint
<1> QED BY ZenonT(60), <1>1, <1>2, <1>3 DEF W!Init, W!TypeOK

\* A thread takes the step that Ask or Take ends with.
LEMMA AskTyped ==
  ASSUME W!TypeOK, NEW r \in {"connect", "disconnect"}, NEW t, NEW x, NEW y,
         W!Ask(r, t, x, y), since' \subseteq {"down", "up", "address"},
         \/ t = "main" /\ x \in W!MainPoint /\ y \in W!MainPoint
         \/ t = "probe" /\ x \in W!ProbePoint /\ y \in W!ProbePoint
  PROVE  W!TypeOK'
<1>1. thread' \in [main : W!MainPoint, probe : W!ProbePoint]
  BY ThreadMoves DEF W!Ask, W!TypeOK
<1>2. /\ asked' \in {"none", "connect", "disconnect"}
      /\ UNCHANGED <<link, address, wanted, events, sem, drops>>
  BY DEF W!Ask, W!TypeOK
<1> QED BY <1>1, <1>2 DEF W!TypeOK

LEMMA TakeTyped ==
  ASSUME W!TypeOK, NEW s \in W!Sem, NEW t, NEW x, NEW y, W!Take(s, t, x, y),
         \/ t = "main" /\ x \in W!MainPoint /\ y \in W!MainPoint
         \/ t = "probe" /\ x \in W!ProbePoint /\ y \in W!ProbePoint
  PROVE  W!TypeOK'
<1>1. thread' \in [main : W!MainPoint, probe : W!ProbePoint]
  BY ThreadMoves DEF W!Take, W!TypeOK
<1>2. /\ sem' \in [W!Sem -> 0..1]
      /\ UNCHANGED <<link, address, wanted, asked, events, drops, since>>
  BY DEF W!Take, W!TypeOK, W!driver
<1> QED BY <1>1, <1>2 DEF W!TypeOK

LEMMA AnswerTyped == ASSUME W!TypeOK, W!Answer PROVE W!TypeOK'
<1>1. wanted' \in BOOLEAN
  BY Zenon DEF W!Answer
<1>2. /\ link' \in {"down", "up"} /\ asked' = "none"
      /\ since' \subseteq {"down", "up", "address"}
      /\ UNCHANGED <<sem, thread, drops>>
  BY ZenonT(60) DEF W!Answer, W!TypeOK, W!LinkUp, W!LinkDown
<1>3. address' \in BOOLEAN
  BY Zenon DEF W!Answer, W!TypeOK, W!LinkUp, W!LinkDown
<1>4. \E e \in W!Event : events' = Append(events, e)
  BY DEF W!Answer, W!LinkUp, W!LinkDown, W!Event
<1>5. events' \in Seq(W!Event)
  BY <1>4 DEF W!TypeOK
<1> QED BY <1>1, <1>2, <1>3, <1>5 DEF W!TypeOK

LEMMA DriverTyped ==
  ASSUME W!TypeOK, W!Dhcp \/ W!Drop \/ W!Recover PROVE W!TypeOK'
<1>1. drops' \in 0..MaxDrops
  BY MainAssumption DEF W!TypeOK, W!Dhcp, W!Drop, W!Recover
<1>2. /\ link' \in {"down", "up"} /\ address' \in BOOLEAN
      /\ since' \subseteq {"down", "up", "address"}
      /\ UNCHANGED <<wanted, asked, sem, thread>>
  BY ZenonT(60) DEF W!TypeOK, W!Dhcp, W!Drop, W!Recover, W!LinkUp, W!LinkDown
<1>3. \E e \in W!Event : events' = Append(events, e)
  BY DEF W!Dhcp, W!Drop, W!Recover, W!LinkUp, W!LinkDown, W!Event
<1>4. events' \in Seq(W!Event)
  BY <1>3 DEF W!TypeOK
<1> QED BY <1>1, <1>2, <1>4 DEF W!TypeOK

LEMMA StationTypeStep ==
  ASSUME W!TypeOK, [Next]_vars PROVE W!TypeOK'
<1> USE DEF W!MainPoint, W!ProbePoint
<1>1. CASE W!Answer
  BY <1>1, AnswerTyped
<1>2. CASE W!Dhcp \/ W!Drop \/ W!Recover
  BY <1>2, DriverTyped
<1>3. CASE W!Handle
  <2>1. events' \in Seq(W!Event) /\ sem' \in [W!Sem -> 0..1]
    BY <1>3 DEF W!Handle, W!TypeOK
  <2> QED BY <1>3, <2>1 DEF W!Handle, W!TypeOK
<1>4. CASE W!connect_network
  <2>1. CASE W!Configure
    <3>1. thread' \in [main : W!MainPoint, probe : W!ProbePoint]
      BY <2>1, ThreadMoves DEF W!Configure, W!TypeOK
    <3> QED BY <2>1, <3>1 DEF W!Configure, W!TypeOK, W!driver
  <2>2. CASE W!Ask("connect", "main", "connected", "failed") /\ UNCHANGED since
    BY ZenonT(60), <2>2, AskTyped DEF W!TypeOK
  <2>3. CASE W!Take("wifi_connected", "main", "ipv4", "failed")
    BY <2>3, TakeTyped DEF W!Sem
  <2>4. CASE W!Take("ipv4_ready", "main", "configure", "failed")
    BY <2>4, TakeTyped DEF W!Sem
  <2> QED BY Zenon, <1>4, <2>1, <2>2, <2>3, <2>4 DEF W!connect_network
<1>5. CASE W!start_wifi_reconnect_probe
  <2>1. thread' \in [main : W!MainPoint, probe : W!ProbePoint]
    BY <1>5, ThreadMoves DEF W!start_wifi_reconnect_probe, W!TypeOK
  <2> QED BY <1>5, <2>1 DEF W!start_wifi_reconnect_probe, W!TypeOK, W!driver
<1>6. CASE W!wifi_reconnect_probe
  <2>1. CASE W!Ask("disconnect", "probe", "disconnected", "error") /\ since' = {}
    BY <2>1, AskTyped
  <2>2. CASE W!Take("wifi_disconnected", "probe", "offline", "error")
    BY <2>2, TakeTyped DEF W!Sem
  <2>3. CASE W!Ask("connect", "probe", "connected", "error") /\ UNCHANGED since
    BY ZenonT(60), <2>3, AskTyped DEF W!TypeOK
  <2>4. CASE W!Take("wifi_connected", "probe", "ipv4", "error")
    BY <2>4, TakeTyped DEF W!Sem
  <2>5. CASE W!Take("ipv4_ready", "probe", "reconnected", "error")
    BY <2>5, TakeTyped DEF W!Sem
  <2> QED BY Zenon, <1>6, <2>1, <2>2, <2>3, <2>4, <2>5
          DEF W!wifi_reconnect_probe
<1>7. CASE UNCHANGED wifi
  BY <1>7 DEF wifi, W!TypeOK
<1> QED BY Zenon, <1>1, <1>2, <1>3, <1>4, <1>5, <1>6, <1>7
        DEF Next, Network, Connect, Deploy, StartProbe, Probe, Finished, vars

\* Every variable of main and of the station stays in its type: whatever
\* calls fail, every object is one of the deployment's, and no semaphore is
\* given beyond its limit of one.
THEOREM TypeCorrect == Spec => []TypeOK
<1>1. Init => W!TypeOK /\ Flags
  BY ZenonT(60), StationTypeInit DEF Init, DeploymentInit, Flags
<1>2. W!TypeOK /\ [Next]_vars => W!TypeOK'
  BY StationTypeStep
<1>3. Flags /\ [Next]_vars => Flags'
  <2>1. CASE UNCHANGED deployment
    BY Zenon, <2>1 DEF Flags, deployment
  <2>2. CASE Step
    BY Zenon, <2>2, FlagsStep
  <2> QED BY Zenon, <2>1, <2>2
          DEF Next, Network, Connect, Deploy, StartProbe, Probe, Finished, vars
<1>4. Orderly /\ W!TypeOK /\ Flags => TypeOK
  BY DEF Orderly, Typed, Flags, TypeOK, DeploymentTypeOK
<1> QED BY <1>1, <1>2, <1>3, <1>4, AlwaysOrderly, PTL DEF Spec

-----------------------------------------------------------------------------
(***************************************************************************)
(* The tokens of the station's three semaphores: given, or in an event     *)
(* that its handler has not seen yet.                                      *)
(***************************************************************************)

Raised(s) == \E i \in 1..Len(events) : s \in W!SemaphoreOf(events[i])

Clear(s) == sem[s] = 0 /\ ~Raised(s)

Once(s) ==
  /\ sem[s] = 0 \/ ~Raised(s)
  /\ \A i, j \in 1..Len(events) :
       s \in W!SemaphoreOf(events[i]) /\ s \in W!SemaphoreOf(events[j]) => i = j

Tokens == \A s \in W!Sem : Once(s)

LEMMA Handlers ==
  /\ W!SemaphoreOf("connect") = {"wifi_connected"}
  /\ W!SemaphoreOf("disconnect") = {"wifi_disconnected"}
  /\ W!SemaphoreOf("addr_add") = {"ipv4_ready"}
  /\ W!SemaphoreOf("connect_failed") = {}
  /\ W!SemaphoreOf("disconnect_failed") = {}
BY DEF W!SemaphoreOf

\* An event is raised of whose semaphore there is no token.
LEMMA RaiseOne ==
  ASSUME events \in Seq(W!Event), Tokens, NEW e \in W!Event,
         events' = Append(events, e), sem' = sem,
         \A s \in W!SemaphoreOf(e) : Clear(s)
  PROVE  /\ events' \in Seq(W!Event) /\ Tokens'
         /\ \A s \in W!Sem \ W!SemaphoreOf(e) : Clear(s) => Clear(s)'
<1>1. /\ events' \in Seq(W!Event) /\ Len(events') = Len(events) + 1
      /\ \A i \in 1..Len(events) : events'[i] = events[i]
      /\ events'[Len(events) + 1] = e /\ Len(events) \in Nat
  OBVIOUS
<1>2. \A i \in 1..Len(events') :
        i \in 1..Len(events) \/ (i = Len(events) + 1 /\ events'[i] = e)
  BY <1>1
<1>3. ASSUME NEW s \in W!Sem \ W!SemaphoreOf(e)
      PROVE  /\ Raised(s)' => Raised(s)
             /\ Once(s)'
  <2>1. Raised(s)' => Raised(s)
    BY <1>1, <1>2 DEF Raised
  <2>2. \A i \in 1..Len(events') :
          s \in W!SemaphoreOf(events'[i]) =>
            i \in 1..Len(events) /\ s \in W!SemaphoreOf(events[i])
    BY <1>1, <1>2
  <2>3. Once(s)
    BY DEF Tokens
  <2> QED BY Zenon, <2>1, <2>2, <2>3 DEF Once
<1>4. ASSUME NEW s \in W!SemaphoreOf(e) PROVE Once(s)'
  <2>1. \A i \in 1..Len(events) : s \notin W!SemaphoreOf(events'[i])
    BY <1>1 DEF Clear, Raised
  <2>2. \A i \in 1..Len(events') :
          s \in W!SemaphoreOf(events'[i]) => i = Len(events) + 1
    BY <1>2, <2>1
  <2>3. sem'[s] = 0
    BY DEF Clear
  <2> QED BY Zenon, <2>2, <2>3 DEF Once
<1>5. Tokens'
  BY Zenon, <1>3, <1>4 DEF Tokens
<1>6. \A s \in W!Sem \ W!SemaphoreOf(e) : Clear(s) => Clear(s)'
  BY Zenon, <1>3 DEF Clear
<1> QED BY <1>1, <1>5, <1>6

\* The next event is handled: its token moves into the semaphore.
LEMMA HandleOne ==
  ASSUME events \in Seq(W!Event), sem \in [W!Sem -> 0..1], Tokens, W!Handle
  PROVE  /\ events' \in Seq(W!Event) /\ sem' \in [W!Sem -> 0..1] /\ Tokens'
         /\ \A s \in W!Sem : Clear(s) => Clear(s)'
<1>1. /\ events # <<>> /\ events' = Tail(events)
      /\ sem' = [s \in W!Sem |->
                   IF s \in W!SemaphoreOf(Head(events)) THEN 1 ELSE sem[s]]
  BY Zenon DEF W!Handle
<1>2. /\ events' \in Seq(W!Event) /\ Len(events') = Len(events) - 1
      /\ \A i \in 1..Len(events') : events'[i] = events[i + 1]
      /\ Head(events) = events[1] /\ Len(events) \in Nat /\ Len(events) >= 1
  BY <1>1
<1>3. sem' \in [W!Sem -> 0..1]
  BY <1>1
<1>4. ASSUME NEW s \in W!Sem
      PROVE  Once(s)' /\ (Clear(s) => Clear(s)')
  <2>1. Once(s)
    BY DEF Tokens
  <2>2. Raised(s)' => Raised(s)
    BY <1>2 DEF Raised
  <2>3. \A i, j \in 1..Len(events') :
          s \in W!SemaphoreOf(events'[i]) /\ s \in W!SemaphoreOf(events'[j])
            => i = j
    <3>1. SUFFICES ASSUME NEW i \in 1..Len(events'), NEW j \in 1..Len(events'),
                          s \in W!SemaphoreOf(events'[i]),
                          s \in W!SemaphoreOf(events'[j])
                   PROVE  i = j
      OBVIOUS
    <3>2. /\ i + 1 \in 1..Len(events) /\ s \in W!SemaphoreOf(events[i + 1])
          /\ j + 1 \in 1..Len(events) /\ s \in W!SemaphoreOf(events[j + 1])
      BY <1>2, <3>1
    <3>3. i + 1 = j + 1
      BY Zenon, <2>1, <3>2 DEF Once
    <3> QED BY <1>2, <3>3
  <2>4. CASE s \in W!SemaphoreOf(Head(events))
    <3>1. Raised(s)
      BY <1>2, <2>4 DEF Raised
    <3>2. ~Raised(s)'
      <4>1. SUFFICES ASSUME NEW i \in 1..Len(events'),
                            s \in W!SemaphoreOf(events'[i])
                     PROVE  FALSE
        BY DEF Raised
      <4>2. /\ i + 1 \in 1..Len(events) /\ s \in W!SemaphoreOf(events[i + 1])
            /\ 1 \in 1..Len(events) /\ s \in W!SemaphoreOf(events[1])
        BY <1>2, <2>4, <4>1
      <4>3. i + 1 = 1
        BY Zenon, <2>1, <4>2 DEF Once
      <4> QED BY <1>2, <4>3
    <3> QED BY Zenon, <2>3, <3>1, <3>2 DEF Once, Clear
  <2>5. CASE s \notin W!SemaphoreOf(Head(events))
    <3>1. sem'[s] = sem[s]
      BY <1>1, <2>5
    <3> QED BY Zenon, <2>1, <2>2, <2>3, <3>1 DEF Once, Clear
  <2> QED BY <2>4, <2>5
<1> QED BY Zenon, <1>2, <1>3, <1>4 DEF Tokens

\* A token is taken.
LEMMA TakeOne ==
  ASSUME sem \in [W!Sem -> 0..1], Tokens, NEW s \in W!Sem, sem[s] = 1,
         sem' = [sem EXCEPT ![s] = 0], events' = events
  PROVE  Tokens' /\ Clear(s)' /\ \A x \in W!Sem : Clear(x) => Clear(x)'
<1>1. \A x \in W!Sem : Raised(x)' <=> Raised(x)
  BY Zenon DEF Raised
<1>2. sem'[s] = 0 /\ \A x \in W!Sem \ {s} : sem'[x] = sem[x]
  OBVIOUS
<1>3. ~Raised(s)
  BY DEF Tokens, Once
<1>4. \A x \in W!Sem : Once(x)'
  BY Zenon, <1>1, <1>2 DEF Tokens, Once
<1>5. \A x \in W!Sem : Clear(x) => Clear(x)'
  BY Zenon, <1>1, <1>2 DEF Clear
<1> QED BY Zenon, <1>1, <1>2, <1>3, <1>4, <1>5 DEF Tokens, Clear

LEMMA SameTokens ==
  ASSUME sem' = sem, events' = events
  PROVE  (Tokens' <=> Tokens) /\ \A x : Clear(x)' <=> Clear(x)
BY Zenon DEF Tokens, Once, Clear, Raised

-----------------------------------------------------------------------------
(***************************************************************************)
(* The phases of the station while no access point is lost unasked.        *)
(***************************************************************************)

\* The first connection, up to the probe's disconnect: main has taken the
\* tokens of what it has waited for.
First ==
  /\ thread.main = "request" => asked = "none" /\ link = "down"
  /\ asked = "connect" => link = "down"
  /\ link = "down" =>
       ~address /\ Clear("wifi_connected") /\ Clear("ipv4_ready")
  /\ link = "up" => asked = "none"
  /\ ~address => Clear("ipv4_ready")
  /\ Clear("wifi_disconnected")
  /\ thread.main \in {"ipv4", "configure", "ready"} =>
       link = "up" /\ Clear("wifi_connected")
  /\ thread.main \in {"configure", "ready"} => address /\ Clear("ipv4_ready")

\* The disconnection that the probe asked for: no token of the first
\* connection is left.
Off ==
  /\ Clear("wifi_connected") /\ Clear("ipv4_ready")
  /\ link = "up" => /\ since = {} /\ address
                    /\ asked \in {"none", "disconnect"}
                    /\ Clear("wifi_disconnected")
  /\ link = "down" => since = {"down"} /\ ~address /\ asked = "none"

\* The second connection: a token is one of this connection.
Back ==
  /\ Clear("wifi_disconnected")
  /\ link = "down" => /\ ~address /\ since = {"down"}
                      /\ Clear("wifi_connected") /\ Clear("ipv4_ready")
  /\ link = "up" => asked = "none" /\ {"down", "up"} \subseteq since
  /\ asked \in {"none", "connect"}
  /\ address => "address" \in since
  /\ ~address => Clear("ipv4_ready")

Phases ==
  /\ thread.probe \notin {"reconnected", "error"} => Tokens
  /\ thread.probe \in {"none", "sleep"} => First
  /\ thread.probe = "disconnected" => Off
  /\ thread.probe = "offline" =>
       Off /\ Clear("wifi_disconnected") /\ link = "down"
  /\ thread.probe = "connected" => Back
  /\ thread.probe = "ipv4" => Back /\ link = "up"
  /\ thread.probe = "reconnected" => since = {"down", "up", "address"}

\* The inductive invariant of the station.
Probed ==
  /\ thread.probe # "none" => thread.main = "ready"
  /\ drops = 0 => Phases

LEMMA ProbedInit == ASSUME W!Init PROVE Probed
<1>1. /\ events = <<>> /\ sem = [s \in W!Sem |-> 0]
      /\ thread.main = "request" /\ thread.probe = "none"
      /\ link = "down" /\ address = FALSE /\ asked = "none"
  BY DEF W!Init
<1>2. Len(events) = 0
  BY <1>1
<1>3. \A s \in W!Sem : ~Raised(s) /\ Clear(s) /\ Once(s)
  BY <1>1, <1>2 DEF Raised, Clear, Once
<1>4. First
  BY <1>1, <1>3 DEF First, W!Sem
<1> QED BY <1>1, <1>3, <1>4 DEF Probed, Phases, Tokens

\* An event is raised while the probe is not done, or it is done.
LEMMA ProbedRaise ==
  ASSUME W!TypeOK, NEW e \in W!Event, events' = Append(events, e),
         sem' = sem, thread' = thread, since \subseteq since', W!TypeOK',
         Phases,
         thread.probe \notin {"reconnected", "error"} =>
           \A s \in W!SemaphoreOf(e) : Clear(s),
         Tokens' /\ (\A s \in W!Sem \ W!SemaphoreOf(e) : Clear(s) => Clear(s)')
           => /\ thread.probe \in {"none", "sleep"} => First'
              /\ thread.probe = "disconnected" => Off'
              /\ thread.probe = "offline" =>
                   Off' /\ Clear("wifi_disconnected")' /\ link' = "down"
              /\ thread.probe = "connected" => Back'
              /\ thread.probe = "ipv4" => Back' /\ link' = "up"
  PROVE  Phases'
<1>1. CASE thread.probe \in {"reconnected", "error"}
  <2>1. thread.probe = "reconnected" => since' = {"down", "up", "address"}
    BY ZenonT(60) DEF Phases, W!TypeOK
  <2> QED BY <1>1, <2>1 DEF Phases
<1>2. CASE thread.probe \notin {"reconnected", "error"}
  <2>1. /\ Tokens'
        /\ \A s \in W!Sem \ W!SemaphoreOf(e) : Clear(s) => Clear(s)'
    BY <1>2, RaiseOne DEF Phases, W!TypeOK
  <2> QED BY <1>2, <2>1 DEF Phases
<1> QED BY <1>1, <1>2

LEMMA ProbedAnswer ==
  ASSUME W!TypeOK, Phases, W!Answer, thread.probe # "none" => thread.main = "ready"
  PROVE  Phases'
<1> USE Handlers
<1>1. sem' = sem /\ thread' = thread /\ asked' = "none" /\ asked # "none"
  BY Zenon DEF W!Answer
<1>2. W!TypeOK'
  BY AnswerTyped
<1>3. CASE asked = "connect" /\ link = "down" /\ W!LinkUp("connect")
  <2>1. /\ link' = "up" /\ address' = address /\ since' = since \cup {"up"}
        /\ events' = Append(events, "connect")
    BY <1>3 DEF W!LinkUp
  <2>2. thread.probe \notin {"disconnected", "offline"}
    BY <1>3 DEF Phases, Off
  <2>3. thread.probe # "ipv4"
    BY <1>3 DEF Phases
  <2>4. /\ thread.probe \in {"none", "sleep"} => First
        /\ thread.probe = "connected" => Back
    BY DEF Phases
  <2>5. thread.probe \notin {"reconnected", "error"} => Clear("wifi_connected")
    BY <1>3, <2>2, <2>3, <2>4 DEF First, Back, W!TypeOK, W!ProbePoint
  <2>6. ASSUME \A s \in W!Sem \ {"wifi_connected"} : Clear(s) => Clear(s)'
        PROVE  /\ thread.probe \in {"none", "sleep"} => First'
               /\ thread.probe = "connected" => Back'
    <3>1. /\ Clear("ipv4_ready") => Clear("ipv4_ready")'
          /\ Clear("wifi_disconnected") => Clear("wifi_disconnected")'
      BY <2>6 DEF W!Sem
    <3>2. First => First'
      BY <1>1, <1>3, <2>1, <3>1 DEF First
    <3>3. Back => Back'
      BY <1>1, <1>3, <2>1, <3>1 DEF Back
    <3> QED BY <2>4, <3>2, <3>3
  <2> QED BY <1>1, <1>2, <2>1, <2>2, <2>3, <2>5, <2>6, ProbedRaise DEF W!Event
<1>4. CASE asked = "disconnect" /\ link = "up" /\ W!LinkDown("disconnect")
  <2>1. /\ link' = "down" /\ address' = FALSE /\ since' = since \cup {"down"}
        /\ events' = Append(events, "disconnect")
    BY <1>4 DEF W!LinkDown
  <2>2. thread.probe \notin {"none", "sleep", "offline", "connected", "ipv4"}
    BY <1>4 DEF Phases, First, Back
  <2>3. thread.probe = "disconnected" => Off
    BY DEF Phases
  <2>4. thread.probe \notin {"reconnected", "error"} => Clear("wifi_disconnected")
    BY <1>4, <2>2, <2>3 DEF Off, W!TypeOK, W!ProbePoint
  <2>5. ASSUME \A s \in W!Sem \ {"wifi_disconnected"} : Clear(s) => Clear(s)'
        PROVE  thread.probe = "disconnected" => Off'
    <3>1. /\ Clear("ipv4_ready") => Clear("ipv4_ready")'
          /\ Clear("wifi_connected") => Clear("wifi_connected")'
      BY <2>5 DEF W!Sem
    <3> QED BY <1>1, <1>4, <2>1, <2>3, <3>1 DEF Off
  <2> QED BY <1>1, <1>2, <2>1, <2>2, <2>4, <2>5, ProbedRaise DEF W!Event
<1>5. CASE /\ events' = Append(events, IF asked = "connect" THEN "connect_failed"
                                       ELSE "disconnect_failed")
           /\ UNCHANGED <<link, address, since>>
  <2>1. PICK e \in {"connect_failed", "disconnect_failed"} :
               events' = Append(events, e)
    BY <1>5
  <2>2. W!SemaphoreOf(e) = {} /\ e \in W!Event
    BY DEF W!Event
  <2>3. ASSUME \A s \in W!Sem : Clear(s) => Clear(s)'
        PROVE  (First => First') /\ (Off => Off') /\ (Back => Back')
               /\ (Clear("wifi_disconnected") => Clear("wifi_disconnected")')
    <3>1. /\ Clear("ipv4_ready") => Clear("ipv4_ready")'
          /\ Clear("wifi_connected") => Clear("wifi_connected")'
          /\ Clear("wifi_disconnected") => Clear("wifi_disconnected")'
      BY <2>3 DEF W!Sem
    <3>2. First => First'
      BY <1>1, <1>5, <3>1 DEF First
    <3>3. Off => Off'
      BY <1>1, <1>5, <3>1 DEF Off
    <3>4. Back => Back'
      BY <1>1, <1>5, <3>1 DEF Back
    <3> QED BY <3>1, <3>2, <3>3, <3>4
  <2>4. ASSUME \A s \in W!Sem : Clear(s) => Clear(s)'
        PROVE  /\ thread.probe \in {"none", "sleep"} => First'
               /\ thread.probe = "disconnected" => Off'
               /\ thread.probe = "offline" =>
                    Off' /\ Clear("wifi_disconnected")' /\ link' = "down"
               /\ thread.probe = "connected" => Back'
               /\ thread.probe = "ipv4" => Back' /\ link' = "up"
    BY Zenon, <1>5, <2>3, <2>4 DEF Phases
  <2> QED BY <1>1, <1>2, <1>5, <2>1, <2>2, <2>4, ProbedRaise
<1> QED BY Zenon, <1>3, <1>4, <1>5 DEF W!Answer

LEMMA ProbedDhcp ==
  ASSUME W!TypeOK, Phases, W!Dhcp PROVE Phases'
<1> USE Handlers
<1>1. /\ sem' = sem /\ thread' = thread /\ asked' = asked /\ link' = link
      /\ link = "up" /\ ~address /\ address' = TRUE
      /\ since' = since \cup {"address"}
      /\ events' = Append(events, "addr_add")
  BY Zenon DEF W!Dhcp
<1>2. W!TypeOK'
  BY DriverTyped
<1>3. thread.probe \notin {"disconnected", "offline"}
  BY <1>1 DEF Phases, Off
<1>4. /\ thread.probe \in {"none", "sleep"} => First
      /\ thread.probe \in {"connected", "ipv4"} => Back
  BY DEF Phases
<1>5. thread.probe \notin {"reconnected", "error"} => Clear("ipv4_ready")
  BY <1>1, <1>3, <1>4 DEF First, Back, W!TypeOK, W!ProbePoint
<1>6. ASSUME \A s \in W!Sem \ {"ipv4_ready"} : Clear(s) => Clear(s)'
      PROVE  /\ thread.probe \in {"none", "sleep"} => First'
             /\ thread.probe \in {"connected", "ipv4"} => Back'
  <2>1. /\ Clear("wifi_connected") => Clear("wifi_connected")'
        /\ Clear("wifi_disconnected") => Clear("wifi_disconnected")'
    BY <1>6 DEF W!Sem
  <2>2. First => First'
    BY <1>1, <2>1 DEF First
  <2>3. Back => Back'
    BY <1>1, <2>1 DEF Back
  <2> QED BY <1>4, <2>2, <2>3
<1> QED BY <1>1, <1>2, <1>3, <1>5, <1>6, ProbedRaise DEF W!Event

\* A step that leaves the link and the probe alone, and makes no token.
LEMMA ProbedKept ==
  ASSUME Phases, UNCHANGED <<link, address, asked, thread, since>>,
         thread.probe \notin {"reconnected", "error"} =>
           Tokens' /\ \A s \in W!Sem : Clear(s) => Clear(s)'
  PROVE  Phases'
<1>1. CASE thread.probe \in {"reconnected", "error"}
  BY <1>1 DEF Phases
<1>2. CASE thread.probe \notin {"reconnected", "error"}
  <2>1. /\ Clear("ipv4_ready") => Clear("ipv4_ready")'
        /\ Clear("wifi_connected") => Clear("wifi_connected")'
        /\ Clear("wifi_disconnected") => Clear("wifi_disconnected")'
    BY <1>2 DEF W!Sem
  <2>2. First => First'
    BY Zenon, <2>1 DEF First
  <2>3. Off => Off'
    BY Zenon, <2>1 DEF Off
  <2>4. Back => Back'
    BY Zenon, <2>1 DEF Back
  <2> QED BY Zenon, <1>2, <2>1, <2>2, <2>3, <2>4 DEF Phases
<1> QED BY <1>1, <1>2

LEMMA ProbedHandle ==
  ASSUME W!TypeOK, Phases, W!Handle PROVE Phases'
<1>1. UNCHANGED <<link, address, asked, thread, since>>
  BY Zenon DEF W!Handle
<1>2. thread.probe \notin {"reconnected", "error"} =>
        Tokens' /\ \A s \in W!Sem : Clear(s) => Clear(s)'
  BY HandleOne DEF Phases, W!TypeOK
<1> QED BY <1>1, <1>2, ProbedKept

\* main waits for a token and takes it, or gives up.
LEMMA Taken ==
  ASSUME W!TypeOK, Tokens, NEW s \in W!Sem, NEW t, NEW x, NEW y,
         W!Take(s, t, x, y)
  PROVE  /\ UNCHANGED <<link, address, wanted, asked, events, drops, since>>
         /\ Tokens' /\ \A r \in W!Sem : Clear(r) => Clear(r)'
         /\ \/ sem[s] = 1 /\ thread' = [thread EXCEPT ![t] = x] /\ Clear(s)'
            \/ thread' = [thread EXCEPT ![t] = y]
<1>1. UNCHANGED <<link, address, wanted, asked, events, drops, since>>
  BY Zenon DEF W!Take, W!driver
<1>2. CASE /\ sem[s] = 1 /\ sem' = [sem EXCEPT ![s] = 0]
           /\ thread' = [thread EXCEPT ![t] = x]
  BY Zenon, <1>1, <1>2, TakeOne DEF W!TypeOK
<1>3. CASE sem' = sem /\ thread' = [thread EXCEPT ![t] = y]
  BY Zenon, <1>1, <1>3, SameTokens
<1> QED BY Zenon, <1>1, <1>2, <1>3 DEF W!Take

LEMMA ProbedMain ==
  ASSUME W!TypeOK, Phases, W!connect_network,
         thread.probe # "none" => thread.main = "ready"
  PROVE  Phases' /\ thread'.probe = "none"
<1> USE DEF W!MainPoint, W!Sem
<1>1. thread.probe = "none" /\ First /\ Tokens
  <2>1. thread.main # "ready"
    BY DEF W!connect_network, W!Configure
  <2> QED BY <2>1 DEF Phases
<1>2. ASSUME NEW x \in W!MainPoint, thread' = [thread EXCEPT !["main"] = x]
      PROVE  thread'.main = x /\ thread'.probe = "none"
  BY <1>1, <1>2, ThreadMoves DEF W!TypeOK
<1>3. ASSUME Tokens', First', thread'.probe = "none" PROVE Phases'
  BY <1>3 DEF Phases
<1>4. CASE /\ thread.main = "request"
           /\ W!Ask("connect", "main", "connected", "failed")
  <2>1. /\ UNCHANGED <<link, address, events, sem>>
        /\ \/ asked' = "connect" \/ asked' = asked
        /\ \E x \in {"connected", "failed"} :
             thread' = [thread EXCEPT !["main"] = x]
    BY Zenon, <1>4 DEF W!Ask
  <2>2. thread'.main \in {"connected", "failed"} /\ thread'.probe = "none"
    BY ZenonT(60), <1>2, <2>1
  <2>3. Tokens' /\ \A x : Clear(x)' <=> Clear(x)
    BY <1>1, <2>1, SameTokens
  <2>4. First'
    BY <1>1, <1>4, <2>1, <2>2, <2>3 DEF First
  <2> QED BY <1>3, <2>2, <2>3, <2>4
<1>5. CASE /\ thread.main = "connected"
           /\ W!Take("wifi_connected", "main", "ipv4", "failed")
  <2>1. /\ UNCHANGED <<link, address, asked>> /\ Tokens'
        /\ \A r \in W!Sem : Clear(r) => Clear(r)'
        /\ \/ /\ sem["wifi_connected"] = 1
              /\ thread' = [thread EXCEPT !["main"] = "ipv4"]
              /\ Clear("wifi_connected")'
           \/ thread' = [thread EXCEPT !["main"] = "failed"]
    BY <1>1, <1>5, Taken
  <2>2. /\ thread'.probe = "none"
        /\ \/ /\ ~Clear("wifi_connected") /\ Clear("wifi_connected")'
              /\ thread'.main = "ipv4"
           \/ thread'.main = "failed"
    BY <1>2, <2>1 DEF Clear
  <2>3. First'
    BY Zenon, <1>1, <1>5, <2>1, <2>2 DEF First, W!TypeOK
  <2> QED BY <1>3, <2>1, <2>2, <2>3
<1>6. CASE /\ thread.main = "ipv4"
           /\ W!Take("ipv4_ready", "main", "configure", "failed")
  <2>1. /\ UNCHANGED <<link, address, asked>> /\ Tokens'
        /\ \A r \in W!Sem : Clear(r) => Clear(r)'
        /\ \/ /\ sem["ipv4_ready"] = 1
              /\ thread' = [thread EXCEPT !["main"] = "configure"]
              /\ Clear("ipv4_ready")'
           \/ thread' = [thread EXCEPT !["main"] = "failed"]
    BY <1>1, <1>6, Taken
  <2>2. /\ thread'.probe = "none"
        /\ \/ /\ ~Clear("ipv4_ready") /\ Clear("ipv4_ready")'
              /\ thread'.main = "configure"
           \/ thread'.main = "failed"
    BY <1>2, <2>1 DEF Clear
  <2>3. First'
    BY <1>1, <1>6, <2>1, <2>2 DEF First, W!TypeOK
  <2> QED BY Zenon, <1>3, <2>1, <2>2, <2>3
<1>7. CASE W!Configure
  <2>1. /\ UNCHANGED <<link, address, asked, events, sem>>
        /\ thread.main = "configure"
        /\ \E x \in {"ready", "failed"} :
             thread' = [thread EXCEPT !["main"] = x]
    BY <1>7 DEF W!Configure, W!driver
  <2>2. thread'.main \in {"ready", "failed"} /\ thread'.probe = "none"
    BY ZenonT(60), <1>2, <2>1
  <2>3. Tokens' /\ \A x : Clear(x)' <=> Clear(x)
    BY <1>1, <2>1, SameTokens
  <2>4. First'
    BY <1>1, <2>1, <2>2, <2>3 DEF First
  <2> QED BY <1>3, <2>2, <2>3, <2>4
<1> QED BY Zenon, <1>4, <1>5, <1>6, <1>7 DEF W!connect_network

LEMMA ProbedProbe ==
  ASSUME W!TypeOK, Phases, W!wifi_reconnect_probe,
         thread.probe # "none" => thread.main = "ready"
  PROVE  Phases' /\ thread'.main = "ready"
<1> USE DEF W!ProbePoint, W!Sem
<1>1. thread.main = "ready" /\ Tokens
  <2>1. thread.probe \notin {"none", "reconnected", "error"}
    BY DEF W!wifi_reconnect_probe
  <2> QED BY <2>1 DEF Phases
<1>2. ASSUME NEW x \in W!ProbePoint, thread' = [thread EXCEPT !["probe"] = x]
      PROVE  thread'.main = "ready" /\ thread'.probe = x
  BY <1>1, <1>2, ThreadMoves DEF W!TypeOK
<1>3. ASSUME thread' = [thread EXCEPT !["probe"] = "error"]
      PROVE  Phases' /\ thread'.main = "ready"
  BY <1>2, <1>3 DEF Phases
<1>4. CASE /\ thread.probe = "sleep" /\ since' = {}
           /\ W!Ask("disconnect", "probe", "disconnected", "error")
  <2>1. SUFFICES ASSUME asked = "none", asked' = "disconnect",
                        thread' = [thread EXCEPT !["probe"] = "disconnected"]
                 PROVE  Phases' /\ thread'.main = "ready"
    BY Zenon, <1>3, <1>4 DEF W!Ask
  <2>2. UNCHANGED <<link, address, events, sem>>
    BY Zenon, <1>4 DEF W!Ask
  <2>3. thread'.main = "ready" /\ thread'.probe = "disconnected"
    BY <1>2, <2>1
  <2>4. Tokens' /\ \A x : Clear(x)' <=> Clear(x)
    BY <1>1, <2>2, SameTokens
  <2>5. First
    BY <1>4 DEF Phases
  <2>6. Off'
    BY <1>1, <1>4, <2>1, <2>2, <2>4, <2>5 DEF First, Off
  <2> QED BY <2>3, <2>4, <2>6 DEF Phases
<1>5. CASE /\ thread.probe = "disconnected"
           /\ W!Take("wifi_disconnected", "probe", "offline", "error")
  <2>1. /\ UNCHANGED <<link, address, asked, since>> /\ Tokens'
        /\ \A r \in W!Sem : Clear(r) => Clear(r)'
        /\ \/ /\ sem["wifi_disconnected"] = 1
              /\ thread' = [thread EXCEPT !["probe"] = "offline"]
              /\ Clear("wifi_disconnected")'
           \/ thread' = [thread EXCEPT !["probe"] = "error"]
    BY <1>1, <1>5, Taken
  <2>2. SUFFICES ASSUME sem["wifi_disconnected"] = 1,
                        thread' = [thread EXCEPT !["probe"] = "offline"],
                        Clear("wifi_disconnected")'
                 PROVE  Phases' /\ thread'.main = "ready"
    BY Zenon, <1>3, <2>1
  <2>3. thread'.main = "ready" /\ thread'.probe = "offline"
    BY <1>2, <2>2
  <2>4. Off /\ ~Clear("wifi_disconnected")
    BY <1>5, <2>2 DEF Phases, Clear
  <2>5. Off' /\ link' = "down"
    BY <2>1, <2>2, <2>4 DEF Off, W!TypeOK
  <2> QED BY <2>1, <2>2, <2>3, <2>5 DEF Phases
<1>6. CASE /\ thread.probe = "offline" /\ UNCHANGED since
           /\ W!Ask("connect", "probe", "connected", "error")
  <2>1. SUFFICES ASSUME asked = "none", asked' = "connect",
                        thread' = [thread EXCEPT !["probe"] = "connected"]
                 PROVE  Phases' /\ thread'.main = "ready"
    BY Zenon, <1>3, <1>6 DEF W!Ask
  <2>2. UNCHANGED <<link, address, events, sem>>
    BY Zenon, <1>6 DEF W!Ask
  <2>3. thread'.main = "ready" /\ thread'.probe = "connected"
    BY <1>2, <2>1
  <2>4. Tokens' /\ \A x : Clear(x)' <=> Clear(x)
    BY <1>1, <2>2, SameTokens
  <2>5. Off /\ Clear("wifi_disconnected") /\ link = "down"
    BY <1>6 DEF Phases
  <2>6. Back'
    BY <1>6, <2>1, <2>2, <2>4, <2>5 DEF Off, Back
  <2> QED BY <2>3, <2>4, <2>6 DEF Phases
<1>7. CASE /\ thread.probe = "connected"
           /\ W!Take("wifi_connected", "probe", "ipv4", "error")
  <2>1. /\ UNCHANGED <<link, address, asked, since>> /\ Tokens'
        /\ \A r \in W!Sem : Clear(r) => Clear(r)'
        /\ \/ /\ sem["wifi_connected"] = 1
              /\ thread' = [thread EXCEPT !["probe"] = "ipv4"]
           \/ thread' = [thread EXCEPT !["probe"] = "error"]
    BY <1>1, <1>7, Taken
  <2>2. SUFFICES ASSUME sem["wifi_connected"] = 1,
                        thread' = [thread EXCEPT !["probe"] = "ipv4"]
                 PROVE  Phases' /\ thread'.main = "ready"
    BY Zenon, <1>3, <2>1
  <2>3. thread'.main = "ready" /\ thread'.probe = "ipv4"
    BY <1>2, <2>2
  <2>4. Back /\ ~Clear("wifi_connected")
    BY <1>7, <2>2 DEF Phases, Clear
  <2>5. Back' /\ link' = "up"
    BY <2>1, <2>4 DEF Back, W!TypeOK
  <2> QED BY <2>1, <2>3, <2>5 DEF Phases
<1>8. CASE /\ thread.probe = "ipv4"
           /\ W!Take("ipv4_ready", "probe", "reconnected", "error")
  <2>1. /\ UNCHANGED <<link, address, asked, since>>
        /\ \/ /\ sem["ipv4_ready"] = 1
              /\ thread' = [thread EXCEPT !["probe"] = "reconnected"]
           \/ thread' = [thread EXCEPT !["probe"] = "error"]
    BY <1>1, <1>8, Taken
  <2>2. SUFFICES ASSUME sem["ipv4_ready"] = 1,
                        thread' = [thread EXCEPT !["probe"] = "reconnected"]
                 PROVE  Phases' /\ thread'.main = "ready"
    BY Zenon, <1>3, <2>1
  <2>3. thread'.main = "ready" /\ thread'.probe = "reconnected"
    BY <1>2, <2>2
  <2>4. Back /\ link = "up" /\ ~Clear("ipv4_ready")
    BY <1>8, <2>2 DEF Phases, Clear
  <2>5. since = {"down", "up", "address"}
    BY ZenonT(60), <2>4 DEF Back, W!TypeOK
  <2> QED BY <2>1, <2>3, <2>5 DEF Phases
<1> QED BY Zenon, <1>4, <1>5, <1>6, <1>7, <1>8 DEF W!wifi_reconnect_probe

LEMMA ProbedStep ==
  ASSUME W!TypeOK, Probed, [Next]_vars PROVE Probed'
<1> USE DEF Probed
<1>1. ASSUME drops' = drops, thread' = thread, drops = 0 => Phases'
      PROVE  Probed'
  BY <1>1
<1>2. CASE W!Answer
  BY <1>1, <1>2, ProbedAnswer DEF W!Answer
<1>3. CASE W!Dhcp
  BY <1>1, <1>3, ProbedDhcp DEF W!Dhcp
<1>4. CASE W!Drop \/ W!Recover
  <2>1. drops' # 0 /\ thread' = thread
    BY <1>4 DEF W!Drop, W!Recover, W!TypeOK
  <2> QED BY <2>1
<1>5. CASE W!Handle
  BY <1>1, <1>5, ProbedHandle DEF W!Handle
<1>6. CASE W!connect_network
  <2>1. drops' = drops
    BY <1>6 DEF W!connect_network, W!Ask, W!Take, W!Configure
  <2>2. drops = 0 => Phases' /\ thread'.probe = "none"
    BY <1>6, ProbedMain
  <2>3. thread'.probe = "none"
    <3>1. thread.main # "ready"
      BY <1>6 DEF W!connect_network, W!Configure
    <3>2. \E x \in W!MainPoint : thread' = [thread EXCEPT !["main"] = x]
      BY <1>6 DEF W!connect_network, W!Configure, W!Ask, W!Take, W!MainPoint
    <3> QED BY <3>1, <3>2, ThreadMoves DEF W!TypeOK
  <2> QED BY <2>1, <2>2, <2>3
<1>7. CASE W!start_wifi_reconnect_probe
  <2>1. /\ thread.main = "ready" /\ thread.probe = "none"
        /\ thread' = [thread EXCEPT !["probe"] = "sleep"]
        /\ UNCHANGED <<link, address, asked, events, sem, drops>>
    BY <1>7 DEF W!start_wifi_reconnect_probe, W!driver
  <2>2. thread'.main = "ready" /\ thread'.probe = "sleep"
    BY <2>1, ThreadMoves DEF W!TypeOK, W!ProbePoint
  <2>3. (Tokens' <=> Tokens) /\ \A x : Clear(x)' <=> Clear(x)
    BY <2>1, SameTokens
  <2>4. First => First'
    BY <2>1, <2>2, <2>3 DEF First
  <2>5. drops = 0 => Tokens' /\ First'
    BY <2>1, <2>3, <2>4 DEF Phases
  <2>6. drops' = 0 => Phases'
    BY <2>1, <2>2, <2>5 DEF Phases
  <2> QED BY <2>2, <2>6
<1>8. CASE W!wifi_reconnect_probe
  <2>1. drops' = drops
    BY <1>8 DEF W!wifi_reconnect_probe, W!Ask, W!Take
  <2>2. drops = 0 => Phases' /\ thread'.main = "ready"
    BY <1>8, ProbedProbe
  <2>3. thread'.main = "ready"
    <3>1. thread.main = "ready"
      BY <1>8 DEF W!wifi_reconnect_probe
    <3>2. \E x \in W!ProbePoint : thread' = [thread EXCEPT !["probe"] = x]
      BY <1>8 DEF W!wifi_reconnect_probe, W!Ask, W!Take, W!ProbePoint
    <3> QED BY <3>1, <3>2, ThreadMoves DEF W!TypeOK
  <2> QED BY <2>1, <2>2, <2>3
<1>9. CASE UNCHANGED wifi
  <2>1. UNCHANGED <<link, address, asked, thread, since, sem, events, drops>>
    BY Zenon, <1>9 DEF wifi
  <2>2. (Tokens' <=> Tokens) /\ \A x : Clear(x)' <=> Clear(x)
    BY <2>1, SameTokens
  <2>3. Phases => Phases'
    BY Zenon, <2>1, <2>2, ProbedKept DEF Phases
  <2> QED BY <1>1, <2>1, <2>3
<1> QED BY Zenon, <1>2, <1>3, <1>4, <1>5, <1>6, <1>7, <1>8, <1>9
        DEF Next, Network, Connect, Deploy, StartProbe, Probe, Finished, vars

\* wifi_reconnect_probe prints "phase=reconnected" only after the link went
\* down, came up and got an address again, unless the access point was lost
\* unasked: for any bound on the losses, no semaphore still holds a token of
\* the first connection.
THEOREM ReconnectIsReal == Spec => []ReconnectedIsReal
<1>1. Init => W!TypeOK /\ Probed
  BY StationTypeInit, ProbedInit DEF Init
<1>2. W!TypeOK /\ Probed /\ [Next]_vars => W!TypeOK' /\ Probed'
  BY StationTypeStep, ProbedStep
<1>3. Probed => ReconnectedIsReal
  BY DEF Probed, Phases, ReconnectedIsReal, W!ReconnectedIsReal
<1> QED BY <1>1, <1>2, <1>3, PTL DEF Spec

=============================================================================
