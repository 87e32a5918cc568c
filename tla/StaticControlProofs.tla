------------------------ MODULE StaticControlProofs ------------------------
(***************************************************************************)
(* Proofs about StaticControl for every period, deadline, expiry, stall,   *)
(* set of commands and number of cores: the contract of the control        *)
(* library; the release accounting and the deadlines of the loop, where    *)
(* every expiry of the timer is counted once and a missed release or       *)
(* deadline is a fault; and its schedulability, where on one core, without *)
(* test delays and with stalls of at most half the deadline the thread     *)
(* reports no fault and STALE only for an expired command.                 *)
(***************************************************************************)
EXTENDS StaticControl, TLAPS

\* The uint32_t counters stay in range.
LEMMA CounterRange ==
  ASSUME NEW n \in Nat
  PROVE  n % CounterMod \in Counter
BY ControlAssumption DEF Counter

\* The types of the records that the actions build.
LEMMA RecordTypes ==
  /\ IdleTimer \in Timer
  /\ NoCommand \in Command
  /\ InitialState \in State
  /\ \A scheduled \in Nat, faulted \in BOOLEAN, cycles \in Counter,
       skipped \in Counter, lateness \in Nat :
       Locals(scheduled, faulted, cycles, skipped, lateness) \in Local
  /\ Locals(0, FALSE, 0, 0, 0) \in Local
<1>1. IdleTimer \in Timer
  BY DEF IdleTimer, Timer
<1>2. NoCommand \in Command
  BY ControlAssumption DEF NoCommand, Command
<1>3. InitialState \in State
  BY ControlAssumption DEF InitialState, State, Status, Counter
<1>4. ASSUME NEW scheduled \in Nat, NEW faulted \in BOOLEAN,
             NEW cycles \in Counter, NEW skipped \in Counter,
             NEW lateness \in Nat
      PROVE  Locals(scheduled, faulted, cycles, skipped, lateness) \in Local
  BY <1>2 DEF Locals, Local
<1>5. Locals(0, FALSE, 0, 0, 0) \in Local
  <2>1. 0 \in Counter
    BY ControlAssumption DEF Counter
  <2> QED
    BY Zenon, <1>4, <2>1
<1> QED
  BY Zenon, <1>1, <1>2, <1>3, <1>4, <1>5

\* Every variable keeps its type.
THEOREM TypeInvariant == Spec => []TypeOK
<1>1. Init => TypeOK
  <2> SUFFICES ASSUME Init PROVE TypeOK
    OBVIOUS
  <2> USE ControlAssumption, RecordTypes DEF Init
  <2>1. local \in Local
    BY ZenonT(60)
  <2>2. history \in History
    BY DEF History
  <2>3. app \in [at : {"idle", "submit", "kick", "join"},
                 sequence : Sequence, receipt_ms : Nat]
    BY DEF IdleApp
  <2> QED
    BY Zenon, <2>1, <2>2, <2>3 DEF TypeOK, ControlPoint
<1>2. TypeOK /\ [Next]_vars => TypeOK'
  <2> SUFFICES ASSUME TypeOK, [Next]_vars PROVE TypeOK'
    OBVIOUS
  <2> USE ControlAssumption DEF TypeOK, flags, snapshots, thread, ghosts
  <2>1. CASE Tick
    BY <2>1 DEF Tick
  <2>2. CASE TimerExpire
    <3> DEFINE armed == timer.period > 0
               first == IF timer.status = 0 THEN timer.expires
                        ELSE timer.first
    <3>1. /\ armed \in BOOLEAN /\ first \in Nat
          /\ timer.expires + timer.period \in Nat
          /\ timer.status + 1 \in Nat /\ timer.fired + 1 \in Nat
      BY DEF Timer
    <3>2. timer' = [timer EXCEPT !.armed = armed,
                                 !.expires = timer.expires + timer.period,
                                 !.status = timer.status + 1,
                                 !.fired = timer.fired + 1,
                                 !.first = first]
      BY <2>2 DEF TimerExpire
    <3> HIDE DEF armed, first
    <3>3. timer' \in Timer
      BY ZenonT(60), <3>1, <3>2 DEF Timer
    <3> QED
      BY <2>2, <3>3 DEF TimerExpire, ControlPoint
  <2>3. CASE ControlEntry
    <3>1. now + Period \in Nat /\ 0 \in Counter
      BY DEF Counter
    <3>2. local' \in Local
      BY Zenon, <2>3, <3>1, RecordTypes DEF ControlEntry
    <3> QED
      BY Zenon, <2>3, <3>2, RecordTypes DEF ControlEntry, ControlPoint
  <2>4. CASE ControlArm
    <3>1. timer' \in Timer
      BY <2>4 DEF ControlArm, k_timer_start, Timer
    <3> QED
      BY <2>4, <3>1 DEF ControlArm, ControlPoint
  <2>5. CASE ControlLoop
    BY <2>5 DEF ControlLoop, ControlPoint
  <2>6. CASE ControlPend
    BY <2>6 DEF ControlPend, ControlPoint
  <2>7. CASE ControlSync
    <3>1. timer' \in Timer
      BY <2>7 DEF ControlSync, Timer
    <3>2. local' \in Local
      BY Zenon, <2>7 DEF ControlSync, Local, Timer
    <3> QED
      BY <2>7, <3>1, <3>2 DEF ControlSync, ControlPoint
  <2>8. CASE ControlReleased
    <3>1. local' \in Local
      <4>1. CASE stop_requested
        BY <2>8, <4>1 DEF ControlReleased
      <4>2. CASE ~stop_requested
        <5>1. now + test_delay_ms \in Nat
          OBVIOUS
        <5>2. local' = [local EXCEPT !.start_ms = now,
                                     !.wake = now + test_delay_ms]
          BY <2>8, <4>2 DEF ControlReleased
        <5> QED
          BY Zenon, <5>1, <5>2 DEF Local
      <4> QED
        BY <4>1, <4>2
    <3> QED
      BY <2>8, <3>1 DEF ControlReleased, ControlPoint
  <2>9. CASE ControlBegin
    <3> DEFINE scheduled == local.scheduled + local.releases * Period
               lateness  == local.start_ms - local.scheduled
               fresh     == CommandFresh(command_snapshot, local.start_ms)
               faulted   == \/ local.faulted
                            \/ local.releases > 1
                            \/ local.start_ms > scheduled
               worst     == IF lateness > local.lateness
                            THEN lateness ELSE local.lateness
    <3>1. scheduled \in Nat
      BY DEF Local
    <3>2. worst \in Nat
      BY DEF Local
    <3>3. SkippedReleases(local.skipped, local.releases) \in Counter
      <4>1. CASE local.releases > 1
        <5>1. local.skipped + local.releases - 1 \in Nat
          BY <4>1 DEF Local, Counter
        <5> QED
          BY <4>1, <5>1, CounterRange DEF SkippedReleases
      <4>2. CASE ~(local.releases > 1)
        BY <4>2 DEF SkippedReleases, Local
      <4> QED
        BY <4>1, <4>2
    <3>4. fresh \in BOOLEAN /\ faulted \in BOOLEAN
      BY DEF CommandFresh, Command
    <3>5. (fresh /\ ~faulted) \in BOOLEAN
      OBVIOUS
    <3>6. local' = [local EXCEPT
                      !.scheduled = scheduled,
                      !.command = command_snapshot,
                      !.fresh = fresh,
                      !.faulted = faulted,
                      !.skipped = SkippedReleases(@, local.releases),
                      !.lateness = worst,
                      !.effort = fresh /\ ~faulted]
      BY <2>9 DEF ControlBegin
    <3> HIDE DEF scheduled, lateness, fresh, faulted, worst
    <3>7. local' \in Local
      BY ZenonT(60), <3>1, <3>2, <3>3, <3>4, <3>5, <3>6 DEF Local
    <3> QED
      BY <2>9, <3>7 DEF ControlBegin, ControlPoint
  <2>10. CASE ControlComplete
    <3>1. local' \in Local
      BY ZenonT(60), <2>10 DEF ControlComplete, Local
    <3>2. history' \in History
      BY Zenon, <2>10 DEF ControlComplete, History
    <3> QED
      BY <2>10, <3>1, <3>2 DEF ControlComplete, ControlPoint
  <2>11. CASE ControlPublish
    <3>1. NextCycle \in Counter
      BY CounterRange DEF NextCycle, Local, Counter
    <3>2. local' \in Local
      BY <2>11, <3>1, RecordTypes DEF ControlPublish, Local
    <3>3. state_snapshot' \in State
      BY <2>11, <3>1 DEF ControlPublish, State, Local, Command, CycleStatus,
                         Status
    <3>4. history' \in History
      <4> DEFINE late    == now > local.release + Deadline
                 earlier == history.lateEarlier \/ history.lateOutput
      <4>1. late \in BOOLEAN /\ earlier \in BOOLEAN
        OBVIOUS
      <4>2. history' = [history EXCEPT !.receipt_ms = local.command.receipt_ms,
                                       !.start_ms = local.start_ms,
                                       !.epoch = local.command.epoch,
                                       !.lateOutput = late,
                                       !.lateEarlier = earlier]
        BY <2>11 DEF ControlPublish
      <4> HIDE DEF late, earlier
      <4> QED
        BY ZenonT(60), <4>1, <4>2 DEF History, Local, Command
    <3> QED
      BY <2>11, <3>2, <3>3, <3>4 DEF ControlPublish, ControlPoint
  <2>12. CASE ControlExit
    <3>1. timer' \in Timer
      BY Zenon, <2>12 DEF ControlExit, Timer
    <3>2. local' \in Local
      BY Zenon, <2>12, RecordTypes DEF ControlExit
    <3> QED
      BY Zenon, <2>12, <3>1, <3>2 DEF ControlExit, ControlPoint
  <2>13. CASE ControlEnd
    BY <2>13 DEF ControlEnd, ControlPoint
  <2>14. CASE static_control_start
    <3>1. timer' \in Timer
      BY <2>14, RecordTypes DEF static_control_start, Timer
    <3>2. command_snapshot' \in Command
      BY Zenon, <2>14 DEF static_control_start, CommandAtStart, Command
    <3>3. history' \in History
      BY Zenon, <2>14 DEF static_control_start, History
    <3>4. state_snapshot' \in State
      BY <2>14, RecordTypes DEF static_control_start
    <3>5. running' \in BOOLEAN /\ stop_requested' \in BOOLEAN
      BY Zenon, <2>14 DEF static_control_start
    <3>6. /\ now' = now /\ local' = local /\ app' = app /\ stall' = 0
          /\ epoch' = epoch + 1 /\ pc' = "created" /\ test_delay_ms' = 0
      BY <2>14 DEF static_control_start
    <3> QED
      BY <3>1, <3>2, <3>3, <3>4, <3>5, <3>6 DEF ControlPoint
  <2>15. CASE static_control_stop
    <3>1. timer' \in Timer
      <4>1. CASE app.at = "kick"
        <5>1. timer' = [armed |-> TRUE, expires |-> now + 1, period |-> 0,
                        status |-> 0, fired |-> 0, first |-> 0]
          BY <2>15, <4>1 DEF static_control_stop, k_timer_start
        <5>2. now + 1 \in Nat
          OBVIOUS
        <5> QED
          BY <5>1, <5>2 DEF Timer
      <4>2. CASE app.at # "kick"
        BY <2>15, <4>2 DEF static_control_stop
      <4> QED
        BY <4>1, <4>2
    <3> QED
      BY Zenon, <2>15, <3>1 DEF static_control_stop
  <2>16. CASE CommandCallback
    BY <2>16 DEF CommandCallback
  <2>17. CASE static_control_submit
    <3>1. command_snapshot' \in Command
      BY <2>17 DEF static_control_submit, Command
    <3> QED
      BY <2>17, <3>1 DEF static_control_submit, IdleApp
  <2>18. CASE TestDelayNextCycle
    BY <2>18 DEF TestDelayNextCycle
  <2>19. CASE UNCHANGED vars
    BY <2>19 DEF vars
  <2> QED
    BY Zenon, <2>1, <2>2, <2>3, <2>4, <2>5, <2>6, <2>7, <2>8, <2>9, <2>10, <2>11,
       <2>12, <2>13, <2>14, <2>15, <2>16, <2>17, <2>18, <2>19
       DEF Next, Control, App
<1> QED
  BY <1>1, <1>2, PTL DEF Spec

-----------------------------------------------------------------------------
(***************************************************************************)
(* The inductive invariant: who may be where, what a latched status says   *)
(* about the thread's variables, and where an effort comes from.           *)
(***************************************************************************)

\* The thread is past its prologue and has not left its loop.
InLoop == pc \in {"loop", "sync", "pend", "woken", "released", "begin",
                  "complete", "publish"}

\* The cycle has read the command.
HasRead == pc \in {"complete", "publish"}

\* The thread leaves its loop only on a request, and while a request is
\* pending and the thread exists the application is inside
\* static_control_stop.
LifeInv ==
  /\ running <=> pc \notin {"ending", "dead"}
  /\ stop_requested /\ pc # "dead" => app.at \in {"kick", "join"}
  /\ pc \in {"exit", "ending"} => stop_requested

\* What a published status says about the variables that the next status is
\* computed from.
LatchInv ==
  /\ pc \in {"created", "arm"} => state_snapshot = InitialState
  /\ InLoop /\ state_snapshot.status = "FAULT" => local.faulted
  /\ InLoop /\ state_snapshot.status \in {"ACTIVE", "STALE"} =>
       command_snapshot.valid /\ (HasRead => local.command.valid)
  /\ HasRead /\ local.command.valid => command_snapshot.valid

\* A valid command belongs to this run, and the effort of a cycle comes from
\* the fresh command that it read.
CommandInv ==
  /\ command_snapshot.valid => command_snapshot.epoch = epoch
  /\ HasRead /\ local.command.valid => local.command.epoch = epoch
  /\ HasRead /\ local.fresh => CommandFresh(local.command, local.start_ms)
  /\ HasRead /\ local.effort => local.fresh

Inv == TypeOK /\ LifeInv /\ LatchInv /\ CommandInv /\ EffortHasFreshCommand

\* The life cycle of the thread and of the stop request.
LEMMA LifeStep == TypeOK /\ LifeInv /\ [Next]_vars => LifeInv'
<1> SUFFICES ASSUME TypeOK, LifeInv, [Next]_vars PROVE LifeInv'
  OBVIOUS
<1> USE DEF TypeOK, LifeInv, flags, thread
<1>1. CASE Tick
  BY <1>1 DEF Tick
<1>2. CASE TimerExpire
  BY <1>2 DEF TimerExpire
<1>3. CASE ControlEntry \/ ControlArm \/ ControlPend \/ ControlSync
  <2>1. /\ pc \in {"created", "arm", "sync", "woken"}
        /\ pc' \in {"arm", "loop", "pend", "released"}
        /\ UNCHANGED <<running, stop_requested, app>>
    BY ZenonT(60), <1>3 DEF ControlEntry, ControlArm, ControlPend, ControlSync
  <2> QED
    BY <2>1
<1>4. CASE ControlLoop
  BY <1>4 DEF ControlLoop
<1>5. CASE ControlReleased
  BY <1>5 DEF ControlReleased
<1>6. CASE ControlBegin \/ ControlComplete \/ ControlPublish
  BY <1>6 DEF ControlBegin, ControlComplete, ControlPublish
<1>7. CASE ControlExit
  BY <1>7 DEF ControlExit
<1>8. CASE ControlEnd
  BY <1>8 DEF ControlEnd
<1>9. CASE static_control_start
  BY <1>9 DEF static_control_start
<1>10. CASE static_control_stop
  BY <1>10 DEF static_control_stop, JoinReturns
<1>11. CASE CommandCallback
  BY <1>11 DEF CommandCallback
<1>12. CASE static_control_submit
  BY <1>12 DEF static_control_submit
<1>13. CASE TestDelayNextCycle
  BY <1>13 DEF TestDelayNextCycle
<1>14. CASE UNCHANGED vars
  BY <1>14 DEF vars
<1> QED
  BY <1>1, <1>2, <1>3, <1>4, <1>5, <1>6, <1>7, <1>8, <1>9, <1>10, <1>11,
     <1>12, <1>13, <1>14 DEF Next, Control, App

\* The published status and the thread's variables.
LEMMA LatchStep == TypeOK /\ LatchInv /\ [Next]_vars => LatchInv'
<1> SUFFICES ASSUME TypeOK, LatchInv, [Next]_vars PROVE LatchInv'
  OBVIOUS
<1> USE DEF LatchInv, InLoop, HasRead, flags, snapshots, thread
<1>1. CASE Tick
  BY <1>1 DEF Tick
<1>2. CASE TimerExpire
  BY <1>2 DEF TimerExpire
<1>3. CASE ControlEntry
  BY <1>3 DEF ControlEntry
<1>4. CASE ControlArm
  BY <1>4 DEF ControlArm, InitialState
<1>5. CASE ControlLoop
  BY <1>5 DEF ControlLoop
<1>6. CASE ControlPend
  BY <1>6 DEF ControlPend
<1>7. CASE ControlSync
  BY <1>7 DEF ControlSync, TypeOK, Local
<1>8. CASE ControlReleased
  BY Zenon, <1>8 DEF ControlReleased, TypeOK, Local
<1>9. CASE ControlBegin
  BY <1>9 DEF ControlBegin, TypeOK, Local
<1>10. CASE ControlComplete
  BY <1>10 DEF ControlComplete, TypeOK, Local
<1>11. CASE ControlPublish
  <2>1. /\ pc = "publish" /\ pc' = "loop"
        /\ state_snapshot'.status = CycleStatus
        /\ local'.faulted = local.faulted
        /\ command_snapshot' = command_snapshot
    BY <1>11 DEF ControlPublish, Locals
  <2>2. /\ CycleStatus = "FAULT" => local.faulted
        /\ CycleStatus \in {"ACTIVE", "STALE"} => local.command.valid
    BY DEF CycleStatus
  <2> QED
    BY <2>1, <2>2
<1>12. CASE ControlExit \/ ControlEnd
  BY ZenonT(60), <1>12 DEF ControlExit, ControlEnd
<1>13. CASE static_control_start
  BY <1>13 DEF static_control_start
<1>14. CASE static_control_stop
  BY <1>14 DEF static_control_stop
<1>15. CASE CommandCallback
  BY <1>15 DEF CommandCallback
<1>16. CASE static_control_submit
  BY <1>16 DEF static_control_submit
<1>17. CASE TestDelayNextCycle
  BY <1>17 DEF TestDelayNextCycle
<1>18. CASE UNCHANGED vars
  BY SMTT(60), <1>18 DEF vars
<1> QED
  BY Zenon, <1>1, <1>2, <1>3, <1>4, <1>5, <1>6, <1>7, <1>8, <1>9, <1>10, <1>11,
     <1>12, <1>13, <1>14, <1>15, <1>16, <1>17, <1>18 DEF Next, Control, App

\* Commands and the cycle that uses them.
LEMMA CommandStep == TypeOK /\ CommandInv /\ [Next]_vars => CommandInv'
<1> SUFFICES ASSUME TypeOK, CommandInv, [Next]_vars PROVE CommandInv'
  OBVIOUS
<1> USE DEF CommandInv, HasRead, flags, snapshots, thread, ghosts
<1>1. CASE Tick
  BY <1>1 DEF Tick, CommandFresh
<1>2. CASE TimerExpire
  BY <1>2 DEF TimerExpire, CommandFresh
<1>3. CASE ControlEntry \/ ControlArm \/ ControlLoop \/ ControlPend
  <2>1. pc' \notin {"complete", "publish"}
        /\ UNCHANGED <<command_snapshot, epoch>>
    BY Zenon, <1>3 DEF ControlEntry, ControlArm, ControlLoop, ControlPend
  <2> QED
    BY <2>1
<1>4. CASE ControlSync \/ ControlReleased \/ ControlExit \/ ControlEnd
  <2>1. pc' \notin {"complete", "publish"}
        /\ UNCHANGED <<command_snapshot, epoch>>
    BY Zenon, <1>4 DEF ControlSync, ControlReleased, ControlExit, ControlEnd
  <2> QED
    BY <2>1
<1>5. CASE ControlBegin
  <2>1. /\ local'.command = command_snapshot
        /\ local'.start_ms = local.start_ms
        /\ local'.fresh = CommandFresh(command_snapshot, local.start_ms)
        /\ local'.effort => local'.fresh
        /\ UNCHANGED <<command_snapshot, epoch>>
    BY ZenonT(60), <1>5 DEF ControlBegin, TypeOK, Local
  <2> QED
    BY <2>1 DEF CommandFresh
<1>6. CASE ControlComplete
  <2>1. /\ pc = "complete"
        /\ local'.command = local.command
        /\ local'.start_ms = local.start_ms
        /\ local'.fresh = local.fresh
        /\ local'.effort => local.effort
        /\ UNCHANGED <<command_snapshot, epoch>>
    BY <1>6 DEF ControlComplete, TypeOK, Local
  <2> QED
    BY <2>1 DEF CommandFresh
<1>7. CASE ControlPublish
  BY <1>7 DEF ControlPublish
<1>8. CASE static_control_start
  BY <1>8 DEF static_control_start, CommandAtStart, TypeOK, Command
<1>9. CASE static_control_stop
  BY <1>9 DEF static_control_stop, CommandFresh
<1>10. CASE CommandCallback
  BY <1>10 DEF CommandCallback, CommandFresh
<1>11. CASE static_control_submit
  BY <1>11 DEF static_control_submit, CommandFresh
<1>12. CASE TestDelayNextCycle
  BY <1>12 DEF TestDelayNextCycle, CommandFresh
<1>13. CASE UNCHANGED vars
  BY <1>13 DEF vars, CommandFresh
<1> QED
  BY Zenon, <1>1, <1>2, <1>3, <1>4, <1>5, <1>6, <1>7, <1>8, <1>9, <1>10, <1>11,
     <1>12, <1>13 DEF Next, Control, App

\* Only a start and a published cycle change what a reader sees.
LEMMA QuietStep ==
  ASSUME [Next]_vars, ~ControlEntry, ~ControlPublish, ~static_control_start
  PROVE  /\ UNCHANGED <<state_snapshot, epoch>>
         /\ UNCHANGED <<history.epoch, history.start_ms, history.receipt_ms>>
<1>1. CASE ControlComplete
  BY <1>1 DEF ControlComplete, snapshots
<1>2. CASE ~ControlComplete
  BY Zenon, <1>2 DEF Next, Control, App, Tick, TimerExpire, ControlArm, ControlLoop,
     ControlPend, ControlSync, ControlReleased, ControlBegin, ControlExit,
     ControlEnd, static_control_stop, CommandCallback, static_control_submit,
     TestDelayNextCycle, vars, snapshots, ghosts
<1> QED
  BY <1>1, <1>2

\* A published effort comes from the cycle's fresh command.
LEMMA EffortStep ==
  Inv /\ [Next]_vars => EffortHasFreshCommand'
<1> SUFFICES ASSUME Inv, [Next]_vars PROVE EffortHasFreshCommand'
  OBVIOUS
<1> USE DEF Inv
<1>1. CASE ControlEntry
  BY <1>1 DEF ControlEntry, InitialState, EffortHasFreshCommand
<1>2. CASE static_control_start
  BY <1>2 DEF static_control_start, InitialState, EffortHasFreshCommand
<1>3. CASE ControlPublish
  <2>1. /\ pc = "publish"
        /\ state_snapshot'.effort = (~local.faulted /\ local.effort)
        /\ state_snapshot'.status = CycleStatus
        /\ epoch' = epoch
    BY <1>3 DEF ControlPublish
  <2>2. /\ history'.epoch = local.command.epoch
        /\ history'.start_ms = local.start_ms
        /\ history'.receipt_ms = local.command.receipt_ms
    BY <1>3 DEF ControlPublish, TypeOK, History
  <2>3. /\ local.start_ms \in Nat /\ local.command.receipt_ms \in Nat
    BY DEF TypeOK, Local, Command
  <2> SUFFICES ASSUME ~local.faulted, local.effort
               PROVE  EffortHasFreshCommand'
    BY Zenon, <2>1 DEF EffortHasFreshCommand
  <2>4. local.fresh /\ CommandFresh(local.command, local.start_ms)
    BY <2>1 DEF CommandInv, HasRead
  <2>5. /\ local.command.epoch = epoch
        /\ local.start_ms - local.command.receipt_ms \in 0..Expiry
    BY <2>1, <2>3, <2>4, ControlAssumption
       DEF CommandInv, HasRead, CommandFresh
  <2>6. CycleStatus = "ACTIVE"
    BY <2>4 DEF CycleStatus, CommandFresh
  <2> QED
    BY <2>1, <2>2, <2>5, <2>6 DEF EffortHasFreshCommand
<1>4. CASE ~ControlEntry /\ ~ControlPublish /\ ~static_control_start
  BY <1>4, QuietStep DEF EffortHasFreshCommand
<1> QED
  BY <1>1, <1>2, <1>3, <1>4

\* The invariant holds in every reachable state.
THEOREM Invariance == Spec => []Inv
<1>1. Init => LifeInv /\ LatchInv /\ CommandInv /\ EffortHasFreshCommand
  BY SMTT(60) DEF Init, LifeInv, LatchInv, CommandInv, EffortHasFreshCommand, InLoop,
         HasRead, NoCommand, InitialState, IdleApp
<1>2. Inv /\ [Next]_vars
        => LifeInv' /\ LatchInv' /\ CommandInv' /\ EffortHasFreshCommand'
  BY LifeStep, LatchStep, CommandStep, EffortStep DEF Inv
<1> QED
  BY <1>1, <1>2, TypeInvariant, PTL DEF Spec, Inv

\* Whatever the timing and the interleaving, an effort is published only from
\* a command of the current run that had not expired when the cycle began.
THEOREM EffortSafety == Spec => []EffortHasFreshCommand
BY Invariance, PTL DEF Inv

\* static_control_stop returns only after the thread has ended, so that
\* static_control_start never reuses a live thread.
THEOREM JoinSafety == Spec => []JoinedBeforeReuse
<1>1. Inv => JoinedBeforeReuse
  BY DEF Inv, TypeOK, LifeInv, JoinedBeforeReuse
<1> QED
  BY <1>1, Invariance, PTL

-----------------------------------------------------------------------------
(***************************************************************************)
(* The controller implements ControlContract.                              *)
(***************************************************************************)

\* Every step is a restart, a report that the contract allows, or invisible.
LEMMA ContractStep ==
  ASSUME Inv, [Next]_vars
  PROVE  [Contract!Next]_<<epoch, state_snapshot.status,
                           state_snapshot.effort>>
<1> USE DEF Contract!Next
<1>1. CASE static_control_start
  BY <1>1 DEF static_control_start, InitialState, Contract!Restart
<1>2. CASE ControlEntry
  BY <1>2 DEF ControlEntry, Inv, LatchInv, ghosts
<1>3. CASE ControlPublish
  <2>1. /\ pc = "publish"
        /\ state_snapshot'.effort = (~local.faulted /\ local.effort)
        /\ state_snapshot'.status = CycleStatus
        /\ epoch' = epoch
    BY <1>3 DEF ControlPublish
  <2>2. CycleStatus \in {"DISABLED", "ACTIVE", "STALE", "FAULT"}
    BY DEF CycleStatus
  <2>3. Contract!MayFollow(CycleStatus)
    BY <2>1 DEF Inv, LatchInv, InLoop, HasRead, CycleStatus,
                Contract!MayFollow
  <2>4. (~local.faulted /\ local.effort) \in {FALSE, CycleStatus = "ACTIVE"}
    <3>1. CASE ~local.faulted /\ local.effort
      <4>1. local.fresh /\ local.command.valid
        BY <2>1, <3>1 DEF Inv, CommandInv, HasRead, CommandFresh
      <4>2. CycleStatus = "ACTIVE"
        BY <3>1, <4>1 DEF CycleStatus
      <4> QED
        BY Zenon, <3>1, <4>2
    <3>2. CASE ~(~local.faulted /\ local.effort)
      BY ZenonT(60), <3>2
    <3> QED
      BY Zenon, <3>1, <3>2
  <2> QED
    BY Zenon, <2>1, <2>2, <2>3, <2>4 DEF Contract!Report
<1>4. CASE ~ControlEntry /\ ~ControlPublish /\ ~static_control_start
  BY <1>4, QuietStep
<1> QED
  BY <1>1, <1>2, <1>3, <1>4

\* The published states follow the README's status rules: outputs begin
\* disabled, a fault is latched until a restart, only ACTIVE has an effort.
THEOREM Refinement == Spec => ImplementsContract
<1>1. Init => Contract!Init
  BY SMTT(60) DEF Init, InitialState, Contract!Init
<1>2. Inv /\ [Next]_vars => [Contract!Next]_(Contract!cvars)
  BY ContractStep DEF Contract!cvars
<1> QED
  BY <1>1, <1>2, Invariance, PTL DEF Spec, ImplementsContract, Contract!Spec

\* FAULT is left only by another static_control_start.
THEOREM FaultIsLatched == Spec => FaultLatched
<1>1. Inv /\ [Next]_vars
        => [state_snapshot.status = "FAULT" /\ epoch' = epoch
              => state_snapshot'.status = "FAULT"]_vars
  <2> SUFFICES ASSUME Inv, [Next]_vars, state_snapshot.status = "FAULT",
                      epoch' = epoch
               PROVE  state_snapshot'.status = "FAULT"
    OBVIOUS
  <2>1. CASE UNCHANGED <<epoch, state_snapshot.status, state_snapshot.effort>>
    BY <2>1
  <2>2. CASE Contract!Restart
    BY <2>2 DEF Contract!Restart, Inv, TypeOK
  <2>3. CASE Contract!Report
    BY <2>3 DEF Contract!Report, Contract!MayFollow
  <2> QED
    BY <2>1, <2>2, <2>3, ContractStep DEF Contract!Next
<1> QED
  BY <1>1, Invariance, PTL DEF Spec, FaultLatched

-----------------------------------------------------------------------------
(***************************************************************************)
(* Counters that wrap.                                                     *)
(***************************************************************************)

\* What a counter loses when it wraps is a multiple of its modulus.
LEMMA Carry ==
  ASSUME NEW m \in Nat \ {0}, NEW n \in Nat
  PROVE  \E j \in Nat : n = (n % m) + j * m
<1>1. n \div m \in Nat
  OBVIOUS
<1>2. n = (n % m) + (n \div m) * m
  OBVIOUS
<1> QED BY Zenon, <1>1, <1>2

\* Zero is the only multiple of m between -m and m.
LEMMA SmallMultiple ==
  ASSUME NEW m \in Nat \ {0}, NEW d \in Int, m * d < m, m * d > -m
  PROVE  d = 0
<1>1. d >= 1 => m * d >= m
  OBVIOUS
<1>2. d <= -1 => m * d <= -m
  OBVIOUS
<1> QED BY <1>1, <1>2

\* Multiples of the modulus do not count.
LEMMA ModAdd ==
  ASSUME NEW m \in Nat \ {0}, NEW x \in Nat, NEW k \in Nat
  PROVE  (x + k * m) % m = x % m
<1> DEFINE y == x + k * m
           q == x \div m
           p == y \div m
           d == p - q - k
<1>0. k * m \in Nat
  OBVIOUS
<1>1. y \in Nat /\ q \in Int /\ p \in Int /\ d \in Int
  BY <1>0
<1>2. x = m * q + (x % m) /\ x % m \in 0..m - 1
  OBVIOUS
<1>3. y = m * p + (y % m) /\ y % m \in 0..m - 1
  BY <1>1
<1>4. m * d = (x % m) - (y % m)
  <2>1. m * d = m * p - m * q - m * k
    BY <1>1
  <2> QED BY <1>1, <1>2, <1>3, <2>1
<1>5. d = 0
  BY <1>1, <1>2, <1>3, <1>4, SmallMultiple
<1> QED BY <1>1, <1>2, <1>3, <1>4, <1>5
-----------------------------------------------------------------------------
(***************************************************************************)
(* The inductive invariant.                                                *)
(***************************************************************************)

\* static_control_stop kicks the timer after it has set the flag.
StopInv == app.at \in {"kick", "join"} => stop_requested

\* The expiries that the thread has taken from the timer and not yet accounted
\* for, and the cycle that it is accounting for.
InFlight == IF pc \in {"released", "begin"} THEN local.releases ELSE 0

Begun == IF pc \in {"complete", "publish"} THEN 1 ELSE 0

\* Until a stop is requested the timer is periodic, and it expires no earlier
\* than the thread has scheduled.
TimerInv ==
  InLoop /\ ~stop_requested =>
    /\ timer.armed /\ timer.period = Period
    /\ timer.expires >= local.scheduled + (timer.status + InFlight) * Period
    /\ timer.status > 0 => timer.first >= local.scheduled + InFlight * Period
    /\ pc = "woken" => timer.status > 0

\* A cycle that begins has a release, which is no earlier than scheduled.
ReleaseInv ==
  /\ pc = "begin" \/ (pc = "released" /\ ~stop_requested) =>
       local.releases > 0 /\ local.release >= local.scheduled
  /\ pc = "complete" /\ ~local.faulted =>
       local.release >= local.scheduled - Period

\* A run begins without a fault and with empty counters, and it schedules its
\* first release no later than the timer will expire.
PrologueInv ==
  /\ pc \in {"created", "arm"} => ~history.late
  /\ pc = "arm" => /\ ~local.faulted /\ local.cycles = 0
                   /\ local.skipped = 0 /\ local.lateness = 0
                   /\ local.scheduled <= now + Period

\* Without a fault nothing has been missed.
MissInv ==
  InLoop /\ ~local.faulted =>
    local.skipped = 0 /\ local.lateness <= Period /\ ~history.late

\* Between two cycles the published state is that of the thread's variables.
PublishedInv ==
  InLoop /\ ~(pc \in {"complete", "publish"}) =>
    /\ state_snapshot.skipped_releases = local.skipped
    /\ state_snapshot.max_lateness = local.lateness
    /\ local.faulted => state_snapshot.status = "FAULT"

\* The expiries of this run, but for the wraps of the counters.
AccountInv ==
  InLoop /\ ~stop_requested =>
    \E k \in Nat :
      timer.fired = local.cycles + local.skipped + InFlight + Begun
                      + timer.status + k * CounterMod

Timing ==
  /\ TimerInv /\ ReleaseInv /\ PrologueInv /\ MissInv /\ PublishedInv
  /\ AccountInv

\* The fields that the invariant speaks of.
LEMMA FieldTypes ==
  ASSUME TypeOK
  PROVE  /\ timer.expires \in Nat /\ timer.status \in Nat
         /\ timer.fired \in Nat /\ timer.first \in Nat
         /\ timer.period \in Nat
         /\ local.scheduled \in Nat /\ local.cycles \in Nat
         /\ local.skipped \in Nat /\ local.lateness \in Nat
         /\ local.releases \in Nat /\ local.release \in Nat
         /\ local.start_ms \in Nat /\ now \in Nat
         /\ Period \in Nat \ {0} /\ Deadline \in Nat
         /\ CounterMod \in Nat \ {0}
BY ControlAssumption DEF TypeOK, Timer, Local, Counter

\* At first there is no thread.
LEMMA TimingInit == Init => Timing
BY DEF Init, Timing, TimerInv, ReleaseInv, PrologueInv, MissInv, PublishedInv,
       AccountInv, InLoop

\* Steps that the invariant does not see: time passes, the application reads
\* a command or a test delay.
LEMMA TimingQuiet ==
  ASSUME TypeOK, TypeOK', Timing, now' >= now,
         UNCHANGED <<timer, stop_requested, state_snapshot, pc, local,
                     history>>
  PROVE  Timing'
<1>1. TimerInv' /\ ReleaseInv'
  BY DEF Timing, TimerInv, ReleaseInv, InLoop, InFlight
<1>2. PrologueInv'
  BY FieldTypes DEF Timing, PrologueInv, TypeOK
<1>3. MissInv' /\ PublishedInv'
  BY DEF Timing, MissInv, PublishedInv, InLoop
<1>4. AccountInv'
  BY DEF Timing, AccountInv, InLoop, InFlight, Begun
<1> QED BY <1>1, <1>2, <1>3, <1>4 DEF Timing

\* The timer interrupt.
LEMMA TimingExpire ==
  ASSUME TypeOK, Timing, TimerExpire
  PROVE  Timing'
<1>1. /\ timer'.armed = (timer.period > 0)
      /\ timer'.period = timer.period
      /\ timer'.expires = timer.expires + timer.period
      /\ timer'.status = timer.status + 1
      /\ timer'.fired = timer.fired + 1
      /\ timer'.first = IF timer.status = 0 THEN timer.expires
                        ELSE timer.first
  BY DEF TimerExpire, TypeOK, Timer
<1>2. /\ pc' = IF pc = "pend" THEN "woken" ELSE pc
      /\ UNCHANGED <<now, stop_requested, state_snapshot, local, history>>
  BY DEF TimerExpire, flags, snapshots, ghosts
<1>3. InFlight' = InFlight /\ Begun' = Begun /\ (InLoop' <=> InLoop)
  BY <1>2 DEF InFlight, Begun, InLoop
<1>4. InFlight \in Nat
  BY FieldTypes DEF InFlight
<1>5. TimerInv'
  <2> SUFFICES ASSUME InLoop, ~stop_requested
               PROVE  /\ timer'.armed /\ timer'.period = Period
                      /\ timer'.expires >= local.scheduled
                           + (timer'.status + InFlight) * Period
                      /\ timer'.status > 0 =>
                           timer'.first >= local.scheduled + InFlight * Period
                      /\ timer'.status > 0
    BY <1>2, <1>3 DEF TimerInv
  <2>1. /\ timer.period = Period
        /\ timer.expires
             >= local.scheduled + (timer.status + InFlight) * Period
        /\ timer.status > 0 =>
             timer.first >= local.scheduled + InFlight * Period
    BY DEF Timing, TimerInv
  <2>2. timer'.armed
    <3>1. timer.period > 0
      BY <2>1, FieldTypes
    <3> QED BY Zenon, <1>1, <3>1
  <2>3. timer'.expires
          >= local.scheduled + (timer'.status + InFlight) * Period
    BY <1>1, <1>4, <2>1, FieldTypes
  <2>4. timer'.first >= local.scheduled + InFlight * Period
    BY <1>1, <1>4, <2>1, FieldTypes
  <2>5. timer'.status > 0 /\ timer'.period = Period
    BY <1>1, <2>1, FieldTypes
  <2> QED BY <2>2, <2>3, <2>4, <2>5
<1>6. ReleaseInv'
  BY <1>2 DEF Timing, ReleaseInv
<1>7. PrologueInv' /\ MissInv' /\ PublishedInv'
  BY <1>2, <1>3 DEF Timing, PrologueInv, MissInv, PublishedInv
<1>8. AccountInv'
  <2> SUFFICES ASSUME InLoop, ~stop_requested
               PROVE  \E k \in Nat :
                        timer'.fired = local.cycles + local.skipped + InFlight
                          + Begun + timer'.status + k * CounterMod
    BY <1>2, <1>3 DEF AccountInv
  <2>1. PICK k \in Nat :
          timer.fired = local.cycles + local.skipped + InFlight + Begun
                          + timer.status + k * CounterMod
    BY DEF Timing, AccountInv
  <2>2. k * CounterMod \in Nat /\ Begun \in Nat
    BY FieldTypes DEF Begun
  <2> QED BY <1>1, <1>4, <2>1, <2>2, FieldTypes
<1> QED BY <1>5, <1>6, <1>7, <1>8 DEF Timing

-----------------------------------------------------------------------------
(***************************************************************************)
(* The steps of the control thread.                                        *)
(***************************************************************************)

\* A step that leaves the thread outside its loop.
LEMMA TimingOutside ==
  ASSUME pc' \in {"created", "exit", "ending", "dead"},
         pc' = "created" => ~history'.late
  PROVE  Timing'
BY DEF Timing, TimerInv, ReleaseInv, PrologueInv, MissInv, PublishedInv,
       AccountInv, InLoop

\* The prologue.
LEMMA TimingEntry ==
  ASSUME TypeOK, Timing, ControlEntry
  PROVE  Timing'
<1>1. /\ pc = "created" /\ pc' = "arm" /\ now' = now /\ history' = history
      /\ local'.scheduled = now + Period /\ local'.faulted = FALSE
      /\ local'.cycles = 0 /\ local'.skipped = 0 /\ local'.lateness = 0
  BY DEF ControlEntry, Locals, ghosts
<1>2. PrologueInv'
  <2>1. ~history'.late
    BY <1>1 DEF Timing, PrologueInv
  <2> QED BY <1>1, <2>1, FieldTypes DEF PrologueInv
<1> QED BY <1>1, <1>2
  DEF Timing, TimerInv, ReleaseInv, MissInv, PublishedInv, AccountInv, InLoop

\* The first expiry is no earlier than the first scheduled release.
LEMMA TimingArm ==
  ASSUME TypeOK, LatchInv, Timing, ControlArm
  PROVE  Timing'
<1>1. /\ pc = "arm" /\ pc' = "loop"
      /\ UNCHANGED <<now, stop_requested, state_snapshot, local, history>>
  BY DEF ControlArm, flags, snapshots, ghosts
<1>2. /\ timer'.armed = TRUE /\ timer'.period = Period
      /\ timer'.expires = now + Period
      /\ timer'.status = 0 /\ timer'.fired = 0
  BY DEF ControlArm, k_timer_start
<1>3. /\ ~local.faulted /\ local.cycles = 0 /\ local.skipped = 0
      /\ local.lateness = 0 /\ local.scheduled <= now + Period
      /\ ~history.late
  BY <1>1 DEF Timing, PrologueInv
<1>4. InFlight' = 0 /\ Begun' = 0
  BY <1>1 DEF InFlight, Begun
<1>5. TimerInv'
  BY <1>1, <1>2, <1>3, <1>4, FieldTypes DEF TimerInv
<1>6. ReleaseInv' /\ PrologueInv'
  BY <1>1 DEF ReleaseInv, PrologueInv
<1>7. MissInv'
  BY <1>1, <1>3, FieldTypes DEF MissInv
<1>8. PublishedInv'
  BY <1>1, <1>3 DEF PublishedInv, LatchInv, InitialState
<1>9. AccountInv'
  <2>1. timer'.fired = local'.cycles + local'.skipped + InFlight' + Begun'
                         + timer'.status + 0 * CounterMod
    BY <1>1, <1>2, <1>3, <1>4, FieldTypes
  <2> QED BY <2>1 DEF AccountInv
<1> QED BY <1>5, <1>6, <1>7, <1>8, <1>9 DEF Timing

\* The loop condition and the call of k_timer_status_sync.
LEMMA TimingWait ==
  ASSUME Timing, ControlLoop \/ ControlPend
  PROVE  Timing'
<1>1. /\ pc \in {"loop", "sync"} /\ pc' \in {"exit", "sync", "pend"}
      /\ UNCHANGED <<timer, stop_requested, state_snapshot, local, history>>
  BY Zenon DEF ControlLoop, ControlPend, flags, snapshots, ghosts
<1>2. CASE pc' = "exit"
  BY <1>2, TimingOutside
<1>3. CASE pc' # "exit"
  <2>1. InFlight = 0 /\ InFlight' = 0 /\ Begun = 0 /\ Begun' = 0
        /\ InLoop /\ InLoop'
    BY <1>1, <1>3 DEF InFlight, Begun, InLoop
  <2>2. TimerInv'
    BY <1>1, <1>3, <2>1 DEF Timing, TimerInv
  <2>3. ReleaseInv' /\ PrologueInv'
    BY <1>1, <1>3 DEF ReleaseInv, PrologueInv
  <2>4. MissInv' /\ PublishedInv'
    BY <1>1, <2>1 DEF Timing, MissInv, PublishedInv
  <2>5. AccountInv'
    BY <1>1, <2>1 DEF Timing, AccountInv
  <2> QED BY <2>2, <2>3, <2>4, <2>5 DEF Timing
<1> QED BY <1>2, <1>3

\* The unread expiries are taken; without a stop request there is one.
LEMMA TimingSync ==
  ASSUME TypeOK, Timing, ControlSync
  PROVE  Timing'
<1>1. /\ pc \in {"sync", "woken"} /\ pc' = "released"
      /\ pc = "sync" => timer.status > 0 \/ ~timer.armed
      /\ UNCHANGED <<stop_requested, state_snapshot, history>>
  BY DEF ControlSync, flags, snapshots, ghosts
<1>2. /\ timer'.armed = timer.armed /\ timer'.period = timer.period
      /\ timer'.expires = timer.expires /\ timer'.status = 0
      /\ timer'.fired = timer.fired /\ timer'.first = timer.first
  BY DEF ControlSync, TypeOK, Timer
<1>3. /\ local'.releases = timer.status /\ local'.release = timer.first
      /\ local'.scheduled = local.scheduled /\ local'.cycles = local.cycles
      /\ local'.skipped = local.skipped /\ local'.lateness = local.lateness
      /\ local'.faulted = local.faulted
  BY DEF ControlSync, TypeOK, Local
<1>4. /\ InFlight = 0 /\ InFlight' = timer.status /\ Begun = 0 /\ Begun' = 0
      /\ InLoop /\ InLoop'
  BY <1>1, <1>3 DEF InFlight, Begun, InLoop
<1>5. ASSUME ~stop_requested
      PROVE  /\ timer.armed /\ timer.period = Period
             /\ timer.expires >= local.scheduled + timer.status * Period
             /\ timer.status > 0
             /\ timer.first >= local.scheduled
  <2>1. /\ timer.armed /\ timer.period = Period
        /\ timer.expires >= local.scheduled + (timer.status + 0) * Period
        /\ timer.status > 0 => timer.first >= local.scheduled + 0 * Period
        /\ pc = "woken" => timer.status > 0
    BY <1>4, <1>5 DEF Timing, TimerInv
  <2>2. timer.status > 0
    BY Zenon, <1>1, <2>1
  <2> QED BY <2>1, <2>2, FieldTypes
<1>6. TimerInv'
  <2>1. (timer'.status + InFlight') * Period = timer.status * Period
    BY <1>2, <1>4, FieldTypes
  <2> QED BY <1>1, <1>2, <1>3, <1>5, <2>1 DEF TimerInv
<1>7. ReleaseInv' /\ PrologueInv'
  BY <1>1, <1>3, <1>5 DEF ReleaseInv, PrologueInv
<1>8. MissInv' /\ PublishedInv'
  BY <1>1, <1>3, <1>4 DEF Timing, MissInv, PublishedInv
<1>9. AccountInv'
  <2> SUFFICES ASSUME ~stop_requested
               PROVE  \E k \in Nat :
                        timer'.fired = local'.cycles + local'.skipped
                          + InFlight' + Begun' + timer'.status + k * CounterMod
    BY <1>1 DEF AccountInv
  <2>1. PICK k \in Nat :
          timer.fired = local.cycles + local.skipped + InFlight + Begun
                          + timer.status + k * CounterMod
    BY <1>4 DEF Timing, AccountInv
  <2>2. k * CounterMod \in Nat
    BY FieldTypes
  <2> QED BY <1>2, <1>3, <1>4, <2>1, <2>2, FieldTypes
<1> QED BY <1>6, <1>7, <1>8, <1>9 DEF Timing

\* The second look at stop_requested.
LEMMA TimingReleased ==
  ASSUME TypeOK, Timing, ControlReleased
  PROVE  Timing'
<1>1. CASE stop_requested
  BY <1>1, TimingOutside DEF ControlReleased
<1>2. CASE ~stop_requested
  <2>1. /\ pc = "released" /\ pc' = "begin"
        /\ UNCHANGED <<timer, stop_requested, state_snapshot, history>>
    BY <1>2 DEF ControlReleased, snapshots, ghosts
  <2>2. local' = [local EXCEPT !.start_ms = now, !.wake = now + test_delay_ms]
    BY <1>2 DEF ControlReleased
  <2>3. /\ local'.releases = local.releases /\ local'.release = local.release
        /\ local'.scheduled = local.scheduled /\ local'.cycles = local.cycles
        /\ local'.skipped = local.skipped /\ local'.lateness = local.lateness
        /\ local'.faulted = local.faulted
    BY <2>2 DEF TypeOK, Local
  <2>4. /\ InFlight' = InFlight /\ Begun' = Begun /\ InLoop /\ InLoop'
    BY <2>1, <2>3 DEF InFlight, Begun, InLoop
  <2>5. TimerInv' /\ ReleaseInv'
    BY <1>2, <2>1, <2>3, <2>4 DEF Timing, TimerInv, ReleaseInv
  <2>6. PrologueInv'
    BY <2>1 DEF PrologueInv
  <2>7. MissInv' /\ PublishedInv'
    BY <2>1, <2>3, <2>4 DEF Timing, MissInv, PublishedInv
  <2>8. AccountInv'
    BY <2>1, <2>3, <2>4 DEF Timing, AccountInv
  <2> QED BY <2>5, <2>6, <2>7, <2>8 DEF Timing
<1> QED BY <1>1, <1>2

\* A cycle begins: its releases are accounted for.
LEMMA TimingBegin ==
  ASSUME TypeOK, Timing, ControlBegin
  PROVE  Timing'
<1> DEFINE scheduled == local.scheduled + local.releases * Period
           late == local.start_ms - local.scheduled
<1>1. /\ pc = "begin" /\ pc' = "complete"
      /\ UNCHANGED <<timer, stop_requested, state_snapshot, history>>
  BY DEF ControlBegin, flags, snapshots, ghosts
<1>2. /\ local'.scheduled = scheduled
      /\ local'.skipped = SkippedReleases(local.skipped, local.releases)
      /\ local'.lateness = IF late > local.lateness THEN late
                           ELSE local.lateness
      /\ local'.cycles = local.cycles /\ local'.release = local.release
  BY DEF ControlBegin, TypeOK, Local
<1>3. local'.faulted = (\/ local.faulted \/ local.releases > 1
                        \/ local.start_ms > scheduled)
  BY ZenonT(60) DEF ControlBegin, TypeOK, Local
<1>4. local.releases > 0 /\ local.release >= local.scheduled
  BY <1>1 DEF Timing, ReleaseInv
<1>5. /\ InFlight = local.releases /\ InFlight' = 0 /\ Begun = 0 /\ Begun' = 1
      /\ InLoop /\ InLoop'
  BY <1>1 DEF InFlight, Begun, InLoop
<1>6. TimerInv'
  <2> SUFFICES ASSUME ~stop_requested
               PROVE  /\ timer.armed /\ timer.period = Period
                      /\ timer.expires
                           >= scheduled + (timer.status + 0) * Period
                      /\ timer.status > 0 =>
                           timer.first >= scheduled + 0 * Period
    BY <1>1, <1>2, <1>5 DEF TimerInv
  <2>1. /\ timer.armed /\ timer.period = Period
        /\ timer.expires >= local.scheduled
             + (timer.status + local.releases) * Period
        /\ timer.status > 0 =>
             timer.first >= local.scheduled + local.releases * Period
    BY <1>5 DEF Timing, TimerInv
  <2>2. local.releases * Period \in Nat
    BY FieldTypes
  <2>3. timer.expires >= scheduled + (timer.status + 0) * Period
    BY <2>1, FieldTypes
  <2>4. scheduled + 0 * Period = scheduled
    BY <2>2, FieldTypes
  <2> QED BY <2>1, <2>3, <2>4
<1>7. ASSUME ~local'.faulted
      PROVE  ~local.faulted /\ local.releases = 1
             /\ local.start_ms <= local.scheduled + Period
             /\ scheduled = local.scheduled + Period
  <2>1. /\ ~local.faulted /\ ~(local.releases > 1)
        /\ ~(local.start_ms > scheduled)
    BY Zenon, <1>3, <1>7
  <2>2. local.releases = 1
    BY <1>4, <2>1, FieldTypes
  <2>3. scheduled = local.scheduled + Period
    BY <2>2, FieldTypes
  <2> QED BY <2>1, <2>2, <2>3, FieldTypes
<1>8. ReleaseInv'
  BY <1>1, <1>2, <1>4, <1>7, FieldTypes DEF ReleaseInv
<1>9. PrologueInv' /\ PublishedInv'
  BY <1>1 DEF PrologueInv, PublishedInv
<1>10. MissInv'
  <2> SUFFICES ASSUME ~local'.faulted
               PROVE  local'.skipped = 0 /\ local'.lateness <= Period
                      /\ ~history.late
    BY <1>1 DEF MissInv
  <2>1. local.skipped = 0 /\ local.lateness <= Period /\ ~history.late
    BY <1>5, <1>7 DEF Timing, MissInv
  <2>2. local'.skipped = 0
    BY <1>2, <1>7, <2>1 DEF SkippedReleases
  <2>3. local'.lateness <= Period
    BY <1>2, <1>7, <2>1, FieldTypes
  <2> QED BY <2>1, <2>2, <2>3
<1>11. AccountInv'
  <2> SUFFICES ASSUME ~stop_requested
               PROVE  \E k \in Nat :
                        timer.fired = local.cycles + local'.skipped + 0 + 1
                                        + timer.status + k * CounterMod
    BY <1>1, <1>2, <1>5 DEF AccountInv
  <2>1. PICK k \in Nat :
          timer.fired = local.cycles + local.skipped + local.releases + 0
                          + timer.status + k * CounterMod
    BY <1>5 DEF Timing, AccountInv
  <2>2. \E j \in Nat : local.skipped + local.releases - 1
                         = local'.skipped + j * CounterMod
    <3>1. CASE local.releases > 1
      <4> DEFINE n == local.skipped + local.releases - 1
      <4>1. n \in Nat /\ local'.skipped = n % CounterMod
        BY <1>2, <3>1, FieldTypes DEF SkippedReleases
      <4>2. CounterMod \in Nat \ {0}
        BY FieldTypes
      <4> HIDE DEF n
      <4>3. \E j \in Nat : n = (n % CounterMod) + j * CounterMod
        BY Zenon, <4>1, <4>2, Carry
      <4> QED BY Zenon, <4>1, <4>3 DEF n
    <3>2. CASE ~(local.releases > 1)
      <4>1. local.releases = 1 /\ local'.skipped = local.skipped
        BY <1>2, <1>4, <3>2, FieldTypes DEF SkippedReleases
      <4>2. local.skipped + local.releases - 1
              = local'.skipped + 0 * CounterMod
        BY <4>1, FieldTypes
      <4> QED BY <4>2
    <3> QED BY <3>1, <3>2
  <2>3. PICK j \in Nat : local.skipped + local.releases - 1
                           = local'.skipped + j * CounterMod
    BY <2>2
  <2>4. local'.skipped \in Nat
    BY <1>2, <1>4, FieldTypes DEF SkippedReleases
  <2>5. /\ k * CounterMod \in Nat /\ j * CounterMod \in Nat
        /\ (k + j) * CounterMod = k * CounterMod + j * CounterMod
    BY FieldTypes
  <2>6. timer.fired = local.cycles + local'.skipped + 0 + 1
                        + timer.status + (k + j) * CounterMod
    BY <2>1, <2>3, <2>4, <2>5, FieldTypes
  <2> QED BY <2>6
<1> QED BY <1>6, <1>8, <1>9, <1>10, <1>11 DEF Timing

\* The output deadline.
LEMMA TimingComplete ==
  ASSUME TypeOK, Timing, ControlComplete
  PROVE  Timing'
<1>1. /\ pc = "complete" /\ pc' = "publish"
      /\ UNCHANGED <<now, timer, stop_requested, state_snapshot>>
  BY DEF ControlComplete, flags, snapshots
<1>2. /\ local'.scheduled = local.scheduled /\ local'.cycles = local.cycles
      /\ local'.skipped = local.skipped /\ local'.lateness = local.lateness
  BY DEF ControlComplete, TypeOK, Local
<1>3. local'.faulted = (local.faulted \/ DeadlineMissed(now))
  BY ZenonT(60) DEF ControlComplete, TypeOK, Local
<1>4. history'.late = (\/ history.late
                       \/ local.releases > 0
                          /\ now > local.release + Deadline)
  BY ZenonT(60) DEF ControlComplete, TypeOK, History
<1>5. InFlight' = InFlight /\ Begun' = Begun /\ InLoop /\ InLoop'
  BY <1>1 DEF InFlight, Begun, InLoop
<1>6. TimerInv'
  BY <1>1, <1>2, <1>5 DEF Timing, TimerInv
<1>7. ReleaseInv' /\ PrologueInv' /\ PublishedInv'
  BY <1>1 DEF ReleaseInv, PrologueInv, PublishedInv
<1>8. MissInv'
  <2> SUFFICES ASSUME ~local'.faulted
               PROVE  local'.skipped = 0 /\ local'.lateness <= Period
                      /\ ~history'.late
    BY Zenon DEF MissInv
  <2>1. ~local.faulted /\ ~DeadlineMissed(now)
    BY Zenon, <1>3
  <2>2. local.skipped = 0 /\ local.lateness <= Period /\ ~history.late
    BY <1>5, <2>1 DEF Timing, MissInv
  <2>3. local.release >= local.scheduled - Period
    BY <1>1, <2>1 DEF Timing, ReleaseInv
  <2>4. ~(now > local.release + Deadline)
    BY <2>1, <2>3, FieldTypes DEF DeadlineMissed
  <2>5. ~history'.late
    BY Zenon, <1>4, <2>2, <2>4
  <2> QED BY <1>2, <2>2, <2>5
<1>9. AccountInv'
  BY <1>1, <1>2, <1>5 DEF Timing, AccountInv
<1> QED BY <1>6, <1>7, <1>8, <1>9 DEF Timing

\* The state of the cycle is published.
LEMMA TimingPublish ==
  ASSUME TypeOK, Timing, ControlPublish
  PROVE  Timing'
<1>1. /\ pc = "publish" /\ pc' = "loop"
      /\ UNCHANGED <<timer, stop_requested>>
  BY DEF ControlPublish, flags
<1>2. /\ local'.scheduled = local.scheduled /\ local'.faulted = local.faulted
      /\ local'.cycles = NextCycle
      /\ local'.skipped = local.skipped /\ local'.lateness = local.lateness
  BY DEF ControlPublish, Locals
<1>3. /\ state_snapshot'.skipped_releases = local.skipped
      /\ state_snapshot'.max_lateness = local.lateness
      /\ state_snapshot'.status = CycleStatus
  BY DEF ControlPublish
<1>4. history'.late = history.late
  BY Zenon DEF ControlPublish, TypeOK, History
<1>5. /\ InFlight = 0 /\ InFlight' = 0 /\ Begun = 1 /\ Begun' = 0
      /\ InLoop /\ InLoop'
  BY <1>1 DEF InFlight, Begun, InLoop
<1>6. TimerInv'
  BY <1>1, <1>2, <1>5 DEF Timing, TimerInv
<1>7. ReleaseInv' /\ PrologueInv'
  BY <1>1 DEF ReleaseInv, PrologueInv
<1>8. MissInv'
  BY <1>2, <1>4, <1>5 DEF Timing, MissInv
<1>9. PublishedInv'
  BY <1>2, <1>3 DEF PublishedInv, CycleStatus
<1>10. AccountInv'
  <2> SUFFICES ASSUME ~stop_requested
               PROVE  \E k \in Nat :
                        timer.fired = NextCycle + local.skipped + 0 + 0
                                        + timer.status + k * CounterMod
    BY <1>1, <1>2, <1>5 DEF AccountInv
  <2>1. PICK k \in Nat :
          timer.fired = local.cycles + local.skipped + 0 + 1
                          + timer.status + k * CounterMod
    BY <1>5 DEF Timing, AccountInv
  <2>2. PICK j \in Nat : local.cycles + 1 = NextCycle + j * CounterMod
    <3>1. local.cycles + 1 \in Nat /\ CounterMod \in Nat \ {0}
      BY FieldTypes
    <3> QED BY Zenon, <3>1, Carry DEF NextCycle
  <2>3. /\ k * CounterMod \in Nat /\ j * CounterMod \in Nat
        /\ (k + j) * CounterMod = k * CounterMod + j * CounterMod
        /\ NextCycle \in Nat
    BY FieldTypes DEF NextCycle
  <2>4. timer.fired = NextCycle + local.skipped + 0 + 0
                        + timer.status + (k + j) * CounterMod
    BY <2>1, <2>2, <2>3, FieldTypes
  <2> QED BY <2>4
<1> QED BY <1>6, <1>7, <1>8, <1>9, <1>10 DEF Timing

-----------------------------------------------------------------------------
(***************************************************************************)
(* The theorems.                                                           *)
(***************************************************************************)

\* static_control_stop: once the flag is set nothing is claimed of the timer.
LEMMA TimingStop ==
  ASSUME TypeOK, StopInv, Timing, static_control_stop
  PROVE  Timing'
<1>1. /\ UNCHANGED <<now, state_snapshot, pc, local, history>>
      /\ app.at = "join" \/ stop_requested'
      /\ stop_requested => stop_requested'
  BY DEF static_control_stop, StopInv, snapshots, thread, ghosts
<1>2. stop_requested'
  BY <1>1 DEF StopInv
<1>3. TimerInv' /\ AccountInv'
  BY <1>2 DEF TimerInv, AccountInv
<1>4. ReleaseInv'
  BY <1>1, <1>2 DEF Timing, ReleaseInv
<1>5. PrologueInv' /\ MissInv' /\ PublishedInv'
  BY <1>1 DEF Timing, PrologueInv, MissInv, PublishedInv, InLoop
<1> QED BY <1>3, <1>4, <1>5 DEF Timing

\* Every step keeps the invariant.
LEMMA TimingStep == Inv /\ Inv' /\ StopInv /\ Timing /\ [Next]_vars => Timing'
<1> SUFFICES ASSUME Inv, Inv', StopInv, Timing, [Next]_vars PROVE Timing'
  OBVIOUS
<1> USE DEF Inv
<1>1. CASE Tick
  <2>1. now' >= now
    BY <1>1, FieldTypes DEF Tick
  <2> QED BY Zenon, <1>1, <2>1, TimingQuiet
    DEF Tick, flags, snapshots, ghosts
<1>2. CASE CommandCallback \/ static_control_submit \/ TestDelayNextCycle
           \/ UNCHANGED vars
  <2>1. UNCHANGED <<now, timer, stop_requested, state_snapshot, pc, local,
                    history>>
    BY Zenon, <1>2 DEF CommandCallback, static_control_submit,
       TestDelayNextCycle, vars, flags, snapshots, thread, ghosts
  <2>2. now' >= now
    BY <2>1, FieldTypes
  <2> QED BY <2>1, <2>2, TimingQuiet
<1>3. CASE ControlExit \/ ControlEnd
  BY Zenon, <1>3, TimingOutside DEF ControlExit, ControlEnd
<1>4. CASE static_control_start
  <2>1. pc' = "created"
    BY <1>4 DEF static_control_start
  <2>2. history'.late = FALSE
    BY Zenon, <1>4 DEF static_control_start, TypeOK, History
  <2> QED BY <2>1, <2>2, TimingOutside
<1>5. CASE TimerExpire \/ static_control_stop
  BY Zenon, <1>5, TimingExpire, TimingStop
<1>6. CASE Control
  BY Zenon, <1>3, <1>6, TimingEntry, TimingArm, TimingWait, TimingSync,
     TimingReleased, TimingBegin, TimingComplete, TimingPublish DEF Control
<1> QED BY Zenon, <1>1, <1>2, <1>4, <1>5, <1>6 DEF Next, App

\* The order of the steps of static_control_stop.
LEMMA StopStep == TypeOK /\ StopInv /\ [Next]_vars => StopInv'
<1> SUFFICES ASSUME TypeOK, StopInv, [Next]_vars PROVE StopInv'
  OBVIOUS
<1>1. CASE static_control_start
  BY <1>1 DEF static_control_start, StopInv
<1>2. CASE static_control_stop
  BY <1>2 DEF static_control_stop, StopInv, TypeOK
<1>3. CASE CommandCallback
  BY <1>3 DEF CommandCallback, StopInv
<1>4. CASE static_control_submit
  BY <1>4 DEF static_control_submit, StopInv, IdleApp
<1>5. CASE UNCHANGED <<app, stop_requested>>
  BY <1>5 DEF StopInv
<1> QED BY Zenon, <1>1, <1>2, <1>3, <1>4, <1>5
  DEF Next, Control, App, Tick, TimerExpire, ControlEntry, ControlArm,
      ControlLoop, ControlPend, ControlSync, ControlReleased, ControlBegin,
      ControlComplete, ControlPublish, ControlExit, ControlEnd,
      TestDelayNextCycle, vars, flags, thread

\* The invariant holds in every reachable state.
LEMMA TimingInvariance == Spec => [](Inv /\ StopInv /\ Timing)
<1>1. Init => StopInv
  BY DEF Init, StopInv, IdleApp
<1>2. Inv /\ StopInv /\ [Next]_vars => StopInv'
  BY StopStep DEF Inv
<1> QED BY <1>1, <1>2, TimingInit, TimingStep, Invariance, PTL DEF Spec

\* Every expiry of the release timer is counted once, as a cycle, as a skipped
\* release, in the unread count or in the cycle in progress, for counters of
\* any width and however often they wrap.
THEOREM ReleasesCounted == Spec => []ReleaseAccounting
<1>1. Inv /\ StopInv /\ Timing => ReleaseAccounting
  <2> DEFINE begun == pc \in {"complete", "publish"}
             inFlight == IF begun THEN 1
                         ELSE IF pc \in {"released", "begin"}
                              THEN local.releases ELSE 0
             n == local.cycles + local.skipped + inFlight + timer.status
  <2> SUFFICES ASSUME Inv, Timing, InLoop, app.at \in {"idle", "submit"}
               PROVE  timer.fired % CounterMod = n % CounterMod
    BY DEF ReleaseAccounting, InLoop, ControlPoint
  <2>1. ~stop_requested
    BY DEF Inv, LifeInv, InLoop
  <2>2. /\ InFlight \in Nat /\ Begun \in Nat
        /\ inFlight = InFlight + Begun
    BY FieldTypes DEF Inv, InFlight, Begun
  <2> HIDE DEF inFlight
  <2>3. PICK k \in Nat :
          timer.fired = local.cycles + local.skipped + InFlight + Begun
                          + timer.status + k * CounterMod
    BY <2>1 DEF Timing, AccountInv
  <2>4. k * CounterMod \in Nat /\ CounterMod \in Nat \ {0} /\ n \in Nat
    BY <2>2, FieldTypes DEF Inv
  <2>5. timer.fired = n + k * CounterMod
    BY <2>2, <2>3, <2>4, FieldTypes DEF Inv
  <2> HIDE DEF n
  <2>6. (n + k * CounterMod) % CounterMod = n % CounterMod
    BY Zenon, <2>4, ModAdd
  <2> QED BY <2>5, <2>6 DEF n
<1> QED BY <1>1, TimingInvariance, PTL

\* A cycle that completes after its deadline, a skipped release and one that
\* is taken a period late are reported as FAULT with the next state.
THEOREM MissesFault == Spec => []MissIsFault
<1>1. Inv /\ StopInv /\ Timing => MissIsFault
  <2> SUFFICES ASSUME Inv, Timing,
                      pc \in {"loop", "sync", "pend", "woken", "released",
                              "begin"},
                      \/ history.late
                      \/ state_snapshot.skipped_releases > 0
                      \/ state_snapshot.max_lateness > Period
               PROVE  state_snapshot.status = "FAULT"
    BY Zenon DEF MissIsFault
  <2>1. InLoop /\ ~(pc \in {"complete", "publish"})
    BY DEF InLoop
  <2>2. /\ state_snapshot.skipped_releases = local.skipped
        /\ state_snapshot.max_lateness = local.lateness
        /\ local.faulted => state_snapshot.status = "FAULT"
    BY Zenon, <2>1 DEF Timing, PublishedInv
  <2>3. local.skipped > 0 => local.skipped # 0
    BY FieldTypes DEF Inv
  <2>4. local.lateness > Period => ~(local.lateness <= Period)
    BY FieldTypes DEF Inv
  <2>5. local.faulted
    BY Zenon, <2>1, <2>2, <2>3, <2>4 DEF Timing, MissInv
  <2> QED BY Zenon, <2>2, <2>5
<1> QED BY <1>1, TimingInvariance, PTL

-----------------------------------------------------------------------------
(***************************************************************************)
(* Schedulability.                                                         *)
(***************************************************************************)

\* What the argument takes from the platform.
Timely == SingleCore /\ Delays = {} /\ 2 * MaxStall <= Deadline

-----------------------------------------------------------------------------
(***************************************************************************)
(* The inductive invariant.                                                *)
(***************************************************************************)

\* The timer interrupt is not held off, and without test delays the thread
\* never sleeps in a cycle.
Served ==
  /\ timer.armed => now <= timer.expires
  /\ stall <= MaxStall
  /\ test_delay_ms = 0
  /\ pc = "begin" => local.wake <= now

\* On one core the application requests a stop only while the thread waits for
\* a release, and the thread takes no further cycle.
Parked ==
  stop_requested =>
    pc \in {"pend", "woken", "released", "exit", "ending", "dead"}

\* How many expiries are unread, and how long ago the last one was: the thread
\* has been kept off the CPU since, or since the loop condition before it.
Prompt ==
  /\ pc = "arm" => now + Period <= local.scheduled + stall
  /\ InLoop /\ ~stop_requested =>
       /\ timer.status <= 1
       /\ pc = "woken" => timer.status = 1
       /\ pc \notin {"woken", "sync"} => timer.status = 0
       /\ pc \in {"released", "begin"} => local.releases = 1
       /\ timer.expires <= local.scheduled + MaxStall
                             + (timer.status + InFlight) * Period
       /\ pc = "sync" /\ timer.status = 0 =>
            now + Period <= timer.expires + MaxStall + stall
       /\ pc # "pend" /\ ~(pc = "sync" /\ timer.status = 0) =>
            now + Period <= timer.expires + stall
       /\ pc = "begin" => local.start_ms <= local.scheduled + 2 * MaxStall

\* No cycle finds itself late.
Faultless == InLoop => ~local.faulted

\* A command was received before the cycle that reads it started.
Received ==
  /\ command_snapshot.receipt_ms <= now /\ app.receipt_ms <= now
  /\ pc = "begin" => command_snapshot.receipt_ms <= local.start_ms
  /\ HasRead => /\ local.command.receipt_ms <= local.start_ms
                /\ CommandFresh(local.command, local.start_ms) => local.fresh

TimelyInv == Served /\ Parked /\ Prompt /\ Faultless /\ Received

\* The remaining numbers.
LEMMA NumberTypes ==
  ASSUME TypeOK
  PROVE  /\ MaxStall \in Nat /\ stall \in Nat /\ test_delay_ms \in Nat
         /\ local.wake \in Nat /\ app.receipt_ms \in Nat
         /\ command_snapshot.receipt_ms \in Nat
         /\ local.command.receipt_ms \in Nat
         /\ Deadline <= Period /\ Expiry \in Nat
BY ControlAssumption DEF TypeOK, Local, Command

\* The thread is blocked only where it waits for a release or does not exist.
LEMMA Blocked ==
  ASSUME TypeOK, Served, ControlBlocked
  PROVE  pc \in {"pend", "dead"}
BY FieldTypes, NumberTypes DEF Served, ControlBlocked

\* No interrupt, stall or delay is longer than assumed.
LEMMA ServedStep ==
  ASSUME Timely, TypeOK, Served, [Next]_vars
  PROVE  Served'
<1> USE FieldTypes, NumberTypes DEF Served
<1>1. CASE Tick
  <2>1. /\ now' = now + 1 /\ ~(timer.armed /\ timer.expires <= now)
        /\ stall' = stall \/ (stall < MaxStall /\ stall' = stall + 1)
        /\ UNCHANGED <<timer, test_delay_ms, pc, local>>
    BY Zenon, <1>1 DEF Tick, flags
  <2> QED BY <2>1
<1>2. CASE TimerExpire
  <2>1. timer'.expires = timer.expires + timer.period
    BY <1>2 DEF TimerExpire, TypeOK, Timer
  <2>2. /\ timer.armed /\ (pc' = "begin" => pc = "begin")
        /\ UNCHANGED <<now, stall, test_delay_ms, local>>
    BY <1>2 DEF TimerExpire, flags
  <2> QED BY <2>1, <2>2
<1>3. CASE ControlArm
  <2>1. /\ timer'.expires = now + Period /\ pc' = "loop"
        /\ UNCHANGED <<now, stall, test_delay_ms>>
    BY <1>3 DEF ControlArm, k_timer_start, flags
  <2> QED BY <2>1
<1>4. CASE ControlEntry \/ ControlPend \/ ControlPublish \/ ControlEnd
  <2>1. pc' # "begin" /\ UNCHANGED <<now, timer, stall, test_delay_ms>>
    BY ZenonT(60), <1>4 DEF ControlEntry, ControlPend, ControlPublish, ControlEnd,
                       flags
  <2> QED BY <2>1
<1>5. CASE ControlLoop
  <2>1. /\ pc' # "begin" /\ stall' = 0
        /\ UNCHANGED <<now, timer, test_delay_ms>>
    BY <1>5 DEF ControlLoop, flags
  <2> QED BY <2>1
<1>6. CASE ControlSync
  <2>1. timer'.armed = timer.armed /\ timer'.expires = timer.expires
    BY <1>6 DEF ControlSync, TypeOK, Timer
  <2>2. pc' # "begin" /\ UNCHANGED <<now, stall, test_delay_ms>>
    BY <1>6 DEF ControlSync, flags
  <2> QED BY <2>1, <2>2
<1>7. CASE ControlReleased
  <2>1. CASE stop_requested
    BY <1>7, <2>1 DEF ControlReleased
  <2>2. CASE ~stop_requested
    <3>1. /\ local' = [local EXCEPT !.start_ms = now,
                                    !.wake = now + test_delay_ms]
          /\ test_delay_ms' = 0 /\ UNCHANGED <<now, timer, stall>>
      BY <1>7, <2>2 DEF ControlReleased
    <3>2. local'.wake = now
      BY <3>1 DEF TypeOK, Local
    <3> QED BY <3>1, <3>2
  <2> QED BY <2>1, <2>2
<1>8. CASE ControlBegin \/ ControlComplete
  <2>1. pc' # "begin" /\ UNCHANGED <<now, timer, stall, test_delay_ms>>
    BY Zenon, <1>8 DEF ControlBegin, ControlComplete, flags
  <2> QED BY <2>1
<1>9. CASE ControlExit
  <2>1. timer'.armed = FALSE
    BY <1>9 DEF ControlExit, TypeOK, Timer
  <2>2. pc' # "begin" /\ UNCHANGED <<now, stall, test_delay_ms>>
    BY <1>9 DEF ControlExit
  <2> QED BY <2>1, <2>2
<1>10. CASE static_control_start
  <2>1. \/ timer' = IdleTimer
        \/ timer.armed /\ timer' = [timer EXCEPT !.status = 0]
    BY <1>10 DEF static_control_start
  <2>2. timer'.armed => timer.armed /\ timer'.expires = timer.expires
    BY <2>1 DEF IdleTimer, TypeOK, Timer
  <2>3. pc' = "created" /\ now' = now /\ stall' = 0 /\ test_delay_ms' = 0
    BY <1>10 DEF static_control_start
  <2> QED BY <2>2, <2>3
<1>11. CASE static_control_stop
  <2>1. /\ timer' = timer \/ timer'.expires = now + 1
        /\ UNCHANGED <<now, stall, test_delay_ms, pc, local>>
    BY <1>11 DEF static_control_stop, k_timer_start, thread
  <2> QED BY <2>1
<1>12. CASE CommandCallback \/ static_control_submit \/ UNCHANGED vars
  BY Zenon, <1>12 DEF CommandCallback, static_control_submit, vars, flags,
                      thread
<1>13. CASE TestDelayNextCycle
  BY <1>13 DEF TestDelayNextCycle, Timely
<1> QED BY Zenon, <1>1, <1>2, <1>3, <1>4, <1>5, <1>6, <1>7, <1>8, <1>9, <1>10,
  <1>11, <1>12, <1>13 DEF Next, Control, App

\* Where the thread can be when a stop is requested.
LEMMA ParkedStep ==
  ASSUME Timely, TypeOK, LifeInv, Served, Parked, [Next]_vars
  PROVE  Parked'
<1> USE DEF Parked
<1>1. CASE static_control_stop
  <2>1. UNCHANGED pc /\ (stop_requested \/ running \/ ~stop_requested')
        /\ ControlBlocked
    BY <1>1 DEF static_control_stop, AppRuns, Timely, thread
  <2> QED BY <2>1, Blocked
<1>2. CASE static_control_start
  BY <1>2 DEF static_control_start
<1>3. CASE TimerExpire
  BY <1>3 DEF TimerExpire, flags
<1>4. CASE Control
  <2>1. CASE ControlReleased \/ ControlLoop
    BY Zenon, <2>1 DEF ControlReleased, ControlLoop, flags
  <2>2. CASE ControlSync \/ ControlExit \/ ControlEnd
    BY Zenon, <2>2 DEF ControlSync, ControlExit, ControlEnd, flags
  <2>3. CASE ControlEntry \/ ControlArm \/ ControlPend \/ ControlBegin
             \/ ControlComplete \/ ControlPublish
    <3>1. /\ pc \in {"created", "arm", "sync", "begin", "complete", "publish"}
          /\ UNCHANGED stop_requested
      BY Zenon, <2>3 DEF ControlEntry, ControlArm, ControlPend, ControlBegin,
                         ControlComplete, ControlPublish, flags
    <3> QED BY <3>1
  <2> QED BY Zenon, <1>4, <2>1, <2>2, <2>3 DEF Control
<1>5. CASE UNCHANGED <<pc, stop_requested>>
  BY <1>5
<1> QED BY Zenon, <1>1, <1>2, <1>3, <1>4, <1>5
  DEF Next, App, Tick, CommandCallback, static_control_submit,
      TestDelayNextCycle, vars, flags, thread

-----------------------------------------------------------------------------
(***************************************************************************)
(* The thread keeps up with the timer.                                     *)
(***************************************************************************)

\* Half the deadline is less than a period.
LEMMA ShortStall ==
  ASSUME Timely, TypeOK
  PROVE  2 * MaxStall <= Period /\ MaxStall < Period
BY FieldTypes, NumberTypes DEF Timely

\* Time passes.
LEMMA PromptTick ==
  ASSUME TypeOK, Served, Prompt, Tick
  PROVE  Prompt'
<1>1. /\ now' = now + 1
      /\ \/ pc \in {"pend", "dead"} /\ stall' = stall
         \/ stall' = stall + 1
      /\ UNCHANGED <<timer, stop_requested, pc, local>>
  BY Zenon, Blocked DEF Tick, flags
<1>2. InFlight' = InFlight /\ (InLoop' <=> InLoop)
  BY <1>1 DEF InFlight, InLoop
<1>3. CASE pc \in {"pend", "dead"}
  <2>1. pc = "dead" => ~InLoop
    BY DEF InLoop
  <2> QED BY <1>1, <1>2, <1>3, <2>1 DEF Prompt
<1>4. CASE stall' = stall + 1
  <2>1. /\ now + Period <= local.scheduled + stall
             => now' + Period <= local.scheduled + stall'
        /\ now + Period <= timer.expires + MaxStall + stall
             => now' + Period <= timer.expires + MaxStall + stall'
        /\ now + Period <= timer.expires + stall
             => now' + Period <= timer.expires + stall'
    BY <1>1, <1>4, FieldTypes, NumberTypes
  <2> QED BY <1>1, <1>2, <2>1 DEF Prompt
<1> QED BY <1>1, <1>3, <1>4

\* An expiry finds the thread waiting, or about to.
LEMMA PromptExpire ==
  ASSUME Timely, TypeOK, Served, TimerInv, Prompt, TimerExpire
  PROVE  Prompt'
<1>1. /\ timer'.expires = timer.expires + timer.period
      /\ timer'.status = timer.status + 1
  BY DEF TimerExpire, TypeOK, Timer
<1>2. /\ timer.expires <= now /\ now <= timer.expires
      /\ pc' = IF pc = "pend" THEN "woken" ELSE pc
      /\ UNCHANGED <<now, stop_requested, local, stall>>
  BY DEF TimerExpire, Served, flags
<1>3. CASE ~(InLoop /\ ~stop_requested)
  BY <1>2, <1>3 DEF Prompt, InLoop
<1>4. CASE InLoop /\ ~stop_requested
  <2>1. timer.period = Period
    BY <1>4 DEF TimerInv
  <2>2. ~(now + Period <= timer.expires + stall)
    BY <1>2, ShortStall, FieldTypes, NumberTypes DEF Served
  <2>3. pc = "pend" \/ pc = "sync"
    BY <1>4, <2>2 DEF Prompt
  <2>4. timer.status = 0
    BY <1>4, <2>2, <2>3 DEF Prompt
  <2>5. InFlight = 0 /\ InFlight' = 0
    BY <1>2, <2>3 DEF InFlight
  <2>6. timer.expires <= local.scheduled + MaxStall + (0 + 0) * Period
    BY <1>4, <2>4, <2>5 DEF Prompt
  <2>7. /\ timer'.status = 1 /\ timer'.expires = timer.expires + Period
        /\ timer'.expires <= local.scheduled + MaxStall + (1 + 0) * Period
        /\ now + Period <= timer'.expires + stall
    BY <1>1, <1>2, <2>1, <2>4, <2>6, FieldTypes, NumberTypes
  <2>8. pc' \in {"woken", "sync"}
    BY <1>2, <2>3
  <2> QED BY <1>2, <2>5, <2>7, <2>8 DEF Prompt
<1> QED BY <1>3, <1>4

\* The prologue: the timer starts no later than the stall allows.
LEMMA PromptArm ==
  ASSUME TypeOK, Served, Prompt, ControlArm
  PROVE  Prompt'
<1>1. /\ timer'.expires = now + Period /\ timer'.status = 0
      /\ pc = "arm" /\ pc' = "loop"
      /\ UNCHANGED <<now, stop_requested, local, stall>>
  BY DEF ControlArm, k_timer_start, flags
<1>2. InFlight' = 0
  BY <1>1 DEF InFlight
<1>3. now + Period <= local.scheduled + stall /\ stall <= MaxStall
  BY <1>1 DEF Prompt, Served
<1>4. timer'.expires <= local.scheduled + MaxStall + (0 + 0) * Period
  BY <1>1, <1>3, FieldTypes, NumberTypes
<1>5. now + Period <= timer'.expires + stall
  BY <1>1, FieldTypes, NumberTypes
<1> QED BY <1>1, <1>2, <1>4, <1>5 DEF Prompt

\* The loop condition and the wait.
LEMMA PromptWait ==
  ASSUME TypeOK, Served, Prompt, ControlLoop \/ ControlPend
  PROVE  Prompt'
<1>1. UNCHANGED <<now, timer, stop_requested, local>>
  BY Zenon DEF ControlLoop, ControlPend, flags
<1>2. CASE ControlLoop
  <2>1. /\ pc = "loop" /\ pc' = IF stop_requested THEN "exit" ELSE "sync"
        /\ stall' = 0
    BY <1>2 DEF ControlLoop
  <2>2. CASE stop_requested
    BY <2>1, <2>2 DEF Prompt, InLoop
  <2>3. CASE ~stop_requested
    <3>1. /\ timer.status = 0
          /\ timer.expires <= local.scheduled + MaxStall
                                + (timer.status + InFlight) * Period
          /\ now + Period <= timer.expires + stall
      BY <2>1, <2>3 DEF Prompt, InLoop
    <3>2. InFlight' = InFlight
      BY <1>1, <2>1, <2>3 DEF InFlight
    <3>3. now + Period <= timer.expires + MaxStall + 0
      BY <3>1, FieldTypes, NumberTypes DEF Served
    <3> QED BY <1>1, <2>1, <2>3, <3>1, <3>2, <3>3 DEF Prompt
  <2> QED BY <2>2, <2>3
<1>3. CASE ControlPend
  <2>1. /\ pc = "sync" /\ pc' = "pend" /\ timer.status = 0
        /\ stall' = stall
    BY <1>3 DEF ControlPend
  <2>2. InFlight' = InFlight /\ InLoop
    BY <1>1, <2>1 DEF InFlight, InLoop
  <2> QED BY <1>1, <2>1, <2>2 DEF Prompt
<1> QED BY <1>2, <1>3

\* The one unread expiry is taken.
LEMMA PromptSync ==
  ASSUME TypeOK, TimerInv, Prompt, ControlSync
  PROVE  Prompt'
<1>1. /\ timer'.expires = timer.expires /\ timer'.status = 0
  BY DEF ControlSync, TypeOK, Timer
<1>2. local'.releases = timer.status /\ local'.scheduled = local.scheduled
  BY DEF ControlSync, TypeOK, Local
<1>3. /\ pc = "woken" \/ (pc = "sync" /\ (timer.status > 0 \/ ~timer.armed))
      /\ pc' = "released" /\ UNCHANGED <<now, stop_requested, stall>>
  BY DEF ControlSync, flags
<1>4. InFlight = 0 /\ InFlight' = timer.status /\ InLoop
  BY <1>2, <1>3 DEF InFlight, InLoop
<1>5. CASE stop_requested
  BY <1>3, <1>5 DEF Prompt
<1>6. CASE ~stop_requested
  <2>1. timer.armed /\ timer.status <= 1 /\ (pc = "woken" => timer.status = 1)
    BY <1>4, <1>6 DEF TimerInv, Prompt
  <2>2. timer.status > 0
    <3>1. pc = "sync" => timer.status > 0
      BY Zenon, <1>3, <2>1
    <3> QED BY <1>3, <2>1, <3>1
  <2>3. timer.status = 1
    BY <2>1, <2>2, FieldTypes
  <2>4. /\ timer.expires <= local.scheduled + MaxStall + (1 + 0) * Period
        /\ now + Period <= timer.expires + stall
    BY <1>3, <1>4, <1>6, <2>3 DEF Prompt
  <2>5. timer.expires <= local.scheduled + MaxStall + (0 + 1) * Period
    BY <2>4
  <2> QED BY <1>1, <1>2, <1>3, <1>4, <2>3, <2>4, <2>5 DEF Prompt
<1> QED BY <1>5, <1>6

\* The cycle starts within two stalls of its schedule.
LEMMA PromptReleased ==
  ASSUME TypeOK, Served, Prompt, ControlReleased
  PROVE  Prompt'
<1>1. CASE stop_requested
  BY <1>1 DEF ControlReleased, Prompt, InLoop
<1>2. CASE ~stop_requested
  <2>1. /\ pc = "released" /\ pc' = "begin"
        /\ local' = [local EXCEPT !.start_ms = now,
                                  !.wake = now + test_delay_ms]
        /\ UNCHANGED <<now, timer, stop_requested, stall>>
    BY <1>2 DEF ControlReleased
  <2>2. /\ local'.start_ms = now /\ local'.scheduled = local.scheduled
        /\ local'.releases = local.releases
    BY <2>1 DEF TypeOK, Local
  <2>3. InFlight = local.releases /\ InFlight' = local.releases /\ InLoop
    BY <2>1, <2>2 DEF InFlight, InLoop
  <2>4. /\ timer.status = 0 /\ local.releases = 1
        /\ timer.expires <= local.scheduled + MaxStall
                              + (timer.status + local.releases) * Period
        /\ now + Period <= timer.expires + stall
    BY <1>2, <2>1, <2>3 DEF Prompt
  <2>5. now <= local.scheduled + 2 * MaxStall
    BY <2>4, FieldTypes, NumberTypes DEF Served
  <2> QED BY <2>1, <2>2, <2>3, <2>4, <2>5 DEF Prompt
<1> QED BY <1>1, <1>2

\* The steps of a cycle.
LEMMA PromptCycle ==
  ASSUME TypeOK, Parked, Prompt,
         ControlBegin \/ ControlComplete \/ ControlPublish
  PROVE  Prompt'
<1>1. /\ pc \in {"begin", "complete", "publish"}
      /\ pc' \in {"complete", "publish", "loop"}
      /\ UNCHANGED <<now, timer, stop_requested, stall>>
  BY Zenon DEF ControlBegin, ControlComplete, ControlPublish, flags
<1>2. local'.scheduled = local.scheduled + InFlight * Period
  <2>1. CASE ControlBegin
    <3>1. InFlight = local.releases
      BY <2>1 DEF ControlBegin, InFlight
    <3> QED BY <2>1, <3>1 DEF ControlBegin, TypeOK, Local
  <2>2. CASE ControlComplete
    <3>1. InFlight = 0 /\ local'.scheduled = local.scheduled
      BY <2>2 DEF ControlComplete, InFlight, TypeOK, Local
    <3> QED BY <3>1, FieldTypes
  <2>3. CASE ControlPublish
    <3>1. InFlight = 0 /\ local'.scheduled = local.scheduled
      BY <2>3 DEF ControlPublish, InFlight, Locals
    <3> QED BY <3>1, FieldTypes
  <2> QED BY <2>1, <2>2, <2>3
<1>3. InLoop /\ ~stop_requested /\ InFlight' = 0 /\ InFlight \in Nat
  BY <1>1, FieldTypes DEF InLoop, Parked, InFlight
<1>4. /\ timer.status = 0
      /\ timer.expires <= local.scheduled + MaxStall
                            + (timer.status + InFlight) * Period
      /\ now + Period <= timer.expires + stall
  BY <1>1, <1>3 DEF Prompt
<1>5. timer.expires <= local'.scheduled + MaxStall + (0 + 0) * Period
  BY <1>2, <1>3, <1>4, FieldTypes, NumberTypes
<1> QED BY Zenon, <1>1, <1>3, <1>4, <1>5 DEF Prompt

\* Every step keeps the thread up with the timer.
LEMMA PromptStep ==
  ASSUME Timely, TypeOK, StopInv, Served, Parked, TimerInv, Prompt,
         [Next]_vars
  PROVE  Prompt'
<1>1. CASE ControlEntry
  <2>1. /\ local'.scheduled = now + Period /\ pc' = "arm"
        /\ UNCHANGED <<now, stall>>
    BY Zenon, <1>1 DEF ControlEntry, Locals
  <2>2. now \in Nat /\ Period \in Nat /\ stall \in Nat
    BY FieldTypes, NumberTypes
  <2> QED BY ONLY <2>1, <2>2 DEF Prompt, InLoop
<1>2. CASE ControlExit \/ ControlEnd \/ static_control_start
  <2>1. pc' \in {"ending", "dead", "created"}
    BY Zenon, <1>2 DEF ControlExit, ControlEnd, static_control_start
  <2> QED BY Zenon, <2>1 DEF Prompt, InLoop
<1>3. CASE static_control_stop
  <2>1. ControlBlocked /\ pc' = pc /\ stop_requested'
    BY <1>3 DEF static_control_stop, AppRuns, Timely, StopInv, thread
  <2> QED BY Zenon, <2>1, Blocked DEF Prompt
<1>4. CASE UNCHANGED <<now, timer, stop_requested, pc, local, stall>>
  BY Zenon, <1>4 DEF Prompt, InLoop, InFlight
<1>5. CASE Tick \/ TimerExpire
  BY Zenon, <1>5, PromptTick, PromptExpire
<1>6. CASE Control
  BY Zenon, <1>1, <1>2, <1>6, PromptArm, PromptWait, PromptSync,
     PromptReleased, PromptCycle DEF Control
<1> QED BY ZenonT(60), <1>2, <1>3, <1>4, <1>5, <1>6
  DEF Next, App, CommandCallback, static_control_submit, TestDelayNextCycle,
      vars, flags, thread

-----------------------------------------------------------------------------
(***************************************************************************)
(* The theorem.                                                            *)
(***************************************************************************)

\* A cycle that keeps up finds neither its start nor its completion late.
LEMMA FaultlessStep ==
  ASSUME Timely, TypeOK, Served, Parked, PrologueInv, Prompt, Faultless,
         [Next]_vars
  PROVE  Faultless'
<1>1. CASE ControlBegin
  <2>1. pc = "begin" /\ pc' = "complete" /\ InLoop /\ ~stop_requested
    BY <1>1 DEF ControlBegin, InLoop, Parked
  <2>2. /\ ~local.faulted /\ local.releases = 1
        /\ local.start_ms <= local.scheduled + 2 * MaxStall
    BY <2>1 DEF Faultless, Prompt
  <2>3. /\ ~(local.releases > 1)
        /\ ~(local.start_ms > local.scheduled + local.releases * Period)
    BY <2>2, ShortStall, FieldTypes, NumberTypes
  <2>4. local'.faulted = (\/ local.faulted
                          \/ local.releases > 1
                          \/ local.start_ms
                               > local.scheduled + local.releases * Period)
    BY ZenonT(60), <1>1 DEF ControlBegin, TypeOK, Local
  <2> QED BY Zenon, <2>2, <2>3, <2>4 DEF Faultless
<1>2. CASE ControlComplete
  <2>1. pc = "complete" /\ InLoop /\ ~stop_requested /\ InFlight = 0
    BY <1>2 DEF ControlComplete, InLoop, Parked, InFlight
  <2>2. /\ ~local.faulted /\ timer.status = 0
        /\ timer.expires <= local.scheduled + MaxStall + (0 + 0) * Period
        /\ now + Period <= timer.expires + stall
    BY <2>1 DEF Faultless, Prompt
  <2>3. ~DeadlineMissed(now)
    BY <2>2, FieldTypes, NumberTypes DEF Served, Timely, DeadlineMissed
  <2>4. local'.faulted = (local.faulted \/ DeadlineMissed(now))
    BY ZenonT(60), <1>2 DEF ControlComplete, TypeOK, Local
  <2> QED BY Zenon, <2>2, <2>3, <2>4 DEF Faultless
<1>3. CASE ControlArm
  <2>1. pc = "arm" /\ local' = local
    BY <1>3 DEF ControlArm
  <2> QED BY <2>1 DEF PrologueInv, Faultless
<1>4. CASE ControlSync \/ ControlReleased \/ ControlPublish
  <2>1. InLoop
    BY Zenon, <1>4 DEF ControlSync, ControlReleased, ControlPublish, InLoop
  <2>2. local'.faulted = local.faulted
    <3>1. CASE ControlSync
      BY <3>1 DEF ControlSync, TypeOK, Local
    <3>2. CASE ControlReleased
      BY Zenon, <3>2 DEF ControlReleased, TypeOK, Local
    <3>3. CASE ControlPublish
      BY <3>3 DEF ControlPublish, Locals
    <3> QED BY <1>4, <3>1, <3>2, <3>3
  <2> QED BY <2>1, <2>2 DEF Faultless
<1>5. CASE ControlEntry \/ ControlExit \/ ControlEnd \/ static_control_start
  <2>1. pc' \in {"arm", "ending", "dead", "created"}
    BY Zenon, <1>5
       DEF ControlEntry, ControlExit, ControlEnd, static_control_start
  <2> QED BY <2>1 DEF Faultless, InLoop
<1>6. CASE Tick \/ TimerExpire \/ ControlLoop \/ ControlPend
  <2>1. local' = local
    BY Zenon, <1>6 DEF Tick, TimerExpire, ControlLoop, ControlPend
  <2>2. InLoop' => InLoop
    BY <1>6 DEF Tick, TimerExpire, ControlLoop, ControlPend, InLoop
  <2> QED BY <2>1, <2>2 DEF Faultless
<1>7. CASE UNCHANGED <<pc, local>>
  BY <1>7 DEF Faultless, InLoop
<1> QED BY Zenon, <1>1, <1>2, <1>3, <1>4, <1>5, <1>6, <1>7
  DEF Next, Control, App, static_control_stop, CommandCallback,
      static_control_submit, TestDelayNextCycle, vars, thread

\* On one core no command arrives between the start of a cycle and the moment
\* it reads the command.
LEMMA ReceivedStep ==
  ASSUME Timely, TypeOK, Served, Received, [Next]_vars
  PROVE  Received'
<1> USE DEF Received
<1>1. CASE Tick
  <2>1. now' = now + 1 /\ UNCHANGED <<command_snapshot, app, pc, local>>
    BY <1>1 DEF Tick, snapshots
  <2> QED BY <2>1, FieldTypes, NumberTypes DEF HasRead, CommandFresh
<1>2. CASE CommandCallback
  <2>1. /\ app'.receipt_ms = now
        /\ UNCHANGED <<now, command_snapshot, pc, local>>
    BY <1>2 DEF CommandCallback, snapshots, thread
  <2> QED BY <2>1, FieldTypes, NumberTypes DEF HasRead, CommandFresh
<1>3. CASE static_control_submit
  <2>1. /\ command_snapshot'.receipt_ms
             \in {command_snapshot.receipt_ms, app.receipt_ms}
        /\ app'.receipt_ms = 0 /\ ControlBlocked
        /\ UNCHANGED <<now, pc, local>>
    BY Zenon, <1>3 DEF static_control_submit, IdleApp, AppRuns, Timely, thread
  <2>2. pc \in {"pend", "dead"}
    BY <2>1, Blocked
  <2> QED BY SMTT(60), <2>1, <2>2, FieldTypes, NumberTypes DEF HasRead
<1>4. CASE static_control_start
  <2>1. command_snapshot'.receipt_ms = command_snapshot.receipt_ms
    BY <1>4 DEF static_control_start, CommandAtStart, TypeOK, Command
  <2>2. pc' = "created" /\ UNCHANGED <<now, app>>
    BY <1>4 DEF static_control_start
  <2> QED BY Zenon, <2>1, <2>2 DEF HasRead
<1>5. CASE static_control_stop
  <2>1. app'.receipt_ms = app.receipt_ms
    BY <1>5 DEF static_control_stop, TypeOK
  <2>2. UNCHANGED <<now, command_snapshot, pc, local>>
    BY <1>5 DEF static_control_stop, snapshots, thread
  <2> QED BY <2>1, <2>2 DEF HasRead, CommandFresh
<1>6. CASE ControlReleased
  <2>1. UNCHANGED <<now, command_snapshot, app>>
    BY <1>6 DEF ControlReleased, snapshots
  <2>2. pc' = "exit" \/ (pc' = "begin" /\ local'.start_ms = now)
    BY ZenonT(60), <1>6 DEF ControlReleased, TypeOK, Local
  <2> QED BY <2>1, <2>2 DEF HasRead
<1>7. CASE ControlBegin
  <2>1. /\ pc = "begin" /\ pc' = "complete"
        /\ UNCHANGED <<now, command_snapshot, app>>
    BY <1>7 DEF ControlBegin, snapshots
  <2>2. /\ local'.command = command_snapshot
        /\ local'.start_ms = local.start_ms
        /\ local'.fresh = CommandFresh(command_snapshot, local.start_ms)
    BY ZenonT(60), <1>7 DEF ControlBegin, TypeOK, Local
  <2> QED BY <2>1, <2>2 DEF HasRead, CommandFresh
<1>8. CASE ControlComplete
  <2>1. /\ pc = "complete" /\ pc' = "publish"
        /\ UNCHANGED <<now, command_snapshot, app>>
    BY <1>8 DEF ControlComplete, snapshots
  <2>2. /\ local'.command = local.command /\ local'.fresh = local.fresh
        /\ local'.start_ms = local.start_ms
    BY <1>8 DEF ControlComplete, TypeOK, Local
  <2> QED BY <2>1, <2>2 DEF HasRead, CommandFresh
<1>9. CASE ControlEntry \/ ControlArm \/ ControlLoop \/ ControlPend
           \/ ControlSync \/ ControlPublish \/ ControlExit \/ ControlEnd
  <2>1. /\ pc' \notin {"begin", "complete", "publish"}
        /\ UNCHANGED <<now, command_snapshot, app>>
    BY Zenon, <1>9
       DEF ControlEntry, ControlArm, ControlLoop, ControlPend, ControlSync,
           ControlPublish, ControlExit, ControlEnd, snapshots
  <2> QED BY <2>1 DEF HasRead
<1>10. CASE TimerExpire
  <2>1. /\ UNCHANGED <<now, command_snapshot, app, local>>
        /\ pc' = pc \/ pc' = "woken"
    BY <1>10 DEF TimerExpire, snapshots
  <2> QED BY <2>1 DEF HasRead, CommandFresh
<1>11. CASE TestDelayNextCycle \/ UNCHANGED vars
  <2>1. UNCHANGED <<now, command_snapshot, app, pc, local>>
    BY Zenon, <1>11 DEF TestDelayNextCycle, vars, snapshots, thread
  <2> QED BY <2>1 DEF HasRead, CommandFresh
<1> QED BY ZenonT(60), <1>1, <1>2, <1>3, <1>4, <1>5, <1>6, <1>7, <1>8, <1>9, <1>10,
  <1>11 DEF Next, Control, App

\* What a published status says.
LEMMA StatusStep ==
  ASSUME TypeOK, Faultless, Received, StatusIsTrue, [Next]_vars
  PROVE  StatusIsTrue'
<1>1. CASE ControlEntry \/ static_control_start
  <2>1. state_snapshot' = InitialState
    BY Zenon, <1>1 DEF ControlEntry, static_control_start
  <2> QED BY <2>1 DEF StatusIsTrue, InitialState
<1>2. CASE ControlPublish
  <2>1. /\ pc = "publish" /\ InLoop /\ HasRead
        /\ state_snapshot'.status = CycleStatus
    BY <1>2 DEF ControlPublish, InLoop, HasRead
  <2>2. /\ history'.start_ms = local.start_ms
        /\ history'.receipt_ms = local.command.receipt_ms
    BY <1>2 DEF ControlPublish, TypeOK, History
  <2>3. CycleStatus # "FAULT"
    BY <2>1 DEF CycleStatus, Faultless
  <2>4. ASSUME CycleStatus = "STALE"
        PROVE  local.start_ms - local.command.receipt_ms > Expiry
    <3>1. local.command.valid /\ ~local.fresh
      BY <2>4 DEF CycleStatus
    <3>2. /\ local.command.receipt_ms <= local.start_ms
          /\ ~CommandFresh(local.command, local.start_ms)
      BY <2>1, <3>1 DEF Received
    <3> QED BY <3>1, <3>2, FieldTypes, NumberTypes DEF CommandFresh
  <2> QED BY <2>1, <2>2, <2>3, <2>4 DEF StatusIsTrue
<1>3. CASE ~ControlEntry /\ ~ControlPublish /\ ~static_control_start
  BY <1>3, QuietStep DEF StatusIsTrue
<1> QED BY <1>1, <1>2, <1>3

\* The invariant holds in every reachable state.
LEMMA TimelyInvariance ==
  ASSUME Timely
  PROVE  Spec => [](Inv /\ StopInv /\ Timing /\ TimelyInv /\ StatusIsTrue)
<1>1. Init => TimelyInv /\ StatusIsTrue
  <2> SUFFICES ASSUME Init PROVE TimelyInv /\ StatusIsTrue
    BY SMTT(30)
  <2>1. /\ pc = "dead" /\ stop_requested = FALSE /\ now = 0 /\ stall = 0
        /\ test_delay_ms = 0 /\ ~timer.armed
        /\ command_snapshot.receipt_ms = 0 /\ app.receipt_ms = 0
        /\ state_snapshot.status = "DISABLED"
    BY Zenon DEF Init, IdleTimer, NoCommand, IdleApp, InitialState
  <2>2. ~InLoop /\ ~HasRead
    BY <2>1 DEF InLoop, HasRead
  <2>3. Served
    BY <2>1, ControlAssumption DEF Served
  <2>4. Parked /\ Prompt /\ Faultless
    BY Zenon, <2>1, <2>2 DEF Parked, Prompt, Faultless
  <2>5. Received
    BY <2>1, <2>2 DEF Received
  <2>6. StatusIsTrue
    BY <2>1 DEF StatusIsTrue
  <2> QED BY Zenon, <2>3, <2>4, <2>5, <2>6 DEF TimelyInv
<1>2. /\ Inv /\ StopInv /\ Timing /\ TimelyInv /\ StatusIsTrue
      /\ [Next]_vars
      => TimelyInv' /\ StatusIsTrue'
  <2> SUFFICES ASSUME Inv, StopInv, Timing, TimelyInv, StatusIsTrue,
                      [Next]_vars
               PROVE  TimelyInv' /\ StatusIsTrue'
    OBVIOUS
  <2> USE DEF Inv, Timing, TimelyInv
  <2>1. Served'
    BY Zenon, ServedStep
  <2>2. Parked'
    BY Zenon, ParkedStep
  <2>3. Prompt'
    BY Zenon, PromptStep
  <2>4. Faultless'
    BY Zenon, FaultlessStep
  <2>5. Received'
    BY Zenon, ReceivedStep
  <2>6. StatusIsTrue'
    BY Zenon, StatusStep
  <2> QED BY Zenon, <2>1, <2>2, <2>3, <2>4, <2>5, <2>6
<1> QED BY <1>1, <1>2, TimingInvariance, PTL DEF Spec

\* If on one core, without test delays, neither the prologue nor a cycle is
\* kept off the CPU for more than half the deadline, the thread never reports
\* a fault, and STALE says that the command expired.
THEOREM TrueStatus == Timely => (Spec => []StatusIsTrue)
<1> SUFFICES ASSUME Timely PROVE Spec => []StatusIsTrue
  OBVIOUS
<1> QED BY TimelyInvariance, PTL

-----------------------------------------------------------------------------
(***************************************************************************)
(* How long an effort lasts.                                               *)
(***************************************************************************)

\* The last expiry is past, a cycle starts after its release, and the cycle of
\* the published effort after the release before those not yet published.
Aging ==
  /\ InLoop /\ ~stop_requested => timer.expires <= now + Period
  /\ pc \in {"begin", "complete", "publish"} =>
       timer.expires <= local.start_ms + Period
  /\ InLoop /\ ~stop_requested /\ state_snapshot.effort =>
       timer.expires <= history.start_ms + Period
                          + (timer.status + InFlight + Begun) * Period

\* Every step keeps these bounds.
LEMMA AgingStep ==
  ASSUME Timely, Inv, StopInv, Timing, TimelyInv, Aging, [Next]_vars
  PROVE  Aging'
<1> USE DEF Inv, Timing, TimelyInv
<1>t. history.start_ms \in Nat /\ InFlight \in Nat /\ Begun \in Nat
  BY FieldTypes DEF TypeOK, History, InFlight, Begun
<1>1. CASE Tick
  <2>1. /\ now' = now + 1
        /\ UNCHANGED <<timer, stop_requested, state_snapshot, pc, local,
                       history>>
    BY <1>1 DEF Tick, flags, snapshots, ghosts
  <2>2. InFlight' = InFlight /\ Begun' = Begun /\ (InLoop' <=> InLoop)
    BY <2>1 DEF InFlight, Begun, InLoop
  <2>3. timer.expires <= now + Period => timer.expires <= now' + Period
    BY <2>1, FieldTypes
  <2> QED BY <2>1, <2>2, <2>3 DEF Aging
<1>2. CASE TimerExpire
  <2>1. /\ timer'.expires = timer.expires + timer.period
        /\ timer'.status = timer.status + 1
    BY <1>2 DEF TimerExpire, TypeOK, Timer
  <2>2. /\ timer.expires <= now
        /\ pc' = IF pc = "pend" THEN "woken" ELSE pc
        /\ UNCHANGED <<now, stop_requested, state_snapshot, local, history>>
    BY <1>2 DEF TimerExpire, flags, snapshots, ghosts
  <2>3. InFlight' = InFlight /\ Begun' = Begun /\ (InLoop' <=> InLoop)
    BY <2>2 DEF InFlight, Begun, InLoop
  <2>4. pc \notin {"begin", "complete", "publish"}
    <3> SUFFICES ASSUME pc \in {"begin", "complete", "publish"} PROVE FALSE
      OBVIOUS
    <3>1. InLoop /\ ~stop_requested
      BY DEF InLoop, Parked
    <3>2. now + Period <= timer.expires + stall
      BY <3>1 DEF Prompt
    <3> QED BY <2>2, <3>2, ShortStall, FieldTypes, NumberTypes DEF Served
  <2>5. InLoop /\ ~stop_requested => timer.period = Period
    BY DEF TimerInv
  <2>6. InLoop /\ ~stop_requested => timer'.expires <= now + Period
    BY <2>1, <2>2, <2>5, FieldTypes
  <2>7. ASSUME InLoop, ~stop_requested, state_snapshot.effort
        PROVE  timer'.expires <= history.start_ms + Period
                 + (timer'.status + InFlight + Begun) * Period
    <3>1. timer.expires <= history.start_ms + Period
            + (timer.status + InFlight + Begun) * Period
      BY <2>7 DEF Aging
    <3> QED BY <1>t, <2>1, <2>5, <2>7, <3>1, FieldTypes
  <2> QED BY <2>2, <2>3, <2>4, <2>6, <2>7 DEF Aging
<1>3. CASE ControlArm
  <2>1. /\ pc = "arm" /\ pc' = "loop" /\ timer'.expires = now + Period
        /\ UNCHANGED <<now, state_snapshot>>
    BY <1>3 DEF ControlArm, k_timer_start, snapshots
  <2>2. ~state_snapshot.effort
    BY <2>1 DEF LatchInv, InitialState
  <2> QED BY <2>1, <2>2, FieldTypes DEF Aging
<1>4. CASE ControlLoop \/ ControlPend
  <2>1. /\ pc \in {"loop", "sync"} /\ pc' \in {"exit", "sync", "pend"}
        /\ UNCHANGED <<now, timer, stop_requested, state_snapshot, local,
                       history>>
    BY Zenon, <1>4 DEF ControlLoop, ControlPend, flags, snapshots, ghosts
  <2>2. InFlight' = InFlight /\ Begun' = Begun /\ InLoop
    BY <2>1 DEF InFlight, Begun, InLoop
  <2> QED BY <2>1, <2>2 DEF Aging
<1>5. CASE ControlSync
  <2>1. timer'.expires = timer.expires /\ timer'.status = 0
    BY <1>5 DEF ControlSync, TypeOK, Timer
  <2>2. local'.releases = timer.status
    BY <1>5 DEF ControlSync, TypeOK, Local
  <2>3. /\ pc \in {"sync", "woken"} /\ pc' = "released"
        /\ UNCHANGED <<now, stop_requested, state_snapshot, history>>
    BY <1>5 DEF ControlSync, flags, snapshots, ghosts
  <2>4. /\ InFlight = 0 /\ InFlight' = timer.status /\ Begun = 0 /\ Begun' = 0
        /\ InLoop
    BY <2>2, <2>3 DEF InFlight, Begun, InLoop
  <2>5. timer'.status + InFlight' + Begun' = timer.status + InFlight + Begun
    BY <2>1, <2>4, FieldTypes
  <2> QED BY <2>1, <2>3, <2>4, <2>5 DEF Aging
<1>6. CASE ControlReleased
  <2>1. CASE stop_requested
    BY <1>6, <2>1 DEF ControlReleased, Aging, InLoop
  <2>2. CASE ~stop_requested
    <3>1. /\ pc = "released" /\ pc' = "begin"
          /\ local' = [local EXCEPT !.start_ms = now,
                                    !.wake = now + test_delay_ms]
          /\ UNCHANGED <<now, timer, stop_requested, state_snapshot, history>>
      BY <1>6, <2>2 DEF ControlReleased, snapshots, ghosts
    <3>2. local'.start_ms = now /\ local'.releases = local.releases
      BY <3>1 DEF TypeOK, Local
    <3>3. InFlight' = InFlight /\ Begun' = Begun /\ InLoop
      BY <3>1, <3>2 DEF InFlight, Begun, InLoop
    <3> QED BY <2>2, <3>1, <3>2, <3>3 DEF Aging
  <2> QED BY <2>1, <2>2
<1>7. CASE ControlBegin \/ ControlComplete
  <2>1. /\ pc \in {"begin", "complete"} /\ pc' \in {"complete", "publish"}
        /\ UNCHANGED <<now, timer, stop_requested, state_snapshot>>
    BY Zenon, <1>7 DEF ControlBegin, ControlComplete, flags, snapshots
  <2>2. local'.start_ms = local.start_ms /\ history'.start_ms = history.start_ms
    <3>1. CASE ControlBegin
      BY <3>1 DEF ControlBegin, TypeOK, Local, ghosts
    <3>2. CASE ControlComplete
      BY <3>2 DEF ControlComplete, TypeOK, Local, History
    <3> QED BY <1>7, <3>1, <3>2
  <2>3. InLoop /\ ~stop_requested
    BY <2>1 DEF InLoop, Parked
  <2>4. pc = "begin" => local.releases = 1
    BY <2>3 DEF Prompt
  <2>5. /\ InFlight + Begun = 1 /\ InFlight' = 0 /\ Begun' = 1
    BY <2>1, <2>4 DEF InFlight, Begun
  <2>6. timer.status + InFlight' + Begun' = timer.status + InFlight + Begun
    BY <1>t, <2>5, FieldTypes
  <2> QED BY <2>1, <2>2, <2>3, <2>6 DEF Aging
<1>8. CASE ControlPublish
  <2>1. /\ pc = "publish" /\ pc' = "loop"
        /\ UNCHANGED <<now, timer, stop_requested>>
    BY <1>8 DEF ControlPublish, flags
  <2>2. history'.start_ms = local.start_ms
    BY <1>8 DEF ControlPublish, TypeOK, History
  <2>3. InLoop /\ ~stop_requested /\ InFlight' = 0 /\ Begun' = 0
    BY <2>1 DEF InLoop, Parked, InFlight, Begun
  <2>4. timer.status = 0
    BY <2>1, <2>3 DEF Prompt
  <2>5. timer.expires <= local.start_ms + Period + (0 + 0 + 0) * Period
    BY <2>1, FieldTypes DEF Aging
  <2> QED BY <2>1, <2>2, <2>3, <2>4, <2>5 DEF Aging
<1>9. CASE ControlEntry \/ ControlExit \/ ControlEnd \/ static_control_start
  <2>1. pc' \in {"arm", "ending", "dead", "created"}
    BY Zenon, <1>9
       DEF ControlEntry, ControlExit, ControlEnd, static_control_start
  <2> QED BY <2>1 DEF Aging, InLoop
<1>10. CASE static_control_stop
  <2>1. ControlBlocked /\ pc' = pc /\ stop_requested'
    BY <1>10 DEF static_control_stop, AppRuns, Timely, StopInv, thread
  <2> QED BY <2>1, Blocked DEF Aging
<1>11. CASE UNCHANGED <<now, timer, stop_requested, state_snapshot, pc, local,
                        history>>
  BY <1>11 DEF Aging, InLoop, InFlight, Begun
<1> QED BY ZenonT(60), <1>1, <1>2, <1>3, <1>4, <1>5, <1>6, <1>7, <1>8, <1>9, <1>10,
  <1>11 DEF Next, Control, App, CommandCallback, static_control_submit,
  TestDelayNextCycle, vars, flags, snapshots, thread, ghosts

\* Under the same conditions an effort outlives its command's expiry by no
\* more than a period and a stall.
THEOREM EffortExpires == Timely => (Spec => []EffortAgeBounded)
<1> SUFFICES ASSUME Timely PROVE Spec => []EffortAgeBounded
  OBVIOUS
<1>1. Init => Aging
  BY Zenon DEF Init, Aging, InLoop
<1>2. Inv /\ StopInv /\ Timing /\ TimelyInv /\ Aging /\ [Next]_vars => Aging'
  BY AgingStep
<1>3. Inv /\ Timing /\ TimelyInv /\ Aging => EffortAgeBounded
  <2> SUFFICES ASSUME Inv, Timing, TimelyInv, Aging,
                      state_snapshot.effort, running,
                      ~stop_requested
               PROVE  now - history.receipt_ms <= Expiry
                        + (IF MaxStall > Period THEN MaxStall ELSE Period)
                        + MaxStall
    BY DEF EffortAgeBounded
  <2> USE DEF Inv, TimelyInv
  <2>1. InLoop
    <3>1. pc \notin {"created", "arm"}
      BY DEF LatchInv, InitialState
    <3> QED BY <3>1 DEF LifeInv, InLoop, TypeOK, ControlPoint
  <2>2. history.start_ms \in Nat /\ history.receipt_ms \in Nat
    BY DEF TypeOK, History
  <2>3. history.start_ms - history.receipt_ms <= Expiry
    BY <2>2, NumberTypes DEF EffortHasFreshCommand
  <2>4. timer.expires <= history.start_ms + Period
                           + (timer.status + InFlight + Begun) * Period
    BY <2>1 DEF Aging
  <2>5. now <= history.start_ms + Period + MaxStall
    <3>1. CASE pc = "pend" \/ pc = "loop" \/ (pc = "sync" /\ timer.status = 0)
      <4>1. timer.status = 0 /\ InFlight = 0 /\ Begun = 0
        BY <2>1, <3>1 DEF Prompt, InFlight, Begun
      <4>2. now <= timer.expires
        BY SMTT(60), <2>1 DEF Served, Timing, TimerInv
      <4> QED BY <2>2, <2>4, <4>1, <4>2, FieldTypes, NumberTypes
    <3>2. CASE ~(pc = "pend" \/ pc = "loop"
                 \/ (pc = "sync" /\ timer.status = 0))
      <4>1. now + Period <= timer.expires + stall
        BY SMTT(60), <2>1, <3>2 DEF Prompt
      <4>2. timer.status + InFlight + Begun = 1
        BY <2>1, <3>2, FieldTypes DEF Prompt, InFlight, Begun, InLoop
      <4> QED BY <2>2, <2>4, <4>1, <4>2, FieldTypes, NumberTypes DEF Served
    <3> QED BY SMTT(60), <3>1, <3>2
  <2>6. /\ MaxStall \in Nat /\ Period \in Nat /\ now \in Nat /\ Expiry \in Nat
        /\ MaxStall < Period
    BY ShortStall, FieldTypes, NumberTypes
  <2> QED BY ONLY SMTT(30), <2>2, <2>3, <2>5, <2>6
<1> QED BY <1>1, <1>2, <1>3, TimelyInvariance, PTL DEF Spec

=============================================================================
