--------------------------- MODULE StaticControl ---------------------------
(***************************************************************************)
(* The fixed-rate controller of samples/static_control (src/control.c):    *)
(* the control thread, the release timer and the calls that the            *)
(* application thread makes (static_control_start, _stop, _submit).        *)
(*                                                                         *)
(* Time is the millisecond uptime counter.  One model step of a thread is  *)
(* the code between two accesses to state that another thread, the timer   *)
(* interrupt or the clock can change.  The control law itself              *)
(* (plant.c) is floating point: `effort' is abstracted to the flag that    *)
(* decides whether plant_step may produce a non-zero effort.               *)
(***************************************************************************)
EXTENDS Integers

CONSTANTS
  Period,        \* CONTROL_PERIOD_MS
  Deadline,      \* CONTROL_DEADLINE_MS
  Expiry,        \* COMMAND_EXPIRY_MS
  Sequence,      \* the sequence numbers that commands carry
  BadSequence,   \* those whose target is not finite or outside [-1, 1]
  Delays,        \* arguments of static_control_test_delay_next_cycle;
                 \*   empty in a production build
  SingleCore,    \* one CPU: the application thread, whose priority is
                 \*   lower (BUILD_ASSERT), runs only while the control
                 \*   thread is blocked.  FALSE: any interleaving
  MaxStall,      \* how long the control thread can be kept off the CPU by
                 \*   interrupts and more urgent threads in one cycle
  CounterMod,    \* 2^32 in the code: the cycle counters are uint32_t
  MaxTime,       \* bound on the uptime counter
  MaxStarts      \* bound on calls of static_control_start

ASSUME ControlAssumption ==
  /\ Period \in Nat \ {0} /\ Deadline \in Nat /\ Expiry \in Nat
  /\ Deadline <= Period
  /\ Sequence \subseteq Nat /\ 0 \in Sequence /\ BadSequence \subseteq Sequence
  /\ Delays \subseteq Nat \ {0}
  /\ SingleCore \in BOOLEAN
  /\ MaxStall \in Nat /\ MaxTime \in Nat /\ MaxStarts \in Nat
  /\ CounterMod \in Nat \ {0}

VARIABLES
  now,              \* k_uptime_get()
  timer,            \* release_timer: armed, expiry time, period (0 is
                    \*   one-shot) and the unread expiry count
  running,          \* atomic running
  stop_requested,   \* atomic stop_requested
  test_delay_ms,    \* atomic test_delay_ms
  command_snapshot, \* sequence, receipt_ms, valid; epoch is history
  state_snapshot,   \* what static_control_read_state returns
  pc,               \* control point of the control thread
  local,            \* its local variables
  app,              \* the application thread: its control point and the
                    \*   command it is submitting
  stall,            \* history: time in this cycle that the thread was ready
  epoch,            \* history: number of successful starts
  history           \* history: what the published state is based on

vars == <<now, timer, running, stop_requested, test_delay_ms,
          command_snapshot, state_snapshot, pc, local, app, stall, epoch,
          history>>

flags == <<running, stop_requested, test_delay_ms>>
snapshots == <<command_snapshot, state_snapshot>>
thread == <<pc, local, stall>>
ghosts == <<epoch, history>>

Status == {"DISABLED", "ACTIVE", "STALE", "FAULT"}

ControlPoint == {"created", "arm", "loop", "sync", "pend", "woken", "released",
                 "begin", "complete", "publish", "exit", "ending", "dead"}

Timer == [armed : BOOLEAN, expires : Nat, period : Nat, status : Nat,
          fired : Nat, first : Nat]

Counter == 0 .. CounterMod - 1

State == [effort : BOOLEAN, command_sequence : Sequence,
          control_cycles : Counter, skipped_releases : Counter,
          max_lateness : Nat, status : Status]

Command == [sequence : Sequence, receipt_ms : Nat, valid : BOOLEAN,
            epoch : Nat]

Local == [scheduled : Nat, faulted : BOOLEAN, cycles : Counter,
          skipped : Counter, lateness : Nat, releases : Nat, release : Nat,
          start_ms : Nat, wake : Nat, command : Command, fresh : BOOLEAN,
          effort : BOOLEAN]

History == [receipt_ms : Nat, start_ms : Nat, epoch : Nat, late : BOOLEAN,
            lateOutput : BOOLEAN, lateEarlier : BOOLEAN]

TypeOK ==
  /\ now \in Nat
  /\ timer \in Timer
  /\ running \in BOOLEAN /\ stop_requested \in BOOLEAN
  /\ test_delay_ms \in Nat
  /\ command_snapshot \in Command
  /\ state_snapshot \in State
  /\ pc \in ControlPoint
  /\ local \in Local
  /\ app \in [at : {"idle", "submit", "kick", "join"},
              sequence : Sequence, receipt_ms : Nat]
  /\ stall \in Nat /\ epoch \in Nat
  /\ history \in History

-----------------------------------------------------------------------------
(***************************************************************************)
(* The kernel timer (Zephyr k_timer).  `fired' counts the expiries since   *)
(* the periodic start and `first' is the time of the oldest unread one;    *)
(* both are history.                                                       *)
(***************************************************************************)
IdleTimer == [armed |-> FALSE, expires |-> 0, period |-> 0, status |-> 0,
              fired |-> 0, first |-> 0]

\* k_timer_start: clears the unread expiries and (re)arms the timer.
k_timer_start(delay, period) ==
  timer' = [armed |-> TRUE, expires |-> now + delay, period |-> period,
            status |-> 0, fired |-> 0, first |-> 0]

\* The timer interrupt: one expiry.  A thread pended on the timer becomes
\* ready.
TimerExpire ==
  /\ timer.armed /\ timer.expires <= now
  /\ timer' = [timer EXCEPT
                 !.armed = timer.period > 0,
                 !.expires = timer.expires + timer.period,
                 !.status = timer.status + 1,
                 !.fired = timer.fired + 1,
                 !.first = IF timer.status = 0 THEN timer.expires
                           ELSE timer.first]
  /\ pc' = IF pc = "pend" THEN "woken" ELSE pc
  /\ UNCHANGED <<now, flags, snapshots, local, stall, app, ghosts>>

-----------------------------------------------------------------------------
(***************************************************************************)
(* Scheduling and time.                                                    *)
(***************************************************************************)

\* The control thread is pended on the timer, sleeping or does not exist.
ControlBlocked ==
  \/ pc = "dead"
  \/ pc = "pend"
  \/ pc = "begin" /\ now < local.wake

\* When the application thread can take a step.
AppRuns == SingleCore => ControlBlocked

\* One millisecond passes.  A due expiry is served first: the interrupt is
\* never held off for a whole millisecond.  (The first start sets the origin
\* of time.  The bound on time does not apply to what ends by itself: a
\* one-shot expiry and a sleep.)
Tick ==
  /\ epoch > 0
  /\ \/ now < MaxTime
     \/ timer.armed /\ timer.period = 0
     \/ pc = "begin" /\ now < local.wake
  /\ ~(timer.armed /\ timer.expires <= now)
  /\ ControlBlocked \/ stall < MaxStall
  /\ now' = now + 1
  /\ stall' = IF ControlBlocked THEN stall ELSE stall + 1
  /\ UNCHANGED <<timer, flags, snapshots, pc, local, app, ghosts>>

-----------------------------------------------------------------------------
(***************************************************************************)
(* The control thread: control_entry.                                      *)
(***************************************************************************)
InitialState == [effort |-> FALSE, command_sequence |-> 0,
                 control_cycles |-> 0, skipped_releases |-> 0,
                 max_lateness |-> 0, status |-> "DISABLED"]

NoCommand == [sequence |-> 0, receipt_ms |-> 0, valid |-> FALSE, epoch |-> 0]

\* The variables of control_entry; those from `releases' on live for one
\* iteration of its loop.  `release' is history.
Locals(scheduled, faulted, cycles, skipped, lateness) ==
  [scheduled |-> scheduled, faulted |-> faulted, cycles |-> cycles,
   skipped |-> skipped, lateness |-> lateness, releases |-> 0,
   release |-> 0, start_ms |-> 0, wake |-> 0, command |-> NoCommand, fresh |-> FALSE, effort |-> FALSE]

\* The prologue up to publish_state: the first release is scheduled from the
\* uptime read here, before the timer is started.
ControlEntry ==
  /\ pc = "created"
  /\ local' = Locals(now + Period, FALSE, 0, 0, 0)
  /\ state_snapshot' = InitialState
  /\ pc' = "arm"
  /\ UNCHANGED <<now, timer, flags, command_snapshot, app, stall, ghosts>>

ControlArm ==
  /\ pc = "arm"
  /\ k_timer_start(Period, Period)
  /\ pc' = "loop"
  /\ UNCHANGED <<now, flags, snapshots, local, app, stall, ghosts>>

\* The loop condition.
ControlLoop ==
  /\ pc = "loop"
  /\ pc' = IF stop_requested THEN "exit" ELSE "sync"
  /\ stall' = 0
  /\ UNCHANGED <<now, timer, flags, snapshots, local, app, ghosts>>

\* k_timer_status_sync: with no unread expiry on a running timer the thread
\* is pended.
ControlPend ==
  /\ pc = "sync" /\ timer.status = 0 /\ timer.armed
  /\ pc' = "pend"
  /\ UNCHANGED <<now, timer, flags, snapshots, local, stall, app, ghosts>>

\* Otherwise, and once woken, it takes the unread expiries, which may be none
\* if the timer was restarted or is not running.
ControlSync ==
  /\ pc = "woken" \/ (pc = "sync" /\ (timer.status > 0 \/ ~timer.armed))
  /\ local' = [local EXCEPT !.releases = timer.status,
                            !.release = timer.first]
  /\ timer' = [timer EXCEPT !.status = 0]
  /\ pc' = "released"
  /\ UNCHANGED <<now, flags, snapshots, stall, app, ghosts>>

\* The second look at stop_requested, then the start time and the test delay.
ControlReleased ==
  /\ pc = "released"
  /\ IF stop_requested
     THEN pc' = "exit" /\ UNCHANGED <<local, test_delay_ms>>
     ELSE /\ local' = [local EXCEPT !.start_ms = now,
                                    !.wake = now + test_delay_ms]
          /\ test_delay_ms' = 0
          /\ pc' = "begin"
  /\ UNCHANGED <<now, timer, running, stop_requested, snapshots,
                 app, stall, ghosts>>

\* Mutants of CommandFresh: the expiry bound excluded, and forgotten.
CommandFreshStrict(command, start) ==
  /\ command.valid
  /\ start >= command.receipt_ms
  /\ start - command.receipt_ms < Expiry

CommandFreshForever(command, start) ==
  command.valid /\ start >= command.receipt_ms

\* command_fresh, for a cycle that started at `start'.
CommandFresh(command, start) ==
  /\ command.valid
  /\ start >= command.receipt_ms
  /\ start - command.receipt_ms <= Expiry

\* Mutant of SkippedReleases: the release that is served counts as skipped.
SkippedReleasesAll(skipped, releases) ==
  IF releases > 1 THEN (skipped + releases) % CounterMod ELSE skipped

SkippedReleases(skipped, releases) ==
  IF releases > 1 THEN (skipped + releases - 1) % CounterMod ELSE skipped

\* Once the test delay is over: release accounting, read_command, the
\* freshness and lateness tests and plant_step, whose output may be non-zero
\* only when it is enabled.
ControlBegin ==
  /\ pc = "begin" /\ now >= local.wake
  /\ LET scheduled == local.scheduled + local.releases * Period
         lateness  == local.start_ms - local.scheduled
         fresh     == CommandFresh(command_snapshot, local.start_ms)
         faulted   == \/ local.faulted
                      \/ local.releases > 1
                      \/ local.start_ms > scheduled
     IN  local' = [local EXCEPT
                     !.scheduled = scheduled,
                     !.command = command_snapshot,
                     !.fresh = fresh,
                     !.faulted = faulted,
                     !.skipped = SkippedReleases(@, local.releases),
                     !.lateness = IF lateness > @ THEN lateness ELSE @,
                     !.effort = fresh /\ ~faulted]
  /\ pc' = "complete"
  /\ UNCHANGED <<now, timer, flags, snapshots, app, stall, ghosts>>

\* Mutants of DeadlineMissed: local.scheduled was already advanced to the next
\* release, and a completion at the deadline counts as late.
DeadlineMissedNext(completion) == completion > local.scheduled + Deadline

DeadlineMissedAt(completion) ==
  completion >= local.scheduled - Period + Deadline

\* The cycle completed after its output deadline.
DeadlineMissed(completion) ==
  completion > local.scheduled - Period + Deadline

\* completion_ms is read and compared with the deadline.
ControlComplete ==
  /\ pc = "complete"
  /\ local' = [local EXCEPT
                 !.faulted = @ \/ DeadlineMissed(now),
                 !.effort = @ /\ ~DeadlineMissed(now)]
  /\ history' = [history EXCEPT
                   !.late = @ \/ (/\ local.releases > 0
                                  /\ now > local.release + Deadline)]
  /\ pc' = "publish"
  /\ UNCHANGED <<now, timer, flags, snapshots, app, stall, epoch>>

\* Mutant of CycleStatus: an expired command reported as none.
CycleStatusNoStale ==
  IF local.faulted THEN "FAULT"
  ELSE IF ~local.fresh THEN "DISABLED" ELSE "ACTIVE"

CycleStatus ==
  IF local.faulted THEN "FAULT"
  ELSE IF ~local.command.valid THEN "DISABLED"
  ELSE IF ~local.fresh THEN "STALE" ELSE "ACTIVE"

\* Mutant of NextCycle: a counter wider than uint32_t.
NextCycleWide == local.cycles + 1

NextCycle == (local.cycles + 1) % CounterMod

\* The state of the cycle is assembled and published.
ControlPublish ==
  /\ pc = "publish"
  /\ local' = Locals(local.scheduled, local.faulted, NextCycle,
                     local.skipped, local.lateness)
  /\ state_snapshot' = [effort |-> ~local.faulted /\ local.effort,
                        command_sequence |-> local.command.sequence,
                        control_cycles |-> NextCycle,
                        skipped_releases |-> local.skipped,
                        max_lateness |-> local.lateness,
                        status |-> CycleStatus]
  /\ history' = [history EXCEPT !.receipt_ms = local.command.receipt_ms,
                                !.start_ms = local.start_ms,
                                !.epoch = local.command.epoch,
                                !.lateOutput = now > local.release + Deadline,
                                !.lateEarlier = @ \/ history.lateOutput]
  /\ pc' = "loop"
  /\ UNCHANGED <<now, timer, flags, command_snapshot, app, stall, epoch>>

\* k_timer_stop and atomic_clear(&running); the thread still exists.
ControlExit ==
  /\ pc = "exit"
  /\ timer' = [timer EXCEPT !.armed = FALSE, !.status = 0]
  /\ running' = FALSE
  /\ local' = Locals(0, FALSE, 0, 0, 0)
  /\ pc' = "ending"
  /\ UNCHANGED <<now, stop_requested, test_delay_ms, snapshots, app, stall,
                 ghosts>>

\* The entry function returns and the kernel ends the thread.
ControlEnd ==
  /\ pc = "ending"
  /\ pc' = "dead"
  /\ UNCHANGED <<now, timer, flags, snapshots, local, app, stall, ghosts>>

Control ==
  \/ ControlEntry \/ ControlArm \/ ControlLoop \/ ControlPend \/ ControlSync
  \/ ControlReleased \/ ControlBegin \/ ControlComplete
  \/ ControlPublish \/ ControlExit \/ ControlEnd

-----------------------------------------------------------------------------
(***************************************************************************)
(* The application thread.                                                 *)
(***************************************************************************)

IdleApp == [at |-> "idle", sequence |-> 0, receipt_ms |-> 0]

\* Mutant of CommandAtStart: the command of the last run stays valid.
CommandAtStartKept == command_snapshot

\* Only the flag is cleared: the old sequence number stays.
CommandAtStart == [command_snapshot EXCEPT !.valid = FALSE]

\* static_control_start; a call while running is TRUE changes nothing.
\* k_timer_init on a timer that a late kick (below) left armed is undefined:
\* the pending expiry may be forgotten or may still happen.
static_control_start ==
  /\ AppRuns /\ app.at = "idle"
  /\ epoch < MaxStarts
  /\ ~running
  /\ running' = TRUE
  /\ stop_requested' = FALSE
  /\ test_delay_ms' = 0
  /\ command_snapshot' = CommandAtStart
  /\ state_snapshot' = InitialState
  /\ \/ timer' = IdleTimer
     \/ timer.armed /\ timer' = [timer EXCEPT !.status = 0]
  /\ pc' = "created"
  /\ stall' = 0
  /\ epoch' = epoch + 1
  /\ history' = [history EXCEPT !.late = FALSE, !.lateOutput = FALSE,
                                !.lateEarlier = FALSE]
  /\ UNCHANGED <<now, local, app>>

\* Mutant of JoinReturns: the flag is awaited instead of the thread.
JoinReturnsOnFlag == ~running

\* k_thread_join returns once the thread has ended.
JoinReturns == pc = "dead"

\* Mutant of static_control_stop: the timer is kicked before the flag is set.
static_control_stop_kick_first ==
  /\ AppRuns
  /\ \/ /\ app.at = "idle" /\ running
        /\ k_timer_start(1, 0)
        /\ app' = [app EXCEPT !.at = "kick"]
        /\ UNCHANGED stop_requested
     \/ /\ app.at = "kick"
        /\ stop_requested' = TRUE
        /\ app' = [app EXCEPT !.at = "join"]
        /\ UNCHANGED timer
     \/ /\ app.at = "join" /\ JoinReturns
        /\ app' = [app EXCEPT !.at = "idle"]
        /\ UNCHANGED <<timer, stop_requested>>
  /\ UNCHANGED <<now, running, test_delay_ms, snapshots, thread, ghosts>>

\* static_control_stop: the flag, then a one-tick timer that wakes the
\* thread, then k_thread_join.  A call while running is FALSE returns.
static_control_stop ==
  /\ AppRuns
  /\ \/ /\ app.at = "idle" /\ running
        /\ stop_requested' = TRUE
        /\ app' = [app EXCEPT !.at = "kick"]
        /\ UNCHANGED timer
     \/ /\ app.at = "kick"
        /\ k_timer_start(1, 0)
        /\ app' = [app EXCEPT !.at = "join"]
        /\ UNCHANGED stop_requested
     \/ /\ app.at = "join" /\ JoinReturns
        /\ app' = [app EXCEPT !.at = "idle"]
        /\ UNCHANGED <<timer, stop_requested>>
  /\ UNCHANGED <<now, running, test_delay_ms, snapshots, thread, ghosts>>

\* command_callback (main.c) reads the uptime before it calls
\* static_control_submit.
CommandCallback ==
  /\ AppRuns /\ app.at = "idle"
  /\ \E s \in Sequence :
       app' = [at |-> "submit", sequence |-> s, receipt_ms |-> now]
  /\ UNCHANGED <<now, timer, flags, snapshots, thread, ghosts>>

\* static_control_submit: an invalid target is rejected, any other command
\* replaces the snapshot under its lock.
static_control_submit ==
  /\ AppRuns /\ app.at = "submit"
  /\ app' = IdleApp
  /\ command_snapshot' =
       IF app.sequence \in BadSequence THEN command_snapshot
       ELSE [sequence |-> app.sequence, receipt_ms |-> app.receipt_ms,
             valid |-> TRUE, epoch |-> epoch]
  /\ UNCHANGED <<now, timer, flags, state_snapshot, thread, ghosts>>

\* static_control_test_delay_next_cycle.
TestDelayNextCycle ==
  /\ AppRuns /\ app.at = "idle"
  /\ now < MaxTime
  /\ \E d \in Delays : test_delay_ms' = d
  /\ UNCHANGED <<now, timer, running, stop_requested, snapshots,
                 thread, app, ghosts>>

App ==
  \/ static_control_start \/ static_control_stop \/ CommandCallback
  \/ static_control_submit \/ TestDelayNextCycle

-----------------------------------------------------------------------------
Init ==
  /\ now = 0
  /\ timer = IdleTimer
  /\ running = FALSE
  /\ stop_requested = FALSE
  /\ test_delay_ms = 0
  /\ command_snapshot = NoCommand
  /\ state_snapshot = InitialState
  /\ pc = "dead"
  /\ local = Locals(0, FALSE, 0, 0, 0)
  /\ app = IdleApp
  /\ stall = 0
  /\ epoch = 0
  /\ history = [receipt_ms |-> 0, start_ms |-> 0, epoch |-> 0,
                late |-> FALSE, lateOutput |-> FALSE,
                lateEarlier |-> FALSE]

Next == Tick \/ TimerExpire \/ Control \/ App

Spec == Init /\ [][Next]_vars

\* The kernel runs a ready thread and the clock goes on.  The application
\* need not call anything, but a call that has begun goes on.
FairSpec ==
  /\ Spec
  /\ WF_vars(Tick) /\ WF_vars(TimerExpire) /\ WF_vars(Control)
  /\ WF_vars(static_control_stop /\ app.at # "idle")
  /\ WF_vars(static_control_submit)

-----------------------------------------------------------------------------
(***************************************************************************)
(* Properties.                                                             *)
(***************************************************************************)

\* An effort is published only from a command that was submitted after the
\* last start and had not expired when the cycle began ("Outputs begin
\* disabled. A command expires 250 ms after local receipt").
EffortHasFreshCommand ==
  state_snapshot.effort =>
    /\ state_snapshot.status = "ACTIVE"
    /\ history.epoch = epoch
    /\ history.start_ms - history.receipt_ms \in 0..Expiry

\* While the thread runs, an effort outlives its command's expiry by no more
\* than the time to the next release (or the stall that hides it) and the
\* stall of the cycle that revokes it.
EffortAgeBounded ==
  state_snapshot.effort /\ running /\ ~stop_requested =>
    now - history.receipt_ms
      <= Expiry + (IF MaxStall > Period THEN MaxStall ELSE Period) + MaxStall

\* Every expiry of the release timer is counted once: as a cycle, as a
\* skipped release, in the unread count or in the cycle in progress.
ReleaseAccounting ==
  pc \in ControlPoint \ {"created", "arm", "exit", "ending", "dead"}
  /\ app.at \in {"idle", "submit"} =>
    LET begun    == pc \in {"complete", "publish"}
        inFlight == IF begun THEN 1
                    ELSE IF pc \in {"released", "begin"} THEN local.releases
                    ELSE 0
    IN  timer.fired % CounterMod
          = (local.cycles + local.skipped + inFlight + timer.status)
              % CounterMod

\* "A missed release or output deadline sets a latched fault": once a cycle
\* completed later than Deadline after the expiry that released it, or a
\* release was skipped or taken a period late, the published status is FAULT.
MissIsFault ==
  /\ pc \in {"loop", "sync", "pend", "woken", "released", "begin"}
  /\ \/ history.late
     \/ state_snapshot.skipped_releases > 0
     \/ state_snapshot.max_lateness > Period
  => state_snapshot.status = "FAULT"

\* FAULT is left only by another static_control_start.
FaultLatched ==
  [][state_snapshot.status = "FAULT" /\ epoch' = epoch
       => state_snapshot'.status = "FAULT"]_vars

\* When the application may start again the old thread has ended: the thread
\* object, its stack and the snapshots are never reinitialised under it.
JoinedBeforeReuse == app.at = "idle" /\ ~running => pc = "dead"

\* On one core, without test delays and with stalls of at most half the
\* deadline in the prologue or in a cycle, the thread never reports a fault,
\* and STALE says that the command expired.
StatusIsTrue ==
  /\ state_snapshot.status # "FAULT"
  /\ state_snapshot.status = "STALE" =>
       history.start_ms - history.receipt_ms > Expiry

\* static_control_stop returns: the thread sees the request and ends.
StopReturns ==
  app.at \in {"kick", "join"} ~> (app.at = "idle" /\ pc = "dead")

\* The claim that a missed output deadline sets the fault, taken at the
\* moment the output is published: after a state that was published later
\* than Deadline after its release, the following one reports FAULT.
OutputMissIsFault == history.lateEarlier => state_snapshot.status = "FAULT"

\* The controller implements the contract that its README states.
Contract == INSTANCE ControlContract
  WITH run <- epoch, status <- state_snapshot.status,
       effort <- state_snapshot.effort

\* Every sequence of published states is one the contract allows.
ImplementsContract == Contract!Spec

=============================================================================
