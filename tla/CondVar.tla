------------------------------- MODULE CondVar -------------------------------
(***************************************************************************)
(* Waiting on a condition with a timeout, through the three layers this    *)
(* repository patches or configures: k_condvar_wait of the Zephyr kernel   *)
(* (patches/zephyr-condvar-timeout-relock.patch),                          *)
(* ddsrt_cond_waituntil_impl of Cyclone DDS                                *)
(* (patches/cyclonedds-zephyr-4.4.patch), and the CMake decision which of  *)
(* the two has to take the mutex back after a timeout                      *)
(* (cmake/rmw/cyclonedds_c.cmake).  k_mutex is recursive: taking it back   *)
(* in both layers is as wrong as in neither.                               *)
(***************************************************************************)
EXTENDS Integers, FiniteSets

CONSTANTS
  Thread,     \* the threads that use the mutex and the condition
  NoThread    \* the owner of a free mutex

ASSUME CondVarAssumption == NoThread \notin Thread

VARIABLES
  build,      \* the kernel's version, whether the kernel patch is applied,
              \*   and whether Cyclone DDS has the workaround
  mutex,      \* owner and lock_count of the k_mutex
  pc,         \* where each thread is
  ret         \* what the kernel's wait returned to each thread

vars == <<build, mutex, pc, ret>>

\* "4.4" stands for 4.4.0 to 4.4.2, the versions that unlock on a timeout
\* unless they are patched; "other" for the kernels that do not.
Build ==
  [version : {"4.4", "other"}, patched : BOOLEAN, workaround : BOOLEAN]

TypeOK ==
  /\ build \in Build
  /\ mutex \in [owner : Thread \cup {NoThread}, count : 0..1]
  /\ pc \in [Thread -> {"out", "in", "pend", "timed", "woken", "expired",
                        "relock", "returned"}]
  /\ ret \in [Thread -> {"OK", "EAGAIN"}]

-----------------------------------------------------------------------------
(***************************************************************************)
(* The build.                                                              *)
(***************************************************************************)

\* The kernel holds the mutex when a wait ends without a signal.
Relocks == build.version = "other" \/ build.patched

\* Mutant of RelockDefined: the version alone decides.
RelockDefinedByVersion == build.version = "4.4"

\* CYCLONEDDS_ZEPHYR_CONDVAR_TIMEOUT_RELOCK
RelockDefined == build.version = "4.4" /\ ~build.patched

\* One layer at least has its patch, as scripts/setup.sh leaves them.
Repaired == Relocks \/ build.workaround

(***************************************************************************)
(* The kernel's mutex: recursive for its owner.                            *)
(***************************************************************************)

Free(t) == mutex.owner \in {NoThread, t}

Locked(t) == mutex' = [owner |-> t, count |-> mutex.count + 1]

Unlocked ==
  mutex' = IF mutex.count = 1 THEN [owner |-> NoThread, count |-> 0]
           ELSE [mutex EXCEPT !.count = @ - 1]

Goes(t, to) == pc' = [pc EXCEPT ![t] = to]

\* pthread_mutex_lock and pthread_mutex_unlock of a thread of the middleware.
Lock(t) ==
  /\ pc[t] = "out" /\ Free(t)
  /\ Locked(t) /\ Goes(t, "in")
  /\ UNCHANGED <<build, ret>>

Unlock(t) ==
  /\ pc[t] = "in"
  /\ IF mutex.owner = t THEN Unlocked ELSE UNCHANGED mutex
  /\ Goes(t, "out")
  /\ UNCHANGED <<build, ret>>

(***************************************************************************)
(* k_condvar_wait and k_condvar_signal.                                    *)
(***************************************************************************)

\* Mutant of WaitZero: the unlock without the relock for every build.
WaitZeroUnlocks(t) == IF mutex.owner = t THEN Unlocked ELSE UNCHANGED mutex

\* K_NO_WAIT: a kernel without the fix gives the mutex away.
WaitZero(t) ==
  IF ~Relocks /\ mutex.owner = t THEN Unlocked ELSE UNCHANGED mutex

\* The thread holds the mutex as far as it knows.
k_condvar_wait(t) ==
  /\ pc[t] = "in"
  /\ \/ /\ WaitZero(t)
        /\ ret' = [ret EXCEPT ![t] = "EAGAIN"] /\ Goes(t, "returned")
     \/ \E how \in {"pend", "timed"} :
          /\ IF mutex.owner = t THEN Unlocked ELSE UNCHANGED mutex
          /\ Goes(t, how) /\ UNCHANGED ret
  /\ UNCHANGED build

k_condvar_signal(t) ==
  /\ pc[t] = "in"
  /\ \E w \in Thread : pc[w] \in {"pend", "timed"} /\ Goes(w, "woken")
  /\ UNCHANGED <<build, mutex, ret>>

\* Mutant of Timeout: expiry is only noticed while the mutex is free.
TimeoutIdle(t) ==
  /\ pc[t] = "timed" /\ Free(t) /\ Goes(t, "expired")
  /\ UNCHANGED <<build, mutex, ret>>

\* z_pend_curr returns -EAGAIN.
Timeout(t) ==
  /\ pc[t] = "timed" /\ Goes(t, "expired")
  /\ UNCHANGED <<build, mutex, ret>>

\* A signalled wait takes the mutex back in every kernel.
WaitSignalled(t) ==
  /\ pc[t] = "woken" /\ Free(t) /\ Locked(t)
  /\ ret' = [ret EXCEPT ![t] = "OK"] /\ Goes(t, "returned")
  /\ UNCHANGED build

WaitTimedOut(t) ==
  /\ pc[t] = "expired"
  /\ IF Relocks THEN Free(t) /\ Locked(t) ELSE UNCHANGED mutex
  /\ ret' = [ret EXCEPT ![t] = "EAGAIN"] /\ Goes(t, "returned")
  /\ UNCHANGED build

(***************************************************************************)
(* ddsrt_cond_waituntil_impl after pthread_cond_timedwait.                 *)
(***************************************************************************)

WaitReturned(t) ==
  /\ pc[t] = "returned"
  /\ Goes(t, IF ret[t] = "EAGAIN" /\ RelockDefined /\ build.workaround
             THEN "relock" ELSE "in")
  /\ UNCHANGED <<build, mutex, ret>>

\* pthread_mutex_lock of the workaround
Relock(t) ==
  /\ pc[t] = "relock" /\ Free(t)
  /\ Locked(t) /\ Goes(t, "in")
  /\ UNCHANGED <<build, ret>>

Next ==
  \E t \in Thread :
    \/ Lock(t) \/ Unlock(t)
    \/ k_condvar_wait(t) \/ k_condvar_signal(t)
    \/ Timeout(t) \/ WaitSignalled(t) \/ WaitTimedOut(t)
    \/ WaitReturned(t) \/ Relock(t)

Init ==
  /\ build \in Build /\ Repaired
  /\ mutex = [owner |-> NoThread, count |-> 0]
  /\ pc = [t \in Thread |-> "out"]
  /\ ret = [t \in Thread |-> "OK"]

Spec == Init /\ [][Next]_vars

\* The ways out of the region; polling with K_NO_WAIT is not one.
Release(t) == (Unlock(t) \/ k_condvar_wait(t)) /\ pc'[t] # "returned"

\* The kernel expires a timeout, runs a ready thread, and hands a mutex to its
\* waiters in order (strong fairness on taking it); a thread does not keep the
\* mutex for good.
Fairness ==
  \A t \in Thread :
    /\ WF_vars(Timeout(t)) /\ WF_vars(WaitReturned(t))
    /\ SF_vars(Release(t))
    /\ SF_vars(WaitSignalled(t)) /\ SF_vars(WaitTimedOut(t))
    /\ SF_vars(Relock(t))

-----------------------------------------------------------------------------
(***************************************************************************)
(* Properties.                                                             *)
(***************************************************************************)

\* A thread that came back from a wait, signalled, timed out or without
\* waiting, owns the mutex exactly once, on every kernel with the definitions
\* CMake chose for it: no two threads are in the region, and one unlock frees
\* it.
HeldOnce == \A t \in Thread : pc[t] = "in" => mutex = [owner |-> t, count |-> 1]

\* A wait with a timeout comes back, however the others use the mutex.
TimedWaitReturns == \A t \in Thread : pc[t] = "timed" ~> pc[t] = "in"

=============================================================================
