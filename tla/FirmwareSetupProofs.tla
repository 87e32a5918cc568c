------------------------ MODULE FirmwareSetupProofs -------------------------
(***************************************************************************)
(* A setup completes what earlier ones left, for all sets of repositories, *)
(* all patches that share no file and any number of interruptions, and the *)
(* firmware that is built after it keeps its mutexes, for any number of    *)
(* threads.                                                                *)
(***************************************************************************)
EXTENDS FirmwareSetup, TLAPS

-----------------------------------------------------------------------------
(***************************************************************************)
(* Waiting on a condition.                                                 *)
(***************************************************************************)

\* The threads that own the mutex by where they are.  A kernel that does not
\* take the mutex back leaves it to the middleware.
Holds(t) ==
  \/ pc[t] = "in"
  \/ pc[t] = "returned" /\ (ret[t] = "OK" \/ Relocks)

Taken(t) == [owner |-> t, count |-> 1]

\* Where the threads are says who owns the mutex, and how often.
OwnerInv ==
  /\ mutex.owner = NoThread => mutex.count = 0
  /\ \A t \in Thread : Holds(t) <=> mutex = Taken(t)
  /\ \A t \in Thread : mutex.owner = t => mutex = Taken(t)

WaitInv == TypeOK /\ OwnerInv /\ Repaired

\* The two layers divide the relock after a timeout between them.
LEMMA OneRelock ==
  ASSUME TypeOK, Repaired
  PROVE  RelockDefined /\ build.workaround <=> ~Relocks
BY DEF TypeOK, Build, RelockDefined, Relocks, Repaired

\* A thread that takes the mutex leaves it taken once and the others without.
LEMMA LockStep ==
  ASSUME WaitInv, NEW t \in Thread, ~Holds(t), Free(t), Locked(t)
  PROVE  /\ mutex' = Taken(t)
         /\ \A u \in Thread : ~Holds(u)
<1>1. mutex.owner = NoThread /\ mutex.count = 0
  BY CondVarAssumption DEF WaitInv, OwnerInv, Free
<1>2. mutex' = Taken(t)
  BY <1>1 DEF Locked, Taken
<1>3. ASSUME NEW u \in Thread PROVE ~Holds(u)
  BY <1>1, CondVarAssumption DEF WaitInv, OwnerInv, Taken
<1> QED BY <1>2, <1>3

\* A thread that gives the mutex up leaves it free and all without.
LEMMA UnlockStep ==
  ASSUME WaitInv, NEW t \in Thread, Holds(t),
         IF mutex.owner = t THEN Unlocked ELSE UNCHANGED mutex
  PROVE  /\ mutex' = [owner |-> NoThread, count |-> 0]
         /\ \A u \in Thread : Holds(u) => u = t
<1>1. mutex = Taken(t)
  BY DEF WaitInv, OwnerInv
<1>2. mutex.owner = t /\ mutex.count = 1
  BY <1>1 DEF Taken
<1>3. mutex' = [owner |-> NoThread, count |-> 0]
  BY <1>2 DEF Unlocked
<1>4. ASSUME NEW u \in Thread, Holds(u) PROVE u = t
  <2>1. mutex = Taken(u)
    BY <1>4 DEF WaitInv, OwnerInv
  <2> QED BY <2>1, <1>2 DEF Taken
<1> QED BY <1>3, <1>4

\* Every step of a thread keeps the invariant.
LEMMA WaitStep ==
  ASSUME WaitInv, [Next]_vars
  PROVE  WaitInv'
<1> USE DEF Goes
<1>t. TypeOK /\ OwnerInv /\ Repaired
  BY DEF WaitInv
<1>u. CASE UNCHANGED vars
  BY <1>u DEF vars, WaitInv, TypeOK, OwnerInv, Holds, Relocks, Repaired
<1>n. ASSUME NEW t \in Thread,
             \/ Lock(t) \/ Unlock(t)
             \/ k_condvar_wait(t) \/ k_condvar_signal(t)
             \/ Timeout(t) \/ WaitSignalled(t) \/ WaitTimedOut(t)
             \/ WaitReturned(t) \/ Relock(t)
      PROVE  WaitInv'
  <2>b. build' = build /\ (Relocks' <=> Relocks) /\ Repaired'
    BY <1>n, <1>t DEF Lock, Unlock, k_condvar_wait, k_condvar_signal, Timeout,
                WaitSignalled, WaitTimedOut, WaitReturned, Relock, Relocks,
                Repaired
  <2>r. RelockDefined /\ build.workaround <=> ~Relocks
    BY <1>t, OneRelock
  \* a step that takes the mutex
  <2>l. ASSUME ~Holds(t), Free(t), Locked(t), Holds(t)',
               pc' = [pc EXCEPT ![t] = pc'[t]],
               \A u \in Thread \ {t} : ret'[u] = ret[u],
               pc'[t] \in {"in", "returned"}, ret' \in [Thread -> {"OK", "EAGAIN"}]
        PROVE  WaitInv'
    <3>1. mutex' = Taken(t) /\ \A u \in Thread : ~Holds(u)
      BY <2>l, LockStep
    <3>2. \A u \in Thread \ {t} : ~Holds(u)'
      BY <2>l, <2>b, <3>1, <1>t DEF Holds, TypeOK
    <3>3. mutex'.owner = t /\ mutex'.count = 1
      BY <3>1 DEF Taken
    <3>4. OwnerInv'
      BY <3>1, <3>2, <3>3, <2>l, CondVarAssumption DEF OwnerInv, Taken
    <3>5. TypeOK'
      BY <3>1, <2>l, <2>b, <1>t DEF TypeOK, Taken
    <3> QED BY <3>4, <3>5, <2>b DEF WaitInv
  \* a step that gives it up
  <2>g. ASSUME Holds(t),
               IF mutex.owner = t THEN Unlocked ELSE UNCHANGED mutex,
               ~Holds(t)', pc' = [pc EXCEPT ![t] = pc'[t]],
               \A u \in Thread \ {t} : ret'[u] = ret[u],
               pc'[t] \in {"out", "pend", "timed", "returned"},
               ret' \in [Thread -> {"OK", "EAGAIN"}]
        PROVE  WaitInv'
    <3>1. /\ mutex' = [owner |-> NoThread, count |-> 0]
          /\ \A u \in Thread : Holds(u) => u = t
      BY <2>g, UnlockStep
    <3>2. \A u \in Thread : ~Holds(u)'
      BY <2>g, <2>b, <3>1, <1>t DEF Holds, TypeOK
    <3>3. mutex'.owner = NoThread /\ mutex'.count = 0
      BY <3>1
    <3>4. \A u \in Thread : mutex'.owner # u /\ mutex' # Taken(u)
      BY <3>3, CondVarAssumption DEF Taken
    <3>5. OwnerInv'
      BY <3>2, <3>3, <3>4 DEF OwnerInv, Taken
    <3>6. TypeOK'
      BY <3>1, <2>g, <2>b, <1>t DEF TypeOK
    <3> QED BY <3>5, <3>6, <2>b DEF WaitInv
  \* a step that leaves it where it is
  <2>k. ASSUME UNCHANGED mutex, TypeOK',
               \A u \in Thread : Holds(u)' <=> Holds(u)
        PROVE  WaitInv'
    BY <2>k, <2>b, <1>t DEF WaitInv, OwnerInv, Taken
  <2>1. CASE Lock(t)
    BY <2>1, <2>l, <1>t DEF Lock, Holds, TypeOK
  <2>2. CASE Unlock(t)
    BY <2>2, <2>g, <1>t DEF Unlock, Holds, TypeOK
  <2>3. CASE k_condvar_wait(t)
    <3>h. pc[t] = "in" /\ Holds(t)
      BY <2>3 DEF k_condvar_wait, Holds
    <3>1. CASE /\ WaitZero(t)
               /\ ret' = [ret EXCEPT ![t] = "EAGAIN"]
               /\ pc' = [pc EXCEPT ![t] = "returned"]
      <4>1. pc'[t] = "returned" /\ ret'[t] = "EAGAIN"
        BY <3>1, <1>t DEF TypeOK
      <4>2. CASE Relocks
        <5>1. TypeOK'
          BY <3>1, <4>2, <2>b, <1>t DEF TypeOK, WaitZero
        <5>2. \A u \in Thread : Holds(u)' <=> Holds(u)
          BY <3>1, <4>1, <4>2, <2>b, <3>h, <1>t DEF Holds, TypeOK
        <5> QED BY <5>1, <5>2, <2>k, <3>1, <4>2 DEF WaitZero
      <4>3. CASE ~Relocks
        BY <3>1, <4>1, <4>3, <2>b, <2>g, <3>h, <1>t DEF Holds, TypeOK, WaitZero
      <4> QED BY <4>2, <4>3
    <3>2. ASSUME NEW how \in {"pend", "timed"},
                 IF mutex.owner = t THEN Unlocked ELSE UNCHANGED mutex,
                 pc' = [pc EXCEPT ![t] = how], UNCHANGED ret
          PROVE  WaitInv'
      BY <3>2, <2>g, <3>h, <1>t DEF Holds, TypeOK
    <3> QED BY <2>3, <3>1, <3>2 DEF k_condvar_wait
  <2>4. CASE k_condvar_signal(t)
    <3>1. PICK w \in Thread : pc[w] \in {"pend", "timed"} /\ Goes(w, "woken")
      BY Zenon, <2>4 DEF k_condvar_signal
    <3>2. TypeOK'
      BY <2>4, <3>1, <1>t DEF k_condvar_signal, TypeOK
    <3>3. \A u \in Thread : Holds(u)' <=> Holds(u)
      BY <2>4, <3>1, <2>b, <1>t DEF k_condvar_signal, Holds, TypeOK
    <3> QED BY <2>4, <3>2, <3>3, <2>k DEF k_condvar_signal
  <2>5. CASE Timeout(t)
    <3>1. TypeOK'
      BY <2>5, <1>t DEF Timeout, TypeOK
    <3>2. \A u \in Thread : Holds(u)' <=> Holds(u)
      BY <2>5, <2>b, <1>t DEF Timeout, Holds, TypeOK
    <3> QED BY <2>5, <3>1, <3>2, <2>k DEF Timeout
  <2>6. CASE WaitSignalled(t)
    BY <2>6, <2>l, <1>t DEF WaitSignalled, Holds, TypeOK
  <2>7. CASE WaitTimedOut(t)
    <3>1. CASE Relocks
      BY <2>7, <3>1, <2>b, <2>l, <1>t DEF WaitTimedOut, Holds, TypeOK
    <3>2. CASE ~Relocks
      <4>1. TypeOK'
        BY <2>7, <3>2, <1>t DEF WaitTimedOut, TypeOK
      <4>2. \A u \in Thread : Holds(u)' <=> Holds(u)
        BY <2>7, <3>2, <2>b, <1>t DEF WaitTimedOut, Holds, TypeOK
      <4> QED BY <2>7, <3>2, <4>1, <4>2, <2>k DEF WaitTimedOut
    <3> QED BY <3>1, <3>2
  <2>8. CASE WaitReturned(t)
    <3>1. TypeOK'
      BY <2>8, <1>t DEF WaitReturned, TypeOK
    <3>2. \A u \in Thread : Holds(u)' <=> Holds(u)
      BY <2>8, <2>b, <2>r, <1>t DEF WaitReturned, Holds, TypeOK
    <3> QED BY <2>8, <3>1, <3>2, <2>k DEF WaitReturned
  <2>9. CASE Relock(t)
    BY <2>9, <2>l, <1>t DEF Relock, Holds, TypeOK
  <2> QED BY <1>n, <2>1, <2>2, <2>3, <2>4, <2>5, <2>6, <2>7, <2>8, <2>9
<1> QED BY <1>u, <1>n DEF Next

\* Whatever the kernel's version, if one layer at least is patched, a thread
\* that is back from ddsrt_cond_waituntil_impl owns its mutex, and owns it
\* once.
THEOREM MutexHeld == Spec => []HeldOnce
<1>1. Init => WaitInv
  BY CondVarAssumption DEF Init, WaitInv, TypeOK, OwnerInv, Holds, Taken, Build
<1>2. WaitInv /\ [Next]_vars => WaitInv'
  BY WaitStep
<1>3. WaitInv => HeldOnce
  BY DEF WaitInv, OwnerInv, Holds, Taken, HeldOnce
<1> QED BY <1>1, <1>2, <1>3, PTL DEF Spec

-----------------------------------------------------------------------------
(***************************************************************************)
(* Setting up the workspace.                                               *)
(***************************************************************************)

\* What the tasks before the current one have achieved is still so.
Done ==
  \A i \in 1..9 :
    i < step =>
      /\ Task[i] \in DOMAIN Repo => verify_sources(head, Task[i])
      /\ Task[i] \in DOMAIN File => Applied(Task[i])

\* Unless git apply was interrupted, a patch is there as a whole or not at
\* all, but for the one that is being written.
Whole ==
  \A p \in DOMAIN File :
    \/ torn \/ Applies(p) \/ Applied(p)
    \/ applying /\ p = Task[step]

SetupInv ==
  /\ step \in 0..9
  /\ head \in [Repos -> {"missing", "old", "pinned"}]
  /\ patched \subseteq File["kernel"] \cup CycloneFiles
  /\ applying => step # 0 /\ Task[step] \in DOMAIN File
  /\ Done /\ Whole
  /\ error \in {"complete", "mismatch"} => step = 0
  /\ SetupIsComplete /\ SetupResumes

\* The order of the tasks, one by one.
LEMMA TaskFacts ==
  /\ Len(Task) = 9
  /\ Task[1] = "kernel" /\ Task[2] = "host" /\ Task[3] = "target"
  /\ Task[4] = "platform" /\ Task[5] = "cyclonedds-zephyr-4.4"
  /\ Task[6] = "cyclonedds-log-buffer"
  /\ Task[7] = "cyclonedds-partial-magazines"
  /\ Task[8] = "idlc" /\ Task[9] = "env"
BY DEF Task

\* At the last task every group is verified and every patch is applied.
LEMMA AllDone ==
  ASSUME SetupConstants, Done, step = 9,
         patched \subseteq File["kernel"] \cup CycloneFiles
  PROVE  /\ \A r \in Repos : head[r] = "pinned"
         /\ patched = File["kernel"] \cup CycloneFiles
<1>1. \A g \in DOMAIN Repo : verify_sources(head, g)
  BY TaskFacts DEF SetupConstants, Done
<1>2. \A p \in DOMAIN File : Applied(p)
  BY TaskFacts DEF SetupConstants, Done
<1>3. \A r \in Repos : head[r] = "pinned"
  BY <1>1 DEF Repos, verify_sources
<1>4. "kernel" \in DOMAIN File
  BY DEF SetupConstants
<1>5. File["kernel"] \cup CycloneFiles \subseteq patched
  BY <1>2, <1>4 DEF CycloneFiles, Applied
<1> QED BY <1>3, <1>5

\* A task that is done moves the setup to the next one.
LEMMA GoesOnStep ==
  ASSUME SetupInv, step # 0, step # 9, GoesOn,
         Task[step] \in DOMAIN Repo => verify_sources(head', Task[step]),
         Task[step] \in DOMAIN File => File[Task[step]] \subseteq patched',
         \A g \in DOMAIN Repo : \A r \in Repo[g] :
           head[r] = "pinned" => head'[r] = "pinned",
         patched \subseteq patched'
  PROVE  /\ step' \in 0..9 /\ Done'
         /\ applying' = FALSE /\ error' = error /\ step' # 0
<1>1. step' = step + 1 /\ step \in 1..8 /\ step' \in 2..9
  BY DEF SetupInv, GoesOn
<1>2. ASSUME NEW i \in 1..9, i < step'
      PROVE  /\ Task[i] \in DOMAIN Repo => verify_sources(head', Task[i])
             /\ Task[i] \in DOMAIN File => File[Task[i]] \subseteq patched'
  <2>1. i < step \/ i = step
    BY <1>1, <1>2
  <2>2. CASE i < step
    BY <2>2 DEF SetupInv, Done, verify_sources, Applied
  <2>3. CASE i = step
    BY <2>3
  <2> QED BY <2>1, <2>2, <2>3
<1> QED BY <1>1, <1>2 DEF Done, GoesOn, verify_sources, Applied

\* A setup that ends leaves nothing to be shown of its tasks.
LEMMA EndStep ==
  ASSUME NEW why, Ends(why)
  PROVE  /\ step' = 0 /\ Done' /\ applying' = FALSE /\ error' = why
BY DEF Ends, Done

\* Every step of a setup or of the developer keeps the invariant.
LEMMA SetupStep ==
  ASSUME SetupConstants, SetupInv, [SetupNext]_workspace
  PROVE  SetupInv'
<1> USE TaskFacts
<1>i. /\ step \in 0..9 /\ Done /\ Whole
      /\ head \in [Repos -> {"missing", "old", "pinned"}]
      /\ patched \subseteq File["kernel"] \cup CycloneFiles
      /\ applying => step # 0 /\ Task[step] \in DOMAIN File
      /\ error \in {"complete", "mismatch"} => step = 0
      /\ SetupIsComplete /\ SetupResumes
  BY DEF SetupInv
<1>g. \A g \in DOMAIN Repo : Repo[g] \subseteq Repos
  BY DEF Repos
<1>f. \A p \in DOMAIN File : File[p] \subseteq File["kernel"] \cup CycloneFiles
  BY DEF CycloneFiles, SetupConstants
<1>1. CASE UNCHANGED workspace
  BY <1>1, <1>i DEF workspace, SetupInv, Done, Whole, Applies, Applied, SetupIsComplete,
                    SetupResumes, verify_sources
<1>2. CASE Begin
  <2>1. /\ UNCHANGED <<head, patched, env, torn>>
        /\ step' \in {0, 1} /\ error' \in {"none", "version"}
    BY <1>2 DEF Begin, Ends
  <2>2. ~applying /\ applying' = FALSE
    BY <1>2, <1>i DEF Begin, Ends
  <2>3. Done'
    BY <2>1 DEF Done
  <2>4. Whole'
    BY <2>1, <2>2, <1>i DEF Whole, Applies, Applied
  <2> QED BY <2>1, <2>2, <2>3, <2>4, <1>i DEF SetupInv, SetupIsComplete, SetupResumes
<1>3. CASE import_group
  <2>1. /\ UNCHANGED <<patched, env, torn>> /\ step # 0 /\ step # 9
        /\ Task[step] \in DOMAIN Repo /\ Task[step] \notin DOMAIN File
    BY <1>3 DEF import_group, SetupConstants
  <2>2. /\ head' \in [Repos -> {"missing", "old", "pinned"}]
        /\ \A r \in Repos : head[r] = "pinned" => head'[r] = "pinned"
    BY <1>3, <1>i DEF import_group
  <2>3. ~applying /\ applying' = FALSE
    BY <1>3, <2>1, <1>i DEF import_group, GoesOn, Ends
  <2>4. Whole'
    BY <2>1, <2>3, <1>i DEF Whole, Applies, Applied
  <2>5. CASE GoesOn /\ verify_sources(head', Task[step])
    <3>1. step' \in 0..9 /\ Done' /\ error' = error
      BY ZenonT(60), <2>5, <2>1, <2>2, <1>g, GoesOnStep
    <3> QED BY <3>1, <2>1, <2>2, <2>3, <2>4, <1>i
            DEF SetupInv, SetupIsComplete, SetupResumes
  <2>6. CASE Ends("revision")
    <3>1. step' = 0 /\ Done' /\ error' = "revision"
      BY Zenon, <2>6, EndStep
    <3> QED BY <3>1, <2>1, <2>2, <2>3, <2>4, <1>i
            DEF SetupInv, SetupIsComplete, SetupResumes
  <2> QED BY <1>3, <2>5, <2>6 DEF import_group
<1>4. CASE CheckPatch
  <2>1. /\ UNCHANGED <<head, patched, env, torn>> /\ step # 0 /\ step # 9
        /\ Task[step] \in DOMAIN File /\ Task[step] \notin DOMAIN Repo
        /\ ~applying
    BY <1>4 DEF CheckPatch, SetupConstants
  <2>2. \A p \in DOMAIN File : torn \/ Applies(p) \/ Applied(p)
    BY <2>1, <1>i DEF Whole
  <2>3. Whole'
    BY <2>1, <2>2 DEF Whole, Applies, Applied
  <2>4. CASE applying' = TRUE /\ UNCHANGED <<step, error>>
    BY <2>4, <2>1, <2>3, <1>i DEF SetupInv, Done, Applied, verify_sources,
                                  SetupIsComplete, SetupResumes
  <2>5. CASE Applied(Task[step]) /\ GoesOn
    <3>1. step' \in 0..9 /\ Done' /\ error' = error /\ applying' = FALSE
      BY Zenon, <2>5, <2>1, GoesOnStep DEF Applied
    <3> QED BY <3>1, <2>1, <2>3, <1>i DEF SetupInv, SetupIsComplete, SetupResumes
  <2>6. CASE /\ ~Applies(Task[step]) /\ ~Applied(Task[step])
             /\ Ends("mismatch")
    <3>1. /\ step' = 0 /\ Done' /\ error' = "mismatch" /\ applying' = FALSE
      BY Zenon, <2>6, EndStep
    <3>2. torn'
      BY <2>6, <2>1, <2>2
    <3> QED BY <3>1, <3>2, <2>1, <2>3, <1>i DEF SetupInv, SetupIsComplete, SetupResumes
  <2> QED BY Zenon, <1>4, <2>4, <2>5, <2>6 DEF CheckPatch
<1>5. CASE WriteFile
  <2>1. /\ UNCHANGED <<head, env, torn>> /\ step # 0 /\ step # 9
        /\ Task[step] \in DOMAIN File /\ Task[step] \notin DOMAIN Repo
        /\ applying
    BY <1>5, <1>i DEF WriteFile, SetupConstants
  <2>2. PICK f \in File[Task[step]] : patched' = patched \cup {f}
    BY <1>5 DEF WriteFile
  <2>3. patched' \subseteq File["kernel"] \cup CycloneFiles
    BY <2>1, <2>2, <1>f, <1>i
  <2>4. ASSUME NEW p \in DOMAIN File, p # Task[step]
        PROVE  torn' \/ Applies(p)' \/ Applied(p)'
    <3>1. torn \/ Applies(p) \/ Applied(p)
      BY <2>4, <1>i DEF Whole
    <3>2. f \notin File[p]
      BY <2>1, <2>2, <2>4 DEF SetupConstants
    <3> QED BY <3>1, <3>2, <2>1, <2>2 DEF Applies, Applied
  <2>5. CASE File[Task[step]] \subseteq patched' /\ GoesOn
    <3>1. step' \in 0..9 /\ Done' /\ error' = error /\ applying' = FALSE
      BY Zenon, <2>5, <2>1, <2>2, GoesOnStep
    <3>2. Whole'
      BY <2>5, <2>4 DEF Whole, Applied
    <3> QED BY <3>1, <3>2, <2>1, <2>3, <1>i DEF SetupInv, SetupIsComplete, SetupResumes
  <2>6. CASE UNCHANGED <<step, applying, error>>
    <3>1. Whole'
      BY <2>6, <2>4, <2>1 DEF Whole
    <3>2. Done'
      BY <2>6, <2>1, <2>2, <1>i DEF Done, Applied, verify_sources
    <3> QED BY <3>1, <3>2, <2>1, <2>3, <2>6, <1>i
            DEF SetupInv, SetupIsComplete, SetupResumes
  <2> QED BY ZenonT(60), <1>5, <2>5, <2>6 DEF WriteFile
<1>6. CASE BuildIdlc
  <2>1. /\ UNCHANGED <<head, patched, env, torn>> /\ step # 0 /\ step # 9
        /\ Task[step] \notin DOMAIN File /\ Task[step] \notin DOMAIN Repo
    BY <1>6 DEF BuildIdlc, SetupConstants
  <2>2. ~applying /\ applying' = FALSE
    BY <1>6, <2>1, <1>i DEF BuildIdlc, GoesOn, Ends
  <2>3. Whole'
    BY <2>1, <2>2, <1>i DEF Whole, Applies, Applied
  <2>4. CASE GoesOn
    <3>1. step' \in 0..9 /\ Done' /\ error' = error
      BY Zenon, <2>4, <2>1, GoesOnStep
    <3> QED BY <3>1, <2>1, <2>2, <2>3, <1>i DEF SetupInv, SetupIsComplete, SetupResumes
  <2>5. CASE Ends("failed")
    <3>1. step' = 0 /\ Done' /\ error' = "failed"
      BY Zenon, <2>5, EndStep
    <3> QED BY <3>1, <2>1, <2>2, <2>3, <1>i DEF SetupInv, SetupIsComplete, SetupResumes
  <2> QED BY <1>6, <2>4, <2>5 DEF BuildIdlc
<1>7. CASE WriteEnv
  <2>1. /\ UNCHANGED <<head, patched, torn>> /\ env' = TRUE
        /\ Task[step] = "env" /\ step \in 1..9
    BY <1>7, <1>i DEF WriteEnv
  <2>2. step = 9
    BY <2>1
  <2>3. step' = 0 /\ Done' /\ error' = "complete" /\ applying' = FALSE
    BY Zenon, <1>7, EndStep DEF WriteEnv
  <2>4. ~applying
    BY <2>1, <1>i DEF SetupConstants
  <2>5. Whole'
    BY <2>1, <2>3, <2>4, <1>i DEF Whole, Applies, Applied
  <2>6. /\ \A r \in Repos : head[r] = "pinned"
        /\ patched = File["kernel"] \cup CycloneFiles
    BY <2>2, <1>i, AllDone
  <2> QED BY <2>1, <2>3, <2>5, <2>6, <1>i DEF SetupInv, SetupIsComplete, SetupResumes
<1>8. CASE Interrupt
  <2>1. /\ UNCHANGED <<head, patched>>
        /\ torn' = (torn \/ (applying /\ ~Applies(Task[step])))
    BY <1>8 DEF Interrupt
  <2>2. step' = 0 /\ Done' /\ error' = "interrupted" /\ applying' = FALSE
    BY Zenon, <1>8, EndStep DEF Interrupt
  <2>3. Whole'
    BY Zenon, <2>1, <2>2, <1>i DEF Whole, Applies, Applied
  <2> QED BY <2>1, <2>2, <2>3, <1>i DEF SetupInv, SetupIsComplete, SetupResumes
<1>9. CASE Restore
  <2>1. /\ UNCHANGED <<env, step, applying, torn>> /\ step = 0
        /\ error' = "none" /\ ~applying
    BY <1>9, <1>i DEF Restore
  <2>2. head' \in [Repos -> {"missing", "old", "pinned"}]
    BY <1>9, <1>i DEF Restore
  <2>3. \/ patched' = patched \ File["kernel"]
        \/ patched' = patched \ CycloneFiles
    BY <1>9 DEF Restore
  <2>4. ASSUME NEW p \in DOMAIN File
        PROVE  torn' \/ Applies(p)' \/ Applied(p)'
    <3>1. torn \/ Applies(p) \/ Applied(p)
      BY <2>1, <1>i DEF Whole
    <3>2. CASE p = "kernel"
      <4>1. File[p] \cap CycloneFiles = {}
        BY <3>2, <2>4 DEF CycloneFiles, SetupConstants
      <4> QED BY <3>1, <3>2, <4>1, <2>1, <2>3 DEF Applies, Applied
    <3>3. CASE p # "kernel"
      <4>1. File[p] \cap File["kernel"] = {} /\ File[p] \subseteq CycloneFiles
        BY <3>3, <2>4 DEF CycloneFiles, SetupConstants
      <4> QED BY <3>1, <4>1, <2>1, <2>3 DEF Applies, Applied
    <3> QED BY <3>2, <3>3
  <2>5. Whole' /\ Done'
    BY <2>1, <2>4 DEF Whole, Done
  <2> QED BY <2>1, <2>2, <2>3, <2>5, <1>i DEF SetupInv, SetupIsComplete, SetupResumes
<1>10. CASE Update
  <2>1. /\ UNCHANGED <<patched, env, step, applying, torn>> /\ step = 0
        /\ error' = "none"
    BY <1>10 DEF Update
  <2>2. head' \in [Repos -> {"missing", "old", "pinned"}]
    BY <1>10, <1>i DEF Update
  <2>3. Whole' /\ Done'
    BY <2>1, <1>i DEF Whole, Done, Applies, Applied
  <2> QED BY <2>1, <2>2, <2>3, <1>i DEF SetupInv, SetupIsComplete, SetupResumes
<1> QED BY <1>1, <1>2, <1>3, <1>4, <1>5, <1>6, <1>7, <1>8, <1>9, <1>10 DEF SetupNext

\* An empty workspace satisfies the invariant.
LEMMA SetupStart ==
  ASSUME SetupConstants, SetupInit
  PROVE  SetupInv
<1>1. step = 0 /\ applying = FALSE /\ error = "none" /\ patched = {}
  BY DEF SetupInit
<1>2. head \in [Repos -> {"missing", "old", "pinned"}]
  BY DEF SetupInit
<1>3. Done /\ Whole
  BY <1>1 DEF Done, Whole, Applies
<1> QED BY <1>1, <1>2, <1>3 DEF SetupInv, SetupIsComplete, SetupResumes

-----------------------------------------------------------------------------
(***************************************************************************)
(* From the workspace to the board.                                        *)
(***************************************************************************)

\* The kernel takes the mutex back, by its version or by its patch.
KernelRelocks == kernel = "other" \/ "condvar.c" \in patched

\* Where there is an environment file, a setup was complete, and one tree at
\* most was discarded since.
Layers ==
  env => /\ KernelRelocks \/ "sync.c" \in patched
         /\ restored = 0 => KernelRelocks /\ "sync.c" \in patched

\* The inductive invariant of the composition: no thread runs before the board
\* is flashed.
FirmwareInv ==
  /\ SetupInv /\ WaitInv /\ Layers
  /\ kernel \in {"4.4", "other"} /\ restored \in Nat
  /\ ~flashed => \A t \in Thread : pc[t] = "out"

\* Every step of a setup or of the developer leaves one layer repaired.
LEMMA LayersStep ==
  ASSUME SetupInv, Layers, restored \in Nat, kernel \in {"4.4", "other"},
         MaxRestores <= 1, [SetupNext]_workspace
  PROVE  Layers' /\ restored' \in Nat /\ kernel' \in {"4.4", "other"}
<1>c. /\ "condvar.c" \in File["kernel"] /\ "sync.c" \in CycloneFiles
      /\ "condvar.c" \notin CycloneFiles /\ "sync.c" \notin File["kernel"]
  BY FirmwareAssumption, SetupAssumption DEF SetupConstants, CycloneFiles
<1>n. MaxRestores \in Nat
  BY SetupAssumption DEF SetupConstants
<1>1. ASSUME UNCHANGED <<kernel, restored>>, env' => env, patched \subseteq patched'
      PROVE  Layers' /\ restored' \in Nat /\ kernel' \in {"4.4", "other"}
  BY <1>1 DEF Layers, KernelRelocks
<1>2. CASE UNCHANGED workspace
  BY <1>1, <1>2 DEF workspace
<1>3. CASE Begin
  BY <1>1, <1>3 DEF Begin
<1>4. CASE import_group
  BY <1>1, <1>4 DEF import_group
<1>5. CASE CheckPatch
  BY <1>1, <1>5 DEF CheckPatch
<1>6. CASE WriteFile
  BY <1>1, <1>6 DEF WriteFile
<1>7. CASE BuildIdlc
  BY <1>1, <1>7 DEF BuildIdlc
<1>8. CASE WriteEnv
  <2>1. step = 9
    BY <1>8, TaskFacts DEF WriteEnv, SetupInv
  <2>2. patched = File["kernel"] \cup CycloneFiles
    BY <2>1, AllDone, SetupAssumption DEF SetupInv
  <2> QED BY <1>8, <1>c, <2>2 DEF WriteEnv, Layers, KernelRelocks
<1>9. CASE Interrupt
  <2>1. env' => env
    BY ZenonT(60), <1>9 DEF Interrupt
  <2> QED BY <1>1, <1>9, <2>1 DEF Interrupt
<1>10. CASE Restore
  <2>1. restored = 0 /\ restored' = 1 /\ env' = env
    BY <1>10, <1>n DEF Restore
  <2>2. kernel' \in {"4.4", "other"}
    BY <1>10 DEF Restore
  <2>3. \/ patched' = patched \ File["kernel"]
        \/ patched' = patched \ CycloneFiles /\ kernel' = kernel
    BY <1>10 DEF Restore
  <2>4. Layers'
    BY <1>c, <2>1, <2>3 DEF Layers, KernelRelocks
  <2> QED BY <2>1, <2>2, <2>4
<1>11. CASE Update
  BY <1>1, <1>11 DEF Update
<1> QED BY <1>2, <1>3, <1>4, <1>5, <1>6, <1>7, <1>8, <1>9, <1>10, <1>11
        DEF SetupNext

\* Every step of the composition keeps its invariant.
LEMMA FirmwareStep ==
  ASSUME FirmwareInv, MaxRestores <= 1, [FirmwareNext]_<<vars, flashed, workspace>>
  PROVE  FirmwareInv'
<1>i. /\ SetupInv /\ WaitInv /\ Layers
      /\ kernel \in {"4.4", "other"} /\ restored \in Nat
      /\ ~flashed => \A t \in Thread : pc[t] = "out"
  BY Zenon DEF FirmwareInv
<1>1. ASSUME [SetupNext]_workspace
      PROVE  SetupInv' /\ Layers' /\ restored' \in Nat /\ kernel' \in {"4.4", "other"}
  BY Zenon, <1>1, <1>i, SetupAssumption, SetupStep, LayersStep
<1>2. ASSUME [Next]_vars PROVE WaitInv'
  BY Zenon, <1>2, <1>i, WaitStep
<1>3. CASE UNCHANGED <<vars, flashed, workspace>>
  <2>1. UNCHANGED vars /\ UNCHANGED flashed /\ UNCHANGED workspace
    BY Zenon, <1>3
  <2>2. pc' = pc
    BY Zenon, <2>1 DEF vars
  <2> QED BY Zenon, <1>i, <1>1, <1>2, <2>1, <2>2 DEF FirmwareInv
<1>4. CASE Prepare
  <2>1. UNCHANGED vars /\ pc' = pc /\ flashed' = flashed
    BY <1>4 DEF Prepare, vars
  <2>2. SetupNext
    BY Zenon, <1>4 DEF Prepare
  <2> QED BY Zenon, <1>i, <1>1, <1>2, <2>1, <2>2 DEF FirmwareInv
<1>5. CASE Build_esp32
  <2>1. UNCHANGED workspace /\ flashed' = TRUE /\ UNCHANGED <<mutex, pc, ret>>
    BY Zenon, <1>5 DEF Build_esp32
  <2>2. /\ ~flashed /\ env
        /\ build' = [version |-> kernel, patched |-> "condvar.c" \in patched,
                     workaround |-> "sync.c" \in patched]
    BY Zenon, <1>5 DEF Build_esp32
  <2>3. /\ build'.version = kernel
        /\ build'.patched = ("condvar.c" \in patched)
        /\ build'.workaround = ("sync.c" \in patched)
    BY Zenon, <2>2
  <2>4. build' \in Build
    BY <1>i, <2>2 DEF Build
  <2>5. Repaired'
    BY Zenon, <1>i, <2>2, <2>3 DEF Repaired, Relocks, Layers, KernelRelocks
  <2>6. TypeOK'
    BY Zenon, <1>i, <2>1, <2>4 DEF WaitInv, TypeOK
  <2>7. \A t \in Thread : pc[t] = "out"
    BY Zenon, <1>i, <2>2
  <2>8. \A t \in Thread : ~Holds(t) /\ ~Holds(t)'
    BY <2>1, <2>7 DEF Holds
  <2>9. OwnerInv'
    BY Zenon, <1>i, <2>1, <2>8 DEF WaitInv, OwnerInv, Taken
  <2>10. WaitInv'
    BY Zenon, <2>5, <2>6, <2>9 DEF WaitInv
  <2> QED BY Zenon, <1>1, <2>1, <2>10 DEF FirmwareInv
<1>6. CASE Waits
  <2>1. Next /\ flashed' = flashed /\ flashed /\ UNCHANGED workspace
    BY Zenon, <1>6 DEF Waits
  <2> QED BY Zenon, <1>i, <1>1, <1>2, <2>1 DEF FirmwareInv
<1> QED BY Zenon, <1>3, <1>4, <1>5, <1>6 DEF FirmwareNext

\* An empty workspace and a board that is not flashed yet.
LEMMA FirmwareStart == FirmwareInit => FirmwareInv
<1> SUFFICES ASSUME FirmwareInit PROVE FirmwareInv
  OBVIOUS
<1>1. SetupInit /\ Init
  BY Zenon DEF FirmwareInit
<1>2. SetupInv
  BY Zenon, <1>1, SetupAssumption, SetupStart
<1>3. WaitInv
  BY <1>1, CondVarAssumption
     DEF Init, WaitInv, TypeOK, OwnerInv, Holds, Taken, Build
<1>4. Layers /\ kernel \in {"4.4", "other"} /\ restored \in Nat
  BY <1>1 DEF SetupInit, Layers
<1>5. \A t \in Thread : pc[t] = "out"
  BY <1>1 DEF Init
<1> QED BY Zenon, <1>2, <1>3, <1>4, <1>5 DEF FirmwareInv

\* The setup of the composition is the setup by itself.
LEMMA SetupInFirmware == FirmwareSpec => SetupSpec
<1>1. FirmwareInit => SetupInit
  BY DEF FirmwareInit
<1>2. [FirmwareNext]_<<vars, flashed, workspace>> => [SetupNext]_workspace
  BY Zenon DEF FirmwareNext, Prepare, Build_esp32, Waits
<1> QED BY <1>1, <1>2, PTL DEF FirmwareSpec, SetupSpec

LEMMA AlwaysSetupInv == SetupSpec => []SetupInv
<1>1. SetupInit => SetupInv
  BY SetupAssumption, SetupStart
<1>2. SetupInv /\ [SetupNext]_workspace => SetupInv'
  BY SetupAssumption, SetupStep
<1> QED BY <1>1, <1>2, PTL DEF SetupSpec

\* scripts/setup.sh says "Setup complete" only with every repository of every
\* group at its pin and every file of every patch changed, whatever earlier
\* and interrupted setups left.
THEOREM CompleteSetup == FirmwareSpec => []SetupIsComplete
<1>1. SetupInv => SetupIsComplete
  BY DEF SetupInv
<1> QED BY <1>1, SetupInFirmware, AlwaysSetupInv, PTL

\* A patch does not match only after git apply itself was interrupted: the
\* scripts resume from an interruption anywhere else.
THEOREM ResumedSetup == FirmwareSpec => []SetupResumes
<1>1. SetupInv => SetupResumes
  BY DEF SetupInv
<1> QED BY <1>1, SetupInFirmware, AlwaysSetupInv, PTL

\* If at most one of the two patched trees is discarded between complete
\* setups, build_esp32.sh never flashes firmware whose threads lose their mutex
\* or take it twice: after a wait they own it once, although neither patch is
\* verified by a build, setups are interrupted anywhere and pins change.
THEOREM BoardHoldsMutex ==
  ASSUME MaxRestores <= 1
  PROVE  FirmwareSpec => []HeldOnce
<1>1. FirmwareInv /\ [FirmwareNext]_<<vars, flashed, workspace>> => FirmwareInv'
  BY FirmwareStep
<1>2. FirmwareInv => HeldOnce
  BY DEF FirmwareInv, WaitInv, OwnerInv, Holds, Taken, HeldOnce
<1> QED BY <1>1, <1>2, FirmwareStart, PTL DEF FirmwareSpec

=============================================================================
