-------------------------- MODULE FixedWaitSetProofs --------------------------
(***************************************************************************)
(* The reused attachments are always the requested ones, for every         *)
(* capacity, number of entities and sequence of calls, as long as          *)
(* dds_waitset_detach succeeds on an attached entity.                      *)
(***************************************************************************)
EXTENDS FixedWaitSet, SequenceTheorems, TLAPS

\* The entities of the array from position k on.
AttachedFrom(k) == {attached[i] : i \in k..attached_count}

\* An entity is attached once.
Distinct ==
  /\ \A i \in 1..attached_count : attached[i] \in Entity
  /\ \A i, j \in 1..attached_count : attached[i] = attached[j] => i = j

\* What the DDS side observes at each point of rmw_wait.
Agreement ==
  /\ pc = "idle" => registered = AttachedFrom(1)
  /\ pc = "detach" =>
       index \in 1..attached_count + 1 /\ registered = AttachedFrom(index)
  /\ pc = "attach" =>
       /\ index \in 1..Len(request) + 1 /\ attached_count = index - 1
       /\ \A i \in 1..attached_count : attached[i] = request[i]
       /\ registered = AttachedFrom(1)
  /\ pc = "wait" => AttachmentsMatch(request) /\ registered = AttachedFrom(1)
  /\ pc # "idle" => Valid(request)

\* The types that the argument needs.
Types ==
  /\ attached \in [1..Capacity -> Entity \cup {Null}]
  /\ attached_count \in 0..Capacity
  /\ pc \in {"idle", "detach", "attach", "wait"}
  /\ index \in Nat \ {0}
  /\ request \in Seq(Entity \cup {Null})

Inv == Types /\ Distinct /\ Agreement

\* A request is a sequence.
LEMMA RequestIsSeq == ASSUME NEW r \in Request PROVE r \in Seq(Entity \cup {Null})
<1>1. PICK n \in 0..MaxRequest : r \in [1..n -> Entity \cup {Null}]
  BY DEF Request
<1> QED
  BY <1>1, WaitSetAssumption, SeqDef

\* The first attachment to go leaves the rest.
LEMMA DetachFirst ==
  ASSUME Types, Distinct, index \in 1..attached_count
  PROVE  AttachedFrom(index) \ {attached[index]} = AttachedFrom(index + 1)
BY WaitSetAssumption DEF AttachedFrom, Types, Distinct

\* When rmw_wait waits, DDS observes exactly the entities of the request.
THEOREM WaitCoverage == ~DetachMayFail => (Spec => []WaitCoversRequest)
<1> SUFFICES ASSUME ~DetachMayFail PROVE Spec => []WaitCoversRequest
  OBVIOUS
<1> USE WaitSetAssumption
<1>1. Init => Inv
  BY DEF Init, Inv, Types, Distinct, Agreement, AttachedFrom
<1>2. Inv /\ [Next]_vars => Inv'
  <2> SUFFICES ASSUME Inv, [Next]_vars PROVE Inv'
    OBVIOUS
  <2> USE DEF Inv
  <2>1. ASSUME NEW r \in Request, rmw_wait(r) PROVE Inv'
    <3>1. r \in Seq(Entity \cup {Null})
      BY RequestIsSeq
    <3>2. Types'
      BY <2>1, <3>1 DEF rmw_wait, Types
    <3>3. Distinct'
      BY <2>1 DEF rmw_wait, Distinct
    <3>4. Agreement'
      BY <2>1, <3>1 DEF rmw_wait, Agreement, AttachedFrom, AttachmentsMatch,
                        Valid, Types
    <3> QED
      BY <3>2, <3>3, <3>4
  <2>2. CASE Detach
    <3>1. CASE attached[index] \in registered /\ ~Fail
      <4>1. /\ registered' = registered \ {attached[index]}
            /\ index' = index + 1 /\ pc = "detach" /\ index <= attached_count
            /\ UNCHANGED <<attached, attached_count, pc, request>>
        BY <2>2, <3>1 DEF Detach
      <4>2. Types' /\ Distinct'
        BY <4>1 DEF Types, Distinct
      <4>3. registered' = AttachedFrom(index + 1)
        BY <4>1, DetachFirst DEF Agreement, Types
      <4>4. AttachedFrom(index)' = AttachedFrom(index + 1)
        BY <4>1 DEF AttachedFrom
      <4>5. index' \in 1..attached_count' + 1
        BY <4>1 DEF Types
      <4>6. Valid(request)'
        BY <4>1 DEF Agreement, Valid
      <4>7. Agreement'
        BY <4>1, <4>3, <4>4, <4>5, <4>6 DEF Agreement
      <4> QED
        BY <4>2, <4>7
    <3>2. attached[index] \in registered
      BY <2>2 DEF Detach, Agreement, AttachedFrom, Types
    <3>3. ~Fail
      BY <2>2, <3>2 DEF Detach, Fail
    <3> QED
      BY <3>1, <3>2, <3>3
  <2>3. CASE DetachDone
    <3>1. Types' /\ Distinct'
      BY <2>3 DEF DetachDone, Types, Distinct
    <3>2. registered = {}
      BY <2>3 DEF DetachDone, Agreement, AttachedFrom, Types
    <3>3. Agreement'
      BY <2>3, <3>2 DEF DetachDone, Agreement, AttachedFrom, Valid, Types
    <3> QED
      BY <3>1, <3>3
  <2>4. CASE Attach
    <3>1. CASE Fail
      <4>1. Types'
        BY <3>1 DEF Fail, Types
      <4>2. Distinct'
        BY <3>1 DEF Fail, Distinct
      <4>3. Agreement'
        BY <2>4, <3>1 DEF Attach, Fail, Agreement, AttachedFrom
      <4> QED
        BY <4>1, <4>2, <4>3
    <3>2. CASE ~Fail
      <4> DEFINE e == request[index]
      <4>1. /\ pc = "attach" /\ index <= Len(request)
            /\ e \notin registered
            /\ registered' = registered \cup {e}
            /\ attached' = [attached EXCEPT ![attached_count + 1] = e]
            /\ attached_count' = attached_count + 1
            /\ index' = index + 1
            /\ UNCHANGED <<pc, request>>
        BY <2>4, <3>2 DEF Attach
      <4>2. /\ e \in Entity /\ attached_count = index - 1
            /\ attached_count + 1 \in 1..Capacity
        BY <4>1 DEF Agreement, Valid, Types
      <4>3. Types'
        BY <4>1, <4>2 DEF Types
      <4>4. /\ \A i \in 1..attached_count : attached'[i] = attached[i]
            /\ attached'[attached_count'] = e
        BY <4>1, <4>2 DEF Types
      <4>5. \A i \in 1..attached_count : attached[i] # e
        BY <4>1 DEF Agreement, AttachedFrom
      <4> HIDE DEF e
      <4>6. Distinct'
        BY <4>1, <4>2, <4>4, <4>5 DEF Distinct, Types
      <4>7. registered' = AttachedFrom(1)'
        BY SMTT(60), <4>1, <4>2, <4>4 DEF Agreement, AttachedFrom, Types
      <4>8. \A i \in 1..attached_count' : attached'[i] = request[i]
        BY <4>1, <4>2, <4>4 DEF Agreement, Types, e
      <4>9. Agreement'
        BY <4>1, <4>2, <4>7, <4>8 DEF Agreement, Valid, Types
      <4> QED
        BY <4>3, <4>6, <4>9
    <3> QED
      BY <3>1, <3>2
  <2>5. CASE AttachDone
    <3>1. Types' /\ Distinct'
      BY <2>5 DEF AttachDone, Types, Distinct
    <3>2. Agreement'
      BY <2>5 DEF AttachDone, Agreement, AttachedFrom, AttachmentsMatch,
                  Valid, Types
    <3> QED
      BY <3>1, <3>2
  <2>6. CASE Return
    <3>1. Types' /\ Distinct'
      BY <2>6 DEF Return, Types, Distinct
    <3>2. Agreement'
      BY <2>6 DEF Return, Agreement, AttachedFrom
    <3> QED
      BY <3>1, <3>2
  <2>7. CASE UNCHANGED vars
    BY <2>7 DEF vars, Types, Distinct, Agreement, AttachedFrom,
                AttachmentsMatch, Valid
  <2> QED
    BY <2>1, <2>2, <2>3, <2>4, <2>5, <2>6, <2>7 DEF Next
<1>3. Inv => WaitCoversRequest
  BY DEF Inv, Agreement, AttachedFrom, AttachmentsMatch, WaitCoversRequest,
         Types
<1> QED
  BY <1>1, <1>2, <1>3, PTL DEF Spec

-----------------------------------------------------------------------------
\* Between two calls the array holds what was waited for last, unless a call
\* failed since; an array that does not match is rebuilt.
Saved ==
  /\ pc \in {"idle", "wait"} =>
       previous = <<Null>> \/ AttachmentsMatch(previous)
  /\ pc = "attach" =>
       /\ index <= Len(request) + 1 /\ attached_count = index - 1
       /\ \A i \in 1..attached_count : attached[i] = request[i]
  /\ pc # "idle" => Valid(request)

Fixed == Types /\ Saved /\ FixedSetNoChurn

LEMMA AlwaysFixed == Spec => []Fixed
<1> USE WaitSetAssumption DEF Fixed
<1>1. Init => Fixed
  BY DEF Init, Types, Saved, FixedSetNoChurn
<1>2. Fixed /\ [Next]_vars => Fixed'
  <2> SUFFICES ASSUME Types, Saved, FixedSetNoChurn, [Next]_vars PROVE Fixed'
    OBVIOUS
  <2>1. ASSUME NEW r \in Request, rmw_wait(r) PROVE Fixed'
    <3>1. r \in Seq(Entity \cup {Null})
      BY RequestIsSeq
    <3>2. Types'
      BY <2>1, <3>1 DEF rmw_wait, Types
    <3>3. Saved'
      BY <2>1 DEF rmw_wait, Saved, AttachmentsMatch, Valid
    <3>4. ASSUME ~AttachmentsMatch(r) PROVE r # previous
      <4>1. r # <<Null>>
        BY <2>1 DEF rmw_wait, Valid
      <4> QED BY Zenon, <2>1, <3>4, <4>1 DEF rmw_wait, Saved
    <3>5. FixedSetNoChurn'
      BY <2>1, <3>4 DEF rmw_wait, FixedSetNoChurn
    <3> QED BY <3>2, <3>3, <3>5
  <2>2. CASE Fail
    <3>1. Types'
      BY <2>2 DEF Fail, Types
    <3> QED BY <2>2, <3>1 DEF Fail, Saved, FixedSetNoChurn
  <2>3. CASE Detach /\ ~Fail
    <3>1. Types' /\ FixedSetNoChurn'
      BY <2>3 DEF Detach, Types, FixedSetNoChurn
    <3> QED BY <2>3, <3>1 DEF Detach, Saved, Valid
  <2>4. CASE DetachDone
    <3>1. Types' /\ FixedSetNoChurn'
      BY <2>4 DEF DetachDone, Types, FixedSetNoChurn
    <3> QED BY <2>4, <3>1 DEF DetachDone, Saved, Valid, Types
  <2>5. CASE Attach /\ ~Fail
    <3>1. /\ pc = "attach" /\ index <= Len(request)
          /\ attached' = [attached EXCEPT
                            ![attached_count + 1] = request[index]]
          /\ attached_count' = attached_count + 1 /\ index' = index + 1
          /\ UNCHANGED <<pc, request, previous>>
      BY <2>5 DEF Attach
    <3>2. /\ attached_count = index - 1 /\ request[index] \in Entity
          /\ attached_count + 1 \in 1..Capacity
      BY <3>1 DEF Saved, Valid, Types
    <3>3. Types'
      BY <3>1, <3>2 DEF Types
    <3>4. \A i \in 1..attached_count' : attached'[i] = request'[i]
      BY <3>1, <3>2 DEF Saved, Types
    <3>5. Saved' /\ FixedSetNoChurn'
      BY <3>1, <3>2, <3>4 DEF Saved, FixedSetNoChurn, Valid, Types
    <3> QED BY <3>3, <3>5
  <2>6. CASE AttachDone
    <3>1. Types'
      BY <2>6 DEF AttachDone, Types
    <3>2. AttachmentsMatch(request)
      BY <2>6 DEF AttachDone, Saved, Types, AttachmentsMatch
    <3> QED BY <2>6, <3>1, <3>2
      DEF AttachDone, Saved, FixedSetNoChurn, AttachmentsMatch, Valid
  <2>7. CASE Return
    <3>1. Types'
      BY <2>7 DEF Return, Types
    <3> QED BY <2>7, <3>1
      DEF Return, Saved, FixedSetNoChurn, AttachmentsMatch
  <2>8. CASE UNCHANGED vars
    BY <2>8 DEF vars, Types, Saved, FixedSetNoChurn, AttachmentsMatch, Valid
  <2> QED BY Zenon, <2>1, <2>2, <2>3, <2>4, <2>5, <2>6, <2>7, <2>8 DEF Next
<1> QED BY <1>1, <1>2, PTL DEF Spec

\* A request equal to the one that was waited for last costs no detach and no
\* attach, whichever DDS calls failed before.
THEOREM NoChurn == Spec => []FixedSetNoChurn
<1>1. Fixed => FixedSetNoChurn
  BY DEF Fixed
<1> QED BY <1>1, AlwaysFixed, PTL

LEMMA ShortRequests == <<>> \in Request /\ <<Null>> \in Request
<1>1. <<>> \in [1..0 -> Entity \cup {Null}]
  OBVIOUS
<1>2. <<Null>> \in [1..1 -> Entity \cup {Null}]
  OBVIOUS
<1>3. 0 \in 0..MaxRequest /\ 1 \in 0..MaxRequest
  BY WaitSetAssumption
<1> QED BY Zenon, <1>1, <1>2, <1>3 DEF Request

\* The types of rmw_wait's variables: the count never exceeds the capacity of
\* the array that rmw_create_wait_set allocates, although the caller's arrays
\* are longer and DDS calls fail in between, and what DDS observes was an
\* entity of some request.
THEOREM TypeCorrect == Spec => []TypeOK
<1> DEFINE Entities == /\ registered \subseteq Entity
                       /\ request \in Request /\ previous \in Request
<1>1. Init => Entities
  BY ShortRequests DEF Init
<1>2. Fixed /\ Entities /\ [Next]_vars => Entities'
  <2> SUFFICES ASSUME Fixed, Entities, [Next]_vars PROVE Entities'
    OBVIOUS
  <2>1. ASSUME NEW r \in Request, rmw_wait(r) PROVE Entities'
    BY Zenon, <2>1 DEF rmw_wait
  <2>2. CASE Fail
    BY Zenon, <2>2, ShortRequests DEF Fail
  <2>3. CASE Attach /\ ~Fail
    <3>1. /\ pc = "attach" /\ index <= Len(request)
          /\ registered' = registered \cup {request[index]}
          /\ UNCHANGED <<request, previous>>
      BY Zenon, <2>3 DEF Attach
    <3>2. request[index] \in Entity
      BY <3>1 DEF Fixed, Saved, Valid, Types
    <3> QED BY <3>1, <3>2
  <2>4. CASE Detach /\ ~Fail
    BY <2>4 DEF Detach
  <2>5. CASE DetachDone \/ AttachDone
    BY Zenon, <2>5 DEF DetachDone, AttachDone
  <2>6. CASE Return
    BY Zenon, <2>6, ShortRequests DEF Return
  <2>7. CASE UNCHANGED vars
    BY Zenon, <2>7 DEF vars
  <2> QED BY Zenon, <2>1, <2>2, <2>3, <2>4, <2>5, <2>6, <2>7 DEF Next
<1>3. Fixed /\ Entities => TypeOK
  BY Zenon DEF Fixed, Types, TypeOK
<1> QED BY <1>1, <1>2, <1>3, AlwaysFixed, PTL DEF Spec

=============================================================================
