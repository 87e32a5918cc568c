----------------------------- MODULE FixedWaitSet -----------------------------
(***************************************************************************)
(* rmw_wait with the attachments that                                      *)
(* patches/rmw-cyclonedds-c-fixed-waitset.patch keeps between calls.  The  *)
(* RMW side is the array `attached' with its count; the DDS side is the    *)
(* set of entities that the DDS wait set observes.  A step is one call     *)
(* into DDS, each of which can fail.                                       *)
(***************************************************************************)
EXTENDS Integers, Sequences

CONSTANTS
  Entity,         \* handles of read conditions and guard conditions
  Null,           \* a null element of the caller's arrays
  Capacity,       \* wait_set_data_t.capacity
  MaxRequest,     \* bound on the length of a request
  DetachMayFail   \* dds_waitset_detach can fail on an attached entity

ASSUME WaitSetAssumption ==
  /\ Null \notin Entity
  /\ Capacity \in Nat /\ MaxRequest \in Nat \ {0}
  /\ DetachMayFail \in BOOLEAN

VARIABLES
  attached,        \* data->attached
  attached_count,  \* data->attached_count
  registered,      \* what the DDS wait set observes
  pc,              \* where rmw_wait is
  index,           \* its loop index, from 1
  request,         \* the subscriptions, then the guard conditions, asked for
  previous         \* history: the request of the last call, if it got to wait,
                   \*   or <<Null>>

vars == <<attached, attached_count, registered, pc, index, request, previous>>

Request == UNION {[1..n -> Entity \cup {Null}] : n \in 0..MaxRequest}

TypeOK ==
  /\ attached \in [1..Capacity -> Entity \cup {Null}]
  /\ attached_count \in 0..Capacity
  /\ registered \subseteq Entity
  /\ pc \in {"idle", "detach", "attach", "wait"}
  /\ index \in Nat \ {0}
  /\ request \in Request /\ previous \in Request

-----------------------------------------------------------------------------
\* Mutant of Valid: the capacity is not checked.
ValidAnyLength(r) == \A i \in DOMAIN r : r[i] # Null

\* validate_requested_attachments: the capacity and null checks.
Valid(r) == Len(r) <= Capacity /\ \A i \in DOMAIN r : r[i] # Null

\* Mutant of AttachmentsMatch: a longer attachment list matches too.
AttachmentsMatchPrefix(r) ==
  Len(r) <= attached_count /\ \A i \in DOMAIN r : attached[i] = r[i]

\* Mutant of AttachmentsMatch: the original code, which never reuses.
AttachmentsMatchNever(r) == FALSE

\* validate_requested_attachments: attachments_match.
AttachmentsMatch(r) ==
  Len(r) = attached_count /\ \A i \in DOMAIN r : attached[i] = r[i]

\* The call: an invalid request returns RMW_RET_INVALID_ARGUMENT and leaves
\* the attachments alone, a matching one goes straight to dds_waitset_wait.
rmw_wait(r) ==
  /\ pc = "idle"
  /\ Valid(r)
  /\ request' = r
  /\ index' = 1
  /\ pc' = IF AttachmentsMatch(r) THEN "wait" ELSE "detach"
  /\ previous' = IF AttachmentsMatch(r) THEN r ELSE previous
  /\ UNCHANGED <<attached, attached_count, registered>>

\* The error return of a failed DDS call.
Fail ==
  /\ pc' = "idle" /\ index' = 1 /\ previous' = <<Null>> /\ request' = <<>>
  /\ UNCHANGED <<attached, attached_count, registered>>

\* dds_waitset_detach of the next attachment; of an entity that is not
\* attached it fails.
Detach ==
  /\ pc = "detach" /\ index <= attached_count
  /\ \/ /\ attached[index] \in registered
        /\ registered' = registered \ {attached[index]}
        /\ index' = index + 1
        /\ UNCHANGED <<attached, attached_count, pc, request, previous>>
     \/ DetachMayFail /\ Fail
     \/ attached[index] \notin registered /\ Fail

\* All are detached.
DetachDone ==
  /\ pc = "detach" /\ index > attached_count
  /\ attached_count' = 0
  /\ index' = 1
  /\ pc' = "attach"
  /\ UNCHANGED <<attached, registered, request, previous>>

\* attach_entity of the next requested entity: dds_waitset_attach fails when
\* it is attached already and may fail for want of memory; otherwise it is
\* stored.
Attach ==
  /\ pc = "attach" /\ index <= Len(request)
  /\ \/ /\ request[index] \notin registered
        /\ registered' = registered \cup {request[index]}
        /\ attached' = [attached EXCEPT ![attached_count + 1] = request[index]]
        /\ attached_count' = attached_count + 1
        /\ index' = index + 1
        /\ UNCHANGED <<pc, request, previous>>
     \/ Fail

\* All are attached.
AttachDone ==
  /\ pc = "attach" /\ index > Len(request)
  /\ pc' = "wait"
  /\ index' = 1
  /\ previous' = request
  /\ UNCHANGED <<attached, attached_count, registered, request>>

\* dds_waitset_wait returns and so does rmw_wait.
Return ==
  /\ pc = "wait"
  /\ pc' = "idle"
  /\ request' = <<>>
  /\ UNCHANGED <<attached, attached_count, registered, index, previous>>

Next ==
  \/ \E r \in Request : rmw_wait(r)
  \/ Detach \/ DetachDone \/ Attach \/ AttachDone \/ Return

\* rmw_create_wait_set attaches nothing.
Init ==
  /\ attached = [i \in 1..Capacity |-> Null]
  /\ attached_count = 0
  /\ registered = {}
  /\ pc = "idle"
  /\ index = 1
  /\ request = <<>> /\ previous = <<Null>>

Spec == Init /\ [][Next]_vars

-----------------------------------------------------------------------------
\* When rmw_wait waits, DDS observes exactly the entities of this request: no
\* wake-up of a requested entity is lost and none of another one is seen,
\* whatever the earlier calls requested and wherever they failed.
WaitCoversRequest ==
  pc = "wait" => registered = {request[i] : i \in DOMAIN request}

\* A fixed entity set costs no DDS call: a request equal to the one that was
\* waited for last is never detached or attached again ("An exact match goes
\* directly to dds_waitset_wait()").
FixedSetNoChurn ==
  pc \in {"detach", "attach"} => request # previous

=============================================================================
