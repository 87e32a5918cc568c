---------------------------- MODULE WifiExchange ----------------------------
(***************************************************************************)
(* The exchange of samples between the board (run_publisher and            *)
(* run_subscriber, samples/wifi/src/main.c) and the desktop (run_publisher *)
(* and run_subscriber, samples/wifi/peer.py).  One side writes, the other  *)
(* reads; they share nothing but the topic.  A volatile writer sends the   *)
(* same value Scheduled times; a transient-local one sends 1..HistoryLast  *)
(* before there is a reader and the next value once it is matched.  Here a *)
(* sample is the number of its publication.                                *)
(*                                                                         *)
(* DDS is external.  Each side learns of the other's endpoint, or of its   *)
(* end, within Lag and on its own.  Best-effort samples are lost or not;   *)
(* reliable ones are sent again until they leave the writer's history.  A  *)
(* unit of time is longer than the schedule, and a matched sample arrives  *)
(* and is taken within a unit, unless there is a fault.                    *)
(***************************************************************************)
EXTENDS Integers, Sequences

CONSTANTS
  Case,          \* the qualification cases: role of the board, reliability,
                 \*   durability, depth, and whether matches can be counted
  Scheduled,     \* EXPECTED_SAMPLE_COUNT, the sum of the rate cases
  Recovery,      \* MAX_RECOVERY_SAMPLES
  HistoryLast,   \* TRANSIENT_HISTORY_LAST_VALUE
  Lag,           \* longest regular discovery
  MatchTimeout,  \* MATCH_TIMEOUT_MS of the board
  PeerTimeout,   \* --timeout of the peer
  Completion     \* the peer's wait for the board to end

VARIABLES
  case,      \* the case
  pc,        \* where the writer (w) and the reader (r) are
  left,      \* the time left there
  sent,      \* how many samples were published
  recovery,  \* recovery_samples
  sees,      \* which side knows of the other's endpoint
  age,       \* how long it has been due to learn
  next,      \* the sample that a reliable writer has to deliver next
  queue,     \* the reader's history
  got,       \* the samples its callback was called with
  reported,  \* match_reported of the board's reader
  lost,      \* samples that will not reach the callback: lost on the way, or
             \*   displaced in a history of depth samples
  fault      \* the one thing that went wrong

vars == <<case, pc, left, sent, recovery, sees, age, next, queue, got,
          reported, lost, fault>>

Side == {"w", "r"}

Other(s) == IF s = "w" THEN "r" ELSE "w"

Ended == {"passed", "failed"}

TypeOK ==
  /\ case \in Case
  /\ pc.w \in {"off", "match", "grace", "send", "complete", "drain"} \cup Ended
  /\ pc.r \in {"off", "look", "settle", "receive"} \cup Ended
  /\ left \in [Side -> Nat] /\ age \in [Side -> 0..Lag]
  /\ sees \in [Side -> BOOLEAN]
  /\ sent \in Nat /\ recovery \in 0..Recovery /\ lost \in Nat
  /\ next \in 1..sent + 1
  /\ Len(queue) <= case.depth
  /\ Len(got) <= Scheduled + HistoryLast
  /\ reported \in BOOLEAN
  /\ fault \in {"none", "call", "delay"}

-----------------------------------------------------------------------------
Transient == case.durability = "transient_local"
Reliable == case.reliability = "reliable"

\* Whether the board is at this side.
Board(s) == (case.role = "pub") = (s = "w")

\* The endpoint exists.
Exists(s) ==
  IF s = "w" THEN pc.w \notin {"off"} \cup Ended ELSE pc.r = "receive"

\* Both sides know each other.
Matched == Exists("w") /\ Exists("r") /\ sees.w /\ sees.r

\* How many of the values of the history a late reader gets.
Retained == IF case.depth < HistoryLast THEN case.depth ELSE HistoryLast

\* Mutant of expected_receive_count: the whole history.
expected_receive_count_all == IF Transient THEN HistoryLast + 1 ELSE Scheduled

expected_receive_count == IF Transient THEN Retained + 1 ELSE Scheduled

\* What the reader has to have received: samples in order, the last ones of a
\* transient-local history.  Volatile samples all have the same value.
ExpectedValues(samples) ==
  /\ Len(samples) = expected_receive_count
  /\ Transient => \A i \in DOMAIN samples :
                    samples[i] = HistoryLast + 1 - Retained + (i - 1)

Fault(kind) == fault = "none" /\ fault' = kind

Goes(s, at, time) ==
  pc' = [pc EXCEPT ![s] = at] /\ left' = [left EXCEPT ![s] = time]

-----------------------------------------------------------------------------
(***************************************************************************)
(* DDS and time.                                                           *)
(***************************************************************************)

\* The writer's history holds its last samples.
Oldest == IF sent > case.depth THEN sent - case.depth + 1 ELSE 1

\* One side learns of the other's endpoint or of its end.  To a volatile
\* reader only later samples are due.
Discover(s) ==
  /\ pc[s] \notin {"off"} \cup Ended
  /\ sees[s] # Exists(Other(s))
  /\ sees' = [sees EXCEPT ![s] = ~@]
  /\ age' = [age EXCEPT ![s] = 0]
  /\ next' = IF s = "w" /\ ~sees.w THEN IF Transient THEN Oldest ELSE sent + 1
             ELSE next
  /\ UNCHANGED <<case, pc, left, sent, recovery, queue, got, reported, lost,
                 fault>>

\* A sample reaches the reader's history; displaced samples are missing.
Arrives(n, missing) ==
  /\ queue' = IF Len(queue) < case.depth THEN Append(queue, n)
              ELSE Append(Tail(queue), n)
  /\ lost' = lost + missing + (IF Len(queue) < case.depth THEN 0 ELSE 1)

\* The writer sends what its history still holds.
Deliver ==
  /\ Reliable /\ Matched /\ next <= sent
  /\ LET n == IF next < Oldest THEN Oldest ELSE next
     IN Arrives(n, n - next) /\ next' = n + 1
  /\ UNCHANGED <<case, pc, left, sent, recovery, sees, age, got, reported,
                 fault>>

\* rcl_publish, publisher.publish
Publish ==
  /\ sent' = sent + 1
  /\ IF Reliable THEN UNCHANGED <<queue, lost>>
     ELSE \/ Matched /\ Arrives(sent + 1, 0)
          \/ lost' = lost + 1 /\ UNCHANGED queue

\* The reader has something to take and needs it.
CanTake ==
  pc.r = "receive" /\ queue # <<>> /\ Len(got) < expected_receive_count

\* The peer may send a recovery sample.
CanRecover ==
  /\ pc.w = "complete" /\ sees.w /\ left.w > 0
  /\ ~Transient /\ ~Reliable /\ recovery < Recovery

\* Samples are under way or something is about to be done.
Busy ==
  \/ CanTake \/ CanRecover
  \/ Reliable /\ Matched /\ next <= sent
  \/ pc.w = "send" \/ (pc.w = "match" /\ sees.w)
  \/ pc.w = "complete" /\ ~sees.w
  \/ pc.r = "look" /\ sees.r
  \/ pc.r = "receive" /\ Len(got) = expected_receive_count
  \/ pc.r = "receive" /\ Board("r") /\ case.observable /\ ~reported /\ sees.r

\* Discovery is late, or one side is started too late for the other.
Late ==
  \/ \E s \in Side : /\ pc[s] \notin {"off"} \cup Ended
                     /\ sees[s] # Exists(Other(s)) /\ age[s] = Lag
  \/ \E s \in Side : /\ pc[s] = "off"
                     /\ pc[Other(s)] # "off" /\ left[Other(s)] <= 2 * Lag + 2

Down(n) == IF n > 0 THEN n - 1 ELSE 0

Tick ==
  /\ \E s \in Side : pc[s] \notin {"off"} \cup Ended
  /\ \A s \in Side : pc[s] \notin {"off"} \cup Ended => left[s] > 0
  /\ \/ ~Busy /\ (~Late \/ fault # "none") /\ UNCHANGED fault
     \/ Busy /\ fault = "delay" /\ UNCHANGED fault
     \/ (Busy \/ Late) /\ Fault("delay")
  /\ left' = [s \in Side |-> Down(left[s])]
  /\ age' = [s \in Side |->
               IF /\ pc[s] \notin {"off"} \cup Ended
                  /\ sees[s] # Exists(Other(s)) /\ age[s] < Lag
               THEN age[s] + 1 ELSE age[s]]
  /\ UNCHANGED <<case, pc, sent, recovery, sees, next, queue, got, reported,
                 lost>>

-----------------------------------------------------------------------------
(***************************************************************************)
(* The writer: run_publisher of both sides.                                *)
(***************************************************************************)

\* The endpoint is made and the history written.  Without match counts the
\* board waits for a fixed time and the peer (--skip-match) not at all: it is
\* started when the board's reader is ready.
WriterStart ==
  /\ pc.w = "off"
  /\ ~case.observable /\ ~Board("w") => pc.r # "off"
  /\ sent' = IF Transient THEN HistoryLast ELSE 0
  /\ IF case.observable
     THEN Goes("w", "match", IF Board("w") THEN MatchTimeout ELSE PeerTimeout)
     ELSE IF Board("w") \/ Transient
     THEN Goes("w", "grace", IF Board("w") THEN Lag + 1 ELSE 1)
     ELSE Goes("w", "send", 1)
  /\ UNCHANGED <<case, recovery, sees, age, next, queue, got, reported, lost,
                 fault>>

\* A reader is counted, or the time is over.  Half a second follows, except
\* before the peer's volatile samples.
WriterMatches ==
  /\ pc.w = "match"
  /\ \/ /\ sees.w
        /\ IF Board("w") \/ Transient THEN Goes("w", "grace", 1)
           ELSE Goes("w", "send", 1)
     \/ ~sees.w /\ left.w = 0 /\ Goes("w", "failed", 0)
  /\ UNCHANGED <<case, sent, recovery, sees, age, next, queue, got, reported,
                 lost, fault>>

WriterGrace ==
  /\ pc.w = "grace" /\ left.w = 0
  /\ Goes("w", "send", 1)
  /\ UNCHANGED <<case, sent, recovery, sees, age, next, queue, got, reported,
                 lost, fault>>

\* The board's last wait, for acknowledgements.
DrainTime == IF Reliable THEN 1 ELSE 0

\* The live value, or one of the scheduled ones.  After the last the board
\* waits or ends, and the peer waits for the reader to go.
WriterSends ==
  /\ pc.w = "send" /\ Publish
  /\ IF sent' < (IF Transient THEN HistoryLast + 1 ELSE Scheduled)
     THEN UNCHANGED <<pc, left>>
     ELSE IF Board("w") THEN Goes("w", "drain", DrainTime)
     ELSE IF case.observable THEN Goes("w", "complete", Completion)
     ELSE Goes("w", "drain", 1)
  /\ UNCHANGED <<case, recovery, sees, age, next, got, reported, fault>>

\* The peer makes up for lost samples while the reader is there.
PeerRecovers ==
  /\ CanRecover
  /\ Publish /\ recovery' = recovery + 1
  /\ UNCHANGED <<case, pc, left, sees, age, next, got, reported, fault>>

\* The reader has gone, or the time is over.
PeerCompletes ==
  /\ pc.w = "complete"
  /\ \/ ~sees.w /\ Goes("w", "passed", 0)
     \/ sees.w /\ left.w = 0 /\ Goes("w", "failed", 0)
  /\ UNCHANGED <<case, sent, recovery, sees, age, next, queue, got, reported,
                 lost, fault>>

WriterDrains ==
  /\ pc.w = "drain" /\ left.w = 0
  /\ Goes("w", "passed", 0)
  /\ UNCHANGED <<case, sent, recovery, sees, age, next, queue, got, reported,
                 lost, fault>>

Writer ==
  \/ WriterMatches \/ WriterGrace \/ WriterSends
  \/ PeerRecovers \/ PeerCompletes \/ WriterDrains

-----------------------------------------------------------------------------
(***************************************************************************)
(* The reader: run_subscriber of both sides.                               *)
(***************************************************************************)

\* The peer first looks for a transient-local publisher.  The board is
\* flashed after the peer's HISTORY_READY.
ReaderStart ==
  /\ pc.r = "off"
  /\ IF Board("r")
     THEN (Transient => pc.w # "off") /\ Goes("r", "receive", MatchTimeout)
     ELSE Goes("r", IF Transient THEN "look" ELSE "receive", PeerTimeout)
  /\ UNCHANGED <<case, sent, recovery, sees, age, next, queue, got, reported,
                 lost, fault>>

\* wait_for_publisher, and half a second.
ReaderLooks ==
  /\ \/ pc.r = "look" /\ sees.r /\ Goes("r", "settle", 1)
     \/ pc.r = "look" /\ ~sees.r /\ left.r = 0 /\ Goes("r", "failed", 0)
     \/ pc.r = "settle" /\ left.r = 0 /\ Goes("r", "receive", PeerTimeout)
  /\ UNCHANGED <<case, sent, recovery, sees, age, next, queue, got, reported,
                 lost, fault>>

\* subscription_callback, receive
ReaderTakes ==
  /\ CanTake /\ left.r > 0
  /\ got' = Append(got, Head(queue)) /\ queue' = Tail(queue)
  /\ UNCHANGED <<case, pc, left, sent, recovery, sees, age, next, reported,
                 lost, fault>>

\* Mutant of ReceiveDeadline: it stays where it was.
ReceiveDeadlineKept == left.r

\* The board starts its time again when it has counted the publisher.
ReceiveDeadline == MatchTimeout

BoardMatches ==
  /\ pc.r = "receive" /\ Board("r") /\ case.observable
  /\ ~reported /\ sees.r /\ left.r > 0
  /\ reported' = TRUE
  /\ Goes("r", "receive", ReceiveDeadline)
  /\ UNCHANGED <<case, sent, recovery, sees, age, next, queue, got, lost,
                 fault>>

\* Enough samples or no time left: what came decides.
ReaderEnds ==
  /\ pc.r = "receive"
  /\ Len(got) = expected_receive_count \/ left.r = 0
  /\ Goes("r", IF ExpectedValues(got) THEN "passed" ELSE "failed", 0)
  /\ UNCHANGED <<case, sent, recovery, sees, age, next, queue, got, reported,
                 lost, fault>>

Reader == ReaderLooks \/ ReaderTakes \/ BoardMatches \/ ReaderEnds

\* A call on the board fails: it finalises the endpoint and ends.
BoardFails ==
  /\ \E s \in Side : /\ Board(s) /\ pc[s] \notin Ended
                     /\ Goes(s, "failed", 0)
  /\ Fault("call")
  /\ UNCHANGED <<case, sent, recovery, sees, age, next, queue, got, reported,
                 lost>>

Finished == (\A s \in Side : pc[s] \in Ended) /\ UNCHANGED vars

Next ==
  \/ WriterStart \/ ReaderStart
  \/ Tick \/ Writer \/ Reader \/ Deliver \/ BoardFails \/ Finished
  \/ \E s \in Side : Discover(s)

Init ==
  /\ case \in Case
  /\ pc = [w |-> "off", r |-> "off"]
  /\ left = [s \in Side |-> 0] /\ age = [s \in Side |-> 0]
  /\ sent = 0 /\ recovery = 0 /\ lost = 0 /\ next = 1
  /\ sees = [s \in Side |-> FALSE]
  /\ queue = <<>> /\ got = <<>>
  /\ reported = FALSE /\ fault = "none"

Spec == Init /\ [][Next]_vars

-----------------------------------------------------------------------------
\* The peer's publisher reports success when the board's reader has gone,
\* which it also does when it gives up.  If no call failed and nothing was
\* late the reader went because it is complete, however many samples were
\* lost: the peer gives up before the board does.
PeerPassIsComplete ==
  /\ fault = "none" /\ case.observable /\ ~Board("w") /\ pc.w = "passed"
  => pc.r = "passed"

\* If no call failed and nothing was late both sides pass, whichever was
\* started first, in every case where matches are counted: the late reader
\* of a transient-local writer gets exactly the retained values and the live
\* one, the reliable board ends after its last sample has arrived, and the
\* best-effort peer makes up for as many lost samples as it may.
TimelyPasses ==
  /\ fault = "none" /\ case.observable
  /\ lost <= (IF Board("w") \/ Reliable THEN 0 ELSE Recovery)
  => \A s \in Side : pc[s] # "failed"

\* No side that was started is still running.
Settled == \A s \in Side : pc[s] \in {"off"} \cup Ended

=============================================================================
