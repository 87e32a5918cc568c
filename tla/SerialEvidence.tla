--------------------------- MODULE SerialEvidence ---------------------------
(***************************************************************************)
(* The evidence that a hardware run leaves: main of samples/static_control *)
(* prints a report every second, samples/loopback/capture_esp32.py copies  *)
(* the serial line to a log until it has seen enough reports, and          *)
(* tools/check_static_control_metrics.py and                               *)
(* tools/check_static_control_timing.py judge the log.                     *)
(*                                                                         *)
(* A report is a line of three pieces: its mark, its values and its end; a *)
(* line without the mark is one piece.  The pieces are read in chunks of   *)
(* any size.  The port goes away with what is under way when the USB       *)
(* device does, and what is printed then is lost: the log may hold a line  *)
(* that is put together from two.  The METRICS and the TIMING line of a    *)
(* report are modelled as one.                                             *)
(***************************************************************************)
EXTENDS Integers, FiniteSets, SequencesExt

CONSTANTS
  Interval,        \* what a reporting interval may add to the counters
  MinimumMatches,  \* --minimum-matches
  MinimumSamples,  \* --minimum-samples, and --minimum-records
  PerRecord,       \* 50, the control cycles a timing record stands for
  Word,            \* 2^32
  MaximumDelta,    \* --maximum-middleware-delta
  Full, Kept,      \* 4096 and 2048, in pieces
  Reconnect,       \* whether --reconnect is given
  MaxBoots, MaxReports, MaxNoise   \* bounds on boots, reports, other lines

VARIABLES
  boot,      \* the board's boot
  counters,  \* its counters since: ROS and middleware allocations, timing
             \*   samples, how many of them are in the upper bucket of
             \*   release_hist and of completion_hist, and how many releases
             \*   took a microsecond or more
  printed,   \* history: its reports, and how many other lines
  wire,      \* the pieces under way
  port,      \* whether the port is open
  reset_pending, recent, matches,   \* of the capture
  result,    \* how it ended
  log        \* what it wrote

vars == <<boot, counters, printed, wire, port, reset_pending, recent, matches,
          result, log>>

capture == <<port, reset_pending, recent, matches, result, log>>

Zero == [ros |-> 0, middleware |-> 0, samples |-> 0, release |-> 0,
         completion |-> 0, measured |-> 0]

Mark == [kind |-> "mark"]
End == [kind |-> "end"]
Values(record) == [kind |-> "values", record |-> record]

TypeOK ==
  /\ boot \in 1..MaxBoots
  /\ \A c \in DOMAIN Zero : counters[c] \in Nat
  /\ Len(printed.reports) <= MaxReports /\ printed.noise <= MaxNoise
  /\ port \in {"closed", "open"} /\ reset_pending \in BOOLEAN
  /\ Len(recent) <= Full
  /\ matches \in 0..MinimumMatches
  /\ result \in {"reading", "matched", "failed"}

-----------------------------------------------------------------------------
(***************************************************************************)
(* The board.                                                              *)
(***************************************************************************)

Line(pieces) ==
  wire' = IF port = "open" THEN wire \o pieces ELSE wire

\* REPORT_PERIOD_MS is over: the counters go to the line.
Report ==
  /\ Len(printed.reports) < MaxReports
  /\ \E i \in Interval :
       LET now == [c \in DOMAIN Zero |-> counters[c] + i[c]]
           record == [boot |-> boot, now |-> now]
       IN  /\ counters' = now
           /\ printed' = [printed EXCEPT !.reports = Append(@, record)]
           /\ Line(<<Mark, Values(record), End>>)
  /\ UNCHANGED <<boot, capture>>

\* Any other line.
Noise ==
  /\ printed.noise < MaxNoise
  /\ printed' = [printed EXCEPT !.noise = @ + 1]
  /\ Line(<<End>>)
  /\ UNCHANGED <<boot, counters, capture>>

\* The board starts again; what it printed is still under way.
Boots == boot' = boot + 1 /\ counters' = Zero

Reboot ==
  /\ boot < MaxBoots
  /\ Boots
  /\ UNCHANGED <<printed, wire, capture>>

-----------------------------------------------------------------------------
(***************************************************************************)
(* capture_esp32.py.                                                       *)
(***************************************************************************)

\* The port is opened, and the board reset the first time.
Open ==
  /\ result = "reading" /\ port = "closed"
  /\ port' = "open"
  /\ IF reset_pending THEN boot < MaxBoots /\ Boots
     ELSE UNCHANGED <<boot, counters>>
  /\ reset_pending' = FALSE
  /\ UNCHANGED <<printed, wire, recent, matches, result, log>>

\* The serial device fails or goes away.
Disconnect ==
  /\ result = "reading" /\ port = "open"
  /\ port' = "closed" /\ wire' = <<>>
  /\ result' = IF Reconnect THEN result ELSE "failed"
  /\ UNCHANGED <<boot, counters, printed, reset_pending, recent, matches, log>>

\* The first index from i on of a piece of a kind, or 0.
FindFrom(pieces, kind, i) ==
  SelectInSubSeq(pieces, i, Len(pieces), LAMBDA p : p.kind = kind)

\* Where the first line with the mark ends, or 0.
LineEnd(pieces) ==
  LET mark == FindFrom(pieces, "mark", 1)
  IN IF mark = 0 THEN 0 ELSE FindFrom(pieces, "end", mark)

\* Mutant of AfterLine: only the mark is cut off.
AfterLineMark(pieces) ==
  SubSeq(pieces, FindFrom(pieces, "mark", 1) + 1, Len(pieces))

AfterLine(pieces) == SubSeq(pieces, LineEnd(pieces) + 1, Len(pieces))

\* The inner loop: complete lines are counted and cut off until there are
\* enough.
RECURSIVE Counted(_, _)
Counted(pieces, n) ==
  IF n = MinimumMatches \/ LineEnd(pieces) = 0
  THEN [rest |-> pieces, matches |-> n]
  ELSE Counted(AfterLine(pieces), n + 1)

\* Mutant of Trim: what is pending goes too.
TrimAll(pieces) == IF Len(pieces) > Full THEN <<>> ELSE pieces

\* del recent[:-2048]
Trim(pieces) ==
  IF Len(pieces) > Full
  THEN SubSeq(pieces, Len(pieces) - Kept + 1, Len(pieces)) ELSE pieces

\* The program ends: what is under way is lost.
Exits(with) ==
  result' = with /\ port' = "closed" /\ wire' = <<>> /\ recent' = <<>>

\* A chunk is written to the log and searched.
Read ==
  /\ result = "reading" /\ port = "open"
  /\ \E n \in 1..Len(wire) :
       LET chunk == SubSeq(wire, 1, n)
           after == Counted(recent \o chunk, matches)
       IN  /\ log' = log \o chunk
           /\ matches' = after.matches
           /\ IF after.matches = MinimumMatches
              THEN Exits("matched")
              ELSE /\ recent' = Trim(after.rest)
                   /\ wire' = SubSeq(wire, n + 1, Len(wire))
                   /\ UNCHANGED <<result, port>>
  /\ UNCHANGED <<boot, counters, printed, reset_pending>>

\* The deadline passes.
TimesOut ==
  /\ result = "reading"
  /\ Exits("failed")
  /\ UNCHANGED <<boot, counters, printed, reset_pending, matches, log>>

Finished == result # "reading" /\ UNCHANGED vars

Next ==
  \/ result = "reading" /\ (Report \/ Noise \/ Reboot)
  \/ Open \/ Disconnect \/ Read \/ TimesOut \/ Finished

\* The board has been running since it was flashed.
Init ==
  /\ boot = 1 /\ counters = Zero
  /\ printed = [reports |-> <<>>, noise |-> 0]
  /\ wire = <<>> /\ port = "closed" /\ reset_pending \in BOOLEAN
  /\ recent = <<>> /\ matches = 0 /\ result = "reading" /\ log = <<>>

Spec == Init /\ [][Next]_vars

-----------------------------------------------------------------------------
(***************************************************************************)
(* check_static_control_metrics.py.                                        *)
(***************************************************************************)

\* splitlines, the last line being complete or not.
Lines(pieces) ==
  FoldLeft(LAMBDA lines, p :
             IF p.kind = "end" THEN Append(lines, <<>>)
             ELSE Append(Front(lines), Append(Last(lines), p)),
           <<<<>>>>, pieces)

Has(line, kind) == \E i \in DOMAIN line : line[i].kind = kind

Marked(pieces) == SelectSeq(Lines(pieces), LAMBDA line : Has(line, "mark"))

\* The values of a line; of two with the same key the later is taken.
LineValues(line) ==
  line[SelectLastInSeq(line, LAMBDA p : p.kind = "values")].record

\* A marked line without values is rejected.
parse_metrics(pieces) ==
  LET marked == Marked(pieces)
  IN  [missing |-> \E i \in DOMAIN marked : ~Has(marked[i], "values"),
       records |-> [i \in DOMAIN marked |->
                      IF Has(marked[i], "values") THEN LineValues(marked[i])
                      ELSE [boot |-> 0, now |-> Zero]]]

\* Mutant of MetricsAccepted: only growth from the first to the last sample
\* is limited.
MetricsAcceptedEnds(records) ==
  /\ Len(records) >= MinimumSamples
  /\ \A i \in DOMAIN records : records[i].now.ros = 0
  /\ Last(records).now.middleware - Head(records).now.middleware
       <= MaximumDelta * (Len(records) - 1)

\* check_metrics.  The first sample counts if it is the only one.
MetricsAccepted(records) ==
  /\ Len(records) >= MinimumSamples
  /\ \A i \in DOMAIN records : records[i].now.ros = 0
  /\ \A i \in 1..Len(records) - 1 :
       records[i + 1].now.middleware - records[i].now.middleware
         \in 0..MaximumDelta
  /\ Len(records) = 1 => records[1].now.middleware <= MaximumDelta

metrics_pass ==
  LET parsed == parse_metrics(log)
  IN  ~parsed.missing /\ MetricsAccepted(parsed.records)

-----------------------------------------------------------------------------
(***************************************************************************)
(* The percentiles that the board prints, and final_record of              *)
(* check_static_control_timing.py: the pattern needs the mark and the      *)
(* values next to each other, wherever they came from.  The histograms     *)
(* have two buckets, the last of which takes whatever is beyond; the       *)
(* comparison of two logs is left out.                                     *)
(***************************************************************************)

\* Mutant of Rank: counted from the late end.
RankFromEnd(samples, percentile) ==
  samples - ((samples * percentile + 99) % Word) \div 100

\* The product is a uint32_t.
Rank(samples, percentile) == ((samples * percentile + 99) % Word) \div 100

\* timing_percentile: the first bucket at which the rank is reached, with
\* `late' samples in the upper one.
timing_percentile(samples, late, percentile) ==
  IF samples = 0 THEN 0
  ELSE IF samples - late >= Rank(samples, percentile) THEN 1
  ELSE 2

\* release_max_us, which k_cyc_to_us_floor64 rounds down, is not 0.
ReleaseMeasured(now) == now.measured > 0

TimingRecords(pieces) ==
  LET at == SelectSeq([i \in 1..Len(pieces) |-> i],
              LAMBDA i : /\ i > 1 /\ pieces[i].kind = "values"
                         /\ pieces[i - 1].kind = "mark")
  IN  [k \in DOMAIN at |-> pieces[at[k]].record]

\* Mutant of Increasing: only the first and the last record are compared.
IncreasingEnds(records) ==
  records # <<>> => Head(records).now.samples <= Last(records).now.samples

Increasing(records) ==
  \A i \in 1..Len(records) - 1 :
    records[i].now.samples < records[i + 1].now.samples

\* The percentiles of one histogram.
Ordered(samples, late) ==
  /\ timing_percentile(samples, late, 50) <= timing_percentile(samples, late, 95)
  /\ timing_percentile(samples, late, 95) <= timing_percentile(samples, late, 99)

timing_pass ==
  LET records == TimingRecords(log)
      now     == records[MinimumSamples].now
  IN  /\ Len(records) >= MinimumSamples
      /\ Increasing(records)
      /\ now.samples >= PerRecord * MinimumSamples /\ ReleaseMeasured(now)
      /\ Ordered(now.samples, now.release) /\ Ordered(now.samples, now.completion)

-----------------------------------------------------------------------------
\* Nothing of what was printed since the port was first opened is missing from
\* the log and the wire.
Gapless ==
  \E n \in 0..Len(printed.reports) :
    SelectSeq(log \o wire, LAMBDA p : p.kind = "values")
      = [i \in 1..n |-> Values(printed.reports[Len(printed.reports) - n + i])]

\* The capture and the metrics check agree on what a report is, however the
\* line was cut into chunks, trimmed, or put together from two after a
\* disconnect: what the capture has counted the check will find.
MatchesAreRecords == matches <= Len(parse_metrics(log).records)

\* While it reads, the capture has counted every complete report in its log:
\* trimming the buffer never drops one that is still coming.
NoMarkerMissed ==
  result = "reading" =>
    matches = Cardinality({i \in DOMAIN log : /\ log[i].kind = "end"
                 /\ \E m \in 1..i : /\ log[m].kind = "mark"
                                   /\ \A k \in m..i - 1 : log[k].kind # "end"})

\* "at most 32 new middleware allocation attempts between adjacent one-second
\* samples", zero ROS attempts: if the log is accepted this is so of every
\* boot of the board between its first and its last report in the log, also
\* where reports in between were lost, since the counters are cumulative.
MetricsPassIsReal ==
  result # "reading" /\ metrics_pass =>
    LET records == parse_metrics(log).records
    IN  \A i, j \in DOMAIN printed.reports :
          LET a == printed.reports[i]
              b == printed.reports[j]
          IN  /\ j = i + 1 /\ a.boot = b.boot
              /\ \E k, l \in DOMAIN records :
                   /\ records[k].boot = a.boot /\ records[l].boot = a.boot
                   /\ records[k].now.samples <= a.now.samples
                   /\ records[l].now.samples >= b.now.samples
              => /\ b.now.ros = 0
                 /\ b.now.middleware - a.now.middleware <= MaximumDelta

\* A reset during a timing run is noticed: if no report was lost, all
\* records of an accepted log but the first are of one boot.
TimingIsOneBoot ==
  LET records == TimingRecords(log)
  IN  result # "reading" /\ timing_pass /\ Gapless =>
        \A i, j \in 2..Len(records) : records[i].boot = records[j].boot

\* A timing run that only one boot reported, for long enough, at its full
\* rate and with a release that took a microsecond, is accepted whichever
\* reports were lost with the port, as long as the product in
\* timing_percentile fits (five days at 100 Hz): samples increase and both
\* histograms give percentiles in order.
TimingAcceptsRun ==
  LET records == TimingRecords(log)
      judged == records[MinimumSamples].now
  IN  /\ result # "reading" /\ Len(records) >= MinimumSamples
      /\ \A i \in DOMAIN records : records[i].boot = records[1].boot
      /\ judged.samples >= PerRecord * MinimumSamples
      /\ ReleaseMeasured(judged)
      /\ judged.samples * 99 + 99 < Word
      => timing_pass

=============================================================================
