---------------------------- MODULE MeasuredRun ----------------------------
(***************************************************************************)
(* How main gets from the latencies of a run to the figures of the report: *)
(* the tasks record them while the run lasts; after the join, main divides *)
(* the measured runtime by the completed requests per connection and       *)
(* corrects the histogram with that interval; the report reads it.         *)
(*                                                                         *)
(* Here time is measured, because the interval is: a slot (a connection,   *)
(* or one of its streams) has one request outstanding at a time, so the    *)
(* latencies of its requests add up to no more than the time it ran.  The  *)
(* control of the run is in H1Run, H2Run and H3Run.                        *)
(***************************************************************************)
EXTENDS Histogram

CONSTANTS
  Connections,   \* -c
  Streams,       \* stream tasks per connection; 1 for HTTP/1
  Timeout,       \* -T
  Runtime,       \* from wall_start to the last join
  SpawnTime,     \* from the start of the first worker to wall_start
  MaxAnswered    \* bound: responses of the run

ASSUME ConnectionsAssumption == Connections \in Nat \ {0}
ASSUME StreamsAssumption     == Streams \in Nat \ {0}
ASSUME TimesAssumption       == {Timeout, Runtime, SpawnTime, MaxAnswered} \subseteq Nat

Slots == 1 .. Connections * Streams

VARIABLES
  phase,      \* "running", "joined" or "corrected"
  clock,      \* clock[k]: time slot k has spent on answered requests
  answered,   \* responses read
  complete,   \* total.complete: the responses that were flushed
  latency     \* the histogram

vars == << phase, clock, answered, complete, latency >>

\* The types of the variables; min is above the limit until a sample comes.
TypeOK ==
  /\ phase \in {"running", "joined", "corrected"}
  /\ clock \in [Slots -> 0 .. Runtime + SpawnTime]
  /\ answered \in 0 .. MaxAnswered
  /\ complete \in 0 .. answered
  /\ latency.data \in [0 .. Timeout -> Nat]
  /\ latency.count \in Nat
  /\ latency.min \in 0 .. Timeout + 2
  /\ latency.max \in 0 .. Timeout

Init ==
  /\ phase = "running"
  /\ clock = [k \in Slots |-> 0]
  /\ answered = 0
  /\ complete = 0
  /\ latency = Alloc(Timeout + 1)

\* A request of slot k is answered after the time l; late ones are completed
\* but not recorded.
Answer(k, l) ==
  /\ phase = "running"
  /\ answered < MaxAnswered
  /\ clock[k] + l <= Runtime + SpawnTime
  /\ clock' = [clock EXCEPT ![k] = @ + l]
  /\ answered' = answered + 1
  /\ latency' = IF l > Timeout THEN latency ELSE Recorded(latency, l)
  /\ UNCHANGED << phase, complete >>

\* The workers are joined.  Tasks that were dropped take along any number of
\* the responses they read (ReportsEveryResponse in RunControl).
Join ==
  /\ phase = "running"
  /\ phase' = "joined"
  /\ complete' \in 0 .. answered
  /\ UNCHANGED << clock, answered, latency >>

\* main's interval: none if a division is by zero.
Interval_Overall(done) ==
  IF done = 0 THEN 0 ELSE Runtime \div done

Interval(done) ==
  LET perConn == done \div Connections
  IN  IF perConn = 0 THEN 0 ELSE Runtime \div perConn

Correct ==
  /\ phase = "joined"
  /\ phase' = "corrected"
  /\ latency' = Corrected(latency, Interval(complete))
  /\ UNCHANGED << clock, answered, complete >>

Reported == phase = "corrected" /\ UNCHANGED vars

Next ==
  \/ \E k \in Slots, l \in 0 .. Timeout + 1 : Answer(k, l)
  \/ Join
  \/ Correct
  \/ Reported

Spec == Init /\ [][Next]_vars

-----------------------------------------------------------------------------
\* The percentiles that print_stats_latency reports.
ReportedPercentiles == {50, 75, 90, 99}

\* No sample is outside the window min ..= max, which is all that mean, stdev,
\* within_stdev and percentile scan while they divide by the count: not even
\* the samples that correct adds, though it never touches min and max.
WindowHoldsAll ==
  Samples(latency, DOMAIN latency.data \cap Window(latency)) = latency.count

\* README.md:260 promises "nearest-rank percentiles from the latency
\* histogram": percentile's scan of the window finds what a scan of all the
\* buckets would.
PercentilesAreNearestRank ==
  phase = "corrected" =>
    \A p \in ReportedPercentiles : Percentile(latency, p) = NearestRank(latency, p)

\* The figures of a row fit each other, corrected samples included: the mean
\* is between the smallest and the largest sample, some sample is within a
\* deviation of it, even if all are equal, and the percentiles ascend to at
\* most the maximum.
ReportAddsUp ==
  phase = "corrected" /\ latency.count > 0 =>
    LET shown == << latency.min,
                    Percentile(latency, 50), Percentile(latency, 75),
                    Percentile(latency, 90), Percentile(latency, 99),
                    latency.max >>
    IN  /\ Sum(latency) \in latency.min * latency.count .. latency.max * latency.count
        /\ WithinStdev(latency) \in 1 .. latency.count
        /\ \A i \in 2 .. Len(shown) : shown[i - 1] <= shown[i]

\* The correction stands for what the client measured: it adds to each sample
\* the requests that sample held back, and none for the samples it has itself
\* added, although it updates in place the buckets it reads.
CorrectionIsSinglePass ==
  [][phase = "joined" =>
       latency'.data = WithOmitted(latency, Interval(complete))]_vars
=============================================================================
