----------------------------- MODULE Histogram -----------------------------
(***************************************************************************)
(* The histogram of stats.rs as main uses it: alone, when the workers have *)
(* been joined.  A histogram is the record of its four fields; an update   *)
(* is an operator from a histogram to a histogram, a query one from a      *)
(* histogram to a number.  Recorded is the effect of a whole call of       *)
(* record; StatsRecord shows that concurrent calls leave the same bounds.  *)
(***************************************************************************)
EXTENDS Integers, FiniteSets, SequencesExt

\* Stats::alloc(max), with limit = max + 1.  min starts at u64::MAX; any
\* value above the limit makes the window min .. max as empty.
Alloc(limit) ==
  [ count |-> 0, limit |-> limit, min |-> limit + 1, max |-> 0,
    data |-> [v \in 0 .. limit - 1 |-> 0] ]

\* Stats::record(n): refused, without a trace, if n is not below the limit.
Recorded(h, n) ==
  IF n >= h.limit THEN h
  ELSE [h EXCEPT !.data[n] = @ + 1,
                 !.count = @ + 1,
                 !.min = IF n < @ THEN n ELSE @,
                 !.max = IF n > @ THEN n ELSE @]

-----------------------------------------------------------------------------
\* Stats::correct(expected), the coordinated-omission correction.

\* The values m = n - expected, n - 2 * expected, ... above expected.
Omitted(n, expected) ==
  { m \in expected + 1 .. n - expected : (n - m) % expected = 0 }

\* One bucket: its samples are added to every value it hid.
CorrectBucket(h, n, expected) ==
  [h EXCEPT !.data = [m \in DOMAIN h.data |->
                        IF m \in Omitted(n, expected) THEN h.data[m] + h.data[n]
                                                      ELSE h.data[m]],
            !.count = @ + h.data[n] * Cardinality(Omitted(n, expected))]

\* The buckets from 2 * expected to max, in ascending order.  Neither min nor
\* max is touched.
Corrected_Descending(h, expected) ==
  IF expected <= 0 THEN h
  ELSE LET start == 2 * expected
       IN  FoldLeft(LAMBDA g, n : CorrectBucket(g, n, expected), h,
                    [i \in 1 .. h.max - start + 1 |-> h.max - i + 1])

Corrected(h, expected) ==
  IF expected <= 0 THEN h
  ELSE LET start == 2 * expected
       IN  FoldLeft(LAMBDA g, n : CorrectBucket(g, n, expected), h,
                    [i \in 1 .. h.max - start + 1 |-> start + i - 1])

-----------------------------------------------------------------------------
\* The queries.  All of them scan the window min ..= max.

Window(h) == h.min .. h.max

Samples(h, values) == FoldFunctionOnSet(+, 0, h.data, values)

\* Stats::mean: the sum of the samples, of which the mean is one count-th.
Sum(h) == MapThenSumSet(LAMBDA i : i * h.data[i], Window(h))

\* The square of a value's deviation from the mean, times count squared; and
\* the sum over the samples, count - 1 times the square of Stats::stdev.
Deviation2(h, i) == (h.count * i - Sum(h)) * (h.count * i - Sum(h))
Variance2(h)     == MapThenSumSet(LAMBDA i : h.data[i] * Deviation2(h, i), Window(h))

\* Stats::within_stdev: the samples within one deviation of the mean.
WithinStdev_Strict(h) ==
  Samples(h, { i \in Window(h) : Deviation2(h, i) * (h.count - 1) < Variance2(h) })

WithinStdev(h) ==
  Samples(h, { i \in Window(h) : Deviation2(h, i) * (h.count - 1) <= Variance2(h) })

\* round(p / 100 * count + 0.5), half away from zero: with p and count
\* natural numbers, the next integer above p * count / 100.
Rank(h, p) == (p * h.count) \div 100 + 1

\* Stats::percentile(p): the first value at which the running total of the
\* window reaches the rank, 0 if none does.
Percentile_AboveRank(h, p) ==
  LET reached == { i \in Window(h) : Samples(h, h.min .. i) > Rank(h, p) }
  IN  IF h.count = 0 \/ reached = {} THEN 0
      ELSE CHOOSE i \in reached : \A j \in reached : i <= j

Percentile(h, p) ==
  LET reached == { i \in Window(h) : Samples(h, h.min .. i) >= Rank(h, p) }
  IN  IF h.count = 0 \/ reached = {} THEN 0
      ELSE CHOOSE i \in reached : \A j \in reached : i <= j

-----------------------------------------------------------------------------
\* What the queries are about: references that look at every bucket.

\* The nearest rank percentile: the smallest value with at least Rank samples
\* at or below it.
NearestRank(h, p) ==
  LET reached == { v \in DOMAIN h.data : Samples(h, 0 .. v) >= Rank(h, p) }
  IN  IF h.count = 0 \/ reached = {} THEN 0
      ELSE CHOOSE v \in reached : \A u \in reached : v <= u

\* The samples with, for each, the omitted ones it stands for.
WithOmitted(h, expected) ==
  [m \in DOMAIN h.data |->
     h.data[m] + Samples(h, { n \in DOMAIN h.data :
                                expected > 0 /\ n >= 2 * expected
                                  /\ m \in Omitted(n, expected) })]
=============================================================================
