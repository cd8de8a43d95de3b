---------------------------- MODULE StatsRecord ----------------------------
(***************************************************************************)
(* Stats::record of stats.rs, called by several worker threads at once on  *)
(* one histogram without a lock.  The latency histogram is shared by the   *)
(* connection tasks of all workers, the Req/Sec histogram by their rate    *)
(* recorders; a worker is one thread and runs one call at a time.          *)
(*                                                                         *)
(* One action per atomic instruction.  All of them are Relaxed:            *)
(*  - a load returns some value the location has had, not older than one   *)
(*    the thread has read from it before;                                  *)
(*  - a read-modify-write acts on the newest value;                        *)
(*  - compare_exchange_weak may fail though the value is the expected one, *)
(*    and a failed one is only a load.                                     *)
(* Loads of different locations may be reordered with each other and with  *)
(* the increments before them, which a stale load covers.  The histogram   *)
(* is read by main after it has joined the workers, so what matters is its *)
(* state when no call is in progress.                                      *)
(***************************************************************************)
EXTENDS Integers, FiniteSets, FiniteSetsExt

CONSTANTS
  Recorders,   \* the worker threads
  Limit,       \* max + 1, from Stats::alloc(max)
  U64Max,      \* the initial min, above every value
  MaxFreq      \* bound: how often a value is recorded

\* main spawns -t of them.
ASSUME RecordersAssumption == IsFiniteSet(Recorders)

ASSUME LimitAssumption   == Limit \in Nat \ {0}
ASSUME U64MaxAssumption  == U64Max \in Nat /\ U64Max >= Limit
ASSUME MaxFreqAssumption == MaxFreq \in Nat

Values == 0 .. Limit - 1

VARIABLES
  data,      \* the buckets
  count, min, max,
  minPast,   \* values min has had: what a relaxed load may return
  maxPast,
  pc,        \* pc[t]: the next atomic instruction of thread t, "idle" if none
  n,         \* n[t]: the argument of its call
  curMin,    \* curMin[t]: the value of min it read last (cur_min, then m)
  curMax

vars == << data, count, min, max, minPast, maxPast, pc, n, curMin, curMax >>

Instruction == { "idle", "count", "loadMin", "loadMax", "casMin", "casMax" }

\* The types of the variables.
TypeOK ==
  /\ data \in [Values -> Nat]
  /\ count \in Nat
  /\ min \in Values \cup {U64Max}
  /\ max \in Values
  /\ minPast \in SUBSET (Values \cup {U64Max})
  /\ maxPast \in SUBSET Values
  /\ pc \in [Recorders -> Instruction]
  /\ n \in [Recorders -> Values]
  /\ curMin \in [Recorders -> Values \cup {U64Max}]
  /\ curMax \in [Recorders -> Values]

\* Stats::alloc.
Init_BoundsSwapped ==
  /\ data = [v \in Values |-> 0]
  /\ count = 0
  /\ min = 0 /\ minPast = {0}
  /\ max = U64Max /\ maxPast = {U64Max}
  /\ pc = [t \in Recorders |-> "idle"]
  /\ n = [t \in Recorders |-> 0]
  /\ curMin = [t \in Recorders |-> U64Max]
  /\ curMax = [t \in Recorders |-> 0]

Init ==
  /\ data = [v \in Values |-> 0]
  /\ count = 0
  /\ min = U64Max /\ minPast = {U64Max}
  /\ max = 0 /\ maxPast = {0}
  /\ pc = [t \in Recorders |-> "idle"]
  /\ n = [t \in Recorders |-> 0]
  /\ curMin = [t \in Recorders |-> U64Max]
  /\ curMax = [t \in Recorders |-> 0]

-----------------------------------------------------------------------------
At(t, instruction)   == pc[t] = instruction
Goto(t, instruction) == pc' = [pc EXCEPT ![t] = instruction]

\* What a relaxed load of min or max may return to t.  Both locations are
\* monotone, so a value is older than another if it is the wider bound.
MinLoads(t) == { v \in minPast : v <= curMin[t] }
MaxLoads(t) == { v \in maxPast : v >= curMax[t] }

\* A call record(v) with v < limit adds to the bucket; one with v >= limit
\* returns false and changes nothing.
AddData(t, v) ==
  /\ At(t, "idle")
  /\ data[v] < MaxFreq
  /\ data' = [data EXCEPT ![v] = @ + 1]
  /\ n' = [n EXCEPT ![t] = v]
  /\ Goto(t, "count")
  /\ UNCHANGED << count, min, max, minPast, maxPast, curMin, curMax >>

\* count.load, then count.store of the sum: not an atomic increment.
AddCount_Overwrites(t) ==
  /\ At(t, "count")
  /\ \E seen \in {count, count - 1} : seen >= 0 /\ count' = seen + 1
  /\ Goto(t, "loadMin")
  /\ UNCHANGED << data, min, max, minPast, maxPast, n, curMin, curMax >>

AddCount(t) ==
  /\ At(t, "count")
  /\ count' = count + 1
  /\ Goto(t, "loadMin")
  /\ UNCHANGED << data, min, max, minPast, maxPast, n, curMin, curMax >>

LoadMin(t) ==
  /\ At(t, "loadMin")
  /\ \E v \in MinLoads(t) : curMin' = [curMin EXCEPT ![t] = v]
  /\ Goto(t, "loadMax")
  /\ UNCHANGED << data, count, min, max, minPast, maxPast, n, curMax >>

\* The load of max and the branches on the two values: the fast path, the
\* loop on min, or only the loop on max.
LoadMax_EitherBound(t) ==
  /\ At(t, "loadMax")
  /\ \E v \in MaxLoads(t) :
       /\ curMax' = [curMax EXCEPT ![t] = v]
       /\ \/ (n[t] >= curMin[t] \/ n[t] <= v) /\ Goto(t, "idle")
          \/ n[t] < curMin[t] /\ n[t] > v /\ Goto(t, "casMin")
  /\ UNCHANGED << data, count, min, max, minPast, maxPast, n, curMin >>

LoadMax(t) ==
  /\ At(t, "loadMax")
  /\ \E v \in MaxLoads(t) :
       /\ curMax' = [curMax EXCEPT ![t] = v]
       /\ \/ n[t] >= curMin[t] /\ n[t] <= v /\ Goto(t, "idle")
          \/ n[t] < curMin[t] /\ Goto(t, "casMin")
          \/ n[t] >= curMin[t] /\ n[t] > v /\ Goto(t, "casMax")
  /\ UNCHANGED << data, count, min, max, minPast, maxPast, n, curMin >>

\* Where the loop on min leads: `if n > cur_max` tests the value loaded above.
AfterMin(t) == IF n[t] > curMax[t] THEN "casMax" ELSE "idle"

\* One turn of the loop `while n < m` on min: the exchange succeeds, or it
\* fails and m becomes the value it read.
CasMin_BlindStore(t) ==
  /\ At(t, "casMin")
  /\ min' = n[t]
  /\ minPast' = minPast \cup {n[t]}
  /\ curMin' = [curMin EXCEPT ![t] = n[t]]
  /\ Goto(t, AfterMin(t))
  /\ UNCHANGED << data, count, max, maxPast, n, curMax >>

CasMin(t) ==
  /\ At(t, "casMin")
  /\ \/ /\ min = curMin[t]
        /\ min' = n[t]
        /\ minPast' = minPast \cup {n[t]}
        /\ curMin' = [curMin EXCEPT ![t] = n[t]]
        /\ Goto(t, AfterMin(t))
     \/ \E actual \in MinLoads(t) :
          /\ curMin' = [curMin EXCEPT ![t] = actual]
          /\ Goto(t, IF n[t] < actual THEN "casMin" ELSE AfterMin(t))
          /\ UNCHANGED << min, minPast >>
  /\ UNCHANGED << data, count, max, maxPast, n, curMax >>

\* The same on max, after which the call returns.
CasMax_NoRetry(t) ==
  /\ At(t, "casMax")
  /\ \/ /\ max = curMax[t]
        /\ max' = n[t]
        /\ maxPast' = maxPast \cup {n[t]}
        /\ curMax' = [curMax EXCEPT ![t] = n[t]]
     \/ \E actual \in MaxLoads(t) :
          /\ curMax' = [curMax EXCEPT ![t] = actual]
          /\ UNCHANGED << max, maxPast >>
  /\ Goto(t, "idle")
  /\ UNCHANGED << data, count, min, minPast, n, curMin >>

CasMax(t) ==
  /\ At(t, "casMax")
  /\ \/ /\ max = curMax[t]
        /\ max' = n[t]
        /\ maxPast' = maxPast \cup {n[t]}
        /\ curMax' = [curMax EXCEPT ![t] = n[t]]
        /\ Goto(t, "idle")
     \/ \E actual \in MaxLoads(t) :
          /\ curMax' = [curMax EXCEPT ![t] = actual]
          /\ Goto(t, IF n[t] > actual THEN "casMax" ELSE "idle")
          /\ UNCHANGED << max, maxPast >>
  /\ UNCHANGED << data, count, min, minPast, n, curMin >>

Step(t) ==
  \/ \E v \in Values : AddData(t, v)
  \/ AddCount(t)
  \/ LoadMin(t)
  \/ LoadMax(t)
  \/ CasMin(t)
  \/ CasMax(t)

Next == \E t \in Recorders : Step(t)

Spec == Init /\ [][Next]_vars

-----------------------------------------------------------------------------
Quiet == \A t \in Recorders : pc[t] = "idle"

\* When no call is in progress, the count is the number of samples in the
\* buckets: percentile and mean divide by it.
CountExactWhenQuiet == Quiet => count = MapThenSumSet(LAMBDA v : data[v], Values)

\* When no call is in progress, min and max are the smallest and the largest
\* recorded value: the queries scan min..=max and nothing else, so a bound
\* lost in a race hides samples, and a bound nobody recorded scans too far.
BoundsExactWhenQuiet ==
  Quiet =>
    /\ \A v \in Values : data[v] > 0 => min <= v /\ v <= max
    /\ (\E v \in Values : data[v] > 0) =>
         /\ min \in Values /\ data[min] > 0
         /\ data[max] > 0

\* No race ever narrows the window: min only falls and max only rises.
WindowOnlyWidens == [][min' <= min /\ max' >= max]_vars
=============================================================================
