------------------------- MODULE StatsRecordProofs -------------------------
(***************************************************************************)
(* Proofs about StatsRecord, for every number of threads, every range of   *)
(* values and any number of calls: the lock-free bounds and the count are  *)
(* exact whenever no call is in progress.                                  *)
(***************************************************************************)
EXTENDS StatsRecord, Sums

-----------------------------------------------------------------------------
\* The inductive invariant.

\* A past value of a bound is never tighter than the bound.
PastWider ==
  /\ \A v \in minPast : min <= v
  /\ \A v \in maxPast : v <= max
  /\ min \in minPast /\ max \in maxPast

\* What a thread has read of a bound is a past value of it.
ReadsPast ==
  \A t \in Recorders : curMin[t] \in minPast /\ curMax[t] \in maxPast

\* A thread between its increment and the end of its work on a bound still
\* owes its value to that bound.
OwesMin(t) == pc[t] \in {"count", "loadMin", "loadMax", "casMin"}
OwesMax(t) == pc[t] \in {"count", "loadMin", "loadMax", "casMin", "casMax"}

\* A recorded value is inside each bound, or owed to it by some thread.
Covered ==
  \A v \in Values : data[v] > 0 =>
    /\ min <= v \/ \E t \in Recorders : OwesMin(t) /\ n[t] = v
    /\ v <= max \/ \E t \in Recorders : OwesMax(t) /\ n[t] = v

\* A bound that has moved is a recorded value, and so is what a thread is
\* about to make it.
BoundsRecorded ==
  /\ min \in Values => data[min] > 0
  /\ max > 0 => data[max] > 0
  /\ \A t \in Recorders : pc[t] # "idle" => data[n[t]] > 0

\* The branches taken by a thread that is past the loads.
BranchesRight ==
  \A t \in Recorders :
    /\ pc[t] = "casMin" => n[t] < curMin[t]
    /\ pc[t] = "casMax" => n[t] > curMax[t] /\ n[t] >= curMin[t]

IInv == /\ TypeOK
        /\ PastWider
        /\ ReadsPast
        /\ Covered
        /\ BoundsRecorded
        /\ BranchesRight

USE DEF At, Goto

\* The initial state.
LEMMA InitIInv == Init => IInv
<1> SUFFICES ASSUME Init PROVE IInv
  OBVIOUS
<1>1. 0 \in Values /\ U64Max \notin Values /\ U64Max \in Nat
  BY LimitAssumption, U64MaxAssumption DEF Values
<1>2. TypeOK
  BY <1>1 DEF Init, TypeOK, Instruction
<1>3. PastWider /\ ReadsPast
  BY <1>1 DEF Init, PastWider, ReadsPast
<1>4. Covered /\ BoundsRecorded /\ BranchesRight
  BY <1>1 DEF Init, Covered, BoundsRecorded, BranchesRight
<1>5. QED
  BY <1>2, <1>3, <1>4 DEF IInv

\* Values, and the initial min, are integers.
LEMMA Numbers == Values \subseteq Nat /\ Values \cup {U64Max} \subseteq Nat
BY LimitAssumption, U64MaxAssumption DEF Values

\* Every step keeps the types.
LEMMA StepType ==
  ASSUME IInv, NEW t \in Recorders, Step(t)
  PROVE  TypeOK'
<1> USE DEF TypeOK, Instruction
<1>1. ASSUME NEW v \in Values, AddData(t, v) PROVE TypeOK'
  BY <1>1 DEF AddData, IInv
<1>2. CASE AddCount(t)
  BY <1>2 DEF AddCount, IInv
<1>3. CASE LoadMin(t)
  BY <1>3 DEF LoadMin, MinLoads, IInv
<1>4. CASE LoadMax(t)
  BY <1>4 DEF LoadMax, MaxLoads, IInv
<1>5. CASE CasMin(t)
  BY <1>5 DEF CasMin, MinLoads, AfterMin, IInv
<1>6. CASE CasMax(t)
  BY <1>6 DEF CasMax, MaxLoads, IInv
<1>7. QED
  BY <1>1, <1>2, <1>3, <1>4, <1>5, <1>6 DEF Step

\* The exchanges only widen the window; no other step touches the bounds.
LEMMA StepWidens ==
  ASSUME IInv, NEW t \in Recorders, Step(t)
  PROVE  /\ PastWider' /\ ReadsPast'
         /\ min' <= min /\ max' >= max
<1>1. /\ min \in Nat /\ max \in Nat /\ n[t] \in Nat
      /\ minPast \subseteq Nat /\ maxPast \subseteq Nat
  BY Numbers DEF IInv, TypeOK
<1>2. ASSUME UNCHANGED << min, max, minPast, maxPast >>
      PROVE  PastWider' /\ min' <= min /\ max' >= max
  BY <1>1, <1>2 DEF IInv, PastWider
<1>3. ASSUME NEW v \in Values, AddData(t, v) PROVE PastWider' /\ ReadsPast' /\ min' <= min /\ max' >= max
  BY <1>2, <1>3 DEF AddData, IInv, ReadsPast
<1>4. CASE AddCount(t)
  BY <1>2, <1>4 DEF AddCount, IInv, ReadsPast
<1>5. CASE LoadMin(t)
  BY <1>2, <1>5 DEF LoadMin, MinLoads, IInv, ReadsPast, TypeOK
<1>6. CASE LoadMax(t)
  BY <1>2, <1>6 DEF LoadMax, MaxLoads, IInv, ReadsPast, TypeOK
<1>7. CASE CasMin(t)
  <2>1. n[t] < curMin[t]
    BY <1>7 DEF CasMin, IInv, BranchesRight
  <2>2. CASE /\ min = curMin[t] /\ min' = n[t] /\ minPast' = minPast \cup {n[t]}
             /\ curMin' = [curMin EXCEPT ![t] = n[t]]
    BY <1>1, <1>7, <2>1, <2>2 DEF CasMin, IInv, PastWider, ReadsPast, TypeOK
  <2>3. ASSUME NEW actual \in MinLoads(t), curMin' = [curMin EXCEPT ![t] = actual],
               UNCHANGED << min, minPast >>
        PROVE  PastWider' /\ ReadsPast' /\ min' <= min /\ max' >= max
    BY <1>2, <1>7, <2>3 DEF CasMin, MinLoads, IInv, ReadsPast, TypeOK
  <2>4. QED
    BY <1>7, <2>2, <2>3 DEF CasMin
<1>8. CASE CasMax(t)
  <2>1. n[t] > curMax[t]
    BY <1>8 DEF CasMax, IInv, BranchesRight
  <2>2. CASE /\ max = curMax[t] /\ max' = n[t] /\ maxPast' = maxPast \cup {n[t]}
             /\ curMax' = [curMax EXCEPT ![t] = n[t]]
    BY <1>1, <1>8, <2>1, <2>2 DEF CasMax, IInv, PastWider, ReadsPast, TypeOK
  <2>3. ASSUME NEW actual \in MaxLoads(t), curMax' = [curMax EXCEPT ![t] = actual],
               UNCHANGED << max, maxPast >>
        PROVE  PastWider' /\ ReadsPast' /\ min' <= min /\ max' >= max
    BY <1>2, <1>8, <2>3 DEF CasMax, MaxLoads, IInv, ReadsPast, TypeOK
  <2>4. QED
    BY <1>8, <2>2, <2>3 DEF CasMax
<1>9. QED
  BY <1>3, <1>4, <1>5, <1>6, <1>7, <1>8 DEF Step

\* A bound moves to recorded values only, and a branch is taken on the value
\* that was read.
LEMMA StepBranches ==
  ASSUME IInv, NEW t \in Recorders, Step(t)
  PROVE  BoundsRecorded' /\ BranchesRight'
<1>1. /\ min \in Nat /\ max \in Nat
      /\ \A u \in Recorders : n[u] \in Values /\ curMin[u] \in Nat /\ curMax[u] \in Nat
      /\ minPast \subseteq Nat /\ maxPast \subseteq Nat
      /\ \A v \in Values : data[v] \in Nat
      /\ Values \subseteq Nat
  BY Numbers DEF IInv, TypeOK
<1>2. ASSUME NEW v \in Values, AddData(t, v) PROVE BoundsRecorded' /\ BranchesRight'
  <2>1. \A b \in Values : data[b] > 0 => data'[b] > 0
    BY <1>1, <1>2 DEF AddData, IInv, TypeOK
  <2>2. data'[v] > 0
    BY <1>1, <1>2 DEF AddData, IInv, TypeOK
  <2>3. BoundsRecorded'
    BY <1>1, <1>2, <2>1, <2>2 DEF AddData, IInv, BoundsRecorded, TypeOK
  <2>4. BranchesRight'
    BY <1>2 DEF AddData, IInv, BranchesRight, TypeOK
  <2>5. QED
    BY <2>3, <2>4
<1>3. CASE AddCount(t)
  BY <1>3 DEF AddCount, IInv, BoundsRecorded, BranchesRight, TypeOK
<1>4. CASE LoadMin(t)
  BY <1>4 DEF LoadMin, IInv, BoundsRecorded, BranchesRight, TypeOK
<1>5. CASE LoadMax(t)
  <2>1. PICK v \in MaxLoads(t) :
          /\ curMax' = [curMax EXCEPT ![t] = v]
          /\ \/ pc' = [pc EXCEPT ![t] = "idle"]
             \/ n[t] < curMin[t] /\ pc' = [pc EXCEPT ![t] = "casMin"]
             \/ n[t] >= curMin[t] /\ n[t] > v /\ pc' = [pc EXCEPT ![t] = "casMax"]
    BY <1>5 DEF LoadMax
  <2>2. BoundsRecorded'
    BY <1>5, <2>1 DEF LoadMax, IInv, BoundsRecorded, TypeOK
  <2>3. BranchesRight'
    BY <1>1, <1>5, <2>1 DEF LoadMax, IInv, BranchesRight, TypeOK
  <2>4. QED
    BY <2>2, <2>3
<1>6. CASE CasMin(t)
  <2>1. n[t] < curMin[t] /\ data[n[t]] > 0
    BY <1>6 DEF CasMin, IInv, BranchesRight, BoundsRecorded
  <2>2. CASE /\ min = curMin[t] /\ min' = n[t]
             /\ curMin' = [curMin EXCEPT ![t] = n[t]]
             /\ pc' = [pc EXCEPT ![t] = AfterMin(t)]
    <3>1. BoundsRecorded'
      BY <1>1, <1>6, <2>1, <2>2 DEF CasMin, AfterMin, IInv, BoundsRecorded, TypeOK
    <3>2. BranchesRight'
      BY <1>1, <1>6, <2>2 DEF CasMin, AfterMin, IInv, BranchesRight, TypeOK
    <3>3. QED
      BY <3>1, <3>2
  <2>3. ASSUME NEW actual \in MinLoads(t), curMin' = [curMin EXCEPT ![t] = actual],
               pc' = [pc EXCEPT ![t] = IF n[t] < actual THEN "casMin" ELSE AfterMin(t)],
               UNCHANGED << min, minPast >>
        PROVE  BoundsRecorded' /\ BranchesRight'
    <3>1. BoundsRecorded'
      BY <1>1, <1>6, <2>1, <2>3 DEF CasMin, AfterMin, IInv, BoundsRecorded, TypeOK
    <3>2. actual \in Nat
      BY <1>1 DEF MinLoads
    <3>3. /\ curMin'[t] = actual /\ UNCHANGED << n, curMax >>
          /\ pc'[t] = IF n[t] < actual THEN "casMin"
                     ELSE IF n[t] > curMax[t] THEN "casMax" ELSE "idle"
          /\ \A u \in Recorders \ {t} : pc'[u] = pc[u] /\ curMin'[u] = curMin[u]
      BY <1>6, <2>3 DEF CasMin, AfterMin, IInv, TypeOK
    <3>4. ASSUME NEW u \in Recorders
          PROVE  /\ pc'[u] = "casMin" => n[u] < curMin'[u]
                 /\ pc'[u] = "casMax" => n[u] > curMax[u] /\ n[u] >= curMin'[u]
      <4>1. CASE u = t
        <5>1. n[t] \in Nat /\ curMax[t] \in Nat
          BY <1>1
        <5>2. QED
          BY <3>2, <3>3, <4>1, <5>1
      <4>2. CASE u # t
        BY <3>3, <4>2 DEF IInv, BranchesRight
      <4>3. QED
        BY <4>1, <4>2
    <3>5. BranchesRight'
      BY <3>3, <3>4 DEF BranchesRight
    <3>6. QED
      BY <3>1, <3>5
  <2>4. QED
    BY <1>6, <2>2, <2>3 DEF CasMin
<1>7. CASE CasMax(t)
  <2>1. n[t] > curMax[t] /\ n[t] >= curMin[t] /\ data[n[t]] > 0
    BY <1>7 DEF CasMax, IInv, BranchesRight, BoundsRecorded
  <2>2. CASE /\ max = curMax[t] /\ max' = n[t]
             /\ curMax' = [curMax EXCEPT ![t] = n[t]]
             /\ pc' = [pc EXCEPT ![t] = "idle"]
    BY <1>1, <1>7, <2>1, <2>2 DEF CasMax, IInv, BoundsRecorded, BranchesRight, TypeOK
  <2>3. ASSUME NEW actual \in MaxLoads(t), curMax' = [curMax EXCEPT ![t] = actual],
               pc' = [pc EXCEPT ![t] = IF n[t] > actual THEN "casMax" ELSE "idle"],
               UNCHANGED << max, maxPast >>
        PROVE  BoundsRecorded' /\ BranchesRight'
    BY <1>1, <1>7, <2>1, <2>3 DEF CasMax, MaxLoads, IInv, BoundsRecorded, BranchesRight, TypeOK
  <2>4. QED
    BY <1>7, <2>2, <2>3 DEF CasMax
<1>8. QED
  BY <1>2, <1>3, <1>4, <1>5, <1>6, <1>7 DEF Step

-----------------------------------------------------------------------------
\* No sample is left outside the window.

\* A thread settles what it owes to a bound only by leaving the bound wide
\* enough, and the samples of other threads are not affected.
LEMMA StepCovered ==
  ASSUME IInv, NEW t \in Recorders, Step(t)
  PROVE  Covered'
<1>1. /\ min \in Nat /\ max \in Nat /\ min' \in Nat /\ max' \in Nat
      /\ \A u \in Recorders : n[u] \in Nat /\ curMin[u] \in Nat /\ curMax[u] \in Nat
      /\ \A v \in Values : data[v] \in Nat /\ v \in Nat
      /\ minPast \subseteq Nat /\ maxPast \subseteq Nat
  BY Numbers, StepType DEF IInv, TypeOK
<1>2. min' <= min /\ max' >= max
  BY StepWidens
<1>3. \A u \in Recorders \ {t} : n'[u] = n[u] /\ pc'[u] = pc[u]
  BY DEF Step, AddData, AddCount, LoadMin, LoadMax, CasMin, CasMax, IInv, TypeOK
<1>4. \A u \in Recorders \ {t} : OwesMin(u)' = OwesMin(u) /\ OwesMax(u)' = OwesMax(u)
  BY <1>3 DEF OwesMin, OwesMax
\* What t owed after the step or no longer owes.
<1>5. /\ OwesMin(t) => n'[t] = n[t] /\ (OwesMin(t)' \/ min' <= n[t])
      /\ OwesMax(t) => n'[t] = n[t] /\ (OwesMax(t)' \/ n[t] <= max')
  <2>1. /\ min <= curMin[t] /\ curMax[t] <= max
    BY DEF IInv, PastWider, ReadsPast
  <2>2. ASSUME NEW v \in Values, AddData(t, v) PROVE ~OwesMin(t) /\ ~OwesMax(t)
    BY <2>2 DEF AddData, OwesMin, OwesMax
  <2>3. CASE AddCount(t) \/ LoadMin(t)
    BY <2>3 DEF AddCount, LoadMin, OwesMin, OwesMax, IInv, TypeOK
  <2>4. CASE LoadMax(t)
    <3>1. PICK v \in MaxLoads(t) :
            \/ n[t] >= curMin[t] /\ n[t] <= v /\ pc' = [pc EXCEPT ![t] = "idle"]
            \/ n[t] < curMin[t] /\ pc' = [pc EXCEPT ![t] = "casMin"]
            \/ n[t] >= curMin[t] /\ n[t] > v /\ pc' = [pc EXCEPT ![t] = "casMax"]
      BY <2>4 DEF LoadMax
    <3>2. v <= max /\ v \in Nat
      BY <1>1 DEF MaxLoads, IInv, PastWider
    <3>3. UNCHANGED << n, min, max >>
      BY <2>4 DEF LoadMax
    <3>4. CASE n[t] >= curMin[t] /\ n[t] <= v
      BY <1>1, <2>1, <3>2, <3>3, <3>4
    <3>5. CASE n[t] < curMin[t] /\ pc' = [pc EXCEPT ![t] = "casMin"]
      BY <3>3, <3>5 DEF OwesMin, OwesMax, IInv, TypeOK
    <3>6. CASE n[t] >= curMin[t] /\ pc' = [pc EXCEPT ![t] = "casMax"]
      BY <1>1, <2>1, <3>3, <3>6 DEF OwesMin, OwesMax, IInv, TypeOK
    <3>7. QED
      BY <3>1, <3>4, <3>5, <3>6
  <2>5. CASE CasMin(t)
    <3>1. UNCHANGED << n, max >> /\ OwesMin(t)
      BY <2>5 DEF CasMin, OwesMin
    <3>2. pc'[t] \in {"casMin", "casMax"} \/ (pc'[t] = "idle" /\ n[t] <= curMax[t])
      BY <1>1, <2>5 DEF CasMin, AfterMin, IInv, TypeOK
    <3>3. OwesMax(t)' \/ n[t] <= max'
      BY <1>1, <2>1, <3>1, <3>2 DEF OwesMax
    <3>4. pc'[t] = "casMin" \/ min' <= n[t]
      <4>1. CASE min' = n[t]
        BY <1>1, <4>1
      <4>2. ASSUME NEW actual \in MinLoads(t), UNCHANGED min,
                   pc' = [pc EXCEPT ![t] = IF n[t] < actual THEN "casMin" ELSE AfterMin(t)]
            PROVE  pc'[t] = "casMin" \/ min' <= n[t]
        <5>1. min <= actual /\ actual \in Nat
          BY <1>1 DEF MinLoads, IInv, PastWider
        <5>2. CASE n[t] < actual
          BY <4>2, <5>2 DEF IInv, TypeOK
        <5>3. CASE ~(n[t] < actual)
          BY <1>1, <4>2, <5>1, <5>3
        <5>4. QED
          BY <5>2, <5>3
      <4>3. QED
        BY <2>5, <4>1, <4>2 DEF CasMin
    <3>5. QED
      BY <3>1, <3>3, <3>4 DEF OwesMin
  <2>6. CASE CasMax(t)
    <3>1. UNCHANGED << n, min >> /\ ~OwesMin(t)
      BY <2>6 DEF CasMax, OwesMin
    <3>2. CASE max' = n[t]
      BY <1>1, <3>1, <3>2
    <3>3. ASSUME NEW actual \in MaxLoads(t), UNCHANGED max,
                 pc' = [pc EXCEPT ![t] = IF n[t] > actual THEN "casMax" ELSE "idle"]
          PROVE  pc'[t] = "casMax" \/ n[t] <= max'
      <4>1. actual <= max /\ actual \in Nat
        BY <1>1 DEF MaxLoads, IInv, PastWider
      <4>2. CASE n[t] > actual
        BY <3>3, <4>2 DEF IInv, TypeOK
      <4>3. CASE ~(n[t] > actual)
        BY <1>1, <3>3, <4>1, <4>3
      <4>4. QED
        BY <4>2, <4>3
    <3>4. pc'[t] = "casMax" \/ n[t] <= max'
      BY <1>1, <2>6, <3>2, <3>3 DEF CasMax
    <3>5. QED
      BY <3>1, <3>4 DEF OwesMax
  <2>7. QED
    BY <2>2, <2>3, <2>4, <2>5, <2>6 DEF Step
\* A value that is new in a bucket is owed to both bounds by t.
<1>6. ASSUME NEW v \in Values, data'[v] > 0
      PROVE  data[v] > 0 \/ (n'[t] = v /\ OwesMin(t)' /\ OwesMax(t)')
  <2>1. CASE data' = data
    BY <1>6, <2>1
  <2>2. ASSUME NEW u \in Values, AddData(t, u)
        PROVE  data[v] > 0 \/ (n'[t] = v /\ OwesMin(t)' /\ OwesMax(t)')
    <3>1. n'[t] = u /\ pc'[t] = "count" /\ (v # u => data'[v] = data[v])
      BY <2>2 DEF AddData, IInv, TypeOK
    <3>2. QED
      BY <1>6, <3>1 DEF OwesMin, OwesMax
  <2>3. QED
    BY <2>1, <2>2 DEF Step, AddCount, LoadMin, LoadMax, CasMin, CasMax
<1>7. SUFFICES ASSUME NEW v \in Values, data'[v] > 0
      PROVE  /\ min' <= v \/ \E u \in Recorders : OwesMin(u)' /\ n'[u] = v
             /\ v <= max' \/ \E u \in Recorders : OwesMax(u)' /\ n'[u] = v
  BY DEF Covered
<1>8. CASE n'[t] = v /\ OwesMin(t)' /\ OwesMax(t)'
  BY <1>8
<1>9. CASE data[v] > 0
  <2>1. /\ min <= v \/ \E u \in Recorders : OwesMin(u) /\ n[u] = v
        /\ v <= max \/ \E u \in Recorders : OwesMax(u) /\ n[u] = v
    BY <1>9 DEF IInv, Covered
  <2>2. min' <= v \/ \E u \in Recorders : OwesMin(u)' /\ n'[u] = v
    <3>1. CASE min <= v
      BY <1>1, <1>2, <3>1
    <3>2. ASSUME NEW u \in Recorders, OwesMin(u), n[u] = v
          PROVE  min' <= v \/ (OwesMin(u)' /\ n'[u] = v)
      BY <1>3, <1>4, <1>5, <3>2
    <3>3. QED
      BY <2>1, <3>1, <3>2
  <2>3. v <= max' \/ \E u \in Recorders : OwesMax(u)' /\ n'[u] = v
    <3>1. CASE v <= max
      BY <1>1, <1>2, <3>1
    <3>2. ASSUME NEW u \in Recorders, OwesMax(u), n[u] = v
          PROVE  v <= max' \/ (OwesMax(u)' /\ n'[u] = v)
      BY <1>3, <1>4, <1>5, <3>2
    <3>3. QED
      BY <2>1, <3>1, <3>2
  <2>4. QED
    BY <2>2, <2>3
<1>10. QED
  BY <1>6, <1>7, <1>8, <1>9

\* The invariant is inductive.
LEMMA NextIInv == IInv /\ [Next]_vars => IInv'
<1> SUFFICES ASSUME IInv, [Next]_vars PROVE IInv'
  OBVIOUS
<1>1. ASSUME NEW t \in Recorders, Step(t) PROVE IInv'
  BY <1>1, StepType, StepWidens, StepBranches, StepCovered DEF IInv
<1>2. CASE UNCHANGED vars
  BY <1>2 DEF vars, IInv, TypeOK, PastWider, ReadsPast, Covered, BoundsRecorded,
              BranchesRight, OwesMin, OwesMax
<1>3. QED
  BY <1>1, <1>2 DEF Next

\* The inductive invariant holds in every reachable state.
LEMMA Invariance == Spec => []IInv
BY InitIInv, NextIInv, PTL DEF Spec

-----------------------------------------------------------------------------
\* The variables of the histogram and of its callers have their types.
THEOREM TypeCorrect == Spec => []TypeOK
<1>1. IInv => TypeOK
  BY DEF IInv
<1>2. QED
  BY <1>1, Invariance, PTL

\* Stats::record without a lock leaves exact bounds: whatever stale values the
\* loads returned and however the exchanges interleaved or failed, when no
\* call is in progress the window min..=max starts and ends at a recorded
\* value and holds every sample.
THEOREM BoundsExact == Spec => []BoundsExactWhenQuiet
<1>1. ASSUME IInv PROVE BoundsExactWhenQuiet
  <2> SUFFICES ASSUME Quiet PROVE
        /\ \A v \in Values : data[v] > 0 => min <= v /\ v <= max
        /\ (\E v \in Values : data[v] > 0) =>
             /\ min \in Values /\ data[min] > 0
             /\ data[max] > 0
    BY DEF BoundsExactWhenQuiet
  <2>1. \A t \in Recorders : ~OwesMin(t) /\ ~OwesMax(t)
    BY DEF Quiet, OwesMin, OwesMax
  <2>2. \A v \in Values : data[v] > 0 => min <= v /\ v <= max
    BY <1>1, <2>1 DEF IInv, Covered
  <2>3. ASSUME NEW v \in Values, data[v] > 0
        PROVE  min \in Values /\ data[min] > 0 /\ data[max] > 0
    <3>1. min <= v /\ v <= max
      BY <2>2, <2>3
    <3>2. min \in Values
      BY <1>1, <3>1, U64MaxAssumption, LimitAssumption DEF IInv, TypeOK, Values
    <3>3. max > 0 \/ v = max
      BY <1>1, <3>1, Numbers DEF IInv, TypeOK
    <3>4. QED
      BY <1>1, <2>3, <3>2, <3>3 DEF IInv, BoundsRecorded
  <2>4. QED
    BY <2>2, <2>3
<1>2. QED
  BY <1>1, Invariance, PTL

\* No step of any call narrows the window.
THEOREM WindowWidens == Spec => WindowOnlyWidens
<1>1. IInv /\ [Next]_vars => [min' <= min /\ max' >= max]_vars
  BY StepWidens DEF Next
<1>2. QED
  BY <1>1, Invariance, PTL DEF Spec, WindowOnlyWidens

-----------------------------------------------------------------------------
\* The count.

\* What the buckets have more than the count is what the threads between the
\* two increments still owe to it.
OwesCount == {"count"}

CountInv ==
  count + CountIn(pc, Recorders, OwesCount) = SumOf(data, Values)

\* The values are finitely many.
LEMMA ValuesFinite == IsFiniteSet(Values)
BY LimitAssumption, FS_Interval DEF Values

\* Every step keeps the balance.
LEMMA StepCounts ==
  ASSUME TypeOK, TypeOK', CountInv, NEW t \in Recorders, Step(t)
  PROVE  CountInv'
<1> DEFINE owed  == CountIn(pc, Recorders, OwesCount)
           later == CountIn(pc', Recorders, OwesCount)
<1>1. /\ owed \in Nat
      /\ later = owed + OneIf(pc'[t] \in OwesCount) - OneIf(pc[t] \in OwesCount)
  <2>1. \A u \in Recorders \ {t} : pc'[u] = pc[u]
    BY DEF Step, AddData, AddCount, LoadMin, LoadMax, CasMin, CasMax, TypeOK
  <2>2. QED
    BY <2>1, RecordersAssumption, CountMove DEF OneIf
<1>2. count \in Nat /\ SumOf(data, Values) \in Nat
  BY ValuesFinite, SumType DEF TypeOK
<1>3. count + owed = SumOf(data, Values)
  BY DEF CountInv
<1> HIDE DEF owed
<1>4. ASSUME NEW v \in Values, AddData(t, v)
      PROVE  count' + later = SumOf(data', Values)
  <2>1. /\ \A u \in Values : data[u] \in Int /\ data'[u] \in Int
        /\ \A u \in Values \ {v} : data'[u] = data[u]
        /\ data'[v] = data[v] + 1
    BY <1>4 DEF AddData, TypeOK
  <2>2. SumOf(data', Values) = SumOf(data, Values) - data[v] + data'[v]
    BY <2>1, ValuesFinite, SumChange
  <2>3. count' = count /\ pc[t] = "idle" /\ pc'[t] = "count"
    BY <1>4 DEF AddData, TypeOK
  <2>4. later = owed + 1
    BY <1>1, <2>3 DEF OneIf, OwesCount
  <2> HIDE DEF later
  <2>5. QED
    BY <1>1, <1>2, <1>3, <2>1, <2>2, <2>3, <2>4
<1>5. CASE AddCount(t)
  <2>1. count' = count + 1 /\ data' = data /\ pc[t] = "count" /\ pc'[t] = "loadMin"
    BY <1>5 DEF AddCount, TypeOK
  <2>2. later = owed - 1
    BY <1>1, <2>1 DEF OneIf, OwesCount
  <2> HIDE DEF later
  <2>3. count' + later = SumOf(data', Values)
    BY <1>1, <1>2, <1>3, <2>1, <2>2
  <2>4. QED
    BY <2>3 DEF CountInv, later
<1>6. CASE LoadMin(t) \/ LoadMax(t) \/ CasMin(t) \/ CasMax(t)
  <2>1. count' = count /\ data' = data /\ pc[t] # "count" /\ pc'[t] # "count"
    BY <1>6 DEF LoadMin, LoadMax, CasMin, CasMax, AfterMin, TypeOK
  <2>2. later = owed
    BY <1>1, <2>1 DEF OneIf, OwesCount
  <2>3. QED
    BY <1>3, <2>1, <2>2 DEF CountInv
<1>7. QED
  BY <1>4, <1>5, <1>6 DEF Step, CountInv

\* When no call is in progress the count is the number of samples: the two
\* increments of a call are separate instructions, but neither is lost.
THEOREM CountExact == Spec => []CountExactWhenQuiet
<1>1. Init => CountInv
  <2> SUFFICES ASSUME Init PROVE CountInv
    OBVIOUS
  <2>1. SumOf(data, Values) = 0
    BY ValuesFinite, SumZero DEF Init
  <2>2. CountIn(pc, Recorders, OwesCount) = 0
    BY FS_EmptySet DEF Init, CountIn, OwesCount
  <2>3. QED
    BY <2>1, <2>2 DEF Init, CountInv
<1>2. TypeOK /\ TypeOK' /\ CountInv /\ [Next]_vars => CountInv'
  BY StepCounts DEF Next, vars, CountInv
<1>3. TypeOK /\ CountInv => CountExactWhenQuiet
  <2> SUFFICES ASSUME TypeOK, CountInv, Quiet PROVE count = SumOf(data, Values)
    BY DEF CountExactWhenQuiet, SumOf
  <2>1. CountIn(pc, Recorders, OwesCount) = 0
    BY FS_EmptySet DEF Quiet, CountIn, OwesCount
  <2>2. QED
    BY <2>1 DEF CountInv, TypeOK
<1>4. QED
  BY <1>1, <1>2, <1>3, TypeCorrect, PTL DEF Spec
=============================================================================
