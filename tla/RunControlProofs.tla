-------------------------- MODULE RunControlProofs --------------------------
(***************************************************************************)
(* What can be proved of a run without knowing the protocol: the part of   *)
(* the inductive invariant that is about main and the workers, and the     *)
(* steps of RunPromise that their actions are.  A step of a connection or  *)
(* stream task enters here as the entries it makes in the books of its     *)
(* worker (Books); H1RunProofs and MuxRunProofs show that every step of    *)
(* their tasks makes such entries.                                         *)
(***************************************************************************)
EXTENDS RunControl, Sums

-----------------------------------------------------------------------------
\* The helpers.

LEMMA WorkersFinite == IsFiniteSet(Workers)
BY ThreadsAssumption, FS_Interval DEF Workers

\* The connections of a worker are finitely many.
LEMMA ConnsFinite == PerThread \in Nat /\ IsFiniteSet(Conns)
<1>1. PerThread \in Nat
  BY ThreadsAssumption, ConnectionsAssumption DEF PerThread
<1>2. QED
  BY <1>1, FS_Interval DEF Conns

\* ZeroCounters is a snapshot.
LEMMA ZeroCountersType == ZeroCounters \in CounterSnapshot
BY DEF ZeroCounters, CounterSnapshot

\* A snapshot that has been flushed into is one, and only `complete` differs.
LEMMA FlushFields ==
  ASSUME NEW snap \in CounterSnapshot, NEW n \in Nat
  PROVE  /\ Flush(snap, n) \in CounterSnapshot
         /\ Flush(snap, n).complete = snap.complete + n
         /\ Flush(snap, n).bytes = snap.bytes
         /\ Flush(snap, n).errors_read = snap.errors_read
         /\ Flush(snap, n).errors_write = snap.errors_write
         /\ Flush(snap, n).errors_timeout = snap.errors_timeout
BY DEF Flush, CounterSnapshot

\* A response is either sampled or timed out.
LEMMA SampledXorTimedOut ==
  ASSUME NEW a \in Int
  PROVE  /\ Sampled(a) \in Nat /\ TimedOut(a) \in Nat
         /\ Sampled(a) + TimedOut(a) = 1
BY TimeoutAssumption DEF Sampled, TimedOut, OneIf, Recordable, LatencyLimit

\* What a response adds to the counters of its worker.
LEMMA AccountedFields ==
  ASSUME NEW snap \in CounterSnapshot, NEW status, NEW bytes \in Nat, NEW a \in Int
  PROVE  /\ Accounted(snap, status, bytes, a) \in CounterSnapshot
         /\ Accounted(snap, status, bytes, a).complete = snap.complete
         /\ Accounted(snap, status, bytes, a).bytes = snap.bytes + bytes
         /\ Accounted(snap, status, bytes, a).errors_read = snap.errors_read
         /\ Accounted(snap, status, bytes, a).errors_write = snap.errors_write
         /\ Accounted(snap, status, bytes, a).errors_timeout =
              snap.errors_timeout + TimedOut(a)
<1> DEFINE b == snap.bytes + bytes
           e == snap.errors_status + OneIf(status > 399)
           t == snap.errors_timeout + TimedOut(a)
           cs == [snap EXCEPT !.bytes = b, !.errors_status = e, !.errors_timeout = t]
<1>1. OneIf(status > 399) \in Nat /\ TimedOut(a) \in Nat
  BY SampledXorTimedOut DEF OneIf
<1>2. b \in Nat /\ e \in Nat /\ t \in Nat
  BY <1>1 DEF CounterSnapshot
<1>3. Accounted(snap, status, bytes, a) = cs
  BY Zenon DEF Accounted
<1> HIDE DEF b, e, t
<1>4. /\ cs \in CounterSnapshot
      /\ cs.complete = snap.complete /\ cs.bytes = b
      /\ cs.errors_read = snap.errors_read /\ cs.errors_write = snap.errors_write
      /\ cs.errors_timeout = t
  BY <1>2 DEF CounterSnapshot
<1> HIDE DEF cs
<1>5. QED
  BY <1>3, <1>4 DEF b, t

-----------------------------------------------------------------------------
\* The books.

\* The requests of a worker that got a response or an error.
Settled(w) == responses[w] + Failed(w)

\* It issues a request only if the flag is clear.
Bumps(w, issue, answer) ==
  /\ issue = 1 => ~stop
  /\ rate' = [rate EXCEPT ![w] = @ + issue]
  /\ responses' = [responses EXCEPT ![w] = @ + answer]

\* What a step of a task of worker w enters: it issues, answers and fails
\* some requests, adds `flush` responses and `bytes` bytes to the counters, and
\* for each answer a latency sample or a timeout error.
Books(w, issue, answer, fail, flush, bytes) ==
  /\ worker[w] = "running"
  /\ TaskFrame
  /\ Bumps(w, issue, answer)
  /\ \E cs \in CounterSnapshot :
       /\ counters' = [counters EXCEPT ![w] = cs]
       /\ cs.complete = counters[w].complete + flush
       /\ cs.bytes = counters[w].bytes + bytes
       /\ cs.errors_write + cs.errors_read = Failed(w) + fail
       /\ latency' \in Nat
       /\ latency' + cs.errors_timeout =
            latency + counters[w].errors_timeout + answer

\* The part of the inductive invariant that no protocol changes.  The report
\* is the sum of the counters because the counters of a worker that has exited
\* are its snapshot, also if its runtime failed; and nothing is left in its
\* rate counter.
WorkerInv(w) ==
  /\ worker[w] = "spawned" => counters[w] = ZeroCounters /\ rate[w] = 0
  /\ worker[w] = "exited" => snapshot[w] = counters[w] /\ rate[w] = 0

ControlInv ==
  /\ ControlTypeOK
  /\ stop <=> main # "sleeping"
  /\ main # "done" => total = ZeroCounters
  /\ main = "done" =>
       /\ total = SumSnapshots(snapshot)
       /\ \A w \in Workers : worker[w] = "exited"
  /\ \A w \in Workers : WorkerInv(w)
  /\ SampledOrTimedOut

\* The books, read worker by worker.
LEMMA BooksAt ==
  ASSUME ControlTypeOK, NEW w \in Workers, NEW issue \in Nat, NEW answer \in Nat,
         NEW fail \in Nat, NEW flush \in Nat, NEW bytes \in Nat,
         Books(w, issue, answer, fail, flush, bytes)
  PROVE  /\ ControlTypeOK'
         /\ \A v \in Workers \ {w} :
              /\ counters'[v] = counters[v] /\ rate'[v] = rate[v]
              /\ responses'[v] = responses[v] /\ sampled'[v] = sampled[v]
         /\ sampled'[w] = sampled[w]
         /\ rate'[w] = rate[w] + issue
         /\ responses'[w] = responses[w] + answer
         /\ counters'[w].complete = counters[w].complete + flush
         /\ counters'[w].bytes = counters[w].bytes + bytes
         /\ Failed(w)' = Failed(w) + fail
         /\ latency' + counters'[w].errors_timeout =
              latency + counters[w].errors_timeout + answer
<1>1. PICK cs \in CounterSnapshot :
        /\ counters' = [counters EXCEPT ![w] = cs]
        /\ cs.complete = counters[w].complete + flush
        /\ cs.bytes = counters[w].bytes + bytes
        /\ cs.errors_write + cs.errors_read = Failed(w) + fail
        /\ latency' \in Nat
        /\ latency' + cs.errors_timeout = latency + counters[w].errors_timeout + answer
  BY DEF Books
<1>2. /\ counters'[w] = cs /\ \A v \in Workers \ {w} : counters'[v] = counters[v]
      /\ counters' \in [Workers -> CounterSnapshot]
  BY <1>1 DEF ControlTypeOK
<1>3. /\ rate' = [rate EXCEPT ![w] = @ + issue]
      /\ responses' = [responses EXCEPT ![w] = @ + answer]
      /\ TaskFrame
  BY DEF Books, Bumps
<1>4. ControlTypeOK'
  BY <1>1, <1>2, <1>3 DEF ControlTypeOK, TaskFrame
<1>5. Failed(w)' = Failed(w) + fail
  <2>1. Failed(w)' = cs.errors_write + cs.errors_read
    BY <1>2 DEF Failed
  <2>2. QED
    BY <1>1, <2>1
<1>6. QED
  BY <1>1, <1>2, <1>3, <1>4, <1>5 DEF ControlTypeOK, TaskFrame

\* What the entries do to the requests issued and settled.
LEMMA BooksSettled ==
  ASSUME ControlTypeOK, NEW w \in Workers, NEW issue \in Nat, NEW answer \in Nat,
         NEW fail \in Nat, NEW flush \in Nat, NEW bytes \in Nat,
         Books(w, issue, answer, fail, flush, bytes)
  PROVE  /\ \A v \in Workers :
              /\ Issued(v) \in Nat /\ Settled(v) \in Nat /\ Failed(v) \in Nat
              /\ Issued(v)' \in Nat /\ Settled(v)' \in Nat /\ Failed(v)' \in Nat
         /\ \A v \in Workers \ {w} :
              Issued(v)' = Issued(v) /\ Settled(v)' = Settled(v) /\ Failed(v)' = Failed(v)
         /\ Issued(w)' = Issued(w) + issue
         /\ Failed(w)' = Failed(w) + fail
         /\ Settled(w)' = Settled(w) + answer + fail
<1>1. ControlTypeOK'
  BY BooksAt
<1>2. ASSUME NEW v \in Workers
      PROVE  /\ Issued(v) \in Nat /\ Settled(v) \in Nat /\ Failed(v) \in Nat
             /\ responses[v] \in Nat /\ sampled[v] \in Nat /\ rate[v] \in Nat
  BY DEF ControlTypeOK, CounterSnapshot, Issued, Settled, Failed
<1>3. ASSUME NEW v \in Workers
      PROVE  Issued(v)' \in Nat /\ Settled(v)' \in Nat /\ Failed(v)' \in Nat
  BY <1>1 DEF ControlTypeOK, CounterSnapshot, Issued, Settled, Failed
<1>4. ASSUME NEW v \in Workers \ {w}
      PROVE  Issued(v)' = Issued(v) /\ Settled(v)' = Settled(v) /\ Failed(v)' = Failed(v)
  <2>1. /\ counters'[v] = counters[v] /\ rate'[v] = rate[v]
        /\ responses'[v] = responses[v] /\ sampled'[v] = sampled[v]
    BY BooksAt
  <2>2. QED
    BY <2>1 DEF Issued, Settled, Failed
<1>5. Issued(w)' = Issued(w) + issue
  <2>1. sampled'[w] = sampled[w] /\ rate'[w] = rate[w] + issue
    BY BooksAt
  <2>2. QED
    BY <1>2, <2>1 DEF Issued
<1>6. Failed(w)' = Failed(w) + fail
  BY BooksAt
<1>7. Settled(w)' = Settled(w) + answer + fail
  <2> DEFINE f == Failed(w)
  <2>1. f \in Nat /\ responses'[w] + Failed(w)' = responses[w] + answer + (f + fail)
    <3>1. responses'[w] = responses[w] + answer
      BY BooksAt
    <3>2. QED
      BY <1>2, <1>6, <3>1
  <2> HIDE DEF f
  <2>2. responses'[w] + Failed(w)' = (responses[w] + f) + answer + fail
    BY <1>2, <2>1
  <2>3. QED
    BY <2>2 DEF Settled, f
<1>8. QED
  BY <1>2, <1>3, <1>4, <1>5, <1>6, <1>7

\* What they say of the worker whose task it is.
Entered(w, issue, answer, fail, flush, bytes) ==
  /\ Issued(w)' = Issued(w) + issue
  /\ responses'[w] = responses[w] + answer
  /\ Failed(w)' = Failed(w) + fail
  /\ counters'[w].complete = counters[w].complete + flush
  /\ counters'[w].bytes = counters[w].bytes + bytes

LEMMA BooksEntered ==
  ASSUME ControlTypeOK, NEW w \in Workers, NEW issue \in Nat, NEW answer \in Nat,
         NEW fail \in Nat, NEW flush \in Nat, NEW bytes \in Nat,
         Books(w, issue, answer, fail, flush, bytes)
  PROVE  Entered(w, issue, answer, fail, flush, bytes)
<1>1. Issued(w)' = Issued(w) + issue /\ Failed(w)' = Failed(w) + fail
  BY BooksSettled
<1>2. responses'[w] = responses[w] + answer
  BY BooksAt
<1>3. counters'[w].complete = counters[w].complete + flush
  BY BooksAt
<1>4. counters'[w].bytes = counters[w].bytes + bytes
  BY BooksAt
<1>5. QED
  BY <1>1, <1>2, <1>3, <1>4 DEF Entered

-----------------------------------------------------------------------------
\* The invariant of main and the workers.

LEMMA ControlInitInv == ControlInit => ControlInv
<1> SUFFICES ASSUME ControlInit PROVE ControlInv
  OBVIOUS
<1>1. ControlTypeOK
  BY ZeroCountersType DEF ControlInit, ControlTypeOK
<1>2. SampledOrTimedOut
  <2> DEFINE e == [w \in Workers |-> counters[w].errors_timeout]
  <2>1. /\ responses \in [Workers -> Int] /\ \A w \in Workers : responses[w] = 0
        /\ e \in [Workers -> Int] /\ \A w \in Workers : e[w] = 0
    BY DEF ControlInit, ZeroCounters
  <2> HIDE DEF e
  <2>2. Total(responses) = 0 /\ Total(e) = 0
    BY <2>1, WorkersFinite, TotalZero
  <2>3. QED
    BY <2>2 DEF SampledOrTimedOut, ControlInit, e
<1>3. QED
  BY <1>1, <1>2 DEF ControlInit, ControlInv, WorkerInv

\* The entries of a task keep it.
LEMMA BooksControl ==
  ASSUME ControlInv, NEW w \in Workers, NEW issue \in Nat, NEW answer \in Nat,
         NEW fail \in Nat, NEW flush \in Nat, NEW bytes \in Nat,
         Books(w, issue, answer, fail, flush, bytes)
  PROVE  ControlInv'
<1>1. ControlTypeOK /\ ControlTypeOK'
  BY BooksAt DEF ControlInv
<1>2. UNCHANGED << main, stop, worker, snapshot, sampled, total >> /\ worker[w] = "running"
  BY DEF Books, TaskFrame
<1>3. ASSUME NEW v \in Workers PROVE WorkerInv(v)'
  <2>1. CASE v = w
    BY <1>2, <2>1 DEF WorkerInv
  <2>2. CASE v # w
    BY <1>1, <1>2, <2>2, BooksAt DEF ControlInv, WorkerInv
  <2>3. QED
    BY <2>1, <2>2
<1>4. SampledOrTimedOut'
  <2> DEFINE e == [v \in Workers |-> counters[v].errors_timeout]
             f == [v \in Workers |-> counters'[v].errors_timeout]
  <2>1. /\ responses \in [Workers -> Int] /\ responses' \in [Workers -> Int]
        /\ e \in [Workers -> Int] /\ f \in [Workers -> Int]
    BY <1>1 DEF ControlTypeOK, CounterSnapshot
  <2>2. \A v \in Workers \ {w} : responses'[v] = responses[v] /\ f[v] = e[v]
    BY <1>1, BooksAt
  <2>3. responses'[w] = responses[w] + answer /\ latency' + f[w] = latency + e[w] + answer
    BY <1>1, BooksAt
  <2>4. latency \in Nat /\ latency' \in Nat
    BY <1>1 DEF ControlTypeOK
  <2>5. Total(responses) = latency + Total(e)
    BY DEF ControlInv, SampledOrTimedOut
  <2> HIDE DEF e, f
  <2>6. /\ Total(responses') = Total(responses) - responses[w] + responses'[w]
        /\ Total(f) = Total(e) - e[w] + f[w]
    BY <2>1, <2>2, WorkersFinite, TotalChange
  <2>7. Total(responses) \in Int /\ Total(e) \in Int
    BY <2>1, WorkersFinite, TotalType
  <2>8. e[w] \in Int /\ f[w] \in Int /\ responses[w] \in Int /\ responses'[w] \in Int
    BY <2>1
  <2>9. Total(responses') = latency' + Total(f)
    BY <2>3, <2>4, <2>5, <2>6, <2>7, <2>8
  <2>10. QED
    BY <2>9 DEF SampledOrTimedOut, f
<1>5. QED
  BY <1>1, <1>2, <1>3, <1>4 DEF ControlInv

\* So do the steps of main and of the worker threads.
LEMMA ControlStepInv ==
  ASSUME ControlInv,
         \/ SetStop \/ JoinWorkers \/ UNCHANGED controlVars
         \/ \E w \in Workers : RuntimeFails(w) \/ EnterRuntime(w) \/ RecordRate(w)
  PROVE  ControlInv'
<1> USE DEF ControlInv, ControlTypeOK
<1>1. UNCHANGED << counters, responses, latency >>
  BY DEF SetStop, JoinWorkers, RuntimeFails, EnterRuntime, RecordRate, controlVars
<1>2. SampledOrTimedOut'
  BY <1>1 DEF SampledOrTimedOut
<1>3. CASE SetStop
  BY <1>2, <1>3 DEF SetStop, WorkerInv
<1>4. CASE JoinWorkers
  BY <1>2, <1>4 DEF JoinWorkers, WorkerInv
<1>5. CASE UNCHANGED controlVars
  BY <1>2, <1>5 DEF controlVars, WorkerInv
<1>6. ASSUME NEW w \in Workers, RuntimeFails(w) PROVE ControlInv'
  <2>1. ControlTypeOK'
    BY <1>6, ZeroCountersType DEF RuntimeFails
  <2>2. (\A v \in Workers : WorkerInv(v))' /\ main # "done"
    BY <1>6 DEF RuntimeFails, WorkerInv
  <2>3. QED
    BY <1>2, <1>6, <2>1, <2>2 DEF RuntimeFails
<1>7. ASSUME NEW w \in Workers, EnterRuntime(w) PROVE ControlInv'
  <2>1. (\A v \in Workers : WorkerInv(v))' /\ main # "done"
    BY <1>7 DEF EnterRuntime, WorkerInv
  <2>2. QED
    BY <1>2, <1>7, <2>1 DEF EnterRuntime
<1>8. ASSUME NEW w \in Workers, RecordRate(w) PROVE ControlInv'
  <2>1. /\ UNCHANGED << main, stop, counters, responses, latency, total >>
        /\ worker[w] = "running"
        /\ sampled' = [sampled EXCEPT ![w] = @ + rate[w]]
        /\ rate' = [rate EXCEPT ![w] = 0]
        /\ \/ UNCHANGED << worker, snapshot >>
           \/ /\ worker' = [worker EXCEPT ![w] = "exited"]
              /\ snapshot' = [snapshot EXCEPT ![w] = counters[w]]
    BY <1>8 DEF RecordRate
  <2>2. ControlTypeOK'
    BY <2>1
  <2>3. (\A v \in Workers : WorkerInv(v))' /\ main # "done"
    BY <2>1 DEF WorkerInv
  <2>4. QED
    BY <1>2, <2>1, <2>2, <2>3
<1>9. QED
  BY <1>3, <1>4, <1>5, <1>6, <1>7, <1>8

\* None of them issues or settles a request.
LEMMA ControlStepSettled ==
  ASSUME ControlTypeOK, NEW v \in Workers,
         \/ SetStop \/ JoinWorkers \/ UNCHANGED controlVars
         \/ \E w \in Workers : RuntimeFails(w) \/ EnterRuntime(w) \/ RecordRate(w)
  PROVE  /\ Issued(v)' = Issued(v) /\ Failed(v)' = Failed(v)
         /\ counters' = counters /\ responses' = responses
<1>1. UNCHANGED << counters, responses >>
  BY DEF SetStop, JoinWorkers, RuntimeFails, EnterRuntime, RecordRate, controlVars
<1>2. Issued(v)' = Issued(v)
  <2>1. CASE UNCHANGED << sampled, rate >>
    BY <2>1 DEF Issued
  <2>2. ASSUME NEW w \in Workers, RecordRate(w) PROVE Issued(v)' = Issued(v)
    <3>1. /\ sampled' = [sampled EXCEPT ![w] = @ + rate[w]]
          /\ rate' = [rate EXCEPT ![w] = 0]
      BY <2>2 DEF RecordRate
    <3>2. QED
      BY <3>1 DEF Issued, ControlTypeOK
  <2>3. QED
    BY <2>1, <2>2 DEF SetStop, JoinWorkers, RuntimeFails, EnterRuntime, controlVars
<1>3. QED
  BY <1>1, <1>2 DEF Failed

\* Once the flag is set the entries of a task issue nothing.
LEMMA BooksAfterStop ==
  ASSUME ControlTypeOK, stop, NEW w \in Workers, NEW issue \in {0, 1},
         NEW answer \in Nat, NEW fail \in Nat, NEW flush \in Nat, NEW bytes \in Nat,
         Books(w, issue, answer, fail, flush, bytes)
  PROVE  \A v \in Workers : Issued(v)' = Issued(v)
<1>1. issue = 0
  BY DEF Books, Bumps
<1>2. /\ Issued(w) \in Nat /\ Issued(w)' = Issued(w) + issue
      /\ \A v \in Workers \ {w} : Issued(v)' = Issued(v)
  BY BooksSettled
<1>3. Issued(w)' = Issued(w)
  BY <1>1, <1>2
<1>4. QED
  BY <1>2, <1>3

\* A run whose workers have flushed all they read reports all of it.
LEMMA CleanTotal ==
  ASSUME ControlInv, main = "done",
         \A w \in Workers : counters[w].complete = responses[w]
  PROVE  total.complete = Total(responses)
<1>1. DOMAIN snapshot = Workers /\ DOMAIN responses = Workers
  BY DEF ControlInv, ControlTypeOK
<1>2. \A w \in Workers : snapshot[w].complete = responses[w]
  BY DEF ControlInv, WorkerInv
<1>3. [w \in Workers |-> snapshot[w].complete] = responses
  <2>1. responses = [w \in Workers |-> responses[w]]
    BY DEF ControlInv, ControlTypeOK
  <2>2. QED
    BY <1>2, <2>1
<1>4. total.complete = Total([w \in Workers |-> snapshot[w].complete])
  BY <1>1 DEF ControlInv, SumSnapshots
<1>5. QED
  BY <1>3, <1>4

-----------------------------------------------------------------------------
\* The promise.

\* The variables of RunPromise, as Promise substitutes them.
Phase == CASE main = "sleeping" -> "open"
           [] main = "joining"  -> "closing"
           [] main = "done"     -> "closed"

TotalIssued   == Total([w \in Workers |-> Issued(w)])
TotalSettled  == Total([w \in Workers |-> responses[w] + Failed(w)])
TotalReported == total.complete + total.errors_write + total.errors_read

\* What the promise needs of each worker: a request is settled after it was
\* issued, and a response is counted after it was read.
SettledInv(w) ==
  /\ Settled(w) <= Issued(w)
  /\ counters[w].complete <= responses[w]

\* The actions of RunPromise, in these terms.
LEMMA PromiseUnfolded ==
  /\ Promise!Init <=>
       Phase = "open" /\ TotalIssued = 0 /\ TotalSettled = 0 /\ TotalReported = 0
  /\ Promise!Progress <=>
       /\ Phase # "closed"
       /\ \/ TotalIssued' = TotalIssued
          \/ Phase = "open" /\ TotalIssued' = TotalIssued + 1
       /\ \/ TotalSettled' = TotalSettled
          \/ TotalSettled < TotalIssued /\ TotalSettled' = TotalSettled + 1
       /\ UNCHANGED << Phase, TotalReported >>
  /\ Promise!Stop <=>
       /\ Phase = "open" /\ Phase' = "closing"
       /\ UNCHANGED << TotalIssued, TotalSettled, TotalReported >>
  /\ Promise!Close <=>
       /\ Phase = "closing" /\ Phase' = "closed"
       /\ TotalReported' \in 0 .. TotalSettled
       /\ UNCHANGED << TotalIssued, TotalSettled >>
  /\ UNCHANGED Promise!promiseVars <=>
       UNCHANGED << Phase, TotalIssued, TotalSettled, TotalReported >>
BY Zenon DEF Promise!Init, Promise!Progress, Promise!Stop, Promise!Close,
             Promise!promiseVars, Phase, TotalIssued, TotalSettled, TotalReported

LEMMA PhaseIs ==
  /\ main = "sleeping" => Phase = "open"
  /\ main = "joining"  => Phase = "closing"
  /\ main = "done"     => Phase = "closed"
BY DEF Phase

\* The totals, as sums of functions.
LEMMA TotalsType ==
  ASSUME ControlTypeOK
  PROVE  /\ [w \in Workers |-> Issued(w)] \in [Workers -> Nat]
         /\ [w \in Workers |-> responses[w] + Failed(w)] \in [Workers -> Nat]
         /\ TotalIssued \in Nat /\ TotalSettled \in Nat
<1>1. /\ [w \in Workers |-> Issued(w)] \in [Workers -> Nat]
      /\ [w \in Workers |-> responses[w] + Failed(w)] \in [Workers -> Nat]
  BY DEF ControlTypeOK, CounterSnapshot, Issued, Failed
<1>2. QED
  BY <1>1, WorkersFinite, TotalType DEF TotalIssued, TotalSettled

\* In the beginning nothing is issued, settled or reported.
LEMMA PromiseInit == ASSUME ControlInit PROVE Promise!Init
<1> DEFINE i == [w \in Workers |-> Issued(w)]
           s == [w \in Workers |-> responses[w] + Failed(w)]
<1>1. /\ i \in [Workers -> Int] /\ \A w \in Workers : i[w] = 0
      /\ s \in [Workers -> Int] /\ \A w \in Workers : s[w] = 0
  BY DEF ControlInit, ZeroCounters, Issued, Failed
<1> HIDE DEF i, s
<1>2. Total(i) = 0 /\ Total(s) = 0
  BY <1>1, WorkersFinite, TotalZero
<1>3. TotalIssued = 0 /\ TotalSettled = 0
  BY <1>2 DEF TotalIssued, TotalSettled, i, s
<1>4. TotalReported = 0 /\ Phase = "open"
  BY PhaseIs DEF TotalReported, ControlInit, ZeroCounters
<1>5. QED
  BY <1>3, <1>4, PromiseUnfolded

\* A step of a task that settles at most one request, which was in flight, is
\* the Progress of the promise.
LEMMA BooksPromise ==
  ASSUME ControlInv, \A v \in Workers : SettledInv(v),
         NEW w \in Workers, NEW issue \in {0, 1}, NEW answer \in {0, 1},
         NEW fail \in {0, 1}, NEW flush \in Nat, NEW bytes \in Nat,
         Books(w, issue, answer, fail, flush, bytes),
         answer + fail <= 1,
         answer + fail = 1 => Settled(w) < Issued(w)
  PROVE  Promise!Progress
<1> DEFINE i == [v \in Workers |-> Issued(v)]
           s == [v \in Workers |-> responses[v] + Failed(v)]
           j == [v \in Workers |-> Issued(v)']
           t == [v \in Workers |-> responses'[v] + Failed(v)']
<1>1. ControlTypeOK /\ ControlTypeOK'
  BY BooksAt DEF ControlInv
<1>2. /\ i \in [Workers -> Int] /\ j \in [Workers -> Int]
      /\ s \in [Workers -> Int] /\ t \in [Workers -> Int]
  BY <1>1, BooksSettled, SMTT(30) DEF Settled
<1>3. /\ \A v \in Workers \ {w} : j[v] = i[v] /\ t[v] = s[v]
      /\ j[w] = i[w] + issue /\ t[w] = s[w] + answer + fail
  BY <1>1, BooksSettled DEF Settled
<1>4. /\ TotalIssued = Total(i) /\ TotalSettled = Total(s)
      /\ TotalIssued' = Total(j) /\ TotalSettled' = Total(t)
  BY DEF TotalIssued, TotalSettled
<1>5. \A v \in Workers : s[v] <= i[v]
  BY DEF SettledInv, Settled
<1>6. answer + fail = 1 => s[w] < i[w]
  BY DEF Settled
<1> HIDE DEF i, s, j, t
<1>7. /\ Total(j) = Total(i) - i[w] + j[w]
      /\ Total(t) = Total(s) - s[w] + t[w]
  BY <1>2, <1>3, WorkersFinite, TotalChange
<1>8. Total(i) \in Int /\ Total(s) \in Int /\ i[w] \in Int /\ s[w] \in Int
  BY <1>2, WorkersFinite, TotalType
<1>9. Total(j) = Total(i) + issue /\ Total(t) = Total(s) + (answer + fail)
  BY <1>3, <1>7, <1>8
<1>10. answer + fail = 1 => Total(s) < Total(i)
  <2> SUFFICES ASSUME answer + fail = 1 PROVE Total(s) < Total(i)
    OBVIOUS
  <2> DEFINE r == [v \in Workers |-> IF v = w THEN i[w] ELSE s[v]]
  <2>1. r \in [Workers -> Int] /\ r[w] = i[w] /\ \A v \in Workers \ {w} : r[v] = s[v]
    BY <1>2
  <2>2. \A v \in Workers : r[v] <= i[v]
    BY <1>2, <1>5
  <2> HIDE DEF r
  <2>3. Total(r) = Total(s) - s[w] + i[w]
    BY <1>2, <2>1, WorkersFinite, TotalChange
  <2>4. Total(r) <= Total(i)
    BY <1>2, <2>1, <2>2, WorkersFinite, TotalMonotone
  <2>5. QED
    BY <1>6, <1>8, <2>3, <2>4
<1>11. /\ main \in {"sleeping", "joining"} /\ UNCHANGED << main, total >>
       /\ issue = 1 => main = "sleeping"
  BY DEF Books, Bumps, TaskFrame, ControlInv, ControlTypeOK
<1>12. Phase # "closed" /\ UNCHANGED << Phase, TotalReported >>
  BY <1>11, PhaseIs DEF Phase, TotalReported
<1>13. \/ TotalIssued' = TotalIssued
       \/ Phase = "open" /\ TotalIssued' = TotalIssued + 1
  BY <1>4, <1>8, <1>9, <1>11, PhaseIs
<1>14. \/ TotalSettled' = TotalSettled
       \/ TotalSettled < TotalIssued /\ TotalSettled' = TotalSettled + 1
  <2>1. answer + fail = 0 \/ answer + fail = 1
    OBVIOUS
  <2>2. QED
    BY <1>4, <1>8, <1>9, <1>10, <2>1
<1>15. QED
  BY <1>12, <1>13, <1>14, PromiseUnfolded

\* The report is the sum of the counters, which claim no more than was settled.
LEMMA ReportSettled ==
  ASSUME ControlInv, \A v \in Workers : SettledInv(v),
         \A v \in Workers : worker[v] = "exited"
  PROVE  LET report == SumSnapshots(snapshot)
         IN  report.complete + report.errors_write + report.errors_read
               \in 0 .. TotalSettled
<1> DEFINE c == [v \in Workers |-> snapshot[v].complete]
           x == [v \in Workers |-> snapshot[v].errors_write]
           y == [v \in Workers |-> snapshot[v].errors_read]
           f == [v \in Workers |-> x[v] + y[v]]
           g == [v \in Workers |-> c[v] + f[v]]
           s == [v \in Workers |-> responses[v] + Failed(v)]
<1>1. /\ c \in [Workers -> Nat] /\ x \in [Workers -> Nat] /\ y \in [Workers -> Nat]
      /\ DOMAIN snapshot = Workers
  BY DEF ControlInv, ControlTypeOK, CounterSnapshot
<1>2. s \in [Workers -> Nat] /\ TotalSettled = Total(s)
  BY TotalsType DEF ControlInv, TotalSettled
<1>3. /\ SumSnapshots(snapshot).complete = Total(c)
      /\ SumSnapshots(snapshot).errors_write = Total(x)
      /\ SumSnapshots(snapshot).errors_read = Total(y)
  BY <1>1 DEF SumSnapshots
<1>4. \A v \in Workers : g[v] <= s[v]
  <2> SUFFICES ASSUME NEW v \in Workers PROVE g[v] <= s[v]
    OBVIOUS
  <2>1. snapshot[v] = counters[v] /\ counters[v].complete <= responses[v]
    BY DEF ControlInv, WorkerInv, SettledInv
  <2>2. g[v] = counters[v].complete + Failed(v)
    BY <2>1 DEF Failed
  <2>3. counters[v].complete \in Nat /\ Failed(v) \in Nat /\ responses[v] \in Nat
    BY DEF ControlInv, ControlTypeOK, CounterSnapshot, Failed
  <2> HIDE DEF g
  <2>4. QED
    BY <2>1, <2>2, <2>3
<1> HIDE DEF c, x, y, s
<1>5. f \in [Workers -> Nat] /\ \A v \in Workers : f[v] = x[v] + y[v]
  BY <1>1
<1> HIDE DEF f
<1>6. g \in [Workers -> Nat] /\ \A v \in Workers : g[v] = c[v] + f[v]
  BY <1>1, <1>5
<1> HIDE DEF g
<1>7. Total(f) = Total(x) + Total(y) /\ Total(g) = Total(c) + Total(f)
  <2>1. /\ c \in [Workers -> Int] /\ x \in [Workers -> Int] /\ y \in [Workers -> Int]
        /\ f \in [Workers -> Int] /\ g \in [Workers -> Int]
    BY <1>1, <1>5, <1>6
  <2>2. Total(f) = Total(x) + Total(y)
    BY <1>5, <2>1, WorkersFinite, TotalAdd
  <2>3. Total(g) = Total(c) + Total(f)
    BY <1>6, <2>1, WorkersFinite, TotalAdd
  <2>4. QED
    BY <2>2, <2>3
<1>8. Total(g) <= Total(s)
  <2>1. g \in [Workers -> Int] /\ s \in [Workers -> Int]
    BY <1>2, <1>6
  <2>2. QED
    BY <1>4, <2>1, WorkersFinite, TotalMonotone
<1>9. Total(c) \in Nat /\ Total(x) \in Nat /\ Total(y) \in Nat /\ Total(s) \in Nat
  BY <1>1, <1>2, WorkersFinite, TotalType
<1>10. QED
  BY <1>2, <1>3, <1>7, <1>8, <1>9

\* The steps of main are Stop and Close; the worker threads take no step of
\* the promise.
LEMMA ControlStepPromise ==
  ASSUME ControlInv, \A v \in Workers : SettledInv(v),
         \/ SetStop \/ JoinWorkers \/ UNCHANGED controlVars
         \/ \E w \in Workers : RuntimeFails(w) \/ EnterRuntime(w) \/ RecordRate(w)
  PROVE  [Promise!Next]_(Promise!promiseVars)
<1>1. UNCHANGED << TotalIssued, TotalSettled >>
  <2>1. \A v \in Workers :
          Issued(v)' = Issued(v) /\ responses'[v] + Failed(v)' = responses[v] + Failed(v)
    BY ControlStepSettled DEF ControlInv
  <2>2. QED
    BY <2>1 DEF TotalIssued, TotalSettled
<1>2. CASE UNCHANGED << main, total >>
  <2>1. UNCHANGED << Phase, TotalReported >>
    BY <1>2 DEF Phase, TotalReported
  <2>2. QED
    BY <1>1, <2>1, PromiseUnfolded
<1>3. CASE SetStop
  <2>1. UNCHANGED TotalReported /\ Phase = "open"
    BY <1>3, PhaseIs DEF SetStop, TotalReported
  <2>2. Phase' = "closing"
    BY <1>3 DEF SetStop, Phase
  <2>3. Promise!Stop
    BY <1>1, <2>1, <2>2, PromiseUnfolded
  <2>4. QED
    BY <2>3 DEF Promise!Next
<1>4. CASE JoinWorkers
  <2>1. TotalReported' \in 0 .. TotalSettled
    <3>1. total' = SumSnapshots(snapshot) /\ \A v \in Workers : worker[v] = "exited"
      BY <1>4 DEF JoinWorkers
    <3>2. QED
      BY <3>1, ReportSettled DEF TotalReported
  <2>2. Phase = "closing" /\ Phase' = "closed"
    BY <1>4 DEF JoinWorkers, Phase
  <2>3. Promise!Close
    BY <1>1, <2>1, <2>2, PromiseUnfolded
  <2>4. QED
    BY <2>3 DEF Promise!Next
<1>5. QED
  BY <1>2, <1>3, <1>4 DEF RuntimeFails, EnterRuntime, RecordRate, controlVars

-----------------------------------------------------------------------------
\* Entries.

\* cs is what the counters of w become in the middle of a step that answers
\* and fails so many requests, before anything is flushed.
Entry(w, cs, answer, fail, bytes) ==
  /\ cs \in CounterSnapshot
  /\ cs.complete = counters[w].complete
  /\ cs.bytes = counters[w].bytes + bytes
  /\ cs.errors_write + cs.errors_read = Failed(w) + fail
  /\ latency' \in Nat
  /\ latency' + cs.errors_timeout = latency + counters[w].errors_timeout + answer

\* A step without a response enters at most an error.
LEMMA ErrorEntries ==
  ASSUME ControlTypeOK, NEW w \in Workers, UNCHANGED latency
  PROVE  /\ Entry(w, counters[w], 0, 0, 0)
         /\ Entry(w, [counters[w] EXCEPT !.errors_connect = @ + 1], 0, 0, 0)
         /\ Entry(w, [counters[w] EXCEPT !.errors_write = @ + 1], 0, 1, 0)
         /\ Entry(w, [counters[w] EXCEPT !.errors_read = @ + 1], 0, 1, 0)
<1> DEFINE cs == counters[w]
<1>1. cs \in CounterSnapshot /\ latency \in Nat
  BY DEF ControlTypeOK
<1>2. Failed(w) = cs.errors_write + cs.errors_read
  BY DEF Failed
<1> HIDE DEF cs
<1>3. /\ Entry(w, cs, 0, 0, 0)
      /\ Entry(w, [cs EXCEPT !.errors_connect = @ + 1], 0, 0, 0)
  BY <1>1, <1>2 DEF Entry, CounterSnapshot, cs
<1>4. /\ Entry(w, [cs EXCEPT !.errors_write = @ + 1], 0, 1, 0)
      /\ Entry(w, [cs EXCEPT !.errors_read = @ + 1], 0, 1, 0)
  BY <1>1, <1>2 DEF Entry, CounterSnapshot, cs
<1>5. QED
  BY <1>3, <1>4 DEF cs

\* A response enters its bytes and a sample or a timeout.
LEMMA AnswerEntry ==
  ASSUME ControlTypeOK, NEW w \in Workers, NEW status, NEW bytes \in Nat, NEW a \in Int,
         latency' = latency + Sampled(a)
  PROVE  Entry(w, Accounted(counters[w], status, bytes, a), 1, 0, bytes)
<1> DEFINE cs == counters[w]
           ac == Accounted(cs, status, bytes, a)
<1>1. cs \in CounterSnapshot /\ latency \in Nat
  BY DEF ControlTypeOK
<1>2. Failed(w) = cs.errors_write + cs.errors_read
  BY DEF Failed
<1> HIDE DEF cs
<1>3. /\ ac \in CounterSnapshot
      /\ ac.complete = cs.complete /\ ac.bytes = cs.bytes + bytes
      /\ ac.errors_read = cs.errors_read /\ ac.errors_write = cs.errors_write
      /\ ac.errors_timeout = cs.errors_timeout + TimedOut(a)
  BY <1>1, AccountedFields
<1> HIDE DEF ac
<1>4. /\ latency' \in Nat
      /\ latency' + ac.errors_timeout = latency + cs.errors_timeout + 1
  BY <1>1, <1>3, SampledXorTimedOut DEF CounterSnapshot
<1>5. ac.errors_write + ac.errors_read = Failed(w) + 0
  BY <1>1, <1>2, <1>3 DEF CounterSnapshot
<1>6. QED
  BY <1>3, <1>4, <1>5 DEF Entry, cs, ac

\* The ways in which the steps bump the rate counter and the responses.
LEMMA BumpsCases ==
  ASSUME ControlTypeOK, NEW w \in Workers
  PROVE  /\ UNCHANGED << rate, responses >> => Bumps(w, 0, 0)
         /\ UNCHANGED rate /\ responses' = [responses EXCEPT ![w] = @ + 1]
              => Bumps(w, 0, 1)
         /\ ~stop /\ rate' = [rate EXCEPT ![w] = @ + 1] /\ UNCHANGED responses
              => Bumps(w, 1, 0)
         /\ ~stop /\ rate' = [rate EXCEPT ![w] = @ + 1]
                  /\ responses' = [responses EXCEPT ![w] = @ + 1] => Bumps(w, 1, 1)
<1>1. /\ rate = [rate EXCEPT ![w] = @ + 0]
      /\ responses = [responses EXCEPT ![w] = @ + 0]
  BY DEF ControlTypeOK
<1>2. ASSUME UNCHANGED << rate, responses >> PROVE Bumps(w, 0, 0)
  BY <1>1, <1>2 DEF Bumps
<1>3. ASSUME UNCHANGED rate, responses' = [responses EXCEPT ![w] = @ + 1]
      PROVE  Bumps(w, 0, 1)
  BY <1>1, <1>3 DEF Bumps
<1>4. ASSUME ~stop, rate' = [rate EXCEPT ![w] = @ + 1], UNCHANGED responses
      PROVE  Bumps(w, 1, 0)
  BY <1>1, <1>4 DEF Bumps
<1>5. ASSUME ~stop, rate' = [rate EXCEPT ![w] = @ + 1],
                    responses' = [responses EXCEPT ![w] = @ + 1]
      PROVE  Bumps(w, 1, 1)
  BY <1>5 DEF Bumps
<1>6. QED
  BY <1>2, <1>3, <1>4, <1>5

\* The rest of the step makes them the worker's counters, flushed into or not.
LEMMA KeepBooks ==
  ASSUME ControlTypeOK, NEW w \in Workers, NEW cs,
         NEW issue \in {0, 1}, NEW answer \in {0, 1}, NEW fail \in {0, 1},
         NEW bytes \in Nat,
         Entry(w, cs, answer, fail, bytes),
         worker[w] = "running", TaskFrame,
         Bumps(w, issue, answer),
         counters' = [counters EXCEPT ![w] = cs]
  PROVE  Books(w, issue, answer, fail, 0, bytes)
<1>1. /\ cs \in CounterSnapshot
      /\ cs.complete = counters[w].complete
      /\ cs.bytes = counters[w].bytes + bytes
      /\ cs.errors_write + cs.errors_read = Failed(w) + fail
      /\ latency' \in Nat
      /\ latency' + cs.errors_timeout = latency + counters[w].errors_timeout + answer
  BY DEF Entry
<1>2. counters[w].complete \in Nat
  BY DEF ControlTypeOK, CounterSnapshot
<1>3. cs.complete = counters[w].complete + 0
  BY <1>1, <1>2
<1>4. QED
  BY <1>1, <1>3 DEF Books

LEMMA FlushBooks ==
  ASSUME ControlTypeOK, NEW w \in Workers, NEW cs,
         NEW issue \in {0, 1}, NEW answer \in {0, 1}, NEW fail \in {0, 1},
         NEW bytes \in Nat, NEW n \in Nat,
         Entry(w, cs, answer, fail, bytes),
         worker[w] = "running", TaskFrame,
         Bumps(w, issue, answer),
         counters' = [counters EXCEPT ![w] = Flush(cs, n)]
  PROVE  Books(w, issue, answer, fail, n, bytes)
<1>1. /\ cs \in CounterSnapshot
      /\ cs.complete = counters[w].complete
      /\ cs.bytes = counters[w].bytes + bytes
      /\ cs.errors_write + cs.errors_read = Failed(w) + fail
      /\ latency' \in Nat
      /\ latency' + cs.errors_timeout = latency + counters[w].errors_timeout + answer
  BY DEF Entry
<1> DEFINE fl == Flush(cs, n)
<1>2. /\ fl \in CounterSnapshot
      /\ fl.complete = cs.complete + n
      /\ fl.bytes = cs.bytes /\ fl.errors_timeout = cs.errors_timeout
      /\ fl.errors_write = cs.errors_write /\ fl.errors_read = cs.errors_read
  BY <1>1, FlushFields
<1>3. counters' = [counters EXCEPT ![w] = fl]
  OBVIOUS
<1> HIDE DEF fl
<1>4. QED
  BY <1>1, <1>2, <1>3 DEF Books

\* A step that ends no request enters nothing.
LEMMA NoBooks ==
  ASSUME ControlTypeOK, NEW w \in Workers,
         worker[w] = "running", TaskFrame, UNCHANGED << rate, responses, latency >>,
         \/ counters' = counters
         \/ counters' = [counters EXCEPT ![w].errors_connect = @ + 1]
  PROVE  Books(w, 0, 0, 0, 0, 0)
<1> DEFINE zero  == 0
           later == [counters[w] EXCEPT !.errors_connect = @ + 1]
<1>1. PICK cs : /\ cs = counters[w] \/ cs = later
                /\ counters' = [counters EXCEPT ![w] = cs]
  BY DEF ControlTypeOK
<1>2. Entry(w, cs, zero, zero, zero)
  BY <1>1, ErrorEntries
<1>3. zero \in {0, 1} /\ zero \in Nat /\ Bumps(w, zero, zero)
  BY BumpsCases
<1>4. counters' = [counters EXCEPT ![w] = cs]
  BY <1>1
<1> HIDE DEF zero, later
<1>5. Books(w, zero, zero, zero, 0, zero)
  BY ONLY ControlTypeOK, w \in Workers, worker[w] = "running", TaskFrame,
          <1>2, <1>3, <1>4, KeepBooks
<1>6. QED
  BY <1>5 DEF zero
=============================================================================
