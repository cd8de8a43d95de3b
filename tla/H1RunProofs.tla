---------------------------- MODULE H1RunProofs ----------------------------
(***************************************************************************)
(* Proofs about H1Run, for every number of threads and connections, every  *)
(* timeout and every bound.  Every step of a connection task has an effect *)
(* on its worker's books, on its own await and on the responses it holds   *)
(* (TaskEffects); what the theorems need of a step they take from it.      *)
(***************************************************************************)
EXTENDS H1Run, RunControlProofs

InFlightAwaits == {"sending", "draining"}

\* A task outside the request loop holds nothing back.
Idle(w) ==
  \A c \in Conns : task[w][c] \notin InFlightAwaits => local[w][c] = 0

\* Before the runtime is entered there is no task.
NotEntered(w) ==
  worker[w] = "spawned" => \A c \in Conns : task[w][c] = "none"

\* The parts of RequestsConserved and EveryResponseCounted, per worker.
Conserved(w) ==
  Issued(w) = responses[w] + Failed(w) + Cardinality(InFlight(w))

Counted(w) ==
  /\ responses[w] = counters[w].complete + Total(local[w])
  /\ counters[w].bytes = ResponseSize * responses[w]

\* RequestsConserved and EveryResponseCounted are inductive but for the step
\* that creates the tasks, which forgets the tasks there were (NotEntered),
\* and for what a task takes along when it leaves the request loop (Idle).
TaskInv(w) == NotEntered(w) /\ Idle(w) /\ Conserved(w) /\ Counted(w)

IInv ==
  /\ TypeOK
  /\ ControlInv
  /\ \A w \in Workers : TaskInv(w)

-----------------------------------------------------------------------------
\* The effect of a step of a task.

\* It enters a response or an error if its request ends, and only then; it
\* flushes all it holds when it leaves the request loop; and it returns only
\* if the flag is set.
Effect(w, c, await, issue, answer, fail, flush, bytes) ==
  /\ Books(w, issue, answer, fail, flush, bytes)
  /\ bytes = ResponseSize * answer
  /\ task' = [task EXCEPT ![w][c] = await]
  /\ local' = [local EXCEPT ![w][c] = @ + answer - flush]
  /\ age' \in [Workers -> [Conns -> 0 .. AgeCap]]
  /\ issue - answer - fail =
       OneIf(await \in InFlightAwaits) - OneIf(task[w][c] \in InFlightAwaits)
  /\ answer + fail <= OneIf(task[w][c] \in InFlightAwaits)
  /\ flush <= local[w][c] + answer
  /\ await \notin InFlightAwaits => flush = local[w][c] + answer
  /\ await = "returned" => stop

HasEffect(w, c) ==
  \E await \in TaskState, issue, answer, fail \in {0, 1}, flush, bytes \in Nat :
    Effect(w, c, await, issue, answer, fail, flush, bytes)

\* A task that moves in or out of the request loop, but not across its border.
LEMMA MoveEffect ==
  ASSUME TypeOK, NEW w \in Workers, NEW c \in Conns, NEW await \in TaskState,
         Idle(w), worker[w] = "running", MoveTo(w, c, await),
         await \in InFlightAwaits <=> task[w][c] \in InFlightAwaits,
         await = "returned" => stop,
         \/ counters' = counters
         \/ counters' = [counters EXCEPT ![w].errors_connect = @ + 1]
  PROVE  HasEffect(w, c)
<1>1. ControlTypeOK /\ local \in [Workers -> [Conns -> Nat]] /\ local[w][c] \in Nat
  BY DEF TypeOK
<1>2. /\ UNCHANGED << rate, responses, latency, local, age >> /\ TaskFrame
      /\ task' = [task EXCEPT ![w][c] = await]
  BY DEF MoveTo
<1>3. Books(w, 0, 0, 0, 0, 0)
  BY <1>1, <1>2, NoBooks
<1>4. local' = [local EXCEPT ![w][c] = @ + 0 - 0]
  BY <1>1, <1>2
<1>5. age' \in [Workers -> [Conns -> 0 .. AgeCap]]
  BY <1>2 DEF TypeOK
<1>6. /\ 0 - 0 - 0 = OneIf(await \in InFlightAwaits) - OneIf(task[w][c] \in InFlightAwaits)
      /\ 0 + 0 <= OneIf(task[w][c] \in InFlightAwaits)
      /\ 0 <= local[w][c] + 0
      /\ await \notin InFlightAwaits => 0 = local[w][c] + 0
  BY <1>1 DEF OneIf, Idle
<1>7. 0 = ResponseSize * 0
  BY ResponseSizeAssumption
<1>8. Effect(w, c, await, 0, 0, 0, 0, 0)
  BY <1>2, <1>3, <1>4, <1>5, <1>6, <1>7 DEF Effect
<1>9. QED
  BY <1>8 DEF HasEffect

\* A task that leaves the request loop, or never enters it.
LEMMA LeaveEffect ==
  ASSUME TypeOK, NEW w \in Workers, NEW c \in Conns, NEW await \in TaskState,
         NEW answer \in {0, 1}, NEW fail \in {0, 1}, NEW cs,
         NEW bytes \in Nat, bytes = ResponseSize * answer,
         worker[w] = "running", TaskFrame, Entry(w, cs, answer, fail, bytes),
         answer + fail = OneIf(task[w][c] \in InFlightAwaits),
         await \notin InFlightAwaits, await = "returned" => stop,
         Bumps(w, 0, answer), Leave(w, c, await, Flush(cs, local[w][c] + answer))
  PROVE  HasEffect(w, c)
<1> DEFINE n == local[w][c] + answer
<1>1. /\ ControlTypeOK /\ local \in [Workers -> [Conns -> Nat]]
      /\ age \in [Workers -> [Conns -> 0 .. AgeCap]] /\ n \in Nat
      /\ local[w][c] \in Nat
  BY DEF TypeOK
<1>2. /\ counters' = [counters EXCEPT ![w] = Flush(cs, n)]
      /\ task' = [task EXCEPT ![w][c] = await]
      /\ local' = [local EXCEPT ![w][c] = 0]
      /\ age' = [age EXCEPT ![w][c] = 0]
      /\ rate' = rate
  BY DEF Leave
<1>3. local[w][c] + answer - n = 0
  BY <1>1
<1>4. local' = [local EXCEPT ![w][c] = @ + answer - n]
  <2> HIDE DEF n
  <2>1. QED
    BY <1>2, <1>3
<1>5. age' \in [Workers -> [Conns -> 0 .. AgeCap]]
  BY <1>1, <1>2, TimeoutAssumption DEF AgeCap
<1>6. /\ 0 - answer - fail = OneIf(await \in InFlightAwaits) - OneIf(task[w][c] \in InFlightAwaits)
      /\ answer + fail <= OneIf(task[w][c] \in InFlightAwaits)
      /\ n <= local[w][c] + answer
  BY <1>1 DEF OneIf
<1>7. n = local[w][c] + answer
  OBVIOUS
<1> HIDE DEF n
<1>8. Books(w, 0, answer, fail, n, bytes)
  <2> DEFINE zero == 0
  <2>1. zero \in {0, 1} /\ Bumps(w, zero, answer)
    OBVIOUS
  <2> HIDE DEF zero
  <2>2. ControlTypeOK /\ n \in Nat /\ counters' = [counters EXCEPT ![w] = Flush(cs, n)]
    BY <1>1, <1>2
  <2>3. Books(w, zero, answer, fail, n, bytes)
    BY <2>1, <2>2, FlushBooks
  <2>4. QED
    BY <2>3 DEF zero
<1>9. Effect(w, c, await, 0, answer, fail, n, bytes)
  BY <1>2, <1>4, <1>5, <1>6, <1>7, <1>8 DEF Effect
<1>10. QED
  BY <1>1, <1>9 DEF HasEffect

\* A task that sends the next request.
LEMMA IssueEffect ==
  ASSUME TypeOK, NEW w \in Workers, NEW c \in Conns, NEW answer \in {0, 1}, NEW cs,
         NEW bytes \in Nat, bytes = ResponseSize * answer,
         worker[w] = "running", TaskFrame, ~stop, Entry(w, cs, answer, 0, bytes),
         answer = OneIf(task[w][c] \in InFlightAwaits),
         Bumps(w, 1, answer), Issue(w, c, local[w][c] + answer, cs)
  PROVE  HasEffect(w, c)
<1>1. /\ ControlTypeOK /\ local \in [Workers -> [Conns -> Nat]]
      /\ age \in [Workers -> [Conns -> 0 .. AgeCap]]
      /\ local[w][c] \in Nat /\ cs \in CounterSnapshot
  BY DEF TypeOK, Entry
<1>2. /\ counters' = [counters EXCEPT ![w] = cs]
      /\ task' = [task EXCEPT ![w][c] = "sending"]
      /\ local' = [local EXCEPT ![w][c] = local[w][c] + answer]
      /\ age' = [age EXCEPT ![w][c] = 0]
      /\ rate' = [rate EXCEPT ![w] = @ + 1]
  BY DEF Issue
<1>3. local' = [local EXCEPT ![w][c] = @ + answer - 0]
  <2>1. local[w][c] + answer - 0 = local[w][c] + answer
    BY <1>1
  <2>2. QED
    BY <1>2, <2>1
<1>4. age' \in [Workers -> [Conns -> 0 .. AgeCap]]
  BY <1>1, <1>2, TimeoutAssumption DEF AgeCap
<1>5. /\ "sending" \in InFlightAwaits /\ "sending" \in TaskState
      /\ 1 - answer - 0 = OneIf("sending" \in InFlightAwaits) - OneIf(task[w][c] \in InFlightAwaits)
      /\ answer + 0 <= OneIf(task[w][c] \in InFlightAwaits)
      /\ 0 <= local[w][c] + answer
  BY <1>1 DEF OneIf, InFlightAwaits, TaskState
<1>6. Books(w, 1, answer, 0, 0, bytes)
  <2> DEFINE zero == 0
             one  == 1
  <2>1. /\ zero \in {0, 1} /\ zero \in Nat /\ one \in {0, 1}
        /\ Bumps(w, one, answer)
    OBVIOUS
  <2>2. Entry(w, cs, answer, zero, bytes)
    OBVIOUS
  <2> HIDE DEF zero, one
  <2>3. Books(w, one, answer, zero, 0, bytes)
    BY <1>1, <1>2, <2>1, <2>2, KeepBooks, ZenonT(30)
  <2>4. QED
    BY <2>3 DEF zero, one
<1>7. Effect(w, c, "sending", 1, answer, 0, 0, bytes)
  BY <1>2, <1>3, <1>4, <1>5, <1>6 DEF Effect
<1>8. QED
  BY <1>5, <1>7 DEF HasEffect

\* Every step of a task has an effect.
LEMMA TaskEffects ==
  ASSUME TypeOK, NEW w \in Workers, NEW c \in Conns, Idle(w), TaskStep(w, c)
  PROVE  HasEffect(w, c)
<1>1. /\ ControlTypeOK /\ local[w][c] \in Nat /\ age[w][c] \in Int
      /\ task[w][c] \notin InFlightAwaits => local[w][c] = 0
  BY TimeoutAssumption DEF TypeOK, Idle, AgeCap
<1>2. /\ Reconnect \in TaskState /\ Reconnect \notin InFlightAwaits
      /\ Reconnect = "returned" => stop
  BY DEF Reconnect, TaskState, InFlightAwaits
<1>3. /\ {"handshaking", "backoff", "draining", "sending", "returned"} \subseteq TaskState
      /\ "returned" \notin InFlightAwaits
  BY DEF TaskState, InFlightAwaits
<1>4. CASE Start(w, c) \/ BackoffOver(w, c) \/ HandshakeErr(w, c)
  <2>1. /\ MoveTo(w, c, Reconnect) /\ worker[w] = "running"
        /\ task[w][c] \notin InFlightAwaits
        /\ \/ counters' = counters
           \/ counters' = [counters EXCEPT ![w].errors_connect = @ + 1]
    BY <1>4 DEF Start, BackoffOver, HandshakeErr, Awaiting, InFlightAwaits
  <2>2. QED
    BY <1>2, <2>1, MoveEffect
<1>5. CASE ConnectOk(w, c) \/ ConnectErr(w, c) \/ SendOk(w, c)
  <2>1. PICK await \in {"handshaking", "backoff", "draining"} :
          /\ MoveTo(w, c, await) /\ worker[w] = "running"
          /\ await \in InFlightAwaits <=> task[w][c] \in InFlightAwaits
          /\ \/ counters' = counters
             \/ counters' = [counters EXCEPT ![w].errors_connect = @ + 1]
    BY <1>5 DEF ConnectOk, ConnectErr, SendOk, Awaiting, InFlightAwaits
  <2>2. await # "returned" /\ await \in TaskState
    BY <1>3
  <2>3. QED
    BY <2>1, <2>2, MoveEffect
<1>6. CASE HandshakeOk(w, c)
  <2> DEFINE zero == 0
  <2>1. /\ NextRequest(w, c, 0, counters[w]) /\ worker[w] = "running" /\ TaskFrame
        /\ UNCHANGED << responses, latency >> /\ task[w][c] \notin InFlightAwaits
    BY <1>6 DEF HandshakeOk, Awaiting, InFlightAwaits
  <2>2. Entry(w, counters[w], zero, zero, zero) /\ local[w][c] + zero = 0
    <3>1. Entry(w, counters[w], 0, 0, 0)
      BY <1>1, <2>1, ErrorEntries
    <3>2. local[w][c] = 0
      BY <1>1, <2>1
    <3>3. QED
      BY <3>1, <3>2
  <2>3. /\ zero \in {0, 1} /\ OneIf(task[w][c] \in InFlightAwaits) = zero
        /\ zero + zero = zero /\ zero \in Nat /\ zero = ResponseSize * zero
    BY <1>1, <2>1, ResponseSizeAssumption DEF OneIf
  <2>4. \/ stop /\ Leave(w, c, "returned", Flush(counters[w], local[w][c] + zero))
        \/ ~stop /\ Issue(w, c, local[w][c] + zero, counters[w])
    BY <2>1, <2>2 DEF NextRequest
  <2>5. Entry(w, counters[w], zero, 0, zero)
    BY <2>2
  <2> HIDE DEF zero
  <2>6. CASE stop /\ Leave(w, c, "returned", Flush(counters[w], local[w][c] + zero))
    <3>1. Bumps(w, 0, zero)
      BY <1>1, <2>1, <2>6, BumpsCases DEF Leave, zero
    <3>2. QED
      BY <1>3, <2>1, <2>2, <2>3, <2>6, <3>1, LeaveEffect
  <2>7. CASE ~stop /\ Issue(w, c, local[w][c] + zero, counters[w])
    <3>1. Bumps(w, 1, zero)
      BY <1>1, <2>1, <2>7, BumpsCases DEF Issue, zero
    <3>2. QED
      BY <2>1, <2>3, <2>5, <2>7, <3>1, IssueEffect
  <2>8. QED
    BY <2>4, <2>6, <2>7
<1>7. CASE SendErr(w, c) \/ DrainErr(w, c)
  <2> DEFINE zero == 0
             one  == 1
  <2>1. PICK cs : /\ Entry(w, cs, 0, 1, 0) /\ Break(w, c, local[w][c], cs)
                  /\ worker[w] = "running" /\ TaskFrame /\ UNCHANGED responses
                  /\ task[w][c] \in InFlightAwaits
    <3>1. UNCHANGED << latency, responses >> /\ worker[w] = "running" /\ TaskFrame
          /\ task[w][c] \in InFlightAwaits
      BY <1>7 DEF SendErr, DrainErr, Awaiting, InFlightAwaits
    <3>2. CASE SendErr(w, c)
      BY <1>1, <3>1, <3>2, ErrorEntries DEF SendErr
    <3>3. CASE DrainErr(w, c)
      BY <1>1, <3>1, <3>3, ErrorEntries DEF DrainErr
    <3>4. QED
      BY <1>7, <3>2, <3>3
  <2>2. /\ zero \in {0, 1} /\ one \in {0, 1} /\ zero \in Nat
        /\ zero = ResponseSize * zero
        /\ local[w][c] + zero = local[w][c]
        /\ zero + one = OneIf(task[w][c] \in InFlightAwaits)
    BY <1>1, <2>1, ResponseSizeAssumption DEF OneIf
  <2>3. Entry(w, cs, zero, one, zero)
    BY <2>1
  <2> HIDE DEF zero, one
  <2>4. Leave(w, c, Reconnect, Flush(cs, local[w][c] + zero))
    BY <2>1, <2>2 DEF Break
  <2>5. Bumps(w, 0, zero)
    BY <1>1, <2>1, <2>4, BumpsCases DEF Leave, zero
  <2>6. QED
    BY <1>2, <2>1, <2>2, <2>3, <2>4, <2>5, LeaveEffect
<1>8. ASSUME NEW status \in Statuses, DrainOk(w, c, status)
      PROVE  HasEffect(w, c)
  <2> DEFINE cs   == Accounted(counters[w], status, ResponseSize, age[w][c])
             zero == 0
             one  == 1
  <2>1. /\ Break(w, c, local[w][c] + 1, cs) \/ NextRequest(w, c, local[w][c] + 1, cs)
        /\ responses' = [responses EXCEPT ![w] = @ + 1]
        /\ latency' = latency + Sampled(age[w][c])
        /\ worker[w] = "running" /\ TaskFrame /\ task[w][c] \in InFlightAwaits
    BY <1>8 DEF DrainOk, Awaiting, InFlightAwaits
  <2>2. Entry(w, cs, one, zero, ResponseSize)
    BY <1>1, <2>1, ResponseSizeAssumption, AnswerEntry
  <2> HIDE DEF cs
  <2>3. \/ Leave(w, c, Reconnect, Flush(cs, local[w][c] + one))
        \/ stop /\ Leave(w, c, "returned", Flush(cs, local[w][c] + one))
        \/ ~stop /\ Issue(w, c, local[w][c] + one, cs)
    BY <2>1 DEF Break, NextRequest
  <2>4. /\ zero \in {0, 1} /\ one \in {0, 1}
        /\ ResponseSize \in Nat /\ ResponseSize = ResponseSize * one
        /\ one + zero = OneIf(task[w][c] \in InFlightAwaits)
        /\ one = OneIf(task[w][c] \in InFlightAwaits)
    BY <2>1, ResponseSizeAssumption DEF OneIf
  <2>5. Entry(w, cs, one, 0, ResponseSize)
    BY <2>2
  <2> HIDE DEF zero, one
  <2>6. CASE Leave(w, c, Reconnect, Flush(cs, local[w][c] + one))
    <3>1. Bumps(w, 0, one)
      BY <1>1, <2>1, <2>6, BumpsCases DEF Leave, one
    <3>2. QED
      BY <1>2, <2>1, <2>2, <2>4, <2>6, <3>1, LeaveEffect
  <2>7. CASE stop /\ Leave(w, c, "returned", Flush(cs, local[w][c] + one))
    <3>1. Bumps(w, 0, one)
      BY <1>1, <2>1, <2>7, BumpsCases DEF Leave, one
    <3>2. QED
      BY <1>3, <2>1, <2>2, <2>4, <2>7, <3>1, LeaveEffect
  <2>8. CASE ~stop /\ Issue(w, c, local[w][c] + one, cs)
    <3>1. Bumps(w, 1, one)
      BY <1>1, <2>1, <2>8, BumpsCases DEF Issue, one
    <3>2. QED
      BY <2>1, <2>4, <2>5, <2>8, <3>1, IssueEffect
  <2>9. QED
    BY <2>3, <2>6, <2>7, <2>8
<1>9. QED
  BY <1>4, <1>5, <1>6, <1>7, <1>8 DEF TaskStep

-----------------------------------------------------------------------------
\* What the theorems take from an effect.

\* The variables keep their types.
LEMMA EffectType ==
  ASSUME TypeOK, NEW w \in Workers, NEW c \in Conns, HasEffect(w, c)
  PROVE  TypeOK'
<1>1. PICK await \in TaskState, issue \in {0, 1}, answer \in {0, 1}, fail \in {0, 1},
           flush \in Nat, bytes \in Nat :
        Effect(w, c, await, issue, answer, fail, flush, bytes)
  BY DEF HasEffect
<1>2. ControlTypeOK'
  <2>1. issue \in Nat /\ answer \in Nat /\ fail \in Nat
    OBVIOUS
  <2>2. QED
    BY <1>1, <2>1, BooksAt DEF Effect, TypeOK
<1>3. task' \in [Workers -> [Conns -> TaskState]]
  BY <1>1 DEF Effect, TypeOK
<1>4. local' \in [Workers -> [Conns -> Nat]]
  <2> DEFINE held == local[w][c] + answer - flush
  <2>1. local[w][c] \in Nat /\ flush <= local[w][c] + answer
    BY <1>1 DEF Effect, TypeOK
  <2>2. held \in Nat
    BY <2>1
  <2>3. local' = [local EXCEPT ![w][c] = held]
    BY <1>1 DEF Effect
  <2> HIDE DEF held
  <2>4. QED
    BY <2>2, <2>3 DEF TypeOK
<1>5. QED
  BY <1>1, <1>2, <1>3, <1>4 DEF Effect, TypeOK

\* The other workers' tasks are left alone.
LEMMA EffectOthers ==
  ASSUME TypeOK, NEW w \in Workers, NEW c \in Conns, HasEffect(w, c),
         NEW v \in Workers \ {w}
  PROVE  task'[v] = task[v] /\ local'[v] = local[v]
BY DEF HasEffect, Effect, TypeOK

\* The invariant of the worker's tasks is kept.
LEMMA EffectTaskInv ==
  ASSUME TypeOK, NEW w \in Workers, NEW c \in Conns, HasEffect(w, c),
         NEW v \in Workers, TaskInv(v)
  PROVE  TaskInv(v)'
<1>1. PICK await \in TaskState, issue \in {0, 1}, answer \in {0, 1}, fail \in {0, 1},
           flush \in Nat, bytes \in Nat :
        Effect(w, c, await, issue, answer, fail, flush, bytes)
  BY DEF HasEffect
<1>2. Books(w, issue, answer, fail, flush, bytes) /\ ControlTypeOK
      /\ issue \in Nat /\ answer \in Nat /\ fail \in Nat
  BY <1>1 DEF Effect, TypeOK
<1>3. worker' = worker /\ worker[w] = "running"
  BY <1>2 DEF Books, TaskFrame
<1>4. /\ Issued(w)' = Issued(w) + issue
      /\ responses'[w] = responses[w] + answer
      /\ Failed(w)' = Failed(w) + fail
      /\ counters'[w].complete = counters[w].complete + flush
      /\ counters'[w].bytes = counters[w].bytes + bytes
  <2>1. Entered(w, issue, answer, fail, flush, bytes)
    BY <1>2, BooksEntered
  <2>2. QED
    BY <2>1 DEF Entered
<1>5. CASE v # w
  <2>1. task'[v] = task[v] /\ local'[v] = local[v]
    BY <1>5, EffectOthers
  <2>2. /\ Issued(v)' = Issued(v) /\ Failed(v)' = Failed(v)
        /\ counters'[v] = counters[v] /\ responses'[v] = responses[v]
    <3>1. v \in Workers \ {w}
      BY <1>5
    <3>2. Issued(v)' = Issued(v) /\ Failed(v)' = Failed(v)
      BY <1>2, <3>1, BooksSettled
    <3>3. counters'[v] = counters[v] /\ responses'[v] = responses[v]
      BY <1>2, <3>1, BooksAt
    <3>4. QED
      BY <3>2, <3>3
  <2>3. InFlight(v)' = InFlight(v)
    BY <2>1 DEF InFlight
  <2>4. QED
    BY <1>3, <2>1, <2>2, <2>3 DEF TaskInv, NotEntered, Idle, Conserved, Counted
<1>6. CASE v = w
  <2> DEFINE f == task[w]
             g == task'[w]
             h == local[w]
             k == local'[w]
  <2>1. /\ f \in [Conns -> TaskState] /\ h \in [Conns -> Nat] /\ k \in [Conns -> Nat]
        /\ g[c] = await /\ k[c] = h[c] + answer - flush
        /\ \A d \in Conns \ {c} : g[d] = f[d] /\ k[d] = h[d]
    <3>1. local' \in [Workers -> [Conns -> Nat]]
      BY EffectType DEF TypeOK
    <3>2. QED
      BY <1>1, <3>1 DEF Effect, TypeOK
  <2>2. NotEntered(w)'
    BY <1>3 DEF NotEntered
  <2>3. Idle(w)'
    <3>1. await \notin InFlightAwaits => flush = h[c] + answer
      BY <1>1 DEF Effect
    <3>2. await \notin InFlightAwaits => k[c] = 0
      BY <2>1, <3>1
    <3>3. \A d \in Conns : f[d] \notin InFlightAwaits => h[d] = 0
      BY <1>6 DEF TaskInv, Idle
    <3>4. \A d \in Conns : g[d] \notin InFlightAwaits => k[d] = 0
      BY <2>1, <3>2, <3>3
    <3>5. QED
      BY <3>4 DEF Idle
  <2>4. Conserved(w)'
    <3> DEFINE now   == Cardinality(InFlight(w))
               later == Cardinality(InFlight(w)')
               leave == OneIf(f[c] \in InFlightAwaits)
               enter == OneIf(await \in InFlightAwaits)
    <3>1. /\ now = CountIn(f, Conns, InFlightAwaits)
          /\ later = CountIn(g, Conns, InFlightAwaits)
      BY DEF InFlight, InFlightAwaits, CountIn
    <3>2. /\ CountIn(f, Conns, InFlightAwaits) \in Nat
          /\ CountIn(g, Conns, InFlightAwaits) = CountIn(f, Conns, InFlightAwaits)
               + OneIf(g[c] \in InFlightAwaits) - OneIf(f[c] \in InFlightAwaits)
      <4>1. \A d \in Conns \ {c} : g[d] = f[d]
        BY <2>1
      <4> HIDE DEF f, g
      <4>2. QED
        BY <4>1, ConnsFinite, CountMove DEF OneIf
    <3>3. now \in Nat /\ later = now + enter - leave
      BY <2>1, <3>1, <3>2
    <3>4. Issued(w) = responses[w] + Failed(w) + now
      BY <1>6 DEF TaskInv, Conserved
    <3>5. issue - answer - fail = enter - leave
      BY <1>1 DEF Effect
    <3>6. /\ Issued(w) \in Nat /\ Failed(w) \in Nat /\ responses[w] \in Nat
          /\ enter \in Int /\ leave \in Int
      <4>1. Issued(w) \in Nat /\ Failed(w) \in Nat
        BY <1>2, BooksSettled
      <4>2. responses[w] \in Nat
        BY <1>2 DEF ControlTypeOK
      <4>3. enter \in Int /\ leave \in Int
        BY DEF OneIf
      <4>4. QED
        BY <4>1, <4>2, <4>3
    <3> HIDE DEF now, later, enter, leave
    <3>7. Issued(w)' = responses'[w] + Failed(w)' + later
      BY <1>4, <3>3, <3>4, <3>5, <3>6
    <3>8. QED
      BY <3>7 DEF Conserved, later
  <2>5. Counted(w)'
    <3> HIDE DEF h, k
    <3>1. Total(k) = Total(h) - h[c] + k[c] /\ Total(h) \in Int /\ Total(k) \in Int
      <4>1. h \in [Conns -> Int] /\ k \in [Conns -> Int]
        BY <2>1
      <4>2. \A d \in Conns \ {c} : k[d] = h[d]
        BY <2>1
      <4>3. QED
        BY <4>1, <4>2, ConnsFinite, TotalChange, TotalType
    <3>2. /\ responses[w] = counters[w].complete + Total(h)
          /\ counters[w].bytes = ResponseSize * responses[w]
      BY <1>6 DEF TaskInv, Counted, h
    <3>3. /\ responses[w] \in Nat /\ counters[w].complete \in Nat
          /\ counters[w].bytes \in Nat /\ h[c] \in Nat
      BY <1>2, <2>1 DEF ControlTypeOK, CounterSnapshot
    <3>4. responses'[w] = counters'[w].complete + Total(k)
      BY <1>4, <2>1, <3>1, <3>2, <3>3
    <3>5. bytes = ResponseSize * answer
      BY <1>1 DEF Effect
    <3>6. counters'[w].bytes = ResponseSize * responses'[w]
      BY <1>4, <3>2, <3>3, <3>5, ResponseSizeAssumption
    <3>7. QED
      BY <3>4, <3>6 DEF Counted, k
  <2>6. QED
    BY <1>6, <2>2, <2>3, <2>4, <2>5 DEF TaskInv
<1>7. QED
  BY <1>5, <1>6

-----------------------------------------------------------------------------
\* The inductive invariant.

LEMMA InitIInv == Init => IInv
<1> SUFFICES ASSUME Init PROVE IInv
  OBVIOUS
<1>1. ControlInv
  BY ControlInitInv DEF Init
<1>2. TypeOK
  BY <1>1, TimeoutAssumption DEF Init, TypeOK, ControlInv, TaskState, AgeCap
<1>3. ASSUME NEW w \in Workers PROVE TaskInv(w)
  <2>1. NotEntered(w) /\ Idle(w)
    BY DEF Init, NotEntered, Idle
  <2>2. InFlight(w) = {}
    BY DEF Init, InFlight
  <2>3. /\ Issued(w) = 0 /\ responses[w] = 0 /\ Failed(w) = 0
        /\ counters[w].complete = 0 /\ counters[w].bytes = 0
    BY DEF Init, ControlInit, ZeroCounters, Issued, Failed
  <2>4. Total(local[w]) = 0
    <3>1. local[w] \in [Conns -> Int] /\ \A c \in Conns : local[w][c] = 0
      BY DEF Init
    <3>2. QED
      BY <3>1, ConnsFinite, TotalZero
  <2>5. Conserved(w)
    BY <2>2, <2>3, FS_EmptySet DEF Conserved
  <2>6. Counted(w)
    BY <2>3, <2>4, ResponseSizeAssumption DEF Counted
  <2>7. QED
    BY <2>1, <2>5, <2>6 DEF TaskInv
<1>4. QED
  BY <1>1, <1>2, <1>3 DEF IInv

\* A step of main, of a worker thread or of the clock: the tasks stay where
\* they are, or are created.
QuietStep ==
  /\ \/ SetStop \/ JoinWorkers \/ UNCHANGED controlVars
     \/ \E w \in Workers : RuntimeFails(w) \/ EnterRuntime(w) \/ RecordRate(w)
  /\ local' = local
  /\ age' \in [Workers -> [Conns -> 0 .. AgeCap]]
  /\ \/ task' = task /\ \A w \in Workers : worker'[w] = "spawned" => worker[w] = "spawned"
     \/ \E w \in Workers : SpawnConnections(w)

\* Every step is quiet, or is a step of a task.
LEMMA NextSteps ==
  ASSUME IInv, [Next]_vars
  PROVE  QuietStep \/ \E w \in Workers, c \in Conns : TaskStep(w, c)
<1>1. TypeOK
  BY DEF IInv
<1>2. CASE UNCHANGED taskVars /\ (SetStop \/ JoinWorkers \/ UNCHANGED controlVars)
  BY <1>1, <1>2 DEF QuietStep, taskVars, TypeOK, SetStop, JoinWorkers, controlVars
<1>3. ASSUME NEW w \in Workers, UNCHANGED taskVars, RuntimeFails(w) \/ RecordRate(w)
      PROVE  QuietStep
  <2>1. worker' = worker \/ worker' = [worker EXCEPT ![w] = "exited"]
    BY <1>3 DEF RuntimeFails, RecordRate
  <2>2. \A v \in Workers : worker'[v] = "spawned" => worker[v] = "spawned"
    BY <1>1, <2>1 DEF TypeOK, ControlTypeOK
  <2>3. QED
    BY <1>1, <1>3, <2>2 DEF QuietStep, taskVars, TypeOK
<1>4. ASSUME NEW w \in Workers, SpawnConnections(w) PROVE QuietStep
  BY <1>1, <1>4 DEF QuietStep, SpawnConnections, TypeOK
<1>5. CASE TimePasses
  <2>1. \A w \in Workers : \A c \in Conns : age'[w][c] \in 0 .. AgeCap
    BY <1>1, <1>5, TimeoutAssumption DEF TimePasses, AgeCap, TypeOK
  <2>2. age' \in [Workers -> [Conns -> 0 .. AgeCap]]
    BY <1>5, <2>1 DEF TimePasses
  <2>3. QED
    BY <1>5, <2>2 DEF TimePasses, QuietStep, controlVars
<1>6. QED
  BY <1>2, <1>3, <1>4, <1>5
  DEF Next, Stop, Join, StartWorker, Tick, Terminated, vars

\* A quiet step keeps the invariant.
LEMMA QuietStepInv == ASSUME IInv, QuietStep PROVE IInv'
<1>1. /\ TypeOK /\ ControlInv /\ ControlTypeOK
      /\ \A w \in Workers : TaskInv(w)
  BY DEF IInv, TypeOK
<1>2. ControlInv' /\ ControlTypeOK'
  <2>1. ControlInv'
    BY <1>1, ControlStepInv DEF QuietStep
  <2>2. QED
    BY <2>1 DEF ControlInv
<1>3. TypeOK'
  BY <1>1, <1>2, ZenonT(30) DEF QuietStep, SpawnConnections, TypeOK, TaskState
<1>4. \A w \in Workers : /\ Issued(w)' = Issued(w) /\ Failed(w)' = Failed(w)
                         /\ counters' = counters /\ responses' = responses
  BY <1>1, ControlStepSettled DEF QuietStep
<1>5. \A w \in Workers : InFlight(w)' = InFlight(w) /\ NotEntered(w)' /\ Idle(w)'
  <2>1. CASE task' = task /\ \A w \in Workers : worker'[w] = "spawned" => worker[w] = "spawned"
    BY <1>1, <2>1 DEF QuietStep, TaskInv, InFlight, NotEntered, Idle
  <2>2. ASSUME NEW v \in Workers, SpawnConnections(v)
        PROVE  \A w \in Workers : InFlight(w)' = InFlight(w) /\ NotEntered(w)' /\ Idle(w)'
    <3>1. /\ worker[v] = "spawned" /\ worker' = [worker EXCEPT ![v] = "running"]
          /\ task' = [task EXCEPT ![v] = [c \in Conns |-> "spawned"]]
          /\ local' = local
      BY <2>2 DEF SpawnConnections, EnterRuntime
    <3>2. \A c \in Conns : task[v][c] = "none" /\ local[v][c] = 0
      BY <1>1, <3>1 DEF TaskInv, NotEntered, Idle, InFlightAwaits
    <3>3. /\ \A w \in Workers \ {v} : task'[w] = task[w] /\ worker'[w] = worker[w]
          /\ \A c \in Conns : task'[v][c] = "spawned"
          /\ worker'[v] = "running"
      BY <1>1, <3>1 DEF TypeOK, ControlTypeOK
    <3>4. InFlight(v)' = {} /\ InFlight(v) = {}
      BY <3>2, <3>3 DEF InFlight
    <3>5. NotEntered(v)' /\ Idle(v)'
      BY <3>1, <3>2, <3>3 DEF NotEntered, Idle
    <3>6. \A w \in Workers \ {v} : InFlight(w)' = InFlight(w) /\ NotEntered(w)' /\ Idle(w)'
      BY <1>1, <3>1, <3>3 DEF TaskInv, InFlight, NotEntered, Idle
    <3>7. QED
      BY <3>4, <3>5, <3>6
  <2>3. QED
    BY <2>1, <2>2 DEF QuietStep
<1>6. \A w \in Workers : Conserved(w)' /\ Counted(w)'
  BY <1>1, <1>4, <1>5 DEF TaskInv, Conserved, Counted, QuietStep
<1>7. QED
  BY <1>2, <1>3, <1>5, <1>6 DEF IInv, TaskInv

\* Every step keeps the invariant.
LEMMA NextIInv == IInv /\ [Next]_vars => IInv'
<1> SUFFICES ASSUME IInv, [Next]_vars PROVE IInv'
  OBVIOUS
<1>1. ASSUME NEW w \in Workers, NEW c \in Conns, TaskStep(w, c) PROVE IInv'
  <2>1. /\ TypeOK /\ ControlInv /\ Idle(w)
        /\ \A v \in Workers : TaskInv(v)
    BY DEF IInv, TaskInv
  <2>2. HasEffect(w, c)
    BY <1>1, <2>1, TaskEffects
  <2>3. TypeOK' /\ \A v \in Workers : TaskInv(v)'
    BY <2>1, <2>2, EffectType, EffectTaskInv
  <2>4. ControlInv'
    <3>1. PICK await \in TaskState, issue \in {0, 1}, answer \in {0, 1}, fail \in {0, 1},
               flush \in Nat, bytes \in Nat :
            Books(w, issue, answer, fail, flush, bytes)
      BY <2>2 DEF HasEffect, Effect
    <3>2. issue \in Nat /\ answer \in Nat /\ fail \in Nat
      OBVIOUS
    <3>3. QED
      BY <2>1, <3>1, <3>2, BooksControl
  <2>5. QED
    BY <2>3, <2>4 DEF IInv
<1>2. QED
  BY <1>1, NextSteps, QuietStepInv

LEMMA InvariantHolds == Spec => []IInv
BY InitIInv, NextIInv, PTL DEF Spec

-----------------------------------------------------------------------------
\* The theorems.

\* The variables of an HTTP/1 run always have their types.
THEOREM TypeCorrect == Spec => []TypeOK
<1>1. IInv => TypeOK
  BY DEF IInv
<1>2. QED
  BY <1>1, InvariantHolds, PTL

\* No request is lost or counted twice by a worker, in every run of any size.
THEOREM RequestAccounting == Spec => []RequestsConserved
<1>1. IInv => RequestsConserved
  BY DEF IInv, TaskInv, Conserved, RequestsConserved
<1>2. QED
  BY <1>1, InvariantHolds, PTL

\* The last tick of the recorder leaves no request of its worker out of the
\* rate samples, however late it was issued.
THEOREM RateAccounting == Spec => []RateDrained
<1>1. IInv => RateDrained
  BY DEF IInv, RateDrained, ControlInv, WorkerInv
<1>2. QED
  BY <1>1, InvariantHolds, PTL

\* No way out of the request loop loses a response that was read, or its bytes.
THEOREM ResponseAccounting == Spec => []EveryResponseCounted
<1>1. IInv => EveryResponseCounted
  BY DEF IInv, TaskInv, Counted, EveryResponseCounted
<1>2. QED
  BY <1>1, InvariantHolds, PTL

\* Every response is a latency sample or a timeout error, and not both.
THEOREM LatencyAccounting == Spec => []SampledOrTimedOut
<1>1. IInv => SampledOrTimedOut
  BY DEF IInv, ControlInv
<1>2. QED
  BY <1>1, InvariantHolds, PTL

\* A run whose tasks all saw the flag before the last tick of their worker
\* reports every response.
THEOREM CleanReport == Spec => []CleanRunReportsAll
<1>1. IInv => CleanRunReportsAll
  <2> SUFFICES ASSUME IInv, main = "done",
                      \A w \in Workers : \A c \in Conns : task[w][c] = "returned"
               PROVE  total.complete = Total(responses)
    BY DEF CleanRunReportsAll
  <2>1. ASSUME NEW w \in Workers PROVE counters[w].complete = responses[w]
    <3>1. local[w] \in [Conns -> Int] /\ \A c \in Conns : local[w][c] = 0
      BY DEF IInv, TypeOK, TaskInv, Idle, InFlightAwaits
    <3>2. Total(local[w]) = 0
      BY <3>1, ConnsFinite, TotalZero
    <3>3. responses[w] = counters[w].complete + 0 /\ counters[w].complete \in Nat
      BY <3>2 DEF IInv, TypeOK, ControlTypeOK, CounterSnapshot, TaskInv, Counted
    <3>4. QED
      BY <3>3
  <2>2. QED
    BY <2>1, CleanTotal DEF IInv
<1>2. QED
  BY <1>1, InvariantHolds, PTL

\* No request is issued once the flag is set: no race between SetStop and the
\* tasks lets one through, in whatever await a task meets the flag.
THEOREM NothingIssuedAfterStop == Spec => NoIssueAfterStop
<1>1. IInv /\ [Next]_vars =>
        [stop => \A w \in Workers : Issued(w)' = Issued(w)]_controlVars
  <2> SUFFICES ASSUME IInv, [Next]_vars, stop
               PROVE  \A w \in Workers : Issued(w)' = Issued(w)
    OBVIOUS
  <2>1. TypeOK /\ ControlTypeOK /\ \A w \in Workers : Idle(w)
    BY DEF IInv, TypeOK, TaskInv
  <2>2. ASSUME NEW w \in Workers, NEW c \in Conns, TaskStep(w, c)
        PROVE  \A v \in Workers : Issued(v)' = Issued(v)
    <3>1. PICK issue \in {0, 1}, answer \in {0, 1}, fail \in {0, 1}, flush \in Nat,
               bytes \in Nat : Books(w, issue, answer, fail, flush, bytes)
      BY <2>1, <2>2, TaskEffects DEF HasEffect, Effect
    <3>2. answer \in Nat /\ fail \in Nat
      OBVIOUS
    <3>3. QED
      BY <2>1, <3>1, <3>2, BooksAfterStop
  <2>3. CASE QuietStep
    BY <2>1, <2>3, ControlStepSettled DEF QuietStep
  <2>4. QED
    BY <2>2, <2>3, NextSteps
<1>2. QED
  BY <1>1, InvariantHolds, PTL DEF Spec, NoIssueAfterStop

\* A connection is given up only because the run is over.
THEOREM TasksReturnOnlyOnStop == Spec => ReturnsOnlyOnStop
<1>1. IInv /\ [Next]_vars =>
        [\A w \in Workers : \A c \in Conns :
           task'[w][c] = "returned" /\ task[w][c] # "returned" => stop]_vars
  <2> SUFFICES ASSUME IInv, [Next]_vars, NEW w \in Workers, NEW c \in Conns,
                      task'[w][c] = "returned", task[w][c] # "returned"
               PROVE  stop
    OBVIOUS
  <2>1. TypeOK /\ \A v \in Workers : Idle(v)
    BY DEF IInv, TaskInv
  <2>2. ASSUME NEW v \in Workers, NEW d \in Conns, TaskStep(v, d) PROVE stop
    <3>1. PICK await \in TaskState :
            task' = [task EXCEPT ![v][d] = await] /\ (await = "returned" => stop)
      BY <2>1, <2>2, TaskEffects DEF HasEffect, Effect
    <3>2. QED
      BY <2>1, <3>1 DEF TypeOK
  <2>3. ASSUME NEW v \in Workers, SpawnConnections(v) PROVE FALSE
    BY <2>1, <2>3 DEF SpawnConnections, TypeOK
  <2>4. QED
    BY <2>2, <2>3, NextSteps DEF QuietStep
<1>2. QED
  BY <1>1, InvariantHolds, PTL DEF Spec, ReturnsOnlyOnStop

\* What the promise needs of the workers.
LEMMA InvariantSettled == ASSUME IInv PROVE \A w \in Workers : SettledInv(w)
<1> SUFFICES ASSUME NEW w \in Workers PROVE SettledInv(w)
  OBVIOUS
<1>1. Settled(w) <= Issued(w)
  <2> DEFINE now == Cardinality(InFlight(w))
  <2>1. now \in Nat
    BY ConnsFinite, FS_Subset, FS_CardinalityType DEF InFlight
  <2>2. Issued(w) = responses[w] + Failed(w) + now
    BY DEF IInv, TaskInv, Conserved
  <2>3. responses[w] \in Nat /\ Failed(w) \in Nat
    BY DEF IInv, TypeOK, ControlTypeOK, CounterSnapshot, Failed
  <2> HIDE DEF now
  <2>4. QED
    BY <2>1, <2>2, <2>3 DEF Settled
<1>2. counters[w].complete <= responses[w]
  <2>1. Total(local[w]) \in Nat
    BY ConnsFinite, TotalType DEF IInv, TypeOK
  <2>2. responses[w] = counters[w].complete + Total(local[w])
    BY DEF IInv, TaskInv, Counted
  <2>3. counters[w].complete \in Nat
    BY DEF IInv, TypeOK, ControlTypeOK, CounterSnapshot
  <2>4. QED
    BY <2>1, <2>2, <2>3
<1>3. QED
  BY <1>1, <1>2 DEF SettledInv

\* A request that ends was in flight.
LEMMA InFlightSettled ==
  ASSUME IInv, NEW w \in Workers, NEW c \in Conns, task[w][c] \in InFlightAwaits
  PROVE  Settled(w) < Issued(w)
<1> DEFINE now == Cardinality(InFlight(w))
<1>1. IsFiniteSet(InFlight(w)) /\ now \in Nat
  BY ConnsFinite, FS_Subset, FS_CardinalityType DEF InFlight
<1>2. c \in InFlight(w)
  BY DEF InFlight, InFlightAwaits
<1>3. now # 0
  BY <1>1, <1>2, FS_EmptySet
<1>4. Issued(w) = responses[w] + Failed(w) + now
  BY DEF IInv, TaskInv, Conserved
<1>5. responses[w] \in Nat /\ Failed(w) \in Nat
  BY DEF IInv, TypeOK, ControlTypeOK, CounterSnapshot, Failed
<1> HIDE DEF now
<1>6. QED
  BY <1>1, <1>3, <1>4, <1>5 DEF Settled

\* An HTTP/1 run implements the safety part of RunPromise: requests are issued
\* while the run is open, settled at most once, and the report claims no more
\* than was settled.
THEOREM KeepsPromise == Spec => Promise!Safety
<1>1. Init => Promise!Init
  BY PromiseInit DEF Init
<1>2. IInv /\ [Next]_vars => [Promise!Next]_(Promise!promiseVars)
  <2> SUFFICES ASSUME IInv, [Next]_vars
               PROVE  [Promise!Next]_(Promise!promiseVars)
    OBVIOUS
  <2>1. /\ TypeOK /\ ControlInv /\ \A w \in Workers : Idle(w)
        /\ \A w \in Workers : SettledInv(w)
    BY InvariantSettled DEF IInv, TaskInv
  <2>2. ASSUME NEW w \in Workers, NEW c \in Conns, TaskStep(w, c)
        PROVE  Promise!Progress
    <3>1. PICK issue \in {0, 1}, answer \in {0, 1}, fail \in {0, 1}, flush \in Nat,
               bytes \in Nat :
            /\ Books(w, issue, answer, fail, flush, bytes)
            /\ answer + fail <= OneIf(task[w][c] \in InFlightAwaits)
      BY <2>1, <2>2, TaskEffects DEF HasEffect, Effect
    <3>2. answer + fail <= 1 /\ (answer + fail = 1 => task[w][c] \in InFlightAwaits)
      BY <3>1 DEF OneIf
    <3>3. answer + fail = 1 => Settled(w) < Issued(w)
      BY <3>2, InFlightSettled
    <3>4. QED
      BY <2>1, <3>1, <3>2, <3>3, BooksPromise
  <2>3. CASE QuietStep
    BY <2>1, <2>3, ControlStepPromise DEF QuietStep
  <2>4. QED
    BY <2>2, <2>3, NextSteps DEF Promise!Next
<1>3. QED
  BY <1>1, <1>2, InvariantHolds, PTL DEF Spec, Promise!Safety
=============================================================================
