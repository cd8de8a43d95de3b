---------------------------- MODULE MuxRunProofs ----------------------------
(***************************************************************************)
(* Proofs about the part of a run that HTTP/2 and HTTP/3 share.  Next is   *)
(* not defined here: MuxProtocolProofs shows that every step of H2Run and  *)
(* H3Run is a MuxStep, of which this module shows what it keeps.  What     *)
(* the two protocols do differently are the parameters of MuxStep: the     *)
(* bytes that a response may count for, the number of answers with which a *)
(* stream may end before the flag is set, and the awaits in which a        *)
(* connection task may give up before it.                                  *)
(***************************************************************************)
EXTENDS MuxRun, RunControlProofs

InFlightAwaits == {"sending", "receiving"}

LEMMA SlotsFinite == IsFiniteSet(Slots)
<1>1. IsFiniteSet(1 .. Streams)
  BY StreamsAssumption, FS_Interval
<1>2. QED
  BY <1>1, ConnsFinite, FS_Product DEF Slots

LEMMA SlotConn == ASSUME NEW k \in Slots PROVE k[1] \in Conns
BY DEF Slots

\* A stream outside the request loop holds nothing back.
Idle(w) ==
  \A k \in Slots : stream[w][k] \notin InFlightAwaits => local[w][k] = 0

\* Before the runtime is entered there is no connection task.
NotEntered(w) ==
  worker[w] = "spawned" => \A c \in Conns : conn[w][c] = "none"

\* The parts of StreamsJoined, RequestsConserved and EveryResponseCounted, per
\* worker.
Joined(w) ==
  \A k \in Slots :
    conn[w][k[1]] # "joining" => stream[w][k] \in {"none", "returned"}

Conserved(w) ==
  Issued(w) = responses[w] + Failed(w) + Cardinality(InFlight(w))

Counted(w) ==
  responses[w] = counters[w].complete + Total(local[w])

\* RequestsConserved alone is not inductive: SpawnStreams forgets the streams
\* there were, so that none of them may be in flight (Joined), which the steps
\* of the connection task keep because no stream outlives JoinStreams and no
\* connection task outlives EnterRuntime (NotEntered).
StreamsInv(w) ==
  NotEntered(w) /\ Idle(w) /\ Joined(w) /\ Conserved(w) /\ Counted(w)

MuxInv ==
  /\ TypeOK
  /\ ControlInv
  /\ \A w \in Workers : StreamsInv(w)

-----------------------------------------------------------------------------
\* The effect of a step of a stream task.

\* As for a task of HTTP/1, except for `ends`.
Effect(w, k, await, issue, answer, fail, flush, bytes) ==
  /\ Books(w, issue, answer, fail, flush, bytes)
  /\ conn' = conn
  /\ stream[w][k] \notin {"none", "returned"}
  /\ stream' = [stream EXCEPT ![w][k] = await]
  /\ local' = [local EXCEPT ![w][k] = @ + answer - flush]
  /\ age' \in [Workers -> [Slots -> 0 .. AgeCap]]
  /\ issue - answer - fail =
       OneIf(await \in InFlightAwaits) - OneIf(stream[w][k] \in InFlightAwaits)
  /\ answer + fail <= OneIf(stream[w][k] \in InFlightAwaits)
  /\ flush <= local[w][k] + answer
  /\ await \notin InFlightAwaits => flush = local[w][k] + answer

\* A response counts for one of `sizes` bytes; a stream returns for the flag,
\* for an error or for a number of answers in `ends`.
HasEffect(w, k, sizes, ends) ==
  \E await \in StreamState, issue, answer, fail \in {0, 1}, flush, bytes \in Nat :
    /\ Effect(w, k, await, issue, answer, fail, flush, bytes)
    /\ bytes \in IF answer = 1 THEN sizes ELSE {0}
    /\ await = "returned" => stop \/ fail = 1 \/ answer \in ends

\* The stream returns.
LEMMA ReturnEffect ==
  ASSUME TypeOK, NEW w \in Workers, NEW k \in Slots, NEW sizes, NEW ends,
         NEW answer \in {0, 1}, NEW fail \in {0, 1}, NEW cs, NEW bytes \in Nat,
         bytes \in IF answer = 1 THEN sizes ELSE {0},
         stop \/ fail = 1 \/ answer \in ends,
         worker[w] = "running", TaskFrame, Entry(w, cs, answer, fail, bytes),
         answer + fail = OneIf(stream[w][k] \in InFlightAwaits),
         stream[w][k] \notin {"none", "returned"}, conn' = conn,
         Bumps(w, 0, answer), StreamReturns(w, k, local[w][k] + answer, cs)
  PROVE  HasEffect(w, k, sizes, ends)
<1> DEFINE n == local[w][k] + answer
<1>1. /\ ControlTypeOK /\ local \in [Workers -> [Slots -> Nat]]
      /\ age \in [Workers -> [Slots -> 0 .. AgeCap]] /\ n \in Nat
      /\ local[w][k] \in Nat
  BY DEF TypeOK
<1>2. /\ counters' = [counters EXCEPT ![w] = Flush(cs, n)]
      /\ stream' = [stream EXCEPT ![w][k] = "returned"]
      /\ local' = [local EXCEPT ![w][k] = 0]
      /\ age' = [age EXCEPT ![w][k] = 0]
  BY DEF StreamReturns
<1>3. local[w][k] + answer - n = 0
  BY <1>1
<1>4. local' = [local EXCEPT ![w][k] = @ + answer - n]
  <2> HIDE DEF n
  <2>1. QED
    BY <1>2, <1>3
<1>5. age' \in [Workers -> [Slots -> 0 .. AgeCap]]
  BY <1>1, <1>2, TimeoutAssumption DEF AgeCap
<1>6. /\ "returned" \notin InFlightAwaits /\ "returned" \in StreamState
      /\ 0 - answer - fail =
           OneIf("returned" \in InFlightAwaits) - OneIf(stream[w][k] \in InFlightAwaits)
      /\ answer + fail <= OneIf(stream[w][k] \in InFlightAwaits)
      /\ n <= local[w][k] + answer
  BY <1>1 DEF OneIf, InFlightAwaits, StreamState
<1>7. n = local[w][k] + answer
  OBVIOUS
<1> HIDE DEF n
<1>8. Books(w, 0, answer, fail, n, bytes)
  <2> DEFINE zero == 0
  <2>1. zero \in {0, 1} /\ Bumps(w, zero, answer)
    OBVIOUS
  <2> HIDE DEF zero
  <2>2. ControlTypeOK /\ n \in Nat /\ counters' = [counters EXCEPT ![w] = Flush(cs, n)]
    BY <1>1, <1>2
  <2>3. Books(w, zero, answer, fail, n, bytes)
    BY <2>1, <2>2, FlushBooks
  <2>4. QED
    BY <2>3 DEF zero
<1>9. Effect(w, k, "returned", 0, answer, fail, n, bytes)
  BY <1>2, <1>4, <1>5, <1>6, <1>7, <1>8 DEF Effect
<1>10. QED
  BY <1>1, <1>6, <1>9 DEF HasEffect

\* The stream sends the next request.
LEMMA IssueEffect ==
  ASSUME TypeOK, NEW w \in Workers, NEW k \in Slots, NEW sizes, NEW ends,
         NEW answer \in {0, 1}, NEW cs, NEW bytes \in Nat,
         bytes \in IF answer = 1 THEN sizes ELSE {0},
         worker[w] = "running", TaskFrame, Entry(w, cs, answer, 0, bytes),
         answer = OneIf(stream[w][k] \in InFlightAwaits),
         stream[w][k] \notin {"none", "returned"}, conn' = conn,
         Bumps(w, 1, answer), Issue(w, k, local[w][k] + answer, cs)
  PROVE  HasEffect(w, k, sizes, ends)
<1>1. /\ ControlTypeOK /\ local \in [Workers -> [Slots -> Nat]]
      /\ age \in [Workers -> [Slots -> 0 .. AgeCap]]
      /\ local[w][k] \in Nat /\ cs \in CounterSnapshot
  BY DEF TypeOK, Entry
<1>2. /\ counters' = [counters EXCEPT ![w] = cs]
      /\ stream' = [stream EXCEPT ![w][k] = "sending"]
      /\ local' = [local EXCEPT ![w][k] = local[w][k] + answer]
      /\ age' = [age EXCEPT ![w][k] = 0]
  BY DEF Issue
<1>3. local' = [local EXCEPT ![w][k] = @ + answer - 0]
  <2>1. local[w][k] + answer - 0 = local[w][k] + answer
    BY <1>1
  <2>2. QED
    BY <1>2, <2>1
<1>4. age' \in [Workers -> [Slots -> 0 .. AgeCap]]
  BY <1>1, <1>2, TimeoutAssumption DEF AgeCap
<1>5. /\ "sending" \in InFlightAwaits /\ "sending" \in StreamState
      /\ 1 - answer - 0 =
           OneIf("sending" \in InFlightAwaits) - OneIf(stream[w][k] \in InFlightAwaits)
      /\ answer + 0 <= OneIf(stream[w][k] \in InFlightAwaits)
      /\ 0 <= local[w][k] + answer
  BY <1>1 DEF OneIf, InFlightAwaits, StreamState
<1>6. Books(w, 1, answer, 0, 0, bytes)
  <2> DEFINE zero == 0
             one  == 1
  <2>1. /\ zero \in {0, 1} /\ one \in {0, 1}
        /\ Bumps(w, one, answer)
    OBVIOUS
  <2>2. Entry(w, cs, answer, zero, bytes)
    OBVIOUS
  <2> HIDE DEF zero, one
  <2>3. Books(w, one, answer, zero, 0, bytes)
    BY <1>1, <1>2, <2>1, <2>2, KeepBooks, ZenonT(30)
  <2>4. QED
    BY <2>3 DEF zero, one
<1>7. Effect(w, k, "sending", 1, answer, 0, 0, bytes)
  BY <1>2, <1>3, <1>4, <1>5, <1>6 DEF Effect
<1>8. "sending" # "returned"
  OBVIOUS
<1>9. QED
  BY <1>5, <1>7, <1>8 DEF HasEffect

\* The steps before a response.
LEMMA StreamEffects ==
  ASSUME TypeOK, NEW w \in Workers, NEW k \in Slots, Idle(w), NEW sizes, NEW ends,
         StreamStart(w, k) \/ SendOk(w, k) \/ SendErr(w, k) \/ ReceiveErr(w, k)
  PROVE  HasEffect(w, k, sizes, ends)
<1> DEFINE zero == 0
           one  == 1
<1>1. /\ ControlTypeOK /\ local \in [Workers -> [Slots -> Nat]] /\ local[w][k] \in Nat
      /\ stream[w][k] \notin InFlightAwaits => local[w][k] = 0
  BY DEF TypeOK, Idle
<1>2. /\ worker[w] = "running" /\ TaskFrame /\ UNCHANGED << responses, latency, conn >>
      /\ stream[w][k] \notin {"none", "returned"}
  BY DEF StreamStart, SendOk, SendErr, ReceiveErr, StreamAwaiting
<1>3. /\ zero \in {0, 1} /\ one \in {0, 1} /\ zero \in Nat
      /\ zero \in IF zero = 1 THEN sizes ELSE {0}
      /\ local[w][k] + zero = local[w][k] /\ zero + one = one /\ zero + zero = zero
  BY <1>1
<1>4. CASE StreamStart(w, k)
  <2>1. NextRequest(w, k, 0, counters[w]) /\ stream[w][k] \notin InFlightAwaits
    BY <1>4 DEF StreamStart, StreamAwaiting, InFlightAwaits
  <2>2. OneIf(stream[w][k] \in InFlightAwaits) = zero /\ local[w][k] + zero = 0
    BY <1>1, <2>1 DEF OneIf
  <2>3. Entry(w, counters[w], zero, zero, zero) /\ Entry(w, counters[w], zero, 0, zero)
    BY <1>1, <1>2, ErrorEntries
  <2>4. \/ stop /\ StreamReturns(w, k, local[w][k] + zero, counters[w])
        \/ ~stop /\ Issue(w, k, local[w][k] + zero, counters[w])
    BY <2>1, <2>2 DEF NextRequest
  <2> HIDE DEF zero, one
  <2>5. CASE stop /\ StreamReturns(w, k, local[w][k] + zero, counters[w])
    <3>1. Bumps(w, 0, zero)
      BY <1>1, <1>2, <2>5, BumpsCases DEF StreamReturns, zero
    <3>2. QED
      BY <1>2, <1>3, <2>2, <2>3, <2>5, <3>1, ReturnEffect, ZenonT(30)
  <2>6. CASE ~stop /\ Issue(w, k, local[w][k] + zero, counters[w])
    <3>1. Bumps(w, 1, zero)
      BY <1>1, <1>2, <2>6, BumpsCases DEF Issue, zero
    <3>2. QED
      BY <1>2, <1>3, <2>2, <2>3, <2>6, <3>1, IssueEffect
  <2>7. QED
    BY <2>4, <2>5, <2>6
<1>5. CASE SendOk(w, k)
  <2>1. /\ stream' = [stream EXCEPT ![w][k] = "receiving"]
        /\ UNCHANGED << counters, rate, local, age >> /\ stream[w][k] = "sending"
    BY <1>5 DEF SendOk, StreamAwaiting
  <2>2. Books(w, 0, 0, 0, 0, 0)
    BY <1>1, <1>2, <2>1, NoBooks
  <2>3. local' = [local EXCEPT ![w][k] = @ + 0 - 0]
    BY <1>1, <2>1
  <2>4. age' \in [Workers -> [Slots -> 0 .. AgeCap]]
    BY <2>1 DEF TypeOK
  <2>5. /\ "receiving" \in InFlightAwaits /\ "receiving" \in StreamState
        /\ 0 - 0 - 0 =
             OneIf("receiving" \in InFlightAwaits) - OneIf(stream[w][k] \in InFlightAwaits)
        /\ 0 + 0 <= OneIf(stream[w][k] \in InFlightAwaits)
        /\ 0 <= local[w][k] + 0
    BY <1>1, <2>1 DEF OneIf, InFlightAwaits, StreamState
  <2>6. Effect(w, k, "receiving", 0, 0, 0, 0, 0)
    BY <1>2, <2>1, <2>2, <2>3, <2>4, <2>5 DEF Effect
  <2>7. "receiving" # "returned" /\ 0 \in {0}
    OBVIOUS
  <2>8. QED
    BY <2>5, <2>6, <2>7 DEF HasEffect
<1>6. CASE SendErr(w, k) \/ ReceiveErr(w, k)
  <2>1. PICK cs : /\ Entry(w, cs, zero, one, zero)
                  /\ StreamReturns(w, k, local[w][k], cs)
    <3>1. CASE SendErr(w, k)
      BY <1>1, <1>2, <3>1, ErrorEntries DEF SendErr
    <3>2. CASE ReceiveErr(w, k)
      BY <1>1, <1>2, <3>2, ErrorEntries DEF ReceiveErr
    <3>3. QED
      BY <1>6, <3>1, <3>2
  <2>2. zero + one = OneIf(stream[w][k] \in InFlightAwaits) /\ one = 1
    BY <1>6 DEF SendErr, ReceiveErr, StreamAwaiting, InFlightAwaits, OneIf
  <2> HIDE DEF zero, one
  <2>3. StreamReturns(w, k, local[w][k] + zero, cs)
    BY <1>3, <2>1
  <2>4. Bumps(w, 0, zero)
    BY <1>1, <1>2, <2>3, BumpsCases DEF StreamReturns, zero
  <2>5. QED
    BY <1>2, <1>3, <2>1, <2>2, <2>3, <2>4, ReturnEffect
<1>7. QED
  BY <1>4, <1>5, <1>6

\* A response that is read to the end.
LEMMA AnswerEffect ==
  ASSUME TypeOK, NEW w \in Workers, NEW k \in Slots, NEW sizes, NEW ends,
         NEW status, NEW bytes \in Nat, bytes \in sizes, Received(w, k),
         LET n  == local[w][k] + 1
             cs == Accounted(counters[w], status, bytes, age[w][k])
         IN  \/ (stop \/ 1 \in ends) /\ StreamReturns(w, k, n, cs)
             \/ ~stop /\ Issue(w, k, n, cs)
  PROVE  HasEffect(w, k, sizes, ends)
<1> DEFINE cs   == Accounted(counters[w], status, bytes, age[w][k])
           zero == 0
           one  == 1
<1>1. ControlTypeOK /\ age[w][k] \in Int
  BY TimeoutAssumption DEF TypeOK, AgeCap
<1>2. /\ responses' = [responses EXCEPT ![w] = @ + 1]
      /\ latency' = latency + Sampled(age[w][k])
      /\ worker[w] = "running" /\ TaskFrame /\ conn' = conn
      /\ stream[w][k] \in InFlightAwaits /\ stream[w][k] \notin {"none", "returned"}
  BY DEF Received, StreamAwaiting, InFlightAwaits
<1>3. Entry(w, cs, one, zero, bytes) /\ Entry(w, cs, one, 0, bytes)
  BY <1>1, <1>2, AnswerEntry
<1> HIDE DEF cs
<1>4. \/ (stop \/ one \in ends) /\ StreamReturns(w, k, local[w][k] + one, cs)
      \/ ~stop /\ Issue(w, k, local[w][k] + one, cs)
  BY DEF cs
<1>5. /\ zero \in {0, 1} /\ one \in {0, 1}
      /\ bytes \in IF one = 1 THEN sizes ELSE {0}
      /\ one + zero = OneIf(stream[w][k] \in InFlightAwaits)
      /\ one = OneIf(stream[w][k] \in InFlightAwaits)
  BY <1>2 DEF OneIf
<1> HIDE DEF zero, one
<1>6. CASE (stop \/ one \in ends) /\ StreamReturns(w, k, local[w][k] + one, cs)
  <2>1. Bumps(w, 0, one)
    BY <1>1, <1>2, <1>6, BumpsCases DEF StreamReturns, one
  <2>2. QED
    BY <1>2, <1>3, <1>5, <1>6, <2>1, ReturnEffect
<1>7. CASE ~stop /\ Issue(w, k, local[w][k] + one, cs)
  <2>1. Bumps(w, 1, one)
    BY <1>1, <1>2, <1>7, BumpsCases DEF Issue, one
  <2>2. QED
    BY <1>2, <1>3, <1>5, <1>7, <2>1, IssueEffect
<1>8. QED
  BY <1>4, <1>6, <1>7

-----------------------------------------------------------------------------
\* The effect of a step of a connection task.

\* It enters nothing in the books but a connect error.  It stops waiting for
\* its streams when all have returned, and spawns them when it starts to wait;
\* it returns for the flag or from an await in `quits`.
ConnEffect(w, c, quits) ==
  \E await \in ConnState :
    /\ Books(w, 0, 0, 0, 0, 0)
    /\ conn' = [conn EXCEPT ![w][c] = await]
    /\ UNCHANGED << local, age >>
    /\ await = "returned" => stop \/ conn[w][c] \in quits
    /\ \/ /\ await # "joining"
          /\ stream' = stream
          /\ conn[w][c] = "joining" =>
               \A k \in Slots : k[1] = c => stream[w][k] = "returned"
       \/ /\ await = "joining" /\ conn[w][c] # "joining"
          /\ stream' = [stream EXCEPT ![w] =
                          [k \in Slots |-> IF k[1] = c THEN "spawned" ELSE stream[w][k]]]

\* Reconnect is an await of the connection task.
LEMMA ReconnectType ==
  /\ Reconnect \in ConnState \ {"joining"}
  /\ Reconnect = "returned" => stop
BY DEF Reconnect, ConnState

LEMMA OpenEffect ==
  ASSUME TypeOK, NEW w \in Workers, NEW c \in Conns, NEW quits, NEW from,
         NEW to \in ConnState \ {"joining"}, from # "joining",
         to = "returned" => stop \/ from \in quits,
         ConnGoes(w, c, from, to) \/ ConnFails(w, c, from, to)
  PROVE  ConnEffect(w, c, quits)
<1>1. /\ worker[w] = "running" /\ TaskFrame /\ UNCHANGED << rate, responses, latency >>
      /\ \/ counters' = counters
         \/ counters' = [counters EXCEPT ![w].errors_connect = @ + 1]
      /\ conn' = [conn EXCEPT ![w][c] = to] /\ conn[w][c] = from
      /\ UNCHANGED << stream, local, age >>
  BY DEF ConnGoes, ConnFails, ConnMoves, ConnAwaiting
<1>2. Books(w, 0, 0, 0, 0, 0)
  BY <1>1, NoBooks DEF TypeOK
<1>3. QED
  BY <1>1, <1>2 DEF ConnEffect

LEMMA StreamsEffect ==
  ASSUME TypeOK, NEW w \in Workers, NEW c \in Conns, NEW quits,
         SpawnStreams(w, c) \/ JoinStreams(w, c)
  PROVE  ConnEffect(w, c, quits)
<1>1. /\ worker[w] = "running" /\ TaskFrame /\ UNCHANGED << rate, responses, latency >>
      /\ UNCHANGED << counters, local, age >>
  BY DEF SpawnStreams, JoinStreams, ConnGoes, ConnMoves, ConnAwaiting
<1>2. Books(w, 0, 0, 0, 0, 0)
  BY <1>1, NoBooks DEF TypeOK
<1>3. CASE SpawnStreams(w, c)
  <2>1. /\ conn' = [conn EXCEPT ![w][c] = "joining"] /\ conn[w][c] # "joining"
        /\ stream' = [stream EXCEPT ![w] =
                        [k \in Slots |-> IF k[1] = c THEN "spawned" ELSE stream[w][k]]]
    BY <1>3 DEF SpawnStreams, ConnMoves, ConnAwaiting
  <2>2. "joining" \in ConnState /\ "joining" # "returned"
    BY DEF ConnState
  <2>3. QED
    BY <1>1, <1>2, <2>1, <2>2 DEF ConnEffect
<1>4. CASE JoinStreams(w, c)
  <2>1. /\ conn' = [conn EXCEPT ![w][c] = Reconnect] /\ stream' = stream
        /\ \A k \in Slots : k[1] = c => stream[w][k] = "returned"
    BY <1>4 DEF JoinStreams, ConnGoes, ConnMoves
  <2>2. QED
    BY <1>1, <1>2, <2>1, ReconnectType DEF ConnEffect
<1>5. QED
  BY <1>3, <1>4

-----------------------------------------------------------------------------
\* The steps of a run.

\* A step of main, of a worker thread or of the clock: the tasks stay where
\* they are, or the connection tasks are created.
QuietStep ==
  /\ \/ SetStop \/ JoinWorkers \/ UNCHANGED controlVars
     \/ \E w \in Workers : RuntimeFails(w) \/ EnterRuntime(w) \/ RecordRate(w)
  /\ UNCHANGED << stream, local >>
  /\ age' \in [Workers -> [Slots -> 0 .. AgeCap]]
  /\ \/ conn' = conn /\ \A w \in Workers : worker'[w] = "spawned" => worker[w] = "spawned"
     \/ \E w \in Workers : SpawnConnections(w)

MuxStep(sizes, ends, quits) ==
  \/ QuietStep
  \/ \E w \in Workers : \/ \E c \in Conns : ConnEffect(w, c, quits)
                        \/ \E k \in Slots : HasEffect(w, k, sizes, ends)

\* The steps that H2Run and H3Run take over as they are.
LEMMA SharedSteps ==
  ASSUME TypeOK,
         \/ Stop \/ Join \/ TimePasses \/ Terminated \/ UNCHANGED vars
         \/ \E w \in Workers : StartWorker(w) \/ Tick(w)
  PROVE  QuietStep
<1>1. CASE UNCHANGED muxVars /\ (SetStop \/ JoinWorkers \/ UNCHANGED controlVars)
  BY <1>1 DEF QuietStep, muxVars, TypeOK, SetStop, JoinWorkers, controlVars
<1>2. ASSUME NEW w \in Workers, UNCHANGED muxVars, RuntimeFails(w) \/ RecordRate(w)
      PROVE  QuietStep
  <2>1. worker' = worker \/ worker' = [worker EXCEPT ![w] = "exited"]
    BY <1>2 DEF RuntimeFails, RecordRate
  <2>2. \A v \in Workers : worker'[v] = "spawned" => worker[v] = "spawned"
    BY <2>1 DEF TypeOK, ControlTypeOK
  <2>3. QED
    BY <1>2, <2>2 DEF QuietStep, muxVars, TypeOK
<1>3. ASSUME NEW w \in Workers, SpawnConnections(w) PROVE QuietStep
  BY <1>3 DEF QuietStep, SpawnConnections, TypeOK
<1>4. CASE TimePasses
  <2>1. \A w \in Workers : \A k \in Slots : age'[w][k] \in 0 .. AgeCap
    BY <1>4, TimeoutAssumption DEF TimePasses, AgeCap, TypeOK
  <2>2. age' \in [Workers -> [Slots -> 0 .. AgeCap]]
    BY <1>4, <2>1 DEF TimePasses
  <2>3. QED
    BY <1>4, <2>2 DEF TimePasses, QuietStep, controlVars
<1>5. QED
  BY <1>1, <1>2, <1>3, <1>4 DEF Stop, Join, StartWorker, Tick, Terminated, vars

-----------------------------------------------------------------------------
\* What an effect does to the invariant.

LEMMA EffectType ==
  ASSUME TypeOK, NEW w \in Workers, NEW k \in Slots, NEW sizes, NEW ends,
         HasEffect(w, k, sizes, ends)
  PROVE  TypeOK'
<1>1. PICK await \in StreamState, issue \in {0, 1}, answer \in {0, 1}, fail \in {0, 1},
           flush \in Nat, bytes \in Nat :
        Effect(w, k, await, issue, answer, fail, flush, bytes)
  BY DEF HasEffect
<1>2. ControlTypeOK'
  <2>1. issue \in Nat /\ answer \in Nat /\ fail \in Nat
    OBVIOUS
  <2>2. QED
    BY <1>1, <2>1, BooksAt DEF Effect, TypeOK
<1>3. stream' \in [Workers -> [Slots -> StreamState]] /\ conn' = conn
  BY <1>1 DEF Effect, TypeOK
<1>4. local' \in [Workers -> [Slots -> Nat]]
  <2> DEFINE held == local[w][k] + answer - flush
  <2>1. local[w][k] \in Nat /\ flush <= local[w][k] + answer
    BY <1>1 DEF Effect, TypeOK
  <2>2. held \in Nat
    BY <2>1
  <2>3. local' = [local EXCEPT ![w][k] = held]
    BY <1>1 DEF Effect
  <2> HIDE DEF held
  <2>4. QED
    BY <2>2, <2>3 DEF TypeOK
<1>5. QED
  BY <1>1, <1>2, <1>3, <1>4 DEF Effect, TypeOK

LEMMA EffectStreamsInv ==
  ASSUME TypeOK, NEW w \in Workers, NEW k \in Slots, NEW sizes, NEW ends,
         HasEffect(w, k, sizes, ends), NEW v \in Workers, StreamsInv(v)
  PROVE  StreamsInv(v)'
<1>1. PICK await \in StreamState, issue \in {0, 1}, answer \in {0, 1}, fail \in {0, 1},
           flush \in Nat, bytes \in Nat :
        Effect(w, k, await, issue, answer, fail, flush, bytes)
  BY DEF HasEffect
<1>2. Books(w, issue, answer, fail, flush, bytes) /\ ControlTypeOK
      /\ issue \in Nat /\ answer \in Nat /\ fail \in Nat
  BY <1>1 DEF Effect, TypeOK
<1>3. worker' = worker /\ worker[w] = "running" /\ conn' = conn
  BY <1>1, <1>2 DEF Effect, Books, TaskFrame
<1>4. /\ Issued(w)' = Issued(w) + issue
      /\ responses'[w] = responses[w] + answer
      /\ Failed(w)' = Failed(w) + fail
      /\ counters'[w].complete = counters[w].complete + flush
  <2>1. Entered(w, issue, answer, fail, flush, bytes)
    BY <1>2, BooksEntered
  <2>2. QED
    BY <2>1 DEF Entered
<1>5. CASE v # w
  <2>1. stream'[v] = stream[v] /\ local'[v] = local[v]
    BY <1>1, <1>5 DEF Effect, TypeOK
  <2>2. v \in Workers \ {w}
    BY <1>5
  <2>3. Issued(v)' = Issued(v) /\ Failed(v)' = Failed(v)
    BY <1>2, <2>2, BooksSettled
  <2>4. counters'[v] = counters[v] /\ responses'[v] = responses[v]
    BY <1>2, <2>2, BooksAt
  <2>5. InFlight(v)' = InFlight(v)
    BY <2>1 DEF InFlight
  <2>6. QED
    BY <1>3, <2>1, <2>3, <2>4, <2>5
    DEF StreamsInv, NotEntered, Idle, Joined, Conserved, Counted
<1>6. CASE v = w
  <2> DEFINE f == stream[w]
             g == stream'[w]
             h == local[w]
             l == local'[w]
  <2>1. /\ f \in [Slots -> StreamState] /\ h \in [Slots -> Nat] /\ l \in [Slots -> Nat]
        /\ g[k] = await /\ l[k] = h[k] + answer - flush
        /\ \A d \in Slots \ {k} : g[d] = f[d] /\ l[d] = h[d]
    <3>1. local' \in [Workers -> [Slots -> Nat]]
      BY EffectType DEF TypeOK
    <3>2. QED
      BY <1>1, <3>1 DEF Effect, TypeOK
  <2>2. NotEntered(w)'
    BY <1>3 DEF NotEntered
  <2>3. Joined(w)'
    <3>1. conn[w][k[1]] = "joining"
      BY <1>1, <1>6 DEF Effect, StreamsInv, Joined
    <3>2. \A d \in Slots \ {k} : conn[w][d[1]] # "joining" => g[d] \in {"none", "returned"}
      BY <1>6, <2>1 DEF StreamsInv, Joined
    <3>3. QED
      BY <1>3, <3>1, <3>2 DEF Joined
  <2>4. Idle(w)'
    <3>1. await \notin InFlightAwaits => flush = h[k] + answer
      BY <1>1 DEF Effect
    <3>2. await \notin InFlightAwaits => l[k] = 0
      BY <2>1, <3>1
    <3>3. \A d \in Slots : f[d] \notin InFlightAwaits => h[d] = 0
      BY <1>6 DEF StreamsInv, Idle
    <3>4. \A d \in Slots : g[d] \notin InFlightAwaits => l[d] = 0
      BY <2>1, <3>2, <3>3
    <3>5. QED
      BY <3>4 DEF Idle
  <2>5. Conserved(w)'
    <3> DEFINE now   == Cardinality(InFlight(w))
               later == Cardinality(InFlight(w)')
               leave == OneIf(f[k] \in InFlightAwaits)
               enter == OneIf(await \in InFlightAwaits)
    <3>1. /\ now = CountIn(f, Slots, InFlightAwaits)
          /\ later = CountIn(g, Slots, InFlightAwaits)
      BY DEF InFlight, InFlightAwaits, CountIn
    <3>2. /\ CountIn(f, Slots, InFlightAwaits) \in Nat
          /\ CountIn(g, Slots, InFlightAwaits) = CountIn(f, Slots, InFlightAwaits)
               + OneIf(g[k] \in InFlightAwaits) - OneIf(f[k] \in InFlightAwaits)
      <4>1. \A d \in Slots \ {k} : g[d] = f[d]
        BY <2>1
      <4> HIDE DEF f, g
      <4>2. QED
        BY <4>1, SlotsFinite, CountMove DEF OneIf
    <3>3. now \in Nat /\ later = now + enter - leave
      BY <2>1, <3>1, <3>2
    <3>4. Issued(w) = responses[w] + Failed(w) + now
      BY <1>6 DEF StreamsInv, Conserved
    <3>5. issue - answer - fail = enter - leave
      BY <1>1 DEF Effect
    <3>6. /\ Issued(w) \in Nat /\ Failed(w) \in Nat /\ responses[w] \in Nat
          /\ enter \in Int /\ leave \in Int
      <4>1. Issued(w) \in Nat /\ Failed(w) \in Nat
        BY <1>2, BooksSettled
      <4>2. responses[w] \in Nat
        BY <1>2 DEF ControlTypeOK
      <4>3. enter \in Int /\ leave \in Int
        BY DEF OneIf
      <4>4. QED
        BY <4>1, <4>2, <4>3
    <3> HIDE DEF now, later, enter, leave
    <3>7. Issued(w)' = responses'[w] + Failed(w)' + later
      BY <1>4, <3>3, <3>4, <3>5, <3>6
    <3>8. QED
      BY <3>7 DEF Conserved, later
  <2>6. Counted(w)'
    <3> HIDE DEF h, l
    <3>1. Total(l) = Total(h) - h[k] + l[k] /\ Total(h) \in Int /\ Total(l) \in Int
      <4>1. h \in [Slots -> Int] /\ l \in [Slots -> Int]
        BY <2>1
      <4>2. \A d \in Slots \ {k} : l[d] = h[d]
        BY <2>1
      <4>3. QED
        BY <4>1, <4>2, SlotsFinite, TotalChange, TotalType
    <3>2. responses[w] = counters[w].complete + Total(h)
      BY <1>6 DEF StreamsInv, Counted, h
    <3>3. responses[w] \in Nat /\ counters[w].complete \in Nat /\ h[k] \in Nat
      BY <1>2, <2>1 DEF ControlTypeOK, CounterSnapshot
    <3>4. responses'[w] = counters'[w].complete + Total(l)
      BY <1>4, <2>1, <3>1, <3>2, <3>3
    <3>5. QED
      BY <3>4 DEF Counted, l
  <2>7. QED
    BY <1>6, <2>2, <2>3, <2>4, <2>5, <2>6 DEF StreamsInv
<1>7. QED
  BY <1>5, <1>6

\* A step of a connection task issues, answers and fails nothing, and leaves
\* no stream behind.
LEMMA ConnEffectInv ==
  ASSUME TypeOK, NEW w \in Workers, NEW c \in Conns, NEW quits,
         ConnEffect(w, c, quits), \A v \in Workers : StreamsInv(v)
  PROVE  TypeOK' /\ \A v \in Workers : StreamsInv(v)'
<1>1. PICK await \in ConnState :
        /\ Books(w, 0, 0, 0, 0, 0)
        /\ conn' = [conn EXCEPT ![w][c] = await]
        /\ UNCHANGED << local, age >>
        /\ \/ /\ await # "joining"
              /\ stream' = stream
              /\ conn[w][c] = "joining" =>
                   \A k \in Slots : k[1] = c => stream[w][k] = "returned"
           \/ /\ await = "joining" /\ conn[w][c] # "joining"
              /\ stream' = [stream EXCEPT ![w] =
                              [k \in Slots |-> IF k[1] = c THEN "spawned" ELSE stream[w][k]]]
  BY DEF ConnEffect
<1>2. /\ ControlTypeOK'
      /\ \A v \in Workers :
           /\ Issued(v)' = Issued(v) /\ Failed(v)' = Failed(v)
           /\ responses'[v] = responses[v]
           /\ counters'[v].complete = counters[v].complete
  <2> DEFINE zero == 0
  <2>1. Books(w, zero, zero, zero, zero, zero) /\ zero \in Nat /\ zero = 0
    BY <1>1
  <2> HIDE DEF zero
  <2>2. ControlTypeOK
    BY DEF TypeOK
  <2>3. /\ ControlTypeOK'
        /\ \A v \in Workers \ {w} : counters'[v] = counters[v] /\ responses'[v] = responses[v]
        /\ responses'[w] = responses[w] + zero
        /\ counters'[w].complete = counters[w].complete + zero
    BY <2>1, <2>2, BooksAt
  <2>4. /\ \A v \in Workers : Issued(v) \in Nat /\ Failed(v) \in Nat
        /\ \A v \in Workers \ {w} : Issued(v)' = Issued(v) /\ Failed(v)' = Failed(v)
        /\ Issued(w)' = Issued(w) + zero
        /\ Failed(w)' = Failed(w) + zero
    BY <2>1, <2>2, BooksSettled
  <2>5. responses[w] \in Nat /\ counters[w].complete \in Nat
    BY <2>2 DEF ControlTypeOK, CounterSnapshot
  <2>6. QED
    BY <2>1, <2>3, <2>4, <2>5
<1>3. TypeOK'
  <2>1. conn' \in [Workers -> [Conns -> ConnState]]
    BY <1>1 DEF TypeOK
  <2>2. stream' \in [Workers -> [Slots -> StreamState]]
    <3> DEFINE g == [k \in Slots |-> IF k[1] = c THEN "spawned" ELSE stream[w][k]]
    <3>1. g \in [Slots -> StreamState]
      BY DEF TypeOK, StreamState
    <3>2. stream' = stream \/ stream' = [stream EXCEPT ![w] = g]
      BY <1>1
    <3> HIDE DEF g
    <3>3. QED
      BY <3>1, <3>2 DEF TypeOK
  <2>3. QED
    BY <1>1, <1>2, <2>1, <2>2 DEF TypeOK
<1>4. worker' = worker /\ worker[w] = "running"
  BY <1>1 DEF Books, TaskFrame
<1>5. ASSUME NEW v \in Workers
      PROVE  NotEntered(v)' /\ Idle(v)' /\ Joined(v)' /\ InFlight(v)' = InFlight(v)
  <2>1. CASE v # w
    <3>1. conn'[v] = conn[v] /\ stream'[v] = stream[v] /\ local'[v] = local[v]
      BY <1>1, <2>1 DEF TypeOK
    <3>2. QED
      BY <1>4, <3>1 DEF StreamsInv, NotEntered, Idle, Joined, InFlight
  <2>2. CASE v = w
    <3>1. /\ conn'[w][c] = await /\ \A d \in Conns \ {c} : conn'[w][d] = conn[w][d]
          /\ local' = local
      BY <1>1 DEF TypeOK
    <3>2. NotEntered(w)'
      BY <1>4 DEF NotEntered
    <3>3. Idle(w) /\ Joined(w) /\ \A k \in Slots : k[1] \in Conns
      BY SlotConn DEF StreamsInv
    <3>4. CASE stream' = stream /\ await # "joining"
      <4>1. InFlight(w)' = InFlight(w) /\ Idle(w)'
        BY <3>1, <3>3, <3>4 DEF InFlight, Idle
      <4>2. \A k \in Slots : k[1] = c => stream[w][k] \in {"none", "returned"}
        BY <1>1, <3>3, <3>4 DEF Joined
      <4>3. Joined(w)'
        BY <3>1, <3>3, <3>4, <4>2 DEF Joined
      <4>4. QED
        BY <2>2, <3>2, <4>1, <4>3
    <3>5. CASE /\ await = "joining" /\ conn[w][c] # "joining"
               /\ stream' = [stream EXCEPT ![w] =
                               [k \in Slots |-> IF k[1] = c THEN "spawned" ELSE stream[w][k]]]
      <4>1. \A k \in Slots :
              stream'[w][k] = IF k[1] = c THEN "spawned" ELSE stream[w][k]
        BY <3>5 DEF TypeOK
      <4>2. \A k \in Slots : k[1] = c => stream[w][k] \in {"none", "returned"}
        BY <3>3, <3>5 DEF Joined
      <4>3. \A k \in Slots : stream'[w][k] \in InFlightAwaits <=> stream[w][k] \in InFlightAwaits
        BY <4>1, <4>2 DEF InFlightAwaits
      <4>4. InFlight(w)' = InFlight(w) /\ Idle(w)'
        BY <3>1, <3>3, <4>3 DEF InFlight, InFlightAwaits, Idle
      <4>5. Joined(w)'
        BY <3>1, <3>3, <3>5, <4>1 DEF Joined
      <4>6. QED
        BY <2>2, <3>2, <4>4, <4>5
    <3>6. QED
      BY <1>1, <3>4, <3>5
  <2>3. QED
    BY <2>1, <2>2
<1>6. \A v \in Workers : Conserved(v)' /\ Counted(v)'
  BY <1>1, <1>2, <1>5 DEF StreamsInv, Conserved, Counted
<1>7. QED
  BY <1>3, <1>5, <1>6 DEF StreamsInv

LEMMA QuietStepInv == ASSUME MuxInv, QuietStep PROVE MuxInv'
<1>1. /\ TypeOK /\ ControlInv /\ ControlTypeOK
      /\ \A w \in Workers : StreamsInv(w)
  BY DEF MuxInv, TypeOK
<1>2. ControlInv' /\ ControlTypeOK'
  <2>1. ControlInv'
    BY <1>1, ControlStepInv DEF QuietStep
  <2>2. QED
    BY <2>1 DEF ControlInv
<1>3. TypeOK'
  <2>1. /\ stream' = stream /\ local' = local
        /\ age' \in [Workers -> [Slots -> 0 .. AgeCap]]
    BY DEF QuietStep
  <2>2. conn' = conn \/ \E w \in Workers :
                          conn' = [conn EXCEPT ![w] = [c \in Conns |-> "spawned"]]
    BY DEF QuietStep, SpawnConnections
  <2>3. conn' \in [Workers -> [Conns -> ConnState]]
    BY <1>1, <2>2 DEF TypeOK, ConnState
  <2>4. QED
    BY <1>1, <1>2, <2>1, <2>3 DEF TypeOK
<1>4. \A w \in Workers : /\ Issued(w)' = Issued(w) /\ Failed(w)' = Failed(w)
                         /\ counters' = counters /\ responses' = responses
  BY <1>1, ControlStepSettled DEF QuietStep
<1>5. \A w \in Workers : InFlight(w)' = InFlight(w) /\ Idle(w)'
  BY <1>1 DEF QuietStep, StreamsInv, InFlight, Idle
<1>6. \A w \in Workers : NotEntered(w)' /\ Joined(w)'
  <2>1. CASE conn' = conn /\ \A w \in Workers : worker'[w] = "spawned" => worker[w] = "spawned"
    BY <1>1, <2>1 DEF QuietStep, StreamsInv, NotEntered, Joined
  <2>2. ASSUME NEW v \in Workers, SpawnConnections(v)
        PROVE  \A w \in Workers : NotEntered(w)' /\ Joined(w)'
    <3>1. /\ worker[v] = "spawned" /\ worker' = [worker EXCEPT ![v] = "running"]
          /\ conn' = [conn EXCEPT ![v] = [c \in Conns |-> "spawned"]]
          /\ stream' = stream
      BY <2>2 DEF SpawnConnections, EnterRuntime
    <3>2. \A k \in Slots : stream[v][k] \in {"none", "returned"}
      BY <1>1, <3>1, SlotConn DEF StreamsInv, NotEntered, Joined
    <3>3. worker'[v] = "running" /\ \A w \in Workers \ {v} :
            conn'[w] = conn[w] /\ worker'[w] = worker[w]
      BY <1>1, <3>1 DEF TypeOK, ControlTypeOK
    <3>4. QED
      BY <1>1, <3>1, <3>2, <3>3 DEF StreamsInv, NotEntered, Joined
  <2>3. QED
    BY <2>1, <2>2 DEF QuietStep
<1>7. \A w \in Workers : Conserved(w)' /\ Counted(w)'
  BY <1>1, <1>4, <1>5 DEF StreamsInv, Conserved, Counted, QuietStep
<1>8. QED
  BY <1>2, <1>3, <1>5, <1>6, <1>7 DEF MuxInv, StreamsInv

-----------------------------------------------------------------------------
\* The inductive invariant.

LEMMA InitMuxInv == Init => MuxInv
<1> SUFFICES ASSUME Init PROVE MuxInv
  OBVIOUS
<1>1. ControlInv
  BY ControlInitInv DEF Init
<1>2. TypeOK
  BY <1>1, TimeoutAssumption DEF Init, TypeOK, ControlInv, ConnState, StreamState, AgeCap
<1>3. ASSUME NEW w \in Workers PROVE StreamsInv(w)
  <2>1. NotEntered(w) /\ Idle(w) /\ Joined(w)
    BY DEF Init, NotEntered, Idle, Joined
  <2>2. InFlight(w) = {}
    BY DEF Init, InFlight
  <2>3. /\ Issued(w) = 0 /\ responses[w] = 0 /\ Failed(w) = 0
        /\ counters[w].complete = 0
    BY DEF Init, ControlInit, ZeroCounters, Issued, Failed
  <2>4. Total(local[w]) = 0
    <3>1. local[w] \in [Slots -> Int] /\ \A k \in Slots : local[w][k] = 0
      BY DEF Init
    <3>2. QED
      BY <3>1, SlotsFinite, TotalZero
  <2>5. Conserved(w)
    BY <2>2, <2>3, FS_EmptySet DEF Conserved
  <2>6. Counted(w)
    BY <2>3, <2>4 DEF Counted
  <2>7. QED
    BY <2>1, <2>5, <2>6 DEF StreamsInv
<1>4. QED
  BY <1>1, <1>2, <1>3 DEF MuxInv

\* The books that a step of a task keeps.
LEMMA TaskBooks ==
  ASSUME NEW w \in Workers, NEW sizes, NEW ends, NEW quits,
         \/ \E c \in Conns : ConnEffect(w, c, quits)
         \/ \E k \in Slots : HasEffect(w, k, sizes, ends)
  PROVE  \E issue, answer, fail \in {0, 1}, flush, bytes \in Nat :
           /\ Books(w, issue, answer, fail, flush, bytes)
           /\ bytes \in IF answer = 1 THEN sizes ELSE {0}
           /\ answer + fail <= 1
           /\ answer + fail = 1 => \E k \in Slots : stream[w][k] \in InFlightAwaits
<1>1. CASE \E c \in Conns : ConnEffect(w, c, quits)
  <2>1. Books(w, 0, 0, 0, 0, 0) /\ 0 \in {0} /\ 0 + 0 <= 1 /\ 0 + 0 # 1
    BY <1>1 DEF ConnEffect
  <2>2. QED
    BY <2>1
<1>2. ASSUME NEW k \in Slots, HasEffect(w, k, sizes, ends)
      PROVE  \E issue, answer, fail \in {0, 1}, flush, bytes \in Nat :
               /\ Books(w, issue, answer, fail, flush, bytes)
               /\ bytes \in IF answer = 1 THEN sizes ELSE {0}
               /\ answer + fail <= 1
               /\ answer + fail = 1 => \E d \in Slots : stream[w][d] \in InFlightAwaits
  <2>1. PICK await \in StreamState, issue \in {0, 1}, answer \in {0, 1}, fail \in {0, 1},
             flush \in Nat, bytes \in Nat :
          /\ Effect(w, k, await, issue, answer, fail, flush, bytes)
          /\ bytes \in IF answer = 1 THEN sizes ELSE {0}
    BY <1>2 DEF HasEffect
  <2>2. /\ Books(w, issue, answer, fail, flush, bytes)
        /\ answer + fail <= OneIf(stream[w][k] \in InFlightAwaits)
    BY <2>1 DEF Effect
  <2>3. answer + fail <= 1 /\ (answer + fail = 1 => stream[w][k] \in InFlightAwaits)
    BY <2>2 DEF OneIf
  <2>4. QED
    BY <2>1, <2>2, <2>3
<1>3. QED
  BY <1>1, <1>2

\* Every step keeps the invariant.
LEMMA MuxStepInv ==
  ASSUME MuxInv, NEW sizes, NEW ends, NEW quits, MuxStep(sizes, ends, quits)
  PROVE  MuxInv'
<1>1. TypeOK /\ ControlInv /\ \A v \in Workers : StreamsInv(v)
  BY DEF MuxInv
<1>2. ASSUME NEW w \in Workers,
             \/ \E c \in Conns : ConnEffect(w, c, quits)
             \/ \E k \in Slots : HasEffect(w, k, sizes, ends)
      PROVE  MuxInv'
  <2>1. TypeOK' /\ \A v \in Workers : StreamsInv(v)'
    BY <1>1, <1>2, EffectType, EffectStreamsInv, ConnEffectInv
  <2>2. ControlInv'
    <3>1. PICK issue \in {0, 1}, answer \in {0, 1}, fail \in {0, 1}, flush \in Nat,
               bytes \in Nat : Books(w, issue, answer, fail, flush, bytes)
      BY <1>2, TaskBooks
    <3>2. issue \in Nat /\ answer \in Nat /\ fail \in Nat
      OBVIOUS
    <3>3. QED
      BY <1>1, <3>1, <3>2, BooksControl
  <2>3. QED
    BY <2>1, <2>2 DEF MuxInv
<1>3. QED
  BY <1>2, QuietStepInv DEF MuxStep

-----------------------------------------------------------------------------
\* What the theorems of MuxProtocolProofs take from the invariant.

LEMMA InvariantFacts ==
  ASSUME MuxInv
  PROVE  /\ TypeOK /\ RequestsConserved /\ RateDrained /\ EveryResponseCounted
         /\ SampledOrTimedOut /\ StreamsJoined
<1>1. RequestsConserved /\ EveryResponseCounted
  BY DEF MuxInv, StreamsInv, Conserved, Counted, RequestsConserved, EveryResponseCounted
<1>2. StreamsJoined
  BY DEF MuxInv, StreamsInv, Joined, Idle, InFlightAwaits, StreamsJoined
<1>3. QED
  BY <1>1, <1>2 DEF MuxInv, ControlInv, WorkerInv, RateDrained

\* No step issues a request once the flag is set.
LEMMA MuxStepAfterStop ==
  ASSUME MuxInv, stop, NEW sizes, NEW ends, NEW quits, MuxStep(sizes, ends, quits)
  PROVE  \A v \in Workers : Issued(v)' = Issued(v)
<1>1. ControlTypeOK
  BY DEF MuxInv, TypeOK
<1>2. ASSUME NEW w \in Workers,
             \/ \E c \in Conns : ConnEffect(w, c, quits)
             \/ \E k \in Slots : HasEffect(w, k, sizes, ends)
      PROVE  \A v \in Workers : Issued(v)' = Issued(v)
  <2>1. PICK issue \in {0, 1}, answer \in {0, 1}, fail \in {0, 1}, flush \in Nat,
             bytes \in Nat : Books(w, issue, answer, fail, flush, bytes)
    BY <1>2, TaskBooks
  <2>2. answer \in Nat /\ fail \in Nat
    OBVIOUS
  <2>3. QED
    BY <1>1, <2>1, <2>2, BooksAfterStop
<1>3. CASE QuietStep
  BY <1>1, <1>3, ControlStepSettled DEF QuietStep
<1>4. QED
  BY <1>2, <1>3 DEF MuxStep

\* Every step is a step of the promise.
LEMMA MuxStepPromise ==
  ASSUME MuxInv, NEW sizes, NEW ends, NEW quits, MuxStep(sizes, ends, quits)
  PROVE  [Promise!Next]_(Promise!promiseVars)
<1>1. /\ TypeOK /\ ControlTypeOK /\ ControlInv
      /\ \A w \in Workers : Conserved(w) /\ Counted(w)
  BY DEF MuxInv, TypeOK, StreamsInv
<1>2. ASSUME NEW w \in Workers
      PROVE  /\ SettledInv(w)
             /\ (\E k \in Slots : stream[w][k] \in InFlightAwaits) => Settled(w) < Issued(w)
  <2> DEFINE now == Cardinality(InFlight(w))
  <2>1. IsFiniteSet(InFlight(w)) /\ now \in Nat
    BY SlotsFinite, FS_Subset, FS_CardinalityType DEF InFlight
  <2>2. (\E k \in Slots : stream[w][k] \in InFlightAwaits) => now # 0
    BY <2>1, FS_EmptySet DEF InFlight, InFlightAwaits
  <2>3. Issued(w) = responses[w] + Failed(w) + now
    BY <1>1 DEF Conserved
  <2>4. responses[w] \in Nat /\ Failed(w) \in Nat /\ counters[w].complete \in Nat
    BY <1>1 DEF ControlTypeOK, CounterSnapshot, Failed
  <2> HIDE DEF now
  <2>5. /\ Settled(w) <= Issued(w)
        /\ (\E k \in Slots : stream[w][k] \in InFlightAwaits) => Settled(w) < Issued(w)
    BY <2>1, <2>2, <2>3, <2>4 DEF Settled
  <2>6. counters[w].complete <= responses[w]
    <3>1. Total(local[w]) \in Nat
      BY <1>1, SlotsFinite, TotalType DEF TypeOK
    <3>2. responses[w] = counters[w].complete + Total(local[w])
      BY <1>1 DEF Counted
    <3>3. QED
      BY <2>4, <3>1, <3>2
  <2>7. QED
    BY <2>5, <2>6 DEF SettledInv
<1>3. ASSUME NEW w \in Workers,
             \/ \E c \in Conns : ConnEffect(w, c, quits)
             \/ \E k \in Slots : HasEffect(w, k, sizes, ends)
      PROVE  Promise!Progress
  <2>1. PICK issue \in {0, 1}, answer \in {0, 1}, fail \in {0, 1}, flush \in Nat,
             bytes \in Nat :
          /\ Books(w, issue, answer, fail, flush, bytes)
          /\ answer + fail <= 1
          /\ answer + fail = 1 => \E k \in Slots : stream[w][k] \in InFlightAwaits
    BY <1>3, TaskBooks
  <2>2. answer + fail = 1 => Settled(w) < Issued(w)
    BY <1>2, <2>1
  <2>3. QED
    BY <1>1, <1>2, <2>1, <2>2, BooksPromise
<1>4. CASE QuietStep
  BY <1>1, <1>2, <1>4, ControlStepPromise DEF QuietStep
<1>5. QED
  BY <1>3, <1>4 DEF MuxStep, Promise!Next

\* A connection task returns for the flag, or from an await in `quits`.
LEMMA MuxStepConnReturns ==
  ASSUME MuxInv, NEW sizes, NEW ends, NEW quits, MuxStep(sizes, ends, quits),
         NEW w \in Workers, NEW c \in Conns,
         conn'[w][c] = "returned", conn[w][c] # "returned"
  PROVE  stop \/ conn[w][c] \in quits
<1>1. TypeOK
  BY DEF MuxInv
<1>2. ASSUME NEW v \in Workers, NEW d \in Conns, ConnEffect(v, d, quits)
      PROVE  stop \/ conn[w][c] \in quits
  <2>1. PICK await \in ConnState :
          /\ conn' = [conn EXCEPT ![v][d] = await]
          /\ await = "returned" => stop \/ conn[v][d] \in quits
    BY <1>2 DEF ConnEffect
  <2>2. QED
    BY <1>1, <2>1 DEF TypeOK
<1>3. ASSUME NEW v \in Workers, NEW k \in Slots, HasEffect(v, k, sizes, ends)
      PROVE  FALSE
  BY <1>3 DEF HasEffect, Effect
<1>4. CASE QuietStep
  <2>1. ASSUME NEW v \in Workers, SpawnConnections(v) PROVE FALSE
    BY <1>1, <2>1 DEF SpawnConnections, TypeOK
  <2>2. QED
    BY <1>4, <2>1 DEF QuietStep
<1>5. QED
  BY <1>2, <1>3, <1>4 DEF MuxStep

\* If no answer may end a stream, a stream returns for the flag or with an
\* error that is counted.
LEMMA MuxStepStreamEnds ==
  ASSUME MuxInv, NEW sizes, NEW quits, MuxStep(sizes, {}, quits),
         NEW w \in Workers, NEW k \in Slots,
         stream'[w][k] = "returned", stream[w][k] # "returned"
  PROVE  stop \/ Failed(w)' > Failed(w)
<1>1. TypeOK /\ ControlTypeOK
  BY DEF MuxInv, TypeOK
<1>2. ASSUME NEW v \in Workers, NEW d \in Slots, HasEffect(v, d, sizes, {})
      PROVE  stop \/ Failed(w)' > Failed(w)
  <2>1. PICK await \in StreamState, issue \in {0, 1}, answer \in {0, 1}, fail \in {0, 1},
             flush \in Nat, bytes \in Nat :
          /\ Effect(v, d, await, issue, answer, fail, flush, bytes)
          /\ await = "returned" => stop \/ fail = 1
    BY <1>2 DEF HasEffect
  <2>2. /\ Books(v, issue, answer, fail, flush, bytes)
        /\ w = v /\ (stop \/ fail = 1)
    BY <1>1, <2>1 DEF Effect, TypeOK
  <2>3. issue \in Nat /\ answer \in Nat /\ fail \in Nat
    OBVIOUS
  <2>4. Failed(v) \in Nat /\ Failed(v)' = Failed(v) + fail
    BY <1>1, <2>2, <2>3, BooksSettled
  <2>5. QED
    BY <2>2, <2>4
<1>3. ASSUME NEW v \in Workers, NEW c \in Conns, ConnEffect(v, c, quits)
      PROVE  FALSE
  <2> DEFINE g == [d \in Slots |-> IF d[1] = c THEN "spawned" ELSE stream[v][d]]
  <2>1. stream' = stream \/ stream' = [stream EXCEPT ![v] = g]
    BY <1>3 DEF ConnEffect
  <2>2. g[k] = "spawned" \/ g[k] = stream[v][k]
    OBVIOUS
  <2> HIDE DEF g
  <2>3. QED
    BY <1>1, <2>1, <2>2 DEF TypeOK
<1>4. CASE QuietStep
  BY <1>4 DEF QuietStep
<1>5. QED
  BY <1>2, <1>3, <1>4 DEF MuxStep

\* If every response counts for its bytes, the bytes follow the responses.
LEMMA MuxStepBytes ==
  ASSUME MuxInv, EveryByteCounted, NEW ends, NEW quits,
         MuxStep({ResponseSize}, ends, quits)
  PROVE  EveryByteCounted'
<1>1. ControlTypeOK
  BY DEF MuxInv, TypeOK
<1>2. ASSUME NEW w \in Workers, NEW v \in Workers,
             \/ \E c \in Conns : ConnEffect(w, c, quits)
             \/ \E k \in Slots : HasEffect(w, k, {ResponseSize}, ends)
      PROVE  counters'[v].bytes = ResponseSize * responses'[v]
  <2>1. PICK issue \in {0, 1}, answer \in {0, 1}, fail \in {0, 1}, flush \in Nat,
             bytes \in Nat :
          /\ Books(w, issue, answer, fail, flush, bytes)
          /\ bytes \in IF answer = 1 THEN {ResponseSize} ELSE {0}
    BY <1>2, TaskBooks
  <2>2. issue \in Nat /\ answer \in Nat /\ fail \in Nat
    OBVIOUS
  <2>3. CASE v # w
    <3>1. counters'[v] = counters[v] /\ responses'[v] = responses[v]
      BY <1>1, <2>1, <2>2, <2>3, BooksAt
    <3>2. QED
      BY <3>1 DEF EveryByteCounted
  <2>4. CASE v = w
    <3>1. /\ responses'[w] = responses[w] + answer
          /\ counters'[w].bytes = counters[w].bytes + bytes
      BY <1>1, <2>1, <2>2, BooksAt
    <3>2. counters[w].bytes = ResponseSize * responses[w]
      BY DEF EveryByteCounted
    <3>3. responses[w] \in Nat
      BY <1>1 DEF ControlTypeOK
    <3>4. \/ answer = 0 /\ bytes = 0
          \/ answer = 1 /\ bytes = ResponseSize
      BY <2>1
    <3>5. counters'[w].bytes = ResponseSize * responses'[w]
      BY <3>1, <3>2, <3>3, <3>4, ResponseSizeAssumption
    <3>6. QED
      BY <2>4, <3>5
  <2>5. QED
    BY <2>3, <2>4
<1>3. CASE QuietStep
  <2>1. UNCHANGED << counters, responses >>
    BY <1>1, <1>3
    DEF QuietStep, SetStop, JoinWorkers, RuntimeFails, EnterRuntime, RecordRate, controlVars
  <2>2. QED
    BY <2>1 DEF EveryByteCounted
<1>4. QED
  BY <1>2, <1>3 DEF MuxStep, EveryByteCounted
=============================================================================
