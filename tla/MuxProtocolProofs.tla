------------------------- MODULE MuxProtocolProofs -------------------------
(***************************************************************************)
(* Theorems about HTTP/2 and HTTP/3 runs, for every number of threads,     *)
(* connections and streams, every timeout and every bound.  The steps of   *)
(* both are steps of MuxRunProofs, with other parameters: which bytes a    *)
(* response may be counted with, what may end a stream, and at which await *)
(* a connection task may give up.                                          *)
(***************************************************************************)
EXTENDS H2Run, H3Run, MuxRunProofs

-----------------------------------------------------------------------------
\* HTTP/2: every response counts for its bytes, a late one may end its
\* stream, and no await makes a connection task give up.

H2Step == MuxStep({ResponseSize}, {1}, {})

LEMMA H2ConnSteps ==
  ASSUME TypeOK, NEW w \in Workers, NEW c \in Conns, H2ConnStep(w, c)
  PROVE  ConnEffect(w, c, {})
<1>1. CASE SpawnStreams(w, c) \/ JoinStreams(w, c)
  BY <1>1, StreamsEffect
<1>2. CASE ~(SpawnStreams(w, c) \/ JoinStreams(w, c))
  <2>1. PICK from \in ConnState \ {"joining"}, to \in ConnState \ {"joining"} :
          /\ to = "returned" => stop
          /\ ConnGoes(w, c, from, to) \/ ConnFails(w, c, from, to)
    <3>1. /\ {"spawned", "connecting", "backoff", "securing", "handshaking"}
               \subseteq ConnState \ {"joining"}
          /\ "securing" # "returned" /\ "backoff" # "returned" /\ "handshaking" # "returned"
      BY DEF ConnState
    <3>2. QED
      BY <1>2, <3>1, ReconnectType DEF H2ConnStep
  <2>2. QED
    BY <2>1, OpenEffect
<1>3. QED
  BY <1>1, <1>2

LEMMA H2StreamSteps ==
  ASSUME TypeOK, NEW w \in Workers, NEW k \in Slots, Idle(w), H2StreamStep(w, k)
  PROVE  HasEffect(w, k, {ResponseSize}, {1})
<1>1. ASSUME NEW status \in Statuses, H2Answered(w, k, status)
      PROVE  HasEffect(w, k, {ResponseSize}, {1})
  BY <1>1, AnswerEffect, ResponseSizeAssumption DEF H2Answered, NextRequest
<1>2. QED
  BY <1>1, StreamEffects DEF H2StreamStep

LEMMA H2NextSteps == MuxInv /\ [H2Next]_vars => H2Step
<1> SUFFICES ASSUME MuxInv, [H2Next]_vars PROVE H2Step
  OBVIOUS
<1>1. TypeOK /\ \A w \in Workers : Idle(w)
  BY DEF MuxInv, StreamsInv
<1>2. QED
  BY <1>1, SharedSteps, H2ConnSteps, H2StreamSteps DEF H2Next, H2Step, MuxStep

\* EveryByteCounted is inductive beside the invariant.
H2IInv == MuxInv /\ EveryByteCounted

LEMMA H2InvariantHolds == H2Spec => []H2IInv
<1>1. Init => H2IInv
  BY InitMuxInv, ResponseSizeAssumption
  DEF H2IInv, Init, ControlInit, ZeroCounters, EveryByteCounted
<1>2. H2IInv /\ [H2Next]_vars => H2IInv'
  BY H2NextSteps, MuxStepInv, MuxStepBytes DEF H2IInv, H2Step
<1>3. QED
  BY <1>1, <1>2, PTL DEF H2Spec

\* The variables of an HTTP/2 run always have their types.
THEOREM H2TypeCorrect == H2Spec => []TypeOK
<1>1. H2IInv => TypeOK
  BY DEF H2IInv, MuxInv
<1>2. QED
  BY <1>1, H2InvariantHolds, PTL

\* No request is lost or counted twice, over all streams of all connections
\* and across reconnects, and no request is left out of the rate samples.
THEOREM H2RequestAccounting == H2Spec => [](RequestsConserved /\ RateDrained)
<1>1. H2IInv => RequestsConserved /\ RateDrained
  BY InvariantFacts DEF H2IInv
<1>2. QED
  BY <1>1, H2InvariantHolds, PTL

\* No way out of a stream task loses a response that was read, or its bytes.
THEOREM H2ResponseAccounting == H2Spec => [](EveryResponseCounted /\ EveryByteCounted)
<1>1. H2IInv => EveryResponseCounted /\ EveryByteCounted
  BY InvariantFacts DEF H2IInv
<1>2. QED
  BY <1>1, H2InvariantHolds, PTL

\* Every response is a latency sample or a timeout error, and not both.
THEOREM H2LatencyAccounting == H2Spec => []SampledOrTimedOut
<1>1. H2IInv => SampledOrTimedOut
  BY InvariantFacts DEF H2IInv
<1>2. QED
  BY <1>1, H2InvariantHolds, PTL

\* A connection task that is not waiting for its streams has none that is in
\* the request loop: a reconnect leaves no stream of the old connection behind.
THEOREM H2NoStreamLeftBehind == H2Spec => []StreamsJoined
<1>1. H2IInv => StreamsJoined
  BY InvariantFacts DEF H2IInv
<1>2. QED
  BY <1>1, H2InvariantHolds, PTL

\* No request is issued once the flag is set, on any stream.
THEOREM H2NothingIssuedAfterStop == H2Spec => NoIssueAfterStop
<1>1. H2IInv /\ [H2Next]_vars =>
        [stop => \A w \in Workers : Issued(w)' = Issued(w)]_controlVars
  BY H2NextSteps, MuxStepAfterStop DEF H2IInv, H2Step
<1>2. QED
  BY <1>1, H2InvariantHolds, PTL DEF H2Spec, NoIssueAfterStop

\* A connection task gives up only because the run is over, whichever of the
\* three awaits of opening a connection fails.
THEOREM H2ConnsReturnOnlyOnStop == H2Spec => ConnReturnsOnlyOnStop
<1>1. H2IInv /\ [H2Next]_vars =>
        [\A w \in Workers : \A c \in Conns :
           conn'[w][c] = "returned" /\ conn[w][c] # "returned" => stop]_vars
  BY H2NextSteps, MuxStepConnReturns DEF H2IInv, H2Step
<1>2. QED
  BY <1>1, H2InvariantHolds, PTL DEF H2Spec, ConnReturnsOnlyOnStop

\* An HTTP/2 run implements the safety part of RunPromise.
THEOREM H2KeepsPromise == H2Spec => Promise!Safety
<1>1. Init => Promise!Init
  BY PromiseInit DEF Init
<1>2. H2IInv /\ [H2Next]_vars => [Promise!Next]_(Promise!promiseVars)
  BY H2NextSteps, MuxStepPromise DEF H2IInv, H2Step
<1>3. QED
  BY <1>1, <1>2, H2InvariantHolds, PTL DEF H2Spec, Promise!Safety

-----------------------------------------------------------------------------
\* HTTP/3: the bytes of a response are counted or not, no answer ends a
\* stream, and a connection task may give up when the name is resolved.

H3Step == MuxStep({0, ResponseSize}, {}, {"resolving"})

LEMMA H3ConnSteps ==
  ASSUME TypeOK, NEW w \in Workers, NEW c \in Conns, H3ConnStep(w, c)
  PROVE  ConnEffect(w, c, {"resolving"})
<1>1. CASE SpawnStreams(w, c) \/ JoinStreams(w, c)
  BY <1>1, StreamsEffect
<1>2. CASE ~(SpawnStreams(w, c) \/ JoinStreams(w, c))
  <2>1. PICK from \in ConnState \ {"joining"}, to \in ConnState \ {"joining"} :
          /\ to = "returned" => stop \/ from = "resolving"
          /\ ConnGoes(w, c, from, to) \/ ConnFails(w, c, from, to)
    <3>1. /\ {"spawned", "resolving", "connecting", "backoff", "handshaking", "returned"}
               \subseteq ConnState \ {"joining"}
          /\ "resolving" # "returned" /\ "backoff" # "returned" /\ "handshaking" # "returned"
      BY DEF ConnState
    <3>2. QED
      BY <1>2, <3>1, ReconnectType DEF H3ConnStep
  <2>2. QED
    BY <2>1, OpenEffect
<1>3. QED
  BY <1>1, <1>2

LEMMA H3StreamSteps ==
  ASSUME TypeOK, NEW w \in Workers, NEW k \in Slots, Idle(w), H3StreamStep(w, k)
  PROVE  HasEffect(w, k, {0, ResponseSize}, {})
<1>1. ASSUME NEW status \in Statuses, H3Answered(w, k, status)
      PROVE  HasEffect(w, k, {0, ResponseSize}, {})
  <2> DEFINE bytes == IF age[w][k] > Timeout THEN 0 ELSE ResponseSize
  <2>1. bytes \in {0, ResponseSize} /\ bytes \in Nat
    BY ResponseSizeAssumption
  <2>2. /\ Received(w, k)
        /\ NextRequest(w, k, local[w][k] + 1,
             Accounted(counters[w], status, bytes, age[w][k]))
    BY <1>1 DEF H3Answered
  <2> HIDE DEF bytes
  <2>3. QED
    BY <2>1, <2>2, AnswerEffect DEF NextRequest
<1>2. QED
  BY <1>1, StreamEffects DEF H3StreamStep

LEMMA H3NextSteps == MuxInv /\ [H3Next]_vars => H3Step
<1> SUFFICES ASSUME MuxInv, [H3Next]_vars PROVE H3Step
  OBVIOUS
<1>1. TypeOK /\ \A w \in Workers : Idle(w)
  BY DEF MuxInv, StreamsInv
<1>2. QED
  BY <1>1, SharedSteps, H3ConnSteps, H3StreamSteps DEF H3Next, H3Step, MuxStep

LEMMA H3InvariantHolds == H3Spec => []MuxInv
<1>1. MuxInv /\ [H3Next]_vars => MuxInv'
  BY H3NextSteps, MuxStepInv DEF H3Step
<1>2. QED
  BY <1>1, InitMuxInv, PTL DEF H3Spec

\* The variables of an HTTP/3 run always have their types.
THEOREM H3TypeCorrect == H3Spec => []TypeOK
<1>1. MuxInv => TypeOK
  BY DEF MuxInv
<1>2. QED
  BY <1>1, H3InvariantHolds, PTL

\* No request is lost or counted twice, over all streams of all connections
\* and across reconnects, and no request is left out of the rate samples.
THEOREM H3RequestAccounting == H3Spec => [](RequestsConserved /\ RateDrained)
<1>1. MuxInv => RequestsConserved /\ RateDrained
  BY InvariantFacts
<1>2. QED
  BY <1>1, H3InvariantHolds, PTL

\* No way out of a stream task loses a response that was read.
THEOREM H3ResponseAccounting == H3Spec => []EveryResponseCounted
<1>1. MuxInv => EveryResponseCounted
  BY InvariantFacts
<1>2. QED
  BY <1>1, H3InvariantHolds, PTL

\* Every response is a latency sample or a timeout error, and not both: also
\* the late one, whose bytes the stream forgets.
THEOREM H3LatencyAccounting == H3Spec => []SampledOrTimedOut
<1>1. MuxInv => SampledOrTimedOut
  BY InvariantFacts
<1>2. QED
  BY <1>1, H3InvariantHolds, PTL

\* A connection task that is not waiting for its streams has none that is in
\* the request loop.
THEOREM H3NoStreamLeftBehind == H3Spec => []StreamsJoined
<1>1. MuxInv => StreamsJoined
  BY InvariantFacts
<1>2. QED
  BY <1>1, H3InvariantHolds, PTL

\* No request is issued once the flag is set, on any stream.
THEOREM H3NothingIssuedAfterStop == H3Spec => NoIssueAfterStop
<1>1. MuxInv /\ [H3Next]_vars =>
        [stop => \A w \in Workers : Issued(w)' = Issued(w)]_controlVars
  BY H3NextSteps, MuxStepAfterStop DEF H3Step
<1>2. QED
  BY <1>1, H3InvariantHolds, PTL DEF H3Spec, NoIssueAfterStop

\* A stream sends requests until the flag is set or its connection errors: a
\* late response does not end it.
THEOREM H3StreamsEndOnStopOrError == H3Spec => StreamEndsOnStopOrError
<1>1. MuxInv /\ [H3Next]_vars =>
        [\A w \in Workers : \A k \in Slots :
           stream'[w][k] = "returned" /\ stream[w][k] # "returned"
             => stop \/ Failed(w)' > Failed(w)]_vars
  BY H3NextSteps, MuxStepStreamEnds DEF H3Step
<1>2. QED
  BY <1>1, H3InvariantHolds, PTL DEF H3Spec, StreamEndsOnStopOrError

\* An HTTP/3 run implements the safety part of RunPromise.
THEOREM H3KeepsPromise == H3Spec => Promise!Safety
<1>1. Init => Promise!Init
  BY PromiseInit DEF Init
<1>2. MuxInv /\ [H3Next]_vars => [Promise!Next]_(Promise!promiseVars)
  BY H3NextSteps, MuxStepPromise DEF H3Step
<1>3. QED
  BY <1>1, <1>2, H3InvariantHolds, PTL DEF H3Spec, Promise!Safety
=============================================================================
