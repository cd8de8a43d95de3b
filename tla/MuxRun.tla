------------------------------ MODULE MuxRun ------------------------------
(***************************************************************************)
(* The part of an HTTP/2 and of an HTTP/3 run that the two share: a        *)
(* connection task opens one multiplexed connection at a time, spawns      *)
(* `streams_per_conn` stream tasks on it, and waits for all of them before *)
(* it opens the next; a stream task sends requests back to back.  H2Run    *)
(* and H3Run add how a connection is opened and what a stream does with a  *)
(* response.  The order in which the code awaits the stream handles does   *)
(* not matter: it goes on when all have returned.                          *)
(***************************************************************************)
EXTENDS RunControl

CONSTANT Streams   \* --streams: stream tasks per connection

\* parse_args refuses --streams 0.
ASSUME StreamsAssumption == Streams \in Nat \ {0}

\* A slot is a stream of a connection.
Slots == Conns \X (1 .. Streams)

VARIABLES
  conn,     \* conn[w][c]: the await at which connection c's task is suspended
  stream,   \* stream[w][k]: the same for the stream task in slot k
  local,    \* local[w][k]: its local_complete
  age       \* age[w][k]: time since its current request's `start`

muxVars == << conn, stream, local, age >>
vars    == << controlVars, muxVars >>

ConnState   == { "none", "spawned", "resolving", "connecting", "backoff",
                 "securing", "handshaking", "joining", "returned" }
StreamState == { "none", "spawned", "sending", "receiving", "returned" }

\* The types of the variables.
TypeOK ==
  /\ ControlTypeOK
  /\ conn \in [Workers -> [Conns -> ConnState]]
  /\ stream \in [Workers -> [Slots -> StreamState]]
  /\ local \in [Workers -> [Slots -> Nat]]
  /\ age \in [Workers -> [Slots -> 0 .. AgeCap]]

Init ==
  /\ ControlInit
  /\ conn = [w \in Workers |-> [c \in Conns |-> "none"]]
  /\ stream = [w \in Workers |-> [k \in Slots |-> "none"]]
  /\ local = [w \in Workers |-> [k \in Slots |-> 0]]
  /\ age = [w \in Workers |-> [k \in Slots |-> 0]]

\* The requests of a worker that have no response and no error yet.
InFlight(w) == { k \in Slots : stream[w][k] \in {"sending", "receiving"} }

-----------------------------------------------------------------------------
\* The connection task.

ConnAwaiting(w, c, await) ==
  /\ worker[w] = "running"
  /\ conn[w][c] = await

\* while !stop: the head of the connection loop.
Reconnect == IF stop THEN "returned" ELSE "connecting"

ConnMoves(w, c, await) ==
  /\ conn' = [conn EXCEPT ![w][c] = await]
  /\ TaskFrame
  /\ UNCHANGED << rate, responses, latency, local, age >>

SpawnConnections(w) ==
  /\ EnterRuntime(w)
  /\ conn' = [conn EXCEPT ![w] = [c \in Conns |-> "spawned"]]
  /\ UNCHANGED << stream, local, age >>

\* An await that only leads to the next one.
ConnGoes(w, c, from, to) ==
  /\ ConnAwaiting(w, c, from)
  /\ ConnMoves(w, c, to)
  /\ UNCHANGED << counters, stream >>

\* A step of opening the connection fails.
ConnFails(w, c, from, to) ==
  /\ ConnAwaiting(w, c, from)
  /\ MayFailConnect(w)
  /\ counters' = [counters EXCEPT ![w].errors_connect = @ + 1]
  /\ ConnMoves(w, c, to)
  /\ UNCHANGED stream

\* The connection is up: its driver runs in the background and the stream
\* tasks are spawned.
SpawnStreams_OneMore(w, c) ==
  /\ ConnAwaiting(w, c, "handshaking")
  /\ ConnMoves(w, c, "joining")
  /\ stream' = [stream EXCEPT ![w] =
                  [k \in Conns \X (0 .. Streams) |->
                     IF k[1] = c THEN "spawned" ELSE "none"]]
  /\ UNCHANGED counters

SpawnStreams(w, c) ==
  /\ ConnAwaiting(w, c, "handshaking")
  /\ ConnMoves(w, c, "joining")
  /\ stream' = [stream EXCEPT ![w] =
                  [k \in Slots |-> IF k[1] = c THEN "spawned" ELSE stream[w][k]]]
  /\ UNCHANGED counters

\* The last of the stream tasks has returned.
JoinStreams_First(w, c) ==
  /\ \E k \in Slots : k[1] = c /\ stream[w][k] = "returned"
  /\ ConnGoes(w, c, "joining", Reconnect)

JoinStreams_GivesUp(w, c) ==
  /\ \A k \in Slots : k[1] = c => stream[w][k] = "returned"
  /\ ConnGoes(w, c, "joining", "returned")

JoinStreams(w, c) ==
  /\ \A k \in Slots : k[1] = c => stream[w][k] = "returned"
  /\ ConnGoes(w, c, "joining", Reconnect)

-----------------------------------------------------------------------------
\* The stream task.

StreamAwaiting(w, k, await) ==
  /\ worker[w] = "running"
  /\ stream[w][k] = await

\* The task flushes the n responses it holds and returns.
StreamReturns_NoFlush(w, k, n, cs) ==
  /\ counters' = [counters EXCEPT ![w] = cs]
  /\ stream' = [stream EXCEPT ![w][k] = "returned"]
  /\ local' = [local EXCEPT ![w][k] = 0]
  /\ age' = [age EXCEPT ![w][k] = 0]
  /\ UNCHANGED rate

StreamReturns(w, k, n, cs) ==
  /\ counters' = [counters EXCEPT ![w] = Flush(cs, n)]
  /\ stream' = [stream EXCEPT ![w][k] = "returned"]
  /\ local' = [local EXCEPT ![w][k] = 0]
  /\ age' = [age EXCEPT ![w][k] = 0]
  /\ UNCHANGED rate

\* It issues the next request, with n responses held and the worker's
\* counters at cs.
Issue(w, k, n, cs) ==
  /\ MayIssue(w)
  /\ counters' = [counters EXCEPT ![w] = cs]
  /\ stream' = [stream EXCEPT ![w][k] = "sending"]
  /\ local' = [local EXCEPT ![w][k] = n]
  /\ age' = [age EXCEPT ![w][k] = 0]
  /\ rate' = [rate EXCEPT ![w] = @ + 1]

\* The head of the stream's loop.
NextRequest_NoStopCheck(w, k, n, cs) == Issue(w, k, n, cs)

NextRequest(w, k, n, cs) ==
  \/ stop /\ StreamReturns(w, k, n, cs)
  \/ ~stop /\ Issue(w, k, n, cs)

\* The first poll of the stream task.
StreamStart(w, k) ==
  /\ StreamAwaiting(w, k, "spawned")
  /\ NextRequest(w, k, 0, counters[w])
  /\ TaskFrame
  /\ UNCHANGED << responses, latency, conn >>

\* The request is sent: what fails from here on is a read error.
SendOk(w, k) ==
  /\ StreamAwaiting(w, k, "sending")
  /\ stream' = [stream EXCEPT ![w][k] = "receiving"]
  /\ TaskFrame
  /\ UNCHANGED << counters, rate, responses, latency, conn, local, age >>

SendErr_Retries(w, k) ==
  /\ StreamAwaiting(w, k, "sending")
  /\ NextRequest(w, k, local[w][k], counters[w])
  /\ TaskFrame
  /\ UNCHANGED << responses, latency, conn >>

SendErr(w, k) ==
  /\ StreamAwaiting(w, k, "sending")
  /\ StreamReturns(w, k, local[w][k], [counters[w] EXCEPT !.errors_write = @ + 1])
  /\ TaskFrame
  /\ UNCHANGED << responses, latency, conn >>

ReceiveErr(w, k) ==
  /\ StreamAwaiting(w, k, "receiving")
  /\ StreamReturns(w, k, local[w][k], [counters[w] EXCEPT !.errors_read = @ + 1])
  /\ TaskFrame
  /\ UNCHANGED << responses, latency, conn >>

\* The body of a response is drained: what H2Run and H3Run have in common.
Received(w, k) ==
  /\ StreamAwaiting(w, k, "receiving")
  /\ responses' = [responses EXCEPT ![w] = @ + 1]
  /\ latency' = latency + Sampled(age[w][k])
  /\ TaskFrame
  /\ UNCHANGED conn

\* The clock: every request in flight gets older.
TimePasses ==
  /\ \E w \in Workers : \E k \in InFlight(w) :
       worker[w] = "running" /\ age[w][k] < AgeCap
  /\ age' = [w \in Workers |-> [k \in Slots |->
               IF worker[w] = "running" /\ k \in InFlight(w) /\ age[w][k] < AgeCap
                 THEN age[w][k] + 1 ELSE age[w][k]]]
  /\ UNCHANGED << controlVars, conn, stream, local >>

-----------------------------------------------------------------------------
\* The worker and main, over all the variables.

StartWorker(w) ==
  \/ RuntimeFails(w) /\ UNCHANGED muxVars
  \/ SpawnConnections(w)

Tick(w) == RecordRate(w) /\ UNCHANGED muxVars
Stop    == SetStop /\ UNCHANGED muxVars
Join    == JoinWorkers /\ UNCHANGED muxVars

Terminated == main = "done" /\ UNCHANGED vars

\* As for HTTP/1: threads run and timers fire, nothing else is assumed.
Fairness ==
  /\ WF_vars(Stop)
  /\ WF_vars(Join)
  /\ \A w \in Workers : WF_vars(StartWorker(w)) /\ WF_vars(Tick(w))

-----------------------------------------------------------------------------
\* Properties.

\* Every request a worker issued is answered, failed or still in flight, over
\* all streams of all its connections and across reconnects: in particular no
\* connection is replaced while one of its streams has a request in flight.
RequestsConserved ==
  \A w \in Workers :
    Issued(w) = responses[w] + Failed(w) + Cardinality(InFlight(w))

\* A response that was read is in the shared counter or in the local one of
\* the stream that read it.
EveryResponseCounted ==
  \A w \in Workers : responses[w] = counters[w].complete + Total(local[w])

\* README.md:246 says that the report has the "total bytes received", and
\* h3.rs:9 that the accounting of all protocols is the same.
EveryByteCounted ==
  \A w \in Workers : counters[w].bytes = ResponseSize * responses[w]

\* A connection task never lets go of a live stream: unless it is waiting for
\* its streams, none of them has a request in flight or responses to flush.
StreamsJoined ==
  \A w \in Workers : \A k \in Slots :
    conn[w][k[1]] # "joining" =>
      stream[w][k] \in {"none", "returned"} /\ local[w][k] = 0

\* h2.rs:135 and h3.rs:176 say that a stream sends requests "until `stop` or
\* the connection errors": it returns on the flag or on an error.
StreamEndsOnStopOrError ==
  [][\A w \in Workers : \A k \in Slots :
       stream'[w][k] = "returned" /\ stream[w][k] # "returned"
         => stop \/ Failed(w)' > Failed(w)]_vars

\* README.md promises an "automatic reconnect on error", and h3.rs:64 that the
\* connection task runs "until `stop` is set or the connection fails (then
\* reconnect)": it gives up only because the flag is set.
ConnReturnsOnlyOnStop ==
  [][\A w \in Workers : \A c \in Conns :
       conn'[w][c] = "returned" /\ conn[w][c] # "returned" => stop]_vars
=============================================================================
