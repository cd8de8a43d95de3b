------------------------------- MODULE H1Run -------------------------------
(***************************************************************************)
(* An HTTP/1 run: run_connection of connection.rs, one task per            *)
(* connection, on the workers of RunControl.                               *)
(*                                                                         *)
(* A task runs without interruption from one await to the next, so an      *)
(* action is the code between two awaits; task[w][c] names the await at    *)
(* which the task is suspended.  The server and the network decide, in the *)
(* ...Ok and ...Err actions, how an await ends; nothing obliges them to    *)
(* answer.                                                                 *)
(***************************************************************************)
EXTENDS RunControl

VARIABLES
  task,    \* task[w][c]: the await at which connection c's task is suspended
  local,   \* local[w][c]: its local_complete, responses not yet flushed
  age      \* age[w][c]: time since the current request's `start`

taskVars == << task, local, age >>
vars     == << controlVars, taskVars >>

\* "none": the runtime has not been entered; "spawned": queued, not polled;
\* "backoff": the 10 ms sleep after a failed connect.
TaskState == { "none", "spawned", "connecting", "backoff", "handshaking",
               "sending", "draining", "returned" }

\* The types of the variables.
TypeOK ==
  /\ ControlTypeOK
  /\ task \in [Workers -> [Conns -> TaskState]]
  /\ local \in [Workers -> [Conns -> Nat]]
  /\ age \in [Workers -> [Conns -> 0 .. AgeCap]]

Init ==
  /\ ControlInit
  /\ task = [w \in Workers |-> [c \in Conns |-> "none"]]
  /\ local = [w \in Workers |-> [c \in Conns |-> 0]]
  /\ age = [w \in Workers |-> [c \in Conns |-> 0]]

\* The requests of a worker that have no response and no error yet.
InFlight(w) == { c \in Conns : task[w][c] \in {"sending", "draining"} }

-----------------------------------------------------------------------------
\* Fragments of run_connection.

\* The runtime polls the task, suspended at this await.
Awaiting(w, c, await) ==
  /\ worker[w] = "running"
  /\ task[w][c] = await

\* while !stop: a task whose connection is gone opens another one.
Reconnect == IF stop THEN "returned" ELSE "connecting"

\* The task leaves the request loop with nothing held back, the worker's
\* counters at cs.
Leave(w, c, await, cs) ==
  /\ counters' = [counters EXCEPT ![w] = cs]
  /\ task' = [task EXCEPT ![w][c] = await]
  /\ local' = [local EXCEPT ![w][c] = 0]
  /\ age' = [age EXCEPT ![w][c] = 0]
  /\ UNCHANGED rate

\* It issues the next request, with n responses held.
Issue(w, c, n, cs) ==
  /\ MayIssue(w)
  /\ counters' = [counters EXCEPT ![w] = cs]
  /\ task' = [task EXCEPT ![w][c] = "sending"]
  /\ local' = [local EXCEPT ![w][c] = n]
  /\ age' = [age EXCEPT ![w][c] = 0]
  /\ rate' = [rate EXCEPT ![w] = @ + 1]

\* The head of the request loop: flush and return if stop is set.
NextRequest_NoFlush(w, c, n, cs) ==
  \/ stop /\ Leave(w, c, "returned", cs)
  \/ ~stop /\ Issue(w, c, n, cs)

NextRequest_NoStopCheck(w, c, n, cs) == Issue(w, c, n, cs)

NextRequest(w, c, n, cs) ==
  \/ stop /\ Leave(w, c, "returned", Flush(cs, n))
  \/ ~stop /\ Issue(w, c, n, cs)

\* `break` out of the request loop: flush and go back to the outer loop.
Break_NoFlush(w, c, n, cs) == Leave(w, c, Reconnect, cs)

Break(w, c, n, cs) == Leave(w, c, Reconnect, Flush(cs, n))

\* A step in which the task only moves from one await to another.
MoveTo(w, c, await) ==
  /\ task' = [task EXCEPT ![w][c] = await]
  /\ TaskFrame
  /\ UNCHANGED << rate, responses, latency, local, age >>

-----------------------------------------------------------------------------
\* The steps of run_connection.

\* The worker's root future spawns one task per connection.
SpawnConnections_OneMore(w) ==
  /\ EnterRuntime(w)
  /\ task' = [task EXCEPT ![w] = [c \in 0 .. PerThread |-> "spawned"]]
  /\ UNCHANGED << local, age >>

SpawnConnections(w) ==
  /\ EnterRuntime(w)
  /\ task' = [task EXCEPT ![w] = [c \in Conns |-> "spawned"]]
  /\ UNCHANGED << local, age >>

\* The first poll of the task.
Start(w, c) ==
  /\ Awaiting(w, c, "spawned")
  /\ MoveTo(w, c, Reconnect)
  /\ UNCHANGED counters

\* connect() covers the TCP connect and, for https, the TLS handshake.
ConnectOk(w, c) ==
  /\ Awaiting(w, c, "connecting")
  /\ MoveTo(w, c, "handshaking")
  /\ UNCHANGED counters

ConnectErr_GivesUp(w, c) ==
  /\ Awaiting(w, c, "connecting")
  /\ MayFailConnect(w)
  /\ counters' = [counters EXCEPT ![w].errors_connect = @ + 1]
  /\ MoveTo(w, c, "returned")

ConnectErr(w, c) ==
  /\ Awaiting(w, c, "connecting")
  /\ MayFailConnect(w)
  /\ counters' = [counters EXCEPT ![w].errors_connect = @ + 1]
  /\ MoveTo(w, c, "backoff")

BackoffOver(w, c) ==
  /\ Awaiting(w, c, "backoff")
  /\ MoveTo(w, c, Reconnect)
  /\ UNCHANGED counters

\* A failed handshake reconnects without the backoff.
HandshakeErr(w, c) ==
  /\ Awaiting(w, c, "handshaking")
  /\ MayFailConnect(w)
  /\ counters' = [counters EXCEPT ![w].errors_connect = @ + 1]
  /\ MoveTo(w, c, Reconnect)

HandshakeOk(w, c) ==
  /\ Awaiting(w, c, "handshaking")
  /\ NextRequest(w, c, 0, counters[w])
  /\ TaskFrame
  /\ UNCHANGED << responses, latency >>

\* send_request resolves with the response head.
SendOk(w, c) ==
  /\ Awaiting(w, c, "sending")
  /\ MoveTo(w, c, "draining")
  /\ UNCHANGED counters

\* send_request fails: in sending, or in waiting for the response head.
SendErr_CountedTwice(w, c) ==
  /\ Awaiting(w, c, "sending")
  /\ Break(w, c, local[w][c],
           [counters[w] EXCEPT !.errors_write = @ + 1, !.errors_read = @ + 1])
  /\ TaskFrame
  /\ UNCHANGED << responses, latency >>

SendErr(w, c) ==
  /\ Awaiting(w, c, "sending")
  /\ Break(w, c, local[w][c], [counters[w] EXCEPT !.errors_write = @ + 1])
  /\ TaskFrame
  /\ UNCHANGED << responses, latency >>

DrainErr_NotCounted(w, c) ==
  /\ Awaiting(w, c, "draining")
  /\ Break(w, c, local[w][c], counters[w])
  /\ TaskFrame
  /\ UNCHANGED << responses, latency >>

DrainErr(w, c) ==
  /\ Awaiting(w, c, "draining")
  /\ Break(w, c, local[w][c], [counters[w] EXCEPT !.errors_read = @ + 1])
  /\ TaskFrame
  /\ UNCHANGED << responses, latency >>

\* The body is drained.  The response counts as complete in every case.  One
\* that came late counts as a timeout and costs the connection; any other is
\* offered to the histogram and the next request is issued.
DrainOk(w, c, status) ==
  LET a  == age[w][c]
      n  == local[w][c] + 1
      cs == Accounted(counters[w], status, ResponseSize, a)
  IN /\ Awaiting(w, c, "draining")
     /\ responses' = [responses EXCEPT ![w] = @ + 1]
     /\ latency' = latency + Sampled(a)
     /\ \/ a > Timeout /\ Break(w, c, n, cs)
        \/ a <= Timeout /\ NextRequest(w, c, n, cs)
     /\ TaskFrame

\* The clock: every request in flight gets older.
TimePasses ==
  /\ \E w \in Workers : \E c \in InFlight(w) :
       worker[w] = "running" /\ age[w][c] < AgeCap
  /\ age' = [w \in Workers |-> [c \in Conns |->
               IF worker[w] = "running" /\ c \in InFlight(w) /\ age[w][c] < AgeCap
                 THEN age[w][c] + 1 ELSE age[w][c]]]
  /\ UNCHANGED << controlVars, task, local >>

-----------------------------------------------------------------------------
TaskStep(w, c) ==
  \/ Start(w, c)
  \/ ConnectOk(w, c)
  \/ ConnectErr(w, c)
  \/ BackoffOver(w, c)
  \/ HandshakeOk(w, c)
  \/ HandshakeErr(w, c)
  \/ SendOk(w, c)
  \/ SendErr(w, c)
  \/ DrainErr(w, c)
  \/ \E status \in Statuses : DrainOk(w, c, status)

\* A worker thread leaves worker_runtime(), one way or the other.
StartWorker(w) ==
  \/ RuntimeFails(w) /\ UNCHANGED taskVars
  \/ SpawnConnections(w)

Tick(w) == RecordRate(w) /\ UNCHANGED taskVars
Stop    == SetStop /\ UNCHANGED taskVars
Join    == JoinWorkers /\ UNCHANGED taskVars

\* The run is over; the process exits after the report.
Terminated == main = "done" /\ UNCHANGED vars

Next ==
  \/ Stop
  \/ Join
  \/ \E w \in Workers :
       StartWorker(w) \/ Tick(w) \/ \E c \in Conns : TaskStep(w, c)
  \/ TimePasses
  \/ Terminated

\* The operating system runs main and the workers, and timers fire.  Nothing
\* is assumed of the network or the server.
Fairness ==
  /\ WF_vars(Stop)
  /\ WF_vars(Join)
  /\ \A w \in Workers : WF_vars(StartWorker(w)) /\ WF_vars(Tick(w))

Spec == Init /\ [][Next]_vars /\ Fairness

-----------------------------------------------------------------------------
\* Safety.

\* Every request a worker issued is answered, failed or still in flight, and
\* is only one of these: no path through run_connection drops a request,
\* counts it twice, or counts an error that ended no request.
RequestsConserved ==
  \A w \in Workers :
    Issued(w) = responses[w] + Failed(w) + Cardinality(InFlight(w))

\* A response that was read is in the shared counter or in the local one of
\* the task that read it; no way out of the request loop loses it while the
\* worker runs.  Its bytes are counted at once.
EveryResponseCounted ==
  \A w \in Workers :
    /\ responses[w] = counters[w].complete + Total(local[w])
    /\ counters[w].bytes = ResponseSize * responses[w]

\* When every task saw the flag before its worker's last tick, the report
\* has every response of the run.
CleanRunReportsAll ==
  (main = "done" /\ \A w \in Workers : \A c \in Conns : task[w][c] = "returned")
    => total.complete = Total(responses)

\* A task gives up only because the flag is set: whatever fails before that,
\* it reconnects.
ReturnsOnlyOnStop ==
  [][\A w \in Workers : \A c \in Conns :
       task'[w][c] = "returned" /\ task[w][c] # "returned" => stop]_vars

=============================================================================
