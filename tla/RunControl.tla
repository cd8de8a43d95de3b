----------------------------- MODULE RunControl -----------------------------
(***************************************************************************)
(* The part of a run that does not depend on the protocol: the main        *)
(* thread of main.rs, which sleeps for the duration, stores the stop flag, *)
(* joins the workers and sums their snapshots; and the worker threads of   *)
(* worker.rs, each of which runs a current-thread runtime whose root       *)
(* future is the 100 ms rate recorder.                                     *)
(*                                                                         *)
(* H1Run, H2Run and H3Run extend this module with the connection tasks     *)
(* that a worker's runtime polls.  When the root future returns, the       *)
(* runtime polls no task any more: worker[w] leaves "running", which every *)
(* task action requires, and what a task had not flushed stays in it.      *)
(*                                                                         *)
(* Time is not measured.  The 100 ms tick, the duration and the network    *)
(* are interleaved in every order; the only clock is the age of a request  *)
(* (see the connection modules), compared with Timeout.                    *)
(***************************************************************************)
EXTENDS Counters

CONSTANTS
  Threads,           \* -t: the number of worker threads
  Connections,       \* -c: the number of connections over all threads
  Timeout,           \* -T: the request timeout, in units of the latency clock
  Statuses,          \* the response statuses that occur
  ResponseSize,      \* bytes counted for a response
  MaxIssued,         \* bound: requests a worker issues
  MaxConnectErrors   \* bound: connect and handshake errors of a worker

\* parse_args refuses threads = 0 and connections < threads.
ASSUME ThreadsAssumption     == Threads \in Nat \ {0}
ASSUME ConnectionsAssumption == Connections \in Nat /\ Connections >= Threads
ASSUME TimeoutAssumption     == Timeout \in Nat

ASSUME StatusesAssumption         == Statuses \subseteq Nat
ASSUME ResponseSizeAssumption     == ResponseSize \in Nat
ASSUME MaxIssuedAssumption        == MaxIssued \in Nat
ASSUME MaxConnectErrorsAssumption == MaxConnectErrors \in Nat

Workers == 1 .. Threads

\* Integer division: a remainder of Connections is never opened.
PerThread == Connections \div Threads
Conns     == 1 .. PerThread

\* Stats::alloc(max) makes limit = max + 1, and record rejects n >= limit.
LatencyLimit    == Timeout + 1
Recordable(n)   == n < LatencyLimit

\* The age of a request; above Timeout it stands for every longer time.
AgeCap == Timeout + 1

VARIABLES
  main,       \* "sleeping" for the duration, "joining" the workers, "done"
  stop,       \* the shared AtomicBool
  worker,     \* "spawned", "running" in block_on, or "exited" (returned)
  counters,   \* the worker's Counters
  snapshot,   \* what the worker returned to main's join
  rate,       \* the worker's rate_counter: requests issued since the last tick
  sampled,    \* history: requests the rate recorder has taken out of `rate`
  responses,  \* history: responses the worker's tasks have read to the end
  latency,    \* the count of the shared latency histogram
  total       \* main's sum of the snapshots

controlVars == << main, stop, worker, counters, snapshot, rate, sampled,
                  responses, latency, total >>

ControlTypeOK ==
  /\ main \in {"sleeping", "joining", "done"}
  /\ stop \in BOOLEAN
  /\ worker \in [Workers -> {"spawned", "running", "exited"}]
  /\ counters \in [Workers -> CounterSnapshot]
  /\ snapshot \in [Workers -> CounterSnapshot]
  /\ rate \in [Workers -> Nat]
  /\ sampled \in [Workers -> Nat]
  /\ responses \in [Workers -> Nat]
  /\ latency \in Nat

ControlInit ==
  /\ main = "sleeping"
  /\ stop = FALSE
  /\ worker = [w \in Workers |-> "spawned"]
  /\ counters = [w \in Workers |-> ZeroCounters]
  /\ snapshot = [w \in Workers |-> ZeroCounters]
  /\ rate = [w \in Workers |-> 0]
  /\ sampled = [w \in Workers |-> 0]
  /\ responses = [w \in Workers |-> 0]
  /\ latency = 0
  /\ total = ZeroCounters

-----------------------------------------------------------------------------
\* The main thread.

\* sleep(duration) returns and main stores the flag.
SetStop ==
  /\ main = "sleeping"
  /\ main' = "joining"
  /\ stop' = TRUE
  /\ UNCHANGED << worker, counters, snapshot, rate, sampled, responses,
                  latency, total >>

\* The join loop ends when the last worker has returned; then main sums.
JoinWorkers ==
  /\ main = "joining"
  /\ \A w \in Workers : worker[w] = "exited"
  /\ main' = "done"
  /\ total' = SumSnapshots(snapshot)
  /\ UNCHANGED << stop, worker, counters, snapshot, rate, sampled, responses,
                  latency >>

-----------------------------------------------------------------------------
\* A worker thread.

\* worker_runtime() fails: the worker returns the default snapshot at once.
RuntimeFails(w) ==
  /\ worker[w] = "spawned"
  /\ worker' = [worker EXCEPT ![w] = "exited"]
  /\ snapshot' = [snapshot EXCEPT ![w] = ZeroCounters]
  /\ UNCHANGED << main, stop, counters, rate, sampled, responses, latency,
                  total >>

\* block_on polls the root future for the first time: it spawns the
\* connection tasks (see the protocol modules) and starts the rate recorder.
EnterRuntime(w) ==
  /\ worker[w] = "spawned"
  /\ worker' = [worker EXCEPT ![w] = "running"]
  /\ UNCHANGED << main, stop, counters, snapshot, rate, sampled, responses,
                  latency, total >>

\* One 100 ms tick of run_rate_recorder: swap the rate counter and, if stop
\* is set, return.  block_on then returns without polling the connection
\* tasks again and the worker takes its snapshot.
RecordRate_StopFirst(w) ==
  /\ worker[w] = "running"
  /\ \/ /\ ~stop
        /\ sampled' = [sampled EXCEPT ![w] = @ + rate[w]]
        /\ rate' = [rate EXCEPT ![w] = 0]
        /\ UNCHANGED << worker, snapshot >>
     \/ /\ stop
        /\ worker' = [worker EXCEPT ![w] = "exited"]
        /\ snapshot' = [snapshot EXCEPT ![w] = counters[w]]
        /\ UNCHANGED << sampled, rate >>
  /\ UNCHANGED << main, stop, counters, responses, latency, total >>

\* A recorder that waits for the requests in flight before it returns.
RecordRate_DrainsFirst(w) ==
  /\ worker[w] = "running"
  /\ sampled' = [sampled EXCEPT ![w] = @ + rate[w]]
  /\ rate' = [rate EXCEPT ![w] = 0]
  /\ LET drained == sampled[w] + rate[w] =
           responses[w] + counters[w].errors_write + counters[w].errors_read
     IN \/ /\ ~(stop /\ drained)
           /\ UNCHANGED << worker, snapshot >>
        \/ /\ stop /\ drained
           /\ worker' = [worker EXCEPT ![w] = "exited"]
           /\ snapshot' = [snapshot EXCEPT ![w] = counters[w]]
  /\ UNCHANGED << main, stop, counters, responses, latency, total >>

RecordRate(w) ==
  /\ worker[w] = "running"
  /\ sampled' = [sampled EXCEPT ![w] = @ + rate[w]]
  /\ rate' = [rate EXCEPT ![w] = 0]
  /\ \/ /\ ~stop
        /\ UNCHANGED << worker, snapshot >>
     \/ /\ stop
        /\ worker' = [worker EXCEPT ![w] = "exited"]
        /\ snapshot' = [snapshot EXCEPT ![w] = counters[w]]
  /\ UNCHANGED << main, stop, counters, responses, latency, total >>

-----------------------------------------------------------------------------
\* Requests this worker has put on the wire: the rate counter is bumped just
\* before each send, and only the rate recorder resets it.
Issued(w) == sampled[w] + rate[w]

\* The counters that end a request without a response.
Failed(w) == counters[w].errors_write + counters[w].errors_read

\* The timeout errors of a response that ends at age a: one if it is late,
\* in which case it is not recorded, and one if the histogram refuses it.
TimedOut_LateIsRecorded(a) == OneIf(a > Timeout) + OneIf(~Recordable(a))

TimedOut(a) == OneIf(a > Timeout) + OneIf(a <= Timeout /\ ~Recordable(a))

\* The latency samples of such a response.
Sampled(a) == OneIf(a <= Timeout /\ Recordable(a))

\* The counters of a worker, one response later.
Accounted(cs, status, bytes, a) ==
  [cs EXCEPT !.bytes          = @ + bytes,
             !.errors_status  = @ + OneIf(status > 399),
             !.errors_timeout = @ + TimedOut(a)]

\* What no step of a connection or stream task changes.
TaskFrame == UNCHANGED << main, stop, worker, snapshot, sampled, total >>

\* The bounds of the model on what a worker's tasks do.
MayIssue(w)       == Issued(w) < MaxIssued
MayFailConnect(w) == counters[w].errors_connect < MaxConnectErrors

-----------------------------------------------------------------------------
\* Properties of a run that every protocol shares.

\* Every response gives one latency sample or one timeout error, never both
\* and never neither, at whichever of its tests the code stops.
SampledOrTimedOut ==
  Total(responses) = latency + Total([w \in Workers |-> counters[w].errors_timeout])

\* The last tick takes what is left in the rate counter: no request is
\* missing from the Req/Sec samples, however late it was issued.
RateDrained == \A w \in Workers : worker[w] = "exited" => rate[w] = 0

\* No request goes out after the flag is set, not even on a connection whose
\* handshake was under way.
NoIssueAfterStop ==
  [][stop => \A w \in Workers : Issued(w)' = Issued(w)]_controlVars

\* The run ends whatever the server does, requests that are never answered
\* included: the join depends on timers only.
Termination == <>(main = "done")

Promise ==
  INSTANCE RunPromise WITH
    phase    <- CASE main = "sleeping" -> "open"
                  [] main = "joining"  -> "closing"
                  [] main = "done"     -> "closed",
    issued   <- Total([w \in Workers |-> Issued(w)]),
    settled  <- Total([w \in Workers |-> responses[w] + Failed(w)]),
    reported <- total.complete + total.errors_write + total.errors_read

\* The run keeps the promise.
Implements == Promise!Spec

\* README.md:245 says that the report's requests are the "total completed
\* requests"; the comment at connection.rs:315 flushes the held responses
\* "so these aren't lost".
ReportsEveryResponse ==
  main = "done" => total.complete = Total(responses)
=============================================================================
