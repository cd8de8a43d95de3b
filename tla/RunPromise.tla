----------------------------- MODULE RunPromise -----------------------------
(***************************************************************************)
(* What a benchmark run promises, whatever the protocol, the number of     *)
(* threads and the number of connections.  Requests are issued one at a    *)
(* time and only while the run is open; a request is settled at most once, *)
(* as a response or as an error; after the duration the run closes, in     *)
(* finite time and whatever the server does, with a report that claims no  *)
(* more than was settled.                                                  *)
(*                                                                         *)
(* It does not promise that every settled request is reported: a task that *)
(* is dropped when its worker's runtime returns takes along what it had    *)
(* not flushed (see ReportsEveryResponse in H1Run).                        *)
(***************************************************************************)
EXTENDS Naturals

VARIABLES
  phase,      \* "open" for the duration, "closing" after it, "closed"
  issued,     \* requests put on the wire so far
  settled,    \* requests that got a response or an error
  reported    \* what the report says was settled

promiseVars == << phase, issued, settled, reported >>

Init ==
  /\ phase = "open"
  /\ issued = 0
  /\ settled = 0
  /\ reported = 0

\* A step of some connection: it settles a request that was in flight,
\* issues the next one, or both.
Progress ==
  /\ phase # "closed"
  /\ \/ issued' = issued
     \/ /\ phase = "open"
        /\ issued' = issued + 1
  /\ \/ settled' = settled
     \/ /\ settled < issued
        /\ settled' = settled + 1
  /\ UNCHANGED << phase, reported >>

Stop ==
  /\ phase = "open"
  /\ phase' = "closing"
  /\ UNCHANGED << issued, settled, reported >>

Close ==
  /\ phase = "closing"
  /\ phase' = "closed"
  /\ reported' \in 0 .. settled
  /\ UNCHANGED << issued, settled >>

Next == Progress \/ Stop \/ Close

\* What a run may do, and that it ends.
Safety == Init /\ [][Next]_promiseVars

Spec == Safety /\ WF_promiseVars(Stop) /\ WF_promiseVars(Close)
=============================================================================
