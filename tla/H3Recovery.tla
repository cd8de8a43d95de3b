----------------------------- MODULE H3Recovery -----------------------------
(***************************************************************************)
(* An HTTP/3 run whose QUIC connections die.  H3Run lets a request fail at *)
(* any time and promises nothing of the network; here a connection dies    *)
(* once, for all its streams, and what the QUIC library does then is       *)
(* assumed: no request can be sent on a dead connection any more (an       *)
(* answer that was already received can still be read), every call pending *)
(* on it returns, and the runtime polls the tasks it wakes.                *)
(***************************************************************************)
EXTENDS H3Run

VARIABLE dead   \* dead[w][c]: the connection that c's task has open is lost

recoveryVars == << vars, dead >>

RecoveryInit ==
  /\ Init
  /\ dead = [w \in Workers |-> [c \in Conns |-> FALSE]]

\* The server goes away, or the idle timeout of the connection expires.
ConnDies(w, c) ==
  /\ ConnAwaiting(w, c, "joining")
  /\ ~dead[w][c]
  /\ dead' = [dead EXCEPT ![w][c] = TRUE]
  /\ UNCHANGED vars

\* A step of a stream.  A request half sent when the connection dies fails
\* as a write error here, where the library may also report a read error.
StreamWakes(w, k) ==
  /\ \/ ~dead[w][k[1]] /\ SendOk(w, k)
     \/ StreamStart(w, k)
     \/ SendErr(w, k)
     \/ ReceiveErr(w, k)
     \/ \E status \in Statuses : H3Answered(w, k, status)
  /\ UNCHANGED dead

\* The connection task moves on; whatever it opens next is a new connection.
ConnWakes(w, c) ==
  /\ H3ConnStep(w, c)
  /\ dead' = [dead EXCEPT ![w][c] = FALSE]

RecoveryNext ==
  \/ /\ \/ Stop
        \/ Join
        \/ \E w \in Workers : StartWorker(w) \/ Tick(w)
        \/ TimePasses
        \/ Terminated
     /\ UNCHANGED dead
  \/ \E w \in Workers :
       \/ \E c \in Conns : ConnDies(w, c) \/ ConnWakes(w, c)
       \/ \E k \in Slots : StreamWakes(w, k)

\* The tasks of a dead connection are woken.  Nothing is asked of the stop
\* flag: the run may last for ever.
RecoveryFairness ==
  \A w \in Workers :
    /\ \A c \in Conns : WF_recoveryVars(dead[w][c] /\ ConnWakes(w, c))
    /\ \A k \in Slots : WF_recoveryVars(dead[w][k[1]] /\ StreamWakes(w, k))

RecoverySpec == RecoveryInit /\ [][RecoveryNext]_recoveryVars /\ RecoveryFairness

\* The comment at h3.rs:205 says of a stream that gives up on a broken
\* connection that "the connection task will reconnect".  It has to wait for
\* every other stream first, so each of them must find out that the connection
\* is lost, whatever it was doing.  (The model stops issuing at MaxIssued.)
Recovers ==
  \A w \in Workers : \A c \in Conns :
    dead[w][c] ~> conn[w][c] = "connecting" \/ stop \/ ~MayIssue(w)
=============================================================================
