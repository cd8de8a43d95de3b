------------------------------- MODULE H2Run -------------------------------
(***************************************************************************)
(* An HTTP/2 run: run_h2_connection and run_h2_stream of h2.rs.  Opening a *)
(* connection has three awaits, of which only a failed TCP connect backs   *)
(* off; a stream whose response comes late returns and is not replaced     *)
(* until every other stream of its connection has returned too.            *)
(***************************************************************************)
EXTENDS MuxRun

H2ConnStep_TlsGivesUp(w, c) ==
  \/ ConnGoes(w, c, "spawned", Reconnect)
  \/ ConnGoes(w, c, "connecting", "securing")
  \/ ConnFails(w, c, "connecting", "backoff")
  \/ ConnGoes(w, c, "backoff", Reconnect)
  \/ ConnGoes(w, c, "securing", "handshaking")
  \/ ConnFails(w, c, "securing", "returned")
  \/ ConnFails(w, c, "handshaking", Reconnect)
  \/ SpawnStreams(w, c)
  \/ JoinStreams(w, c)

\* The steps of run_h2_connection.
H2ConnStep(w, c) ==
  \/ ConnGoes(w, c, "spawned", Reconnect)
  \/ ConnGoes(w, c, "connecting", "securing")
  \/ ConnFails(w, c, "connecting", "backoff")
  \/ ConnGoes(w, c, "backoff", Reconnect)
  \/ ConnGoes(w, c, "securing", "handshaking")
  \/ ConnFails(w, c, "securing", Reconnect)
  \/ ConnFails(w, c, "handshaking", Reconnect)
  \/ SpawnStreams(w, c)
  \/ JoinStreams(w, c)

\* The body of a response is drained: a late one ends the stream.
H2Answered_LateNotCounted(w, k, status) ==
  LET a  == age[w][k]
      n  == local[w][k] + 1
      cs == Accounted(counters[w], status, IF a > Timeout THEN 0 ELSE ResponseSize, a)
  IN /\ Received(w, k)
     /\ \/ a > Timeout /\ StreamReturns(w, k, n, cs)
        \/ a <= Timeout /\ NextRequest(w, k, n, cs)

H2Answered(w, k, status) ==
  LET a  == age[w][k]
      n  == local[w][k] + 1
      cs == Accounted(counters[w], status, ResponseSize, a)
  IN /\ Received(w, k)
     /\ \/ a > Timeout /\ StreamReturns(w, k, n, cs)
        \/ a <= Timeout /\ NextRequest(w, k, n, cs)

H2StreamStep(w, k) ==
  \/ StreamStart(w, k)
  \/ SendOk(w, k)
  \/ SendErr(w, k)
  \/ ReceiveErr(w, k)
  \/ \E status \in Statuses : H2Answered(w, k, status)

H2Next ==
  \/ Stop
  \/ Join
  \/ \E w \in Workers :
       \/ StartWorker(w)
       \/ Tick(w)
       \/ \E c \in Conns : H2ConnStep(w, c)
       \/ \E k \in Slots : H2StreamStep(w, k)
  \/ TimePasses
  \/ Terminated

H2Spec == Init /\ [][H2Next]_vars /\ Fairness
=============================================================================
