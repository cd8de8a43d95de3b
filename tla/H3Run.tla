------------------------------- MODULE H3Run -------------------------------
(***************************************************************************)
(* An HTTP/3 run: run_h3_connection, run_h3_stream and h3_request_response *)
(* of h3.rs.  The name is resolved once, and a failure to resolve it ends  *)
(* the connection task for good; a late response does not end the stream,  *)
(* but its bytes are not counted.                                          *)
(***************************************************************************)
EXTENDS MuxRun

\* The steps of run_h3_connection.  The QUIC connect and a refused
\* configuration of it fail alike, with the backoff.
H3ConnStep(w, c) ==
  \/ ConnGoes(w, c, "spawned", "resolving")
  \/ ConnGoes(w, c, "resolving", Reconnect)
  \/ ConnFails(w, c, "resolving", "returned")
  \/ ConnGoes(w, c, "connecting", "handshaking")
  \/ ConnFails(w, c, "connecting", "backoff")
  \/ ConnGoes(w, c, "backoff", Reconnect)
  \/ ConnFails(w, c, "handshaking", Reconnect)
  \/ SpawnStreams(w, c)
  \/ JoinStreams(w, c)

\* The body of a response is drained: the `continue` of a late one skips the
\* bytes, and the stream goes on.
H3Answered_LateReturns(w, k, status) ==
  LET a  == age[w][k]
      n  == local[w][k] + 1
      cs == Accounted(counters[w], status, IF a > Timeout THEN 0 ELSE ResponseSize, a)
  IN /\ Received(w, k)
     /\ \/ a > Timeout /\ StreamReturns(w, k, n, cs)
        \/ a <= Timeout /\ NextRequest(w, k, n, cs)

H3Answered(w, k, status) ==
  LET a == age[w][k]
  IN /\ Received(w, k)
     /\ NextRequest(w, k, local[w][k] + 1,
          Accounted(counters[w], status, IF a > Timeout THEN 0 ELSE ResponseSize, a))

H3StreamStep(w, k) ==
  \/ StreamStart(w, k)
  \/ SendOk(w, k)
  \/ SendErr(w, k)
  \/ ReceiveErr(w, k)
  \/ \E status \in Statuses : H3Answered(w, k, status)

H3Next ==
  \/ Stop
  \/ Join
  \/ \E w \in Workers :
       \/ StartWorker(w)
       \/ Tick(w)
       \/ \E c \in Conns : H3ConnStep(w, c)
       \/ \E k \in Slots : H3StreamStep(w, k)
  \/ TimePasses
  \/ Terminated

H3Spec == Init /\ [][H3Next]_vars /\ Fairness
=============================================================================
