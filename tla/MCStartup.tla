----------------------------- MODULE MCStartup -----------------------------
(***************************************************************************)
(* Command lines and servers to check Startup with: a default line and,    *)
(* for each question, the lines that vary the options it is about.         *)
(***************************************************************************)
EXTENDS Startup

N(n)        == [digits |-> n, unit |-> ""]
With(n, u)  == [digits |-> n, unit |-> u]

DefaultLine ==
  [ error |-> FALSE, version |-> FALSE, help |-> FALSE,
    scheme |-> "https", host |-> "name", port |-> None,
    threads |-> NotGiven, connections |-> NotGiven, streams |-> NotGiven,
    duration |-> NotGiven, timeout |-> NotGiven,
    http |-> "Auto", http2 |-> FALSE, http3 |-> FALSE,
    method |-> "GET", path |-> "absolute", body |-> 0, headers |-> << >>,
    insecure |-> FALSE ]

\* Lines clap refuses, and those that only ask for the version or the usage.
Refused ==
  { [DefaultLine EXCEPT !.error = e, !.version = v, !.help = h, !.timeout = t] :
      e, v, h \in BOOLEAN, t \in {NotGiven, With(None, "s"), With(2, "ms")} }

\* URLs, with every choice of the protocol.
Urls ==
  { [DefaultLine EXCEPT !.scheme = s, !.host = h, !.port = p,
                        !.http = v, !.http2 = two, !.http3 = three] :
      s \in {"http", "https", "ftp"}, h \in {"name", "[::1]", "fe80::a", Control, ""},
      p \in {None, 443, 8443, 65536},
      v \in {"Auto", "Http1", "Http2"}, two, three \in BOOLEAN }

\* Numbers, at and beyond the limits of the checks and of a u64.
Numbers ==
  { [DefaultLine EXCEPT !.scheme = "http", !.threads = t, !.connections = c,
                        !.streams = s, !.duration = d] :
      t \in {NotGiven, N(0), N(10), N(11), With(1, "k")},
      c \in {NotGiven, N(1), N(11), With(U64Max, "p")},
      s \in {NotGiven, N(0)},
      d \in {NotGiven, N(0), N(51), N(119), With(90, "m"), N(U64Max)} }

\* Timeouts whose product with 1000, or with 1000000, passes the largest u64.
Timeouts ==
  { [DefaultLine EXCEPT !.scheme = "http", !.timeout = t] :
      t \in {N(0), N(1), N(2), N(U64Max \div 1000), N(U64Max \div 1000 + 1), N(U64Max),
             With(1, "m"), With(U64Max \div 60, "h")} }

\* Shapes of a request.
Requests1 ==
  { [DefaultLine EXCEPT !.scheme = s, !.port = 443, !.http = v, !.path = p, !.body = b,
                        !.headers = h] :
      s \in {"http", "https"}, v \in {"Auto", "Http1", "Http2", "Http3"},
      p \in {"absolute", "relative", "invalid"}, b \in {0, 7},
      h \in { << >>,
              << << "x-a", << "1" >> >>, << "", << "2" >> >>, << "x-a", << "3" >> >> >>,
              << << "x-a", << "1" >> >>, << "x-a", << Control >> >> >>,
              << << "host", << "other" >> >>, << "content-length", << "9" >> >>,
                 << "user-agent", << "mine" >> >> >> } }

\* More headers than a map has room for, at the limit of each protocol.
Crowds ==
  { [DefaultLine EXCEPT !.http = v, !.headers = [i \in 1 .. n |-> << "x-a", << "1" >> >>]] :
      v \in {"Http1", "Http2", "Http3"}, n \in HeaderRoom - 3 .. HeaderRoom - 1 }

\* Certificates that only --insecure accepts.
Trust == { [DefaultLine EXCEPT !.http = v, !.insecure = i] :
             v \in {"Auto", "Http1", "Http2", "Http3"}, i \in BOOLEAN }

MCCommandLines == Refused \cup Urls \cup Numbers \cup Timeouts \cup Requests1 \cup Crowds
                  \cup Trust

MCServers ==
  [quic : BOOLEAN, alpn : SUBSET {"h2", "http/1.1"}, cert : BOOLEAN]
=============================================================================
