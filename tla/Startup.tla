------------------------------ MODULE Startup ------------------------------
(***************************************************************************)
(* From the command line to the first request: parse_args, the choice of   *)
(* the protocol with its probes, the allocation of the histogram, the TLS  *)
(* configuration, and the request the connection tasks send.               *)
(*                                                                         *)
(* The operating system, the resolver and the server decide how each await *)
(* of a probe ends.  A panic ends the process: Cargo.toml builds releases  *)
(* with panic = "abort".  rustls panics when a configuration is built      *)
(* before a crypto provider was installed, http when a HeaderMap is full.  *)
(***************************************************************************)
EXTENDS Units, Requests

CONSTANTS
  CommandLines,   \* the command lines that occur
  Servers,        \* the servers that occur
  HeaderRoom      \* 24576: the entries for which every HeaderMap has room

\* What clap makes of a command line; `error` is any that it refuses without
\* looking at a number.  NotGiven stands for an option left out.
NotGiven    == [digits |-> None, unit |-> "not given"]
Arg         == [digits : Nat \cup {None}, unit : STRING]
CommandLine ==
  [ error : BOOLEAN, version : BOOLEAN, help : BOOLEAN,
    scheme : STRING, host : STRING, port : Nat \cup {None},
    threads : Arg, connections : Arg, streams : Arg, duration : Arg, timeout : Arg,
    http : {"Http1", "Http2", "Http3", "Auto"}, http2 : BOOLEAN, http3 : BOOLEAN,
    method : STRING, path : {"absolute", "relative", "invalid"}, body : Nat,
    headers : Seq(HeaderNames \X Seq(STRING)), insecure : BOOLEAN ]

ASSUME CommandLinesAssumption == CommandLines \subseteq CommandLine
ASSUME HeaderRoomAssumption   == HeaderRoom \in Nat

\* A server: whether it answers QUIC, the protocols it knows under ALPN, and
\* whether its certificate is valid.
ASSUME ServersAssumption ==
  Servers \subseteq [ quic : BOOLEAN, alpn : SUBSET {"h2", "http/1.1"}, cert : BOOLEAN ]

VARIABLES
  line,       \* the command line
  server,     \* the server it names
  phase,      \* where the main thread is
  cfg,        \* the Config, resolved included
  probed,     \* what a probe found the server to speak, "none" if none did
  provider,   \* rustls has a crypto provider
  quicProbe,  \* history: probe_quic had a runtime
  limit,      \* the limit of the latency histogram
  alpn,       \* the protocols the run offers over TCP, "none" without TLS
  end         \* the exit code, or the cause of the panic

vars == << line, server, phase, cfg, probed, provider, quicProbe, limit, alpn, end >>

Final    == { "exited", "aborted" }
Running  == { "running", "requesting" }
Phases   == { "start", "resolving", "quicLookup", "quicHandshake", "alpnProbe",
              "alpnConnect", "alpnHandshake", "allocating", "building" } \cup Running \cup Final

\* What main needs of the machine: memory, threads, and somebody who reads
\* what it prints.
Machine  == { "memory", "threads", "output" }
Panics   == Machine \cup { "overflow", "provider", "path", "host", "headers", "expect" }

NoConfig == [resolved |-> "none"]

Init ==
  /\ line \in CommandLines
  /\ server \in Servers
  /\ phase = "start"
  /\ cfg = NoConfig
  /\ probed = "none"
  /\ provider = FALSE
  /\ quicProbe = FALSE
  /\ limit = 0
  /\ alpn = {"none"}
  /\ end = "none"

-----------------------------------------------------------------------------
\* Where the main thread goes.

Goes(to) == phase' = to /\ UNCHANGED << line, server >>

Moves(to) ==
  Goes(to) /\ UNCHANGED << cfg, probed, provider, quicProbe, limit, alpn, end >>

Exit(code) ==
  /\ phase' = "exited"
  /\ end' = code
  /\ UNCHANGED << line, server, cfg, probed, provider, quicProbe, limit, alpn >>

Abort(cause) ==
  /\ phase' = "aborted"
  /\ end' = cause
  /\ UNCHANGED << line, server, cfg, probed, provider, quicProbe, limit, alpn >>

-----------------------------------------------------------------------------
\* parse_args

\* A number clap has parsed, or the default.
Value(arg, factor, default) == IF arg = NotGiven THEN default ELSE Scan(arg, factor)

Threads(l)     == Value(l.threads, MetricFactor, 2)
Connections(l) == Value(l.connections, MetricFactor, 10)
Streams(l)     == Value(l.streams, MetricFactor, 1)
Duration(l)    == Value(l.duration, TimeFactor, 10)
Seconds(l)     == Value(l.timeout, TimeFactor, 2)

\* clap refuses the whole line for one number that cannot be read.
Unreadable(l) ==
  l.error \/ None \in {Threads(l), Connections(l), Streams(l), Duration(l), Seconds(l)}

\* --http3 and --http2 override --http.
HttpVersion(l) == IF l.http3 THEN "Http3" ELSE IF l.http2 THEN "Http2" ELSE l.http

\* The largest u16.
U16Max == 65535

\* parse_url; a port that is not all digits is None here and part of the
\* host, and the scheme is "none" if the line has no URL.
BadUrl(l) == l.scheme \notin {"http", "https"} \/ l.host = "" \/ l.port > U16Max

Port(l) == IF l.port = None THEN DefaultPort(l.scheme) ELSE l.port

\* The checks after the parse, whose order only decides which message.
Invalid_FewConnections(l) ==
  \/ BadUrl(l)
  \/ 0 \in {Threads(l), Duration(l), Connections(l), Streams(l)}
  \/ HttpVersion(l) \in {"Http2", "Http3"} /\ l.scheme = "http"

Invalid(l) ==
  \/ BadUrl(l)
  \/ 0 \in {Threads(l), Duration(l), Connections(l), Streams(l)}
  \/ Connections(l) < Threads(l)
  \/ HttpVersion(l) \in {"Http2", "Http3"} /\ l.scheme = "http"

\* The Config, with the seconds of -T in milliseconds by an unchecked product.
Config(l) ==
  [ threads |-> Threads(l), connections |-> Connections(l), streams |-> Streams(l),
    duration |-> Duration(l), timeout |-> WrappingMul(Seconds(l), 1000),
    http |-> HttpVersion(l), scheme |-> l.scheme, host |-> l.host, port |-> Port(l),
    method |-> l.method, path |-> l.path, body |-> l.body, headers |-> l.headers,
    insecure |-> l.insecure, resolved |-> "none" ]

ParseArgs ==
  /\ phase = "start"
  /\ \/ Unreadable(line) /\ Exit("1")
     \/ ~Unreadable(line) /\ line.version /\ Exit("0")
     \/ ~Unreadable(line) /\ ~line.version /\ (line.help \/ Invalid(line)) /\ Exit("1")
     \/ /\ ~(Unreadable(line) \/ line.version \/ line.help \/ Invalid(line))
        /\ Goes("resolving")
        /\ cfg' = Config(line)
        /\ UNCHANGED << probed, provider, quicProbe, limit, alpn, end >>

-----------------------------------------------------------------------------
\* resolve_protocol

Resolved(version, spoken) ==
  /\ Goes("allocating")
  /\ cfg' = [cfg EXCEPT !.resolved = version]
  /\ probed' = spoken
  /\ UNCHANGED << provider, quicProbe, limit, alpn, end >>

\* build_endpoint installs a provider before it builds its configuration.
BuildEndpoint_OwnProvider == UNCHANGED provider

BuildEndpoint == provider' = TRUE

\* rustls takes a host name or an address, but no address in brackets.
ServerName(host) == host \notin { "[::1]", Control }

Resolve ==
  /\ phase = "resolving"
  /\ \/ cfg.http # "Auto" /\ Resolved(cfg.http, "none")
     \/ cfg.http = "Auto" /\ cfg.scheme = "http" /\ Resolved("Http1", "none")
     \/ cfg.http = "Auto" /\ cfg.scheme = "https" /\ Moves("alpnProbe")
     \/ /\ cfg.http = "Auto" /\ cfg.scheme = "https"
        /\ Goes("quicLookup") \/ Goes("alpnProbe")
        /\ BuildEndpoint
        /\ quicProbe' = TRUE
        /\ UNCHANGED << cfg, probed, limit, alpn, end >>

\* The lookup has no timeout.
QuicLookup ==
  /\ phase = "quicLookup"
  /\ Moves("alpnProbe") \/ (ServerName(cfg.host) /\ Moves("quicHandshake"))

\* The server's certificate is accepted.
Trusted == server.cert \/ cfg.insecure

QuicHandshake ==
  /\ phase = "quicHandshake"
  /\ Moves("alpnProbe") \/ (server.quic /\ Trusted /\ Resolved("Http3", "h3"))

\* probe_alpn: without a runtime it gives up, without a provider it panics.
ProbeAlpn ==
  /\ phase = "alpnProbe"
  /\ \/ Resolved("Http1", "none")
     \/ IF provider THEN Moves("alpnConnect") ELSE Abort("provider")

AlpnConnect ==
  /\ phase = "alpnConnect"
  /\ Resolved("Http1", "none") \/ (ServerName(cfg.host) /\ Moves("alpnHandshake"))

\* How a TLS handshake that offers these protocols can end: the server picks
\* one of them; if it knows none of them it may refuse or go on without.
Outcomes(offered) ==
  IF ~Trusted THEN {"refused"}
  ELSE IF offered \cap server.alpn # {} THEN offered \cap server.alpn
  ELSE {"none"} \cup (IF offered # {} /\ server.alpn # {} THEN {"refused"} ELSE {})

AlpnHandshake ==
  /\ phase = "alpnHandshake"
  /\ \/ Resolved("Http1", "none")
     \/ "h2" \in Outcomes({"h2", "http/1.1"}) /\ Resolved("Http2", "h2")
     \/ "http/1.1" \in Outcomes({"h2", "http/1.1"}) /\ Resolved("Http1", "http/1.1")

\* The one second each of these awaits has.
Timer_NotHandshake ==
  \/ phase = "quicHandshake" /\ Moves("alpnProbe")
  \/ phase = "alpnConnect" /\ Resolved("Http1", "none")

Timer ==
  \/ phase = "quicHandshake" /\ Moves("alpnProbe")
  \/ phase \in {"alpnConnect", "alpnHandshake"} /\ Resolved("Http1", "none")

-----------------------------------------------------------------------------
\* The rest of main, up to the threads, and a connection's first request.

LatencyMax_Wraps(timeout) == WrappingMul(timeout, 1000)

LatencyMax(timeout) == SaturatingMul(timeout, 1000)

\* Stats::alloc(latency_max): max + 1 is checked.
Limit_Unchecked(max) == max + 1

Limit(max) == IF max = U64Max THEN None ELSE max + 1

Allocate ==
  /\ phase = "allocating"
  /\ IF Limit(LatencyMax(cfg.timeout)) = None THEN Abort("overflow")
     ELSE /\ Goes("building")
          /\ limit' = Limit(LatencyMax(cfg.timeout))
          /\ UNCHANGED << cfg, probed, provider, quicProbe, alpn, end >>

\* The protocols build_tls advertises.
Advertised_Both(version) == {"h2", "http/1.1"}

Advertised(version) ==
  CASE version = "Http2" -> {"h2"} [] version = "Http1" -> {"http/1.1"} [] OTHER -> {}

\* The threads are spawned.
Spawn(offered) ==
  /\ Goes("running")
  /\ alpn' = offered
  /\ UNCHANGED << cfg, probed, quicProbe, limit, end >>

\* build_tls gives nothing for http, which HTTP/2 does not expect.
BuildTls ==
  \/ /\ cfg.scheme = "http"
     /\ IF cfg.resolved = "Http2" THEN Abort("expect") ELSE Spawn(alpn) /\ UNCHANGED provider
  \/ /\ cfg.scheme = "https"
     /\ IF ServerName(cfg.host)
          THEN Spawn(Advertised(cfg.resolved)) /\ provider' = TRUE ELSE Exit("1")

\* The runtime and the endpoint of an HTTP/3 run, or build_tls.
Build ==
  /\ phase = "building"
  /\ \/ cfg.resolved = "Http3" /\ (Exit("1") \/ (Spawn(alpn) /\ BuildEndpoint))
     \/ cfg.resolved # "Http3" /\ BuildTls

\* Before it connects, a task of HTTP/1 makes a header value of the host, and
\* one of the others a map with room for the user's headers.
Prepares ==
  IF cfg.resolved = "Http1" THEN HeaderValue(HostHeader(cfg))
  ELSE Len(cfg.headers) + 2 <= HeaderRoom

FirstPoll ==
  /\ phase = "running"
  /\ ~Prepares
  /\ Abort(IF cfg.resolved = "Http1" THEN "host" ELSE "headers")

\* A connection is up and its task builds a request.  quinn opens connections
\* to server names only.  HTTP/1 has up to three headers of its own.
FirstRequest ==
  /\ phase = "running"
  /\ Prepares
  /\ cfg.resolved = "Http3" => ServerName(cfg.host)
  /\ IF cfg.resolved = "Http1" /\ cfg.path = "invalid" THEN Abort("path")
     ELSE \/ Moves("requesting")
          \/ /\ cfg.resolved = "Http1" /\ Len(cfg.headers) + 3 > HeaderRoom
             /\ Abort("headers")

\* An allocation, the start of a thread (main's, or tokio's for a lookup) and
\* a print end the process if they fail.
MachineFails == phase \notin Final /\ \E cause \in Machine : Abort(cause)

Ended == phase \in Running \cup Final /\ UNCHANGED vars

Program == ParseArgs \/ Resolve \/ ProbeAlpn \/ Allocate \/ Build
Network == QuicHandshake \/ AlpnConnect \/ AlpnHandshake \/ FirstRequest

Next == Program \/ QuicLookup \/ Network \/ Timer \/ FirstPoll \/ MachineFails \/ Ended

\* main runs, timers fire, and the system's resolver gives up some time.
\* Nothing is assumed of the server.
Spec ==
  /\ Init /\ [][Next]_vars
  /\ WF_vars(Program) /\ WF_vars(QuicLookup) /\ WF_vars(Timer)

-----------------------------------------------------------------------------
\* Properties.

\* The types of the variables.
TypeOK ==
  /\ phase \in Phases
  /\ cfg.resolved \in {"none", "Http1", "Http2", "Http3"}
  /\ probed \in {"none", "h3", "h2", "http/1.1"}
  /\ provider \in BOOLEAN /\ quicProbe \in BOOLEAN
  /\ limit \in 0 .. U64Max
  /\ alpn \subseteq {"none", "h2", "http/1.1"}
  /\ end \in {"none", "0", "1"} \cup Panics

\* What the run's modules assume of their constants, and what the `expect`s
\* of main.rs:103 assume of build_tls, the command line has been checked for.
RunnableConfig ==
  phase \in Running =>
    /\ cfg.threads \in 1 .. cfg.connections /\ cfg.streams >= 1 /\ cfg.duration >= 1
    /\ cfg.resolved \in {"Http2", "Http3"} => cfg.scheme = "https"
    /\ alpn = {"none"} <=> cfg.scheme = "http" \/ cfg.resolved = "Http3"

\* Every response that is not late has a bucket in the histogram, however long
\* the timeout: none is a timeout error because record refused it.  Late is
\* what connection.rs:348 takes for it, more than the timeout; and the timeout
\* is the one of -T (README.md:130 and 173) if its milliseconds fit in a u64.
HistogramCoversTimeout ==
  phase \in Running =>
    /\ limit > 1000 * cfg.timeout
    /\ 1000 * Seconds(line) <= U64Max => cfg.timeout = 1000 * Seconds(line)

\* A protocol that a probe found the server to speak is the one that the
\* connections of the run get: they offer it, and it is the only one they may
\* be given, over a TLS configuration that main builds a second time.
NegotiationConnects ==
  phase \in Running /\ probed # "none" =>
    IF probed = "h3" THEN cfg.resolved = "Http3" /\ server.quic /\ Trusted
    ELSE Outcomes(alpn) = {probed} /\ (probed = "h2" <=> cfg.resolved = "Http2")

\* No panic but where the machine fails or for a command line that asks for
\* it: a timeout beyond any clock, for HTTP/1 a path that is no URI or a host
\* that is no header value, and more headers than a map has room for; and, if
\* probe_quic could not even build a runtime, in probe_alpn, which counts on
\* it for the provider.
AbortsExplained ==
  phase = "aborted" =>
    CASE end = "overflow" -> 1000 * Seconds(line) >= U64Max \div 1000
      [] end = "path"     -> HttpVersion(line) \in {"Http1", "Auto"} /\ line.path = "invalid"
      [] end = "host"     -> line.scheme = "http" /\ line.host = Control
      [] end = "headers"  -> Len(line.headers) + 3 > HeaderRoom
      [] end = "provider" -> HttpVersion(line) = "Auto" /\ ~quicProbe
      [] OTHER            -> end \in Machine

\* The -H headers of a name after the i-th one.
Later(i, name) ==
  { k \in DOMAIN cfg.headers :
      k > i /\ cfg.headers[k][1] = name /\ ValidHeader(cfg.headers[k]) }

\* With a body, the program's content-length is sent after the user's over
\* HTTP/2, and instead of them over HTTP/1.
OwnLast(c, name) ==
  IF name = "content-length" /\ c.body > 0 /\ c.resolved = "Http2" THEN 1 ELSE 0

Replaced(c, name) == name = "content-length" /\ c.body > 0 /\ c.resolved = "Http1"

\* README.md:112 to 140: a request has the method and the path, goes to the
\* server of the URL, and carries every -H that is a header in its order: the
\* values of a name end with those given, but for a content-length (OwnLast,
\* Replaced).  Over HTTP/1 and HTTP/2 it has also the body, with its length as
\* the last content-length.  Over HTTP/2 and HTTP/3 the host must be one that
\* a URI can have.
RequestsCarryOptions ==
  phase = "requesting" /\ cfg.path = "absolute"
                       /\ (cfg.resolved = "Http1" \/ UriHost(cfg.host)) =>
    LET r == Request(cfg.resolved, cfg)
    IN  /\ r.method = cfg.method /\ r.path = cfg.path
        /\ << cfg.host, cfg.port >> =
             r.authority \o IF Len(r.authority) = 1 THEN << DefaultPort(cfg.scheme) >> ELSE << >>
        /\ \A i \in DOMAIN cfg.headers :
             LET name   == cfg.headers[i][1]
                 values == r.headers[name]
                 after  == Cardinality(Later(i, name)) + OwnLast(cfg, name)
             IN  ValidHeader(cfg.headers[i]) /\ ~Replaced(cfg, name) =>
                   Len(values) > after /\ values[Len(values) - after] = cfg.headers[i][2]
        /\ cfg.body > 0 /\ cfg.resolved # "Http3" =>
             /\ r.body = cfg.body
             /\ Last(r.headers["content-length"]) = << ToString(cfg.body) >>

\* README.md:140 says of -b that the body is "sent with a `Content-Length`".
BodySent ==
  phase = "requesting" => Request(cfg.resolved, cfg).body = cfg.body

\* Whatever the server does, the probes come to an end and the run starts, or
\* the program says why not.
StartupEnds == <>(phase \in Running \cup Final)

\* The duration in the header of the run, given to -d again, is the duration
\* up to half of the unit it is shown in, as far as an f64 has it exactly.
HeaderTellsDuration ==
  phase \in Running /\ cfg.duration <= F64Exact =>
    \A shown \in FormatTimeS(cfg.duration) :
      2 * (Scan(shown, TimeFactor) - cfg.duration)
        \in -TimeFactor[shown.unit] .. TimeFactor[shown.unit]
=============================================================================
