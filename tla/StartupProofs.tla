--------------------------- MODULE StartupProofs ---------------------------
(***************************************************************************)
(* Proofs about Startup, for every set of command lines and servers, any   *)
(* width of the integers and any scale of the units.                       *)
(***************************************************************************)
EXTENDS Startup, Sums

Versions == {"none", "Http1", "Http2", "Http3"}

\* What parse_args returns.
ConfigType ==
  [ threads : Int, connections : Int, streams : Int, duration : Int, timeout : Nat,
    http : {"Http1", "Http2", "Http3", "Auto"}, scheme : STRING, host : STRING,
    port : Int, method : STRING, path : {"absolute", "relative", "invalid"},
    body : Nat, headers : Seq(HeaderNames \X Seq(STRING)), insecure : BOOLEAN,
    resolved : Versions ]

-----------------------------------------------------------------------------
\* Numbers from the command line.

LEMMA CheckedMulType ==
  ASSUME NEW a \in Nat, NEW b \in Nat \ {0}
  PROVE  CheckedMul(a, b) \in Nat \cup {None}
BY U64MaxAssumption DEF CheckedMul, None

LEMMA FactorTypes ==
  /\ TimeFactor \in [{"", "s", "m", "h"} -> Nat \ {0}]
  /\ MetricFactor \in [{"", "k", "m", "g", "t", "p"} -> Nat \ {0}]
<1>1. TimeFactor \in [{"", "s", "m", "h"} -> Nat \ {0}]
  BY DEF TimeFactor
<1>2. MetricFactor \in [{"", "k", "m", "g", "t", "p"} -> Nat \ {0}]
  <2> DEFINE k == MetricScale
             m == k * MetricScale
             g == m * MetricScale
             t == g * MetricScale
             p == t * MetricScale
  <2>1. ASSUME NEW a \in Nat \ {0} PROVE a * MetricScale \in Nat \ {0}
    BY MetricScaleAssumption
  <2>2. k \in Nat \ {0}
    BY MetricScaleAssumption
  <2>3. m \in Nat \ {0}
    BY <2>1, <2>2
  <2>4. g \in Nat \ {0}
    BY <2>1, <2>3
  <2>5. t \in Nat \ {0}
    BY <2>1, <2>4
  <2>6. p \in Nat \ {0}
    BY <2>1, <2>5
  <2>7. MetricFactor = [u \in {"", "k", "m", "g", "t", "p"} |->
          CASE u = "k" -> k [] u = "m" -> m [] u = "g" -> g [] u = "t" -> t
            [] u = "p" -> p [] OTHER -> 1]
    BY DEF MetricFactor
  <2> HIDE DEF k, m, g, t, p
  <2>8. ASSUME NEW u \in {"", "k", "m", "g", "t", "p"}
        PROVE  MetricFactor[u] \in {1, k, m, g, t, p}
    BY <2>7
  <2>9. \A n \in {1, k, m, g, t, p} : n \in Nat \ {0}
    BY <2>2, <2>3, <2>4, <2>5, <2>6
  <2>10. MetricFactor = [u \in {"", "k", "m", "g", "t", "p"} |-> MetricFactor[u]]
    BY DEF MetricFactor
  <2>11. \A u \in {"", "k", "m", "g", "t", "p"} : MetricFactor[u] \in Nat \ {0}
    <3> HIDE DEF MetricFactor
    <3> QED
      BY ONLY <2>8, <2>9, Zenon
  <2> HIDE DEF MetricFactor
  <2> QED
    BY <2>10, <2>11
<1> QED
  BY <1>1, <1>2

\* A number of the command line is natural unless clap refuses it.
LEMMA ValueType ==
  ASSUME NEW arg \in Arg, NEW factor, NEW S, factor \in [S -> Nat \ {0}],
         NEW default \in Nat
  PROVE  Value(arg, factor, default) \in Nat \cup {None}
<1>1. Scan(arg, factor) \in Nat \cup {None}
  <2>1. CASE arg.digits \in 0 .. U64Max /\ arg.unit \in DOMAIN factor
    <3>1. arg.digits \in Nat /\ factor[arg.unit] \in Nat \ {0}
      BY <2>1, U64MaxAssumption
    <3> QED
      BY <2>1, <3>1, CheckedMulType DEF Scan
  <2>2. CASE ~(arg.digits \in 0 .. U64Max /\ arg.unit \in DOMAIN factor)
    BY <2>2 DEF Scan
  <2> QED
    BY <2>1, <2>2
<1> QED
  BY <1>1 DEF Value

LEMMA NumbersReadable ==
  ASSUME NEW l \in CommandLine, ~Unreadable(l)
  PROVE  /\ Threads(l) \in Nat /\ Connections(l) \in Nat /\ Streams(l) \in Nat
         /\ Duration(l) \in Nat /\ Seconds(l) \in Nat
<1>1. /\ l.threads \in Arg /\ l.connections \in Arg /\ l.streams \in Arg
      /\ l.duration \in Arg /\ l.timeout \in Arg
  BY DEF CommandLine
<1>2. /\ Threads(l) \in Nat \cup {None} /\ Connections(l) \in Nat \cup {None}
      /\ Streams(l) \in Nat \cup {None} /\ Duration(l) \in Nat \cup {None}
      /\ Seconds(l) \in Nat \cup {None}
  <2>1. Threads(l) \in Nat \cup {None}
    BY <1>1, FactorTypes, ValueType DEF Threads
  <2>2. Connections(l) \in Nat \cup {None}
    BY <1>1, FactorTypes, ValueType DEF Connections
  <2>3. Streams(l) \in Nat \cup {None}
    BY <1>1, FactorTypes, ValueType DEF Streams
  <2>4. Duration(l) \in Nat \cup {None}
    BY <1>1, FactorTypes, ValueType DEF Duration
  <2>5. Seconds(l) \in Nat \cup {None}
    BY <1>1, FactorTypes, ValueType DEF Seconds
  <2> QED
    BY <2>1, <2>2, <2>3, <2>4, <2>5
<1> QED
  BY <1>2 DEF Unreadable

\* The milliseconds of -T, wrapped, are at most the product that was meant.
LEMMA Wrapped ==
  ASSUME NEW a \in Nat
  PROVE  WrappingMul(a, 1000) \in Nat /\ WrappingMul(a, 1000) <= 1000 * a
BY U64MaxAssumption DEF WrappingMul

LEMMA ValidUrl ==
  ASSUME NEW l, ~Invalid(l)
  PROVE  /\ l.scheme \in {"http", "https"}
         /\ HttpVersion(l) \in {"Http2", "Http3"} => l.scheme = "https"
<1>1. /\ ~BadUrl(l)
      /\ ~(HttpVersion(l) \in {"Http2", "Http3"} /\ l.scheme = "http")
  BY Zenon DEF Invalid
<1>2. l.scheme \in {"http", "https"}
  BY <1>1, Zenon DEF BadUrl
<1> QED
  BY <1>1, <1>2

LEMMA ConfigTyped ==
  ASSUME NEW l \in CommandLine, ~Unreadable(l)
  PROVE  Config(l) \in ConfigType
<1>1. /\ Threads(l) \in Int /\ Connections(l) \in Int /\ Streams(l) \in Int
      /\ Duration(l) \in Int
  BY NumbersReadable
<1>2. WrappingMul(Seconds(l), 1000) \in Nat
  BY NumbersReadable, Wrapped
<1>3. HttpVersion(l) \in {"Http1", "Http2", "Http3", "Auto"}
  BY DEF HttpVersion, CommandLine
<1>4. Port(l) \in Int
  BY DEF Port, CommandLine, DefaultPort, None
<1>5. /\ l.scheme \in STRING /\ l.host \in STRING /\ l.method \in STRING
      /\ l.path \in {"absolute", "relative", "invalid"} /\ l.body \in Nat
      /\ l.headers \in Seq(HeaderNames \X Seq(STRING)) /\ l.insecure \in BOOLEAN
  BY DEF CommandLine
<1> QED
  BY <1>1, <1>2, <1>3, <1>4, <1>5 DEF Config, ConfigType, Versions

-----------------------------------------------------------------------------
\* The inductive invariant, in parts.

Configured == phase \notin {"start"} \cup Final
VersionChosen == phase \in {"allocating", "building"} \cup Running
Probing    == phase \in {"quicLookup", "quicHandshake", "alpnProbe", "alpnConnect",
                         "alpnHandshake"}

\* The configuration is the one the command line asks for.
FromLine ==
  /\ line \in CommandLine
  /\ Configured =>
       /\ ~Unreadable(line) /\ ~Invalid(line)
       /\ cfg \in ConfigType
       /\ cfg.threads = Threads(line) /\ cfg.connections = Connections(line)
       /\ cfg.streams = Streams(line) /\ cfg.duration = Duration(line)
       /\ cfg.timeout = WrappingMul(Seconds(line), 1000)
       /\ cfg.http = HttpVersion(line) /\ cfg.scheme = line.scheme
       /\ cfg.path = line.path /\ cfg.host = line.host /\ cfg.headers = line.headers

\* Probes are for Auto and https only; what was chosen fits the command line
\* and what the probes found.
Choice ==
  /\ Probing => cfg.http = "Auto" /\ cfg.scheme = "https"
  /\ VersionChosen =>
       /\ cfg.resolved # "none"
       /\ cfg.resolved \in {"Http2", "Http3"} => cfg.scheme = "https"
       /\ cfg.resolved = "Http1" => cfg.http \in {"Http1", "Auto"}
       /\ probed = "h3" => cfg.resolved = "Http3" /\ server.quic /\ Trusted
       /\ probed = "h2" => cfg.resolved = "Http2" /\ Trusted /\ "h2" \in server.alpn
       /\ probed = "http/1.1" =>
            /\ cfg.resolved = "Http1" /\ cfg.scheme = "https"
            /\ Trusted /\ "http/1.1" \in server.alpn

\* The histogram has been allocated without an overflow.
Covered ==
  phase \in {"building"} \cup Running =>
    LatencyMax(cfg.timeout) # U64Max /\ limit = LatencyMax(cfg.timeout) + 1

\* build_tls has run exactly if it should, with a name it accepts.
Offered ==
  /\ phase \notin Running \cup Final => alpn = {"none"}
  /\ phase \in Running =>
       alpn = IF cfg.scheme = "http" \/ cfg.resolved = "Http3"
                THEN {"none"} ELSE Advertised(cfg.resolved)
  /\ phase \in Running /\ cfg.scheme = "https" /\ cfg.resolved # "Http3" =>
       ServerName(cfg.host)

ProviderKept == quicProbe => provider

IInv ==
  /\ TypeOK
  /\ FromLine
  /\ Choice
  /\ Covered
  /\ Offered
  /\ ProviderKept
  /\ AbortsExplained

LEMMA LatencyMaxType ==
  ASSUME NEW t \in Nat
  PROVE  LatencyMax(t) \in 0 .. U64Max
BY U64MaxAssumption DEF LatencyMax, SaturatingMul

LEMMA LimitType ==
  ASSUME NEW max \in 0 .. U64Max
  PROVE  IF max = U64Max THEN Limit(max) = None
         ELSE Limit(max) = max + 1 /\ Limit(max) \in 0 .. U64Max /\ Limit(max) # None
BY U64MaxAssumption DEF Limit, None

LEMMA InitIInv == Init => IInv
<1> SUFFICES ASSUME Init PROVE IInv
  OBVIOUS
<1>1. FromLine /\ Choice /\ Covered /\ Offered /\ ProviderKept /\ AbortsExplained
  BY CommandLinesAssumption
     DEF Init, FromLine, Choice, Covered, Offered, ProviderKept, AbortsExplained,
         Configured, VersionChosen, Probing, Running, Final
<1>2. limit \in 0 .. U64Max
  BY U64MaxAssumption DEF Init
<1>3. TypeOK
  BY <1>2, Zenon DEF Init, TypeOK, Phases, NoConfig
<1> QED
  BY <1>1, <1>3 DEF IInv

USE DEF Running, Final

\* No step changes the command line or the server.
LEMMA LineKept == [Next]_vars => line' = line /\ server' = server
<1> SUFFICES ASSUME [Next]_vars PROVE line' = line /\ server' = server
  OBVIOUS
<1> USE DEF Goes, Moves, Exit, Abort, Resolved
<1>1. CASE ParseArgs \/ Resolve \/ QuicLookup \/ QuicHandshake
  BY <1>1 DEF ParseArgs, Resolve, QuicLookup, QuicHandshake
<1>2. CASE ProbeAlpn \/ AlpnConnect \/ AlpnHandshake \/ Timer
  BY <1>2 DEF ProbeAlpn, AlpnConnect, AlpnHandshake, Timer
<1>3. CASE Allocate \/ FirstPoll \/ FirstRequest \/ MachineFails
  BY <1>3 DEF Allocate, FirstPoll, FirstRequest, MachineFails
<1>4. CASE Build
  BY <1>4 DEF Build, BuildTls, Spawn
<1>5. CASE Ended \/ UNCHANGED vars
  BY <1>5 DEF Ended, vars
<1> QED
  BY <1>1, <1>2, <1>3, <1>4, <1>5 DEF Next, Program, Network

\* Choosing a version changes the resolved field only.
LEMMA ResolvedKeeps ==
  ASSUME NEW c \in ConfigType, NEW v \in Versions
  PROVE  LET d == [c EXCEPT !.resolved = v]
         IN  /\ d \in ConfigType /\ d.resolved = v
             /\ d.threads = c.threads /\ d.connections = c.connections
             /\ d.streams = c.streams /\ d.duration = c.duration
             /\ d.timeout = c.timeout /\ d.http = c.http /\ d.scheme = c.scheme
             /\ d.path = c.path /\ d.host = c.host /\ d.insecure = c.insecure
             /\ d.headers = c.headers
BY DEF ConfigType

\* The configuration is written by parse_args and by the choice of the version.
LEMMA FromLineStep == IInv /\ [Next]_vars => FromLine'
<1> SUFFICES ASSUME IInv, [Next]_vars PROVE FromLine'
  OBVIOUS
<1>1. line' = line
  BY LineKept
<1>2. CASE ParseArgs
  <2>1. CASE phase' = "exited"
    BY <1>1, <2>1 DEF IInv, FromLine, Configured
  <2>2. CASE phase' # "exited"
    <3>1. ~Unreadable(line) /\ ~Invalid(line) /\ cfg' = Config(line)
      BY <1>2, <2>2 DEF ParseArgs, Exit
    <3>2. cfg' \in ConfigType
      BY <3>1, ConfigTyped DEF IInv, FromLine
    <3> QED
      BY <1>1, <3>1, <3>2 DEF IInv, FromLine, Config
  <2> QED
    BY <2>1, <2>2
<1>3. CASE Configured /\ \E v \in Versions : \E s : Resolved(v, s)
  <2>1. PICK v \in Versions : cfg' = [cfg EXCEPT !.resolved = v]
    BY <1>3 DEF Resolved
  <2> QED
    BY <1>1, <1>3, <2>1, ResolvedKeeps DEF IInv, FromLine
<1>4. CASE cfg' = cfg /\ (Configured' => Configured)
  BY <1>1, <1>4 DEF IInv, FromLine
<1>5. CASE Resolve
  <2>1. CASE Resolved(cfg.http, "none") /\ cfg.http # "Auto"
    <3>1. cfg.http \in Versions
      BY <1>5, <2>1 DEF Resolve, IInv, FromLine, Configured, ConfigType, Versions
    <3> QED
      BY <1>3, <1>5, <2>1, <3>1 DEF Resolve, Configured
  <2>2. CASE Resolved("Http1", "none")
    BY <1>3, <1>5, <2>2 DEF Resolve, Configured, Versions
  <2>3. CASE cfg' = cfg
    BY <1>4, <1>5, <2>3 DEF Resolve, Configured
  <2> QED
    BY <1>5, <2>1, <2>2, <2>3 DEF Resolve, Moves
<1>6. CASE QuicHandshake
  BY <1>3, <1>4, <1>6 DEF QuicHandshake, Configured, Versions, Moves
<1>7. CASE ProbeAlpn
  BY <1>3, <1>4, <1>7 DEF ProbeAlpn, Configured, Versions, Moves, Abort
<1>8. CASE AlpnConnect
  BY <1>3, <1>4, <1>8 DEF AlpnConnect, Configured, Versions, Moves
<1>9. CASE AlpnHandshake
  BY <1>3, <1>9 DEF AlpnHandshake, Configured, Versions
<1>10. CASE Timer
  BY <1>3, <1>4, <1>10 DEF Timer, Configured, Versions, Moves
<1>11. CASE QuicLookup
  BY <1>4, <1>11 DEF QuicLookup, Configured, Moves
<1>12. CASE Allocate
  BY <1>4, <1>12 DEF Allocate, Configured, Abort
<1>13. CASE Build
  BY <1>4, <1>13 DEF Build, BuildTls, Configured, Abort, Exit, Spawn
<1>14. CASE FirstPoll \/ FirstRequest \/ MachineFails
  BY <1>4, <1>14 DEF FirstPoll, FirstRequest, MachineFails, Configured, Abort, Moves
<1>15. CASE Ended \/ UNCHANGED vars
  BY <1>4, <1>15 DEF Ended, vars, Configured
<1> QED
  BY <1>2, <1>5, <1>6, <1>7, <1>8, <1>9, <1>10, <1>11, <1>12, <1>13, <1>14, <1>15
     DEF Next, Program, Network

\* What resolve_protocol must know of a version v chosen after a probe found s.
Fits(v, s) ==
  /\ v \in {"Http2", "Http3"} => cfg.scheme = "https"
  /\ v = "Http1" => cfg.http \in {"Http1", "Auto"}
  /\ s = "h3" => v = "Http3" /\ server.quic /\ Trusted
  /\ s = "h2" => v = "Http2" /\ Trusted /\ "h2" \in server.alpn
  /\ s = "http/1.1" => /\ v = "Http1" /\ cfg.scheme = "https"
                       /\ Trusted /\ "http/1.1" \in server.alpn

LEMMA ChoiceMade ==
  ASSUME IInv, Configured, NEW v \in {"Http1", "Http2", "Http3"}, NEW s,
         Resolved(v, s), Fits(v, s)
  PROVE  Choice'
<1>1. /\ cfg'.resolved = v /\ cfg'.scheme = cfg.scheme /\ cfg'.http = cfg.http
      /\ cfg'.insecure = cfg.insecure
  <2>1. cfg \in ConfigType
    BY DEF IInv, FromLine
  <2>2. cfg' = [cfg EXCEPT !.resolved = v] /\ v \in Versions
    BY DEF Resolved, Versions
  <2> QED
    BY <2>1, <2>2, ResolvedKeeps
<1>2. probed' = s /\ phase' = "allocating" /\ server' = server
  BY DEF Resolved, Goes
<1>3. Trusted' <=> Trusted
  BY <1>1, <1>2 DEF Trusted
<1> QED
  BY <1>1, <1>2, <1>3 DEF Fits, Choice, Probing, VersionChosen

\* Probes start for Auto and https only, and a version is chosen that fits.
LEMMA ChoiceStep == IInv /\ [Next]_vars => Choice'
<1> SUFFICES ASSUME IInv, [Next]_vars PROVE Choice'
  OBVIOUS
<1>1. server' = server
  BY LineKept
<1>2. CASE ~Probing' /\ ~VersionChosen'
  BY <1>2 DEF Choice
<1>3. CASE Probing /\ Resolved("Http1", "none")
  BY <1>3, ChoiceMade DEF Fits, IInv, Choice, Probing, Configured
<1>4. CASE /\ cfg' = cfg /\ probed' = probed
           /\ Probing' => Probing \/ (cfg.http = "Auto" /\ cfg.scheme = "https")
           /\ VersionChosen' => VersionChosen
  BY <1>1, <1>4 DEF IInv, Choice, Trusted
<1>5. CASE ParseArgs
  BY <1>2, <1>5 DEF ParseArgs, Exit, Goes, Probing, VersionChosen
<1>6. CASE Resolve
  <2>1. Configured
    BY <1>6 DEF Resolve, Configured
  <2>2. CASE Resolved(cfg.http, "none") /\ cfg.http # "Auto"
    <3>1. /\ cfg \in ConfigType /\ ~Invalid(line)
          /\ cfg.http = HttpVersion(line) /\ cfg.scheme = line.scheme
      BY <2>1 DEF IInv, FromLine
    <3>2. cfg.http \in {"Http1", "Http2", "Http3"}
      BY <2>2, <3>1 DEF ConfigType
    <3>3. cfg.http \in {"Http2", "Http3"} => cfg.scheme = "https"
      BY <3>1, ValidUrl
    <3> QED
      BY <2>1, <2>2, <3>2, <3>3, ChoiceMade DEF Fits
  <2>3. CASE cfg.http = "Auto" /\ Resolved("Http1", "none")
    BY <2>1, <2>3, ChoiceMade DEF Fits
  <2>4. CASE /\ cfg.http = "Auto" /\ cfg.scheme = "https"
             /\ cfg' = cfg /\ probed' = probed /\ phase' \in {"quicLookup", "alpnProbe"}
    BY <1>4, <2>4 DEF VersionChosen
  <2> QED
    BY <1>6, <2>2, <2>3, <2>4 DEF Resolve, Moves, Goes
<1>7. CASE QuicHandshake
  <2>1. Configured /\ Probing /\ cfg.scheme = "https"
    BY <1>7 DEF QuicHandshake, Configured, Probing, IInv, Choice
  <2>2. CASE Moves("alpnProbe")
    BY <1>4, <2>1, <2>2 DEF Moves, Goes, VersionChosen
  <2>3. CASE server.quic /\ Trusted /\ Resolved("Http3", "h3")
    BY <2>1, <2>3, ChoiceMade DEF Fits
  <2> QED
    BY <1>7, <2>2, <2>3 DEF QuicHandshake
<1>8. CASE ProbeAlpn
  BY <1>2, <1>3, <1>4, <1>8 DEF ProbeAlpn, Moves, Goes, Abort, Probing, VersionChosen
<1>9. CASE AlpnConnect
  BY <1>3, <1>4, <1>9 DEF AlpnConnect, Moves, Goes, Probing, VersionChosen
<1>10. CASE AlpnHandshake
  <2>1. Configured /\ Probing /\ cfg.http = "Auto" /\ cfg.scheme = "https"
    BY <1>10 DEF AlpnHandshake, Configured, Probing, IInv, Choice
  <2>2. \A p \in {"h2", "http/1.1"} :
          p \in Outcomes({"h2", "http/1.1"}) => Trusted /\ p \in server.alpn
    BY DEF Outcomes
  <2>3. CASE "h2" \in Outcomes({"h2", "http/1.1"}) /\ Resolved("Http2", "h2")
    BY <2>1, <2>2, <2>3, ChoiceMade DEF Fits
  <2>4. CASE "http/1.1" \in Outcomes({"h2", "http/1.1"}) /\ Resolved("Http1", "http/1.1")
    BY <2>1, <2>2, <2>4, ChoiceMade DEF Fits
  <2> QED
    BY <1>3, <1>10, <2>1, <2>3, <2>4 DEF AlpnHandshake
<1>11. CASE Timer
  BY <1>3, <1>4, <1>11 DEF Timer, Moves, Goes, Probing, VersionChosen
<1>12. CASE QuicLookup
  BY <1>4, <1>12 DEF QuicLookup, Moves, Goes, Probing, VersionChosen
<1>13. CASE Allocate
  BY <1>2, <1>4, <1>13 DEF Allocate, Abort, Goes, Probing, VersionChosen
<1>14. CASE Build
  BY <1>2, <1>4, <1>14 DEF Build, BuildTls, Abort, Exit, Spawn, Goes, Probing, VersionChosen
<1>15. CASE FirstPoll \/ FirstRequest \/ MachineFails
  BY <1>2, <1>4, <1>15 DEF FirstPoll, FirstRequest, MachineFails, Abort, Moves, Goes,
                           Probing, VersionChosen
<1>16. CASE Ended \/ UNCHANGED vars
  BY <1>4, <1>16 DEF Ended, vars, Probing, VersionChosen
<1> QED
  BY <1>5, <1>6, <1>7, <1>8, <1>9, <1>10, <1>11, <1>12, <1>13, <1>14, <1>15, <1>16
     DEF Next, Program, Network

\* The histogram is allocated in the last step before the TLS configuration.
LEMMA CoveredStep == IInv /\ [Next]_vars => Covered'
<1> SUFFICES ASSUME IInv, [Next]_vars PROVE Covered'
  OBVIOUS
<1>1. CASE phase' \notin {"building"} \cup Running
  BY <1>1 DEF Covered
<1>2. CASE /\ cfg' = cfg /\ limit' = limit
           /\ phase' \in {"building"} \cup Running => phase \in {"building"} \cup Running
  BY <1>2 DEF IInv, Covered
<1>3. CASE Allocate
  <2>1. CASE phase' = "aborted"
    BY <1>1, <2>1
  <2>2. CASE phase' # "aborted"
    <3>1. /\ Limit(LatencyMax(cfg.timeout)) # None
          /\ limit' = Limit(LatencyMax(cfg.timeout)) /\ cfg' = cfg
      BY <1>3, <2>2 DEF Allocate, Abort
    <3>2. cfg.timeout \in Nat
      BY <1>3 DEF Allocate, IInv, FromLine, Configured, ConfigType
    <3> QED
      BY <3>1, <3>2, LatencyMaxType, LimitType DEF Covered
  <2> QED
    BY <2>1, <2>2
<1>4. CASE Build
  BY <1>1, <1>2, <1>4 DEF Build, BuildTls, Abort, Exit, Spawn, Goes
<1>5. CASE FirstPoll \/ FirstRequest \/ MachineFails
  BY <1>1, <1>2, <1>5 DEF FirstPoll, FirstRequest, MachineFails, Abort, Moves, Goes
<1>6. CASE Ended \/ UNCHANGED vars
  BY <1>2, <1>6 DEF Ended, vars
<1>7. CASE ParseArgs \/ Resolve \/ ProbeAlpn \/ QuicLookup \/ QuicHandshake
             \/ AlpnConnect \/ AlpnHandshake \/ Timer
  BY <1>1, <1>7
     DEF ParseArgs, Resolve, ProbeAlpn, QuicLookup, QuicHandshake, AlpnConnect,
         AlpnHandshake, Timer, Exit, Abort, Moves, Goes, Resolved
<1> QED
  BY <1>3, <1>4, <1>5, <1>6, <1>7 DEF Next, Program, Network

\* The protocols offered are set when the threads are spawned.
LEMMA OfferedStep == IInv /\ [Next]_vars => Offered'
<1> SUFFICES ASSUME IInv, [Next]_vars PROVE Offered'
  OBVIOUS
<1>1. CASE phase' \in Final
  BY <1>1 DEF Offered
<1>2. CASE /\ phase \notin Running \cup Final /\ phase' \notin Running \cup Final
           /\ alpn' = alpn
  BY <1>2 DEF IInv, Offered
<1>3. CASE /\ phase \in Running /\ phase' \in Running /\ alpn' = alpn /\ cfg' = cfg
  BY <1>3 DEF IInv, Offered
<1>4. CASE Build
  <2>1. phase = "building" /\ alpn = {"none"} /\ Configured /\ VersionChosen
    BY <1>4 DEF Build, IInv, Offered, Configured, VersionChosen
  <2>2. cfg.scheme \in {"http", "https"}
    BY <2>1, ValidUrl DEF IInv, FromLine
  <2>3. cfg.resolved = "Http3" => cfg.scheme = "https"
    BY <2>1 DEF IInv, Choice
  <2> QED
    BY <1>1, <1>4, <2>1, <2>2, <2>3
       DEF Build, BuildTls, Abort, Exit, Spawn, Goes, Offered
<1>5. CASE FirstPoll \/ FirstRequest \/ MachineFails
  BY <1>1, <1>3, <1>5 DEF FirstPoll, FirstRequest, MachineFails, Abort, Moves, Goes
<1>6. CASE Ended \/ UNCHANGED vars
  BY <1>6 DEF Ended, vars, IInv, Offered
<1>7. CASE ParseArgs \/ Resolve \/ ProbeAlpn \/ QuicLookup \/ QuicHandshake
             \/ AlpnConnect \/ AlpnHandshake \/ Timer \/ Allocate
  BY <1>1, <1>2, <1>7
     DEF ParseArgs, Resolve, ProbeAlpn, QuicLookup, QuicHandshake, AlpnConnect,
         AlpnHandshake, Timer, Allocate, Exit, Abort, Moves, Goes, Resolved
<1> QED
  BY <1>4, <1>5, <1>6, <1>7 DEF Next, Program, Network

\* A provider, once installed, stays.
LEMMA ProviderStep == IInv /\ [Next]_vars => ProviderKept'
<1> SUFFICES ASSUME IInv, [Next]_vars PROVE ProviderKept'
  OBVIOUS
<1>1. CASE provider' = provider /\ quicProbe' = quicProbe
  BY <1>1 DEF IInv, ProviderKept
<1>2. CASE provider' = TRUE
  BY <1>2 DEF ProviderKept
<1>3. CASE ParseArgs
  BY <1>1, <1>3 DEF ParseArgs, Exit
<1>4. CASE Resolve
  BY <1>1, <1>2, <1>4 DEF Resolve, Resolved, Moves, BuildEndpoint
<1>5. CASE ProbeAlpn \/ QuicLookup \/ QuicHandshake \/ AlpnConnect \/ AlpnHandshake \/ Timer
  BY <1>1, <1>5
     DEF ProbeAlpn, QuicLookup, QuicHandshake, AlpnConnect, AlpnHandshake, Timer,
         Resolved, Moves, Abort
<1>6. CASE Allocate \/ FirstPoll \/ FirstRequest \/ MachineFails
  BY <1>1, <1>6 DEF Allocate, FirstPoll, FirstRequest, MachineFails, Moves, Abort
<1>7. CASE Build
  BY <1>1, <1>2, <1>7 DEF Build, BuildTls, Spawn, Exit, Abort, BuildEndpoint
<1>8. CASE Ended \/ UNCHANGED vars
  BY <1>1, <1>8 DEF Ended, vars
<1> QED
  BY <1>3, <1>4, <1>5, <1>6, <1>7, <1>8 DEF Next, Program, Network

\* Each panic has the cause that AbortsExplained names.
LEMMA AbortsStep == IInv /\ [Next]_vars => AbortsExplained'
<1> SUFFICES ASSUME IInv, [Next]_vars PROVE AbortsExplained'
  OBVIOUS
<1>1. CASE phase' # "aborted"
  BY <1>1 DEF AbortsExplained
<1>2. line' = line
  BY LineKept
<1>3. CASE Allocate
  <2>1. Configured
    BY <1>3 DEF Allocate, Configured
  <2>2. CASE Limit(LatencyMax(cfg.timeout)) = None /\ Abort("overflow")
    <3>1. /\ Seconds(line) \in Nat /\ cfg.timeout \in Nat
          /\ cfg.timeout <= 1000 * Seconds(line)
      BY <2>1, NumbersReadable, Wrapped DEF IInv, FromLine
    <3>2. LatencyMax(cfg.timeout) = U64Max
      BY <2>2, <3>1, LatencyMaxType, LimitType
    <3>3. cfg.timeout >= U64Max \div 1000
      BY <3>1, <3>2, U64MaxAssumption DEF LatencyMax, SaturatingMul
    <3>4. 1000 * Seconds(line) >= U64Max \div 1000
      BY <3>1, <3>3, U64MaxAssumption
    <3>5. Seconds(line)' = Seconds(line)
      BY <1>2 DEF Seconds
    <3> QED
      BY <2>2, <3>4, <3>5 DEF Abort, AbortsExplained
  <2> QED
    BY <1>1, <1>3, <2>2 DEF Allocate, Goes
<1>4. CASE ProbeAlpn
  <2>1. CASE Abort("provider") /\ ~provider
    <3>1. HttpVersion(line) = "Auto" /\ ~quicProbe
      BY <1>4, <2>1
         DEF ProbeAlpn, IInv, Choice, Probing, FromLine, Configured, ProviderKept
    <3> QED
      BY <1>2, <2>1, <3>1 DEF Abort, AbortsExplained, HttpVersion
  <2> QED
    BY <1>1, <1>4, <2>1 DEF ProbeAlpn, Resolved, Moves, Goes
<1>5. CASE Build
  <2>1. ~(cfg.resolved = "Http2" /\ cfg.scheme = "http")
    BY <1>5 DEF Build, IInv, Choice, VersionChosen
  <2> QED
    BY <1>1, <1>5, <2>1 DEF Build, BuildTls, Exit, Spawn, Goes
<1>6. CASE FirstRequest
  <2>1. CASE Abort("path") /\ cfg.resolved = "Http1" /\ cfg.path = "invalid"
    <3>1. HttpVersion(line) \in {"Http1", "Auto"} /\ line.path = "invalid"
      BY <1>6, <2>1 DEF FirstRequest, IInv, Choice, VersionChosen, FromLine, Configured
    <3> QED
      BY <1>2, <2>1, <3>1 DEF Abort, AbortsExplained, HttpVersion
  <2>2. CASE Abort("headers") /\ Len(cfg.headers) + 3 > HeaderRoom
    <3>1. Len(line.headers) + 3 > HeaderRoom
      BY <1>6, <2>2 DEF FirstRequest, IInv, FromLine, Configured
    <3> QED
      BY <1>2, <2>2, <3>1 DEF Abort, AbortsExplained
  <2> QED
    BY <1>1, <1>6, <2>1, <2>2 DEF FirstRequest, Moves, Goes
<1>7. CASE FirstPoll
  <2>1. Configured /\ VersionChosen /\ phase \in Running
    BY <1>7 DEF FirstPoll, Configured, VersionChosen
  <2>2. cfg.host = line.host /\ cfg.headers = line.headers /\ cfg.scheme = line.scheme
    BY <2>1 DEF IInv, FromLine
  <2>3. CASE cfg.resolved = "Http1"
    <3>1. line.host = Control
      BY <1>7, <2>2, <2>3 DEF FirstPoll, Prepares, HeaderValue, HostHeader
    <3>2. line.scheme = "http"
      <4>1. line.scheme \in {"http", "https"}
        BY <2>1, ValidUrl DEF IInv, FromLine
      <4>2. line.scheme = "https" => ServerName(cfg.host)
        BY <2>1, <2>2, <2>3 DEF IInv, Offered
      <4> QED
        BY <2>2, <3>1, <4>1, <4>2 DEF ServerName
    <3> QED
      BY <1>2, <1>7, <2>3, <3>1, <3>2 DEF FirstPoll, Abort, AbortsExplained
  <2>4. CASE cfg.resolved # "Http1"
    <3>1. Len(line.headers) \in Nat /\ Len(line.headers) + 2 > HeaderRoom
      BY <1>7, <2>1, <2>2, <2>4, HeaderRoomAssumption
         DEF FirstPoll, Prepares, IInv, FromLine, ConfigType
    <3>2. Len(line.headers) + 3 > HeaderRoom
      BY <3>1, HeaderRoomAssumption
    <3> QED
      BY <1>2, <1>7, <2>4, <3>2 DEF FirstPoll, Abort, AbortsExplained
  <2> QED
    BY <2>3, <2>4
<1>8. CASE MachineFails
  BY <1>8 DEF MachineFails, Machine, Abort, AbortsExplained
<1>9. CASE Ended \/ UNCHANGED vars
  BY <1>9 DEF Ended, vars, IInv, AbortsExplained, Seconds, HttpVersion
<1>10. CASE ParseArgs \/ Resolve \/ QuicLookup \/ QuicHandshake \/ AlpnConnect
             \/ AlpnHandshake \/ Timer
  BY <1>1, <1>10
     DEF ParseArgs, Resolve, QuicLookup, QuicHandshake, AlpnConnect, AlpnHandshake,
         Timer, Exit, Moves, Goes, Resolved
<1> QED
  BY <1>3, <1>4, <1>5, <1>6, <1>7, <1>8, <1>9, <1>10 DEF Next, Program, Network

\* The types, a field at a time.
LEMMA TypeStep == IInv /\ [Next]_vars => TypeOK'
<1> SUFFICES ASSUME IInv, [Next]_vars PROVE TypeOK'
  OBVIOUS
<1>1. TypeOK
  BY DEF IInv
<1>2. cfg'.resolved \in {"none", "Http1", "Http2", "Http3"}
  <2>1. CASE Configured'
    BY <2>1, FromLineStep DEF FromLine, ConfigType, Versions
  <2>2. CASE ~Configured'
    <3>1. cfg' = cfg
      <4>1. phase' \in {"start", "exited", "aborted"}
        BY <2>2 DEF Configured
      <4> QED
        BY <4>1 DEF Next, Program, Network, vars, ParseArgs, Resolve, QuicLookup,
             QuicHandshake, ProbeAlpn, AlpnConnect, AlpnHandshake, Timer, Allocate, Build,
             BuildTls, FirstPoll, FirstRequest, MachineFails, Ended, Exit, Abort, Moves, Goes, Resolved, Spawn
    <3> QED
      BY <1>1, <3>1 DEF TypeOK
  <2> QED
    BY <2>1, <2>2
<1>3. limit' \in 0 .. U64Max
  <2>1. CASE limit' = limit
    BY <1>1, <2>1 DEF TypeOK
  <2>2. CASE Allocate /\ phase' # "aborted"
    <3>1. /\ Limit(LatencyMax(cfg.timeout)) # None
          /\ limit' = Limit(LatencyMax(cfg.timeout))
      BY <2>2 DEF Allocate, Abort
    <3>2. cfg.timeout \in Nat
      BY <2>2 DEF Allocate, IInv, FromLine, Configured, ConfigType
    <3> QED
      BY <3>1, <3>2, LatencyMaxType, LimitType
  <2>3. limit' = limit \/ (Allocate /\ phase' # "aborted")
    BY DEF Next, Program, Network, vars, ParseArgs, Resolve, QuicLookup,
         QuicHandshake, ProbeAlpn, AlpnConnect, AlpnHandshake, Timer, Allocate, Build,
         BuildTls, FirstPoll, FirstRequest, MachineFails, Ended, Exit, Abort, Moves, Goes, Resolved, Spawn
  <2> QED
    BY <2>1, <2>2, <2>3
<1>4. /\ phase' \in Phases /\ probed' \in {"none", "h3", "h2", "http/1.1"}
      /\ provider' \in BOOLEAN /\ quicProbe' \in BOOLEAN
      /\ alpn' \subseteq {"none", "h2", "http/1.1"}
      /\ end' \in {"none", "0", "1"} \cup Panics
  <2>1. /\ phase \in Phases /\ probed \in {"none", "h3", "h2", "http/1.1"}
        /\ provider \in BOOLEAN /\ quicProbe \in BOOLEAN
        /\ alpn \subseteq {"none", "h2", "http/1.1"}
        /\ end \in {"none", "0", "1"} \cup Panics
    BY <1>1 DEF TypeOK
  <2> USE DEF Phases, Panics, Machine, Goes, Moves, Exit, Abort, Resolved, BuildEndpoint, Advertised
  <2>2. CASE ParseArgs \/ Resolve \/ QuicLookup \/ QuicHandshake
    BY <2>1, <2>2 DEF ParseArgs, Resolve, QuicLookup, QuicHandshake
  <2>3. CASE ProbeAlpn \/ AlpnConnect \/ AlpnHandshake \/ Timer
    BY <2>1, <2>3 DEF ProbeAlpn, AlpnConnect, AlpnHandshake, Timer
  <2>4. CASE Allocate \/ FirstPoll \/ FirstRequest \/ MachineFails
    BY <2>1, <2>4 DEF Allocate, FirstPoll, FirstRequest, MachineFails
  <2>5. CASE Build
    BY <2>1, <2>5 DEF Build, BuildTls, Spawn
  <2>6. CASE Ended \/ UNCHANGED vars
    BY <2>1, <2>6 DEF Ended, vars
  <2> QED
    BY <2>2, <2>3, <2>4, <2>5, <2>6 DEF Next, Program, Network
<1> QED
  BY <1>2, <1>3, <1>4, Zenon DEF TypeOK

-----------------------------------------------------------------------------
\* The invariants.

LEMMA Invariance == Spec => []IInv
<1>1. IInv /\ [Next]_vars => IInv'
  BY TypeStep, FromLineStep, ChoiceStep, CoveredStep, OfferedStep, ProviderStep, AbortsStep
     DEF IInv
<1> QED
  BY InitIInv, <1>1, PTL DEF Spec

\* The variables keep their types, for every command line and server.
THEOREM TypeCorrect == Spec => []TypeOK
<1>1. IInv => TypeOK
  BY DEF IInv
<1> QED
  BY Invariance, <1>1, PTL

\* A run that starts has the configuration its modules assume: at least one
\* connection per thread and one stream, and TLS where the protocol needs it.
THEOREM ConfigRunnable == Spec => []RunnableConfig
<1>1. IInv => RunnableConfig
  <2> SUFFICES ASSUME IInv, phase \in Running
               PROVE  /\ cfg.threads \in 1 .. cfg.connections
                      /\ cfg.streams >= 1 /\ cfg.duration >= 1
                      /\ cfg.resolved \in {"Http2", "Http3"} => cfg.scheme = "https"
                      /\ alpn = {"none"} <=> cfg.scheme = "http" \/ cfg.resolved = "Http3"
    BY DEF RunnableConfig
  <2>1. Configured /\ VersionChosen
    BY DEF Configured, VersionChosen
  <2>2. /\ cfg.threads = Threads(line) /\ cfg.connections = Connections(line)
        /\ cfg.streams = Streams(line) /\ cfg.duration = Duration(line)
        /\ Threads(line) \in Nat /\ Connections(line) \in Nat
        /\ Streams(line) \in Nat /\ Duration(line) \in Nat
    BY <2>1, NumbersReadable DEF IInv, FromLine
  <2>3. /\ 0 \notin {Threads(line), Duration(line), Connections(line), Streams(line)}
        /\ ~(Connections(line) < Threads(line))
    BY <2>1, Zenon DEF IInv, FromLine, Invalid
  <2>4. cfg.resolved \in {"Http2", "Http3"} => cfg.scheme = "https"
    BY <2>1 DEF IInv, Choice
  <2>5. alpn = {"none"} <=> cfg.scheme = "http" \/ cfg.resolved = "Http3"
    <3>1. /\ cfg.resolved \in {"Http1", "Http2", "Http3"}
          /\ alpn = IF cfg.scheme = "http" \/ cfg.resolved = "Http3"
                      THEN {"none"} ELSE Advertised(cfg.resolved)
      BY <2>1 DEF IInv, Offered, Choice, TypeOK
    <3>2. cfg.resolved # "Http3" => Advertised(cfg.resolved) # {"none"}
      BY <3>1 DEF Advertised
    <3> QED
      BY <3>1, <3>2
  <2> QED
    BY <2>2, <2>3, <2>4, <2>5
<1> QED
  BY Invariance, <1>1, PTL

\* Every response that connection.rs:348 does not take for late has a bucket,
\* for every timeout of the command line and every width of the integers, and
\* a timeout that fits is the one asked for.
THEOREM TimeoutCovered == Spec => []HistogramCoversTimeout
<1>1. IInv => HistogramCoversTimeout
  <2> SUFFICES ASSUME IInv, phase \in Running PROVE HistogramCoversTimeout
    BY DEF HistogramCoversTimeout
  <2>1. cfg.timeout \in Nat /\ cfg.timeout = WrappingMul(Seconds(line), 1000)
    BY DEF IInv, FromLine, Configured, Running, Final, ConfigType
  <2>2. LatencyMax(cfg.timeout) # U64Max /\ limit = LatencyMax(cfg.timeout) + 1
    BY DEF IInv, Covered
  <2>3. limit > 1000 * cfg.timeout
    BY <2>1, <2>2, U64MaxAssumption DEF LatencyMax, SaturatingMul
  <2>4. Seconds(line) \in Nat
    BY NumbersReadable DEF IInv, FromLine, Configured, Running, Final
  <2>5. ASSUME 1000 * Seconds(line) <= U64Max
        PROVE  cfg.timeout = 1000 * Seconds(line)
    BY <2>1, <2>4, <2>5, U64MaxAssumption DEF WrappingMul
  <2> QED
    BY <2>3, <2>5 DEF HistogramCoversTimeout
<1> QED
  BY Invariance, <1>1, PTL

\* A protocol that was negotiated in a probe is what the run gets.
THEOREM NegotiationHolds == Spec => []NegotiationConnects
<1>1. IInv => NegotiationConnects
  <2> SUFFICES ASSUME IInv, phase \in Running, probed # "none"
               PROVE  IF probed = "h3"
                        THEN cfg.resolved = "Http3" /\ server.quic /\ Trusted
                        ELSE Outcomes(alpn) = {probed}
                               /\ (probed = "h2" <=> cfg.resolved = "Http2")
    BY DEF NegotiationConnects
  <2>1. VersionChosen /\ probed \in {"h3", "h2", "http/1.1"}
    BY DEF VersionChosen, IInv, TypeOK
  <2>2. CASE probed = "h3"
    BY <2>1, <2>2 DEF IInv, Choice
  <2>3. CASE probed = "h2"
    <3>1. /\ cfg.resolved = "Http2" /\ Trusted /\ "h2" \in server.alpn
          /\ cfg.scheme = "https"
      BY <2>1, <2>3 DEF IInv, Choice
    <3>2. alpn = {"h2"}
      BY <3>1 DEF IInv, Offered, Advertised
    <3> QED
      BY <2>3, <3>1, <3>2 DEF Outcomes
  <2>4. CASE probed = "http/1.1"
    <3>1. /\ cfg.resolved = "Http1" /\ Trusted /\ "http/1.1" \in server.alpn
          /\ cfg.scheme = "https"
      BY <2>1, <2>4 DEF IInv, Choice
    <3>2. alpn = {"http/1.1"}
      BY <3>1 DEF IInv, Offered, Advertised
    <3> QED
      BY <2>4, <3>1, <3>2 DEF Outcomes
  <2> QED
    BY <2>1, <2>2, <2>3, <2>4
<1> QED
  BY Invariance, <1>1, PTL

\* No panic up to the first request but those with a cause in the machine, in
\* the runtime of probe_quic, or in what the command line asks for.
THEOREM PanicsExplained == Spec => []AbortsExplained
<1>1. IInv => AbortsExplained
  BY DEF IInv
<1> QED
  BY Invariance, <1>1, PTL

-----------------------------------------------------------------------------
\* The duration in the header.

\* The ladder of seconds, minutes and hours ends at the minutes.
LEMMA SecondsOrMinutes ==
  ASSUME NEW n \in Nat
  PROVE  Promotions(n, 60, << "m", "h" >>) = IF n < 51 THEN 0 ELSE 1
<1> DEFINE units == << "m", "h" >>
           stops == { i \in 0 .. Len(units) :
                        i + 1 >= Len(units) \/ 100 * n < 85 * 60 ^ (i + 1) }
<1>1. Promotions(n, 60, units) = Min(stops)
  BY DEF Promotions
<1>2. Len(units) = 2
  OBVIOUS
<1>3. stops = IF n < 51 THEN {0, 1, 2} ELSE {1, 2}
  <2>1. \A i \in 0 .. Len(units) : i = 0 \/ i = 1 \/ i = 2
    BY <1>2
  <2>2. 0 \in stops <=> n < 51
    <3>1. 60 ^ (0 + 1) = 60
      OBVIOUS
    <3> QED
      BY <1>2, <3>1
  <2>3. 1 \in stops /\ 2 \in stops
    BY <1>2
  <2> HIDE DEF units
  <2> QED
    BY <1>2, <2>1, <2>2, <2>3
<1> HIDE DEF stops
<1>4. Min(stops) = IF n < 51 THEN 0 ELSE 1
  BY <1>3 DEF Min
<1> QED
  BY <1>1, <1>4

\* Rounding to minutes is off by half a minute at most, and what it yields can
\* be read again.
LEMMA MinutesRoundTrip ==
  ASSUME NEW n \in 0 .. F64Exact
  PROVE  LET k == RoundedHalfEven(n, 60)
         IN  /\ k \in 0 .. U64Max
             /\ CheckedMul(k, 60) = 60 * k
             /\ 2 * (60 * k - n) \in -60 .. 60
<1> DEFINE q == n \div 60
           r == n % 60
           k == RoundedHalfEven(n, 60)
           Q == U64Max \div 60
           R == U64Max % 60
<1>1. U64Max \in Nat /\ F64Exact \in Nat /\ n + 30 <= U64Max
  BY U64MaxAssumption, F64ExactAssumption
<1>2. q \in Nat /\ r \in 0 .. 59 /\ n = 60 * q + r
  BY <1>1
<1>3. Q \in Nat /\ R \in 0 .. 59 /\ U64Max = 60 * Q + R
  BY <1>1
<1>4. \/ k = q /\ 2 * r <= 60
      \/ k = q + 1 /\ 2 * r >= 60
  BY <1>2 DEF RoundedHalfEven
<1>5. CheckedMul(k, 60) = IF k > Q THEN None ELSE k * 60
  BY DEF CheckedMul
<1> HIDE DEF q, r, k, Q, R
<1>6. k \in Nat /\ 60 * k <= n + 30 /\ n <= 60 * k + 30
  BY <1>1, <1>2, <1>4
<1>7. k <= Q
  BY <1>1, <1>3, <1>6
<1>8. CheckedMul(k, 60) = 60 * k
  BY <1>3, <1>5, <1>6, <1>7
<1>9. k \in 0 .. U64Max
  BY <1>1, <1>3, <1>6, <1>7
<1>10. 2 * (60 * k - n) \in -60 .. 60
  BY <1>1, <1>6
<1> QED
  BY <1>8, <1>9, <1>10 DEF k

\* The header of the run tells the duration, up to half of the unit it uses,
\* for every duration that an f64 has exactly.
THEOREM DurationShown == Spec => []HeaderTellsDuration
<1>1. IInv => HeaderTellsDuration
  <2> SUFFICES ASSUME IInv, phase \in Running, cfg.duration <= F64Exact,
                      NEW shown \in FormatTimeS(cfg.duration)
               PROVE  2 * (Scan(shown, TimeFactor) - cfg.duration)
                        \in -TimeFactor[shown.unit] .. TimeFactor[shown.unit]
    BY DEF HeaderTellsDuration
  <2> DEFINE d     == cfg.duration
             units == << "m", "h" >>
             i     == Promotions(d, 60, units)
  <2>1. d \in 0 .. F64Exact /\ F64Exact \in Nat /\ U64Max \in Nat /\ F64Exact <= U64Max
    <3>1. d \in Nat
      BY NumbersReadable DEF IInv, FromLine, Configured
    <3> QED
      BY <3>1, F64ExactAssumption, U64MaxAssumption
  <2>2. d \in Nat
    BY <2>1
  <2>3. shown = [ digits |-> RoundedHalfEven(d, 60 ^ i),
                  unit   |-> IF i = 0 THEN "s" ELSE units[i] ]
    <3>1. ~(d > F64Exact)
      BY <2>1
    <3> QED
      BY <3>1 DEF FormatTimeS
  <2> HIDE DEF d, i
  <2>4. CASE d < 51
    <3>1. RoundedHalfEven(d, 60 ^ 0) = d
      <4>1. 60 ^ 0 = 1
        OBVIOUS
      <4>2. d \div 1 = d /\ d % 1 = 0
        BY <2>2
      <4> QED
        BY <2>2, <4>1, <4>2 DEF RoundedHalfEven
    <3>2. shown = [digits |-> d, unit |-> "s"]
      <4>1. i = 0
        BY <2>2, <2>4, SecondsOrMinutes DEF i
      <4> QED
        BY <2>3, <3>1, <4>1
    <3>3. TimeFactor["s"] = 1 /\ "s" \in DOMAIN TimeFactor
      BY DEF TimeFactor
    <3>4. CheckedMul(d, 1) = d
      BY <2>1, <2>2, U64MaxAssumption DEF CheckedMul
    <3>5. Scan(shown, TimeFactor) = d
      BY <2>1, <3>2, <3>3, <3>4 DEF Scan
    <3> QED
      BY <2>2, <3>2, <3>3, <3>5 DEF d
  <2>5. CASE ~(d < 51)
    <3> DEFINE k == RoundedHalfEven(d, 60)
    <3>1. 60 ^ 1 = 60
      OBVIOUS
    <3>2. shown = [digits |-> k, unit |-> "m"]
      <4>1. i = 1
        BY <2>2, <2>5, SecondsOrMinutes DEF i
      <4>2. units[1] = "m"
        OBVIOUS
      <4> QED
        BY <2>3, <3>1, <4>1, <4>2
    <3>3. TimeFactor["m"] = 60 /\ "m" \in DOMAIN TimeFactor
      BY DEF TimeFactor
    <3>4. /\ k \in 0 .. U64Max /\ CheckedMul(k, 60) = 60 * k
          /\ 2 * (60 * k - d) \in -60 .. 60
      BY <2>1, MinutesRoundTrip
    <3> HIDE DEF k
    <3>5. Scan(shown, TimeFactor) = 60 * k
      BY <3>2, <3>3, <3>4 DEF Scan
    <3> QED
      BY <3>2, <3>3, <3>4, <3>5 DEF d
  <2> QED
    BY <2>4, <2>5
<1> QED
  BY Invariance, <1>1, PTL

-----------------------------------------------------------------------------
\* The headers of a request.  A map has a sequence of values of V per name.

Maps(V) == [HeaderNames -> Seq(V)]

Accepted(map, header) == IF ValidHeader(header) THEN AppendTo(map, header) ELSE map

\* Each header of the places t of hs is as far from the end of the values of
\* its name as there are later ones of that name.
SameLater(hs, t, i) ==
  { k \in t : k > i /\ hs[k][1] = hs[i][1] /\ ValidHeader(hs[k]) }
Follows(values, after, value) ==
  Len(values) > after /\ values[Len(values) - after] = value
Placed(map, hs, t) ==
  \A i \in t : ValidHeader(hs[i]) =>
    Follows(map[hs[i][1]], Cardinality(SameLater(hs, t, i)), hs[i][2])

\* The program's own values come first.
Kept(map, own) ==
  \A name \in HeaderNames :
    /\ Len(own[name]) <= Len(map[name])
    /\ \A j \in 1 .. Len(own[name]) : map[name][j] = own[name][j]

HeaderLists == Seq(HeaderNames \X Seq(STRING))

LEMMA HeaderFacts ==
  ASSUME NEW hs \in HeaderLists
  PROVE  /\ DOMAIN hs = 1 .. Len(hs) /\ Len(hs) \in Nat
         /\ IsFiniteSet(DOMAIN hs) /\ DOMAIN hs \subseteq Int
         /\ \A i \in DOMAIN hs : hs[i][1] \in HeaderNames /\ hs[i][2] \in Seq(STRING)
<1>1. DOMAIN hs = 1 .. Len(hs) /\ Len(hs) \in Nat
  BY DEF HeaderLists
<1>2. IsFiniteSet(1 .. Len(hs))
  BY <1>1, FS_Interval
<1>3. \A i \in 1 .. Len(hs) : hs[i] \in HeaderNames \X Seq(STRING)
  BY DEF HeaderLists
<1>4. QED
  BY <1>1, <1>2, <1>3

LEMMA Appended ==
  ASSUME NEW V, NEW s \in Seq(V), NEW v \in V
  PROVE  /\ Append(s, v) \in Seq(V)
         /\ Len(s) \in Nat /\ Len(Append(s, v)) = Len(s) + 1
         /\ Append(s, v)[Len(s) + 1] = v
         /\ \A j \in 1 .. Len(s) : Append(s, v)[j] = s[j]
OBVIOUS

LEMMA AppendedTo ==
  ASSUME NEW V, NEW m \in Maps(V), NEW name \in HeaderNames, NEW v \in V
  PROVE  LET n == AppendTo(m, << name, v >>)
         IN  /\ n \in Maps(V) /\ n[name] = Append(m[name], v)
             /\ \A other \in HeaderNames \ {name} : n[other] = m[other]
<1>1. Append(m[name], v) \in Seq(V)
  BY Appended DEF Maps
<1>2. QED
  BY <1>1 DEF Maps, AppendTo

\* One more value moves those before it one place from the end.
LEMMA FollowsAppended ==
  ASSUME NEW V, NEW s \in Seq(V), NEW v \in V, NEW after \in Nat, NEW u
  PROVE  /\ Follows(Append(s, v), 0, v)
         /\ Follows(s, after, u) => Follows(Append(s, v), after + 1, u)
<1>1. Follows(Append(s, v), 0, v)
  BY Appended DEF Follows
<1>2. ASSUME Follows(s, after, u) PROVE Follows(Append(s, v), after + 1, u)
  <2> DEFINE w == Append(s, v)
  <2>1. Len(s) \in Nat /\ Len(w) = Len(s) + 1 /\ \A j \in 1 .. Len(s) : w[j] = s[j]
    BY Appended
  <2> HIDE DEF w
  <2>2. Len(s) - after \in 1 .. Len(s) /\ s[Len(s) - after] = u
    BY <1>2, <2>1 DEF Follows
  <2>3. Len(w) - (after + 1) = Len(s) - after /\ Len(w) > after + 1
    BY <2>1, <2>2
  <2>4. w[Len(w) - (after + 1)] = u
    BY <2>1, <2>2, <2>3
  <2>5. QED
    BY <2>3, <2>4 DEF Follows, w
<1>3. QED
  BY <1>1, <1>2

LEMMA AcceptedStep ==
  ASSUME NEW V, Seq(STRING) \subseteq V, NEW hs \in HeaderLists,
         NEW t \in SUBSET DOMAIN hs, NEW x \in t, \A y \in t : y <= x,
         NEW own, NEW m \in Maps(V), Placed(m, hs, t \ {x}), Kept(m, own),
         \A name \in HeaderNames : Len(own[name]) \in Nat
  PROVE  /\ Accepted(m, hs[x]) \in Maps(V)
         /\ Placed(Accepted(m, hs[x]), hs, t)
         /\ Kept(Accepted(m, hs[x]), own)
<1> DEFINE name == hs[x][1]
           v    == hs[x][2]
           r    == t \ {x}
           n    == Accepted(m, hs[x])
           ok   == ValidHeader(hs[x])
<1>1. /\ name \in HeaderNames /\ v \in V
      /\ \A i \in t : i \in Int /\ hs[i][1] \in HeaderNames
      /\ \A i \in r : i < x /\ i \in Int
  <2>1. \A i \in t : i \in Int /\ hs[i][1] \in HeaderNames /\ hs[i][2] \in Seq(STRING)
    BY HeaderFacts
  <2>2. QED
    BY <2>1
<1>2. ASSUME NEW i \in t
      PROVE  /\ SameLater(hs, t, i) = IF i # x /\ hs[i][1] = name /\ ok
                                        THEN SameLater(hs, r, i) \cup {x}
                                        ELSE SameLater(hs, r, i)
             /\ x \notin SameLater(hs, r, i)
             /\ IsFiniteSet(SameLater(hs, r, i))
             /\ i = x => SameLater(hs, r, i) = {}
  <2>1. IsFiniteSet(SameLater(hs, r, i))
    <3>1. SameLater(hs, r, i) \subseteq DOMAIN hs
      BY DEF SameLater
    <3>2. IsFiniteSet(DOMAIN hs)
      BY HeaderFacts
    <3>3. QED
      BY <3>1, <3>2, FS_Subset
  <2>2. i = x => SameLater(hs, r, i) = {}
    BY <1>1 DEF SameLater
  <2>3. \A k : k \in SameLater(hs, t, i) <=>
                 k \in SameLater(hs, r, i) \/ (k = x /\ i # x /\ hs[i][1] = name /\ ok)
    BY <1>1 DEF SameLater
  <2>4. x \notin SameLater(hs, r, i)
    BY DEF SameLater
  <2> HIDE DEF name, r, ok
  <2>5. CASE i # x /\ hs[i][1] = name /\ ok
    <3>1. SameLater(hs, t, i) = SameLater(hs, r, i) \cup {x}
      BY <2>3, <2>5
    <3>2. QED
      BY <2>1, <2>2, <2>4, <2>5, <3>1
  <2>6. CASE ~(i # x /\ hs[i][1] = name /\ ok)
    <3>1. SameLater(hs, t, i) = SameLater(hs, r, i)
      BY <2>3, <2>6
    <3>2. QED
      BY <2>1, <2>2, <2>4, <2>6, <3>1
  <2>7. QED
    BY <2>5, <2>6
<1>3. ASSUME NEW i \in t
      PROVE  /\ Cardinality(SameLater(hs, r, i)) \in Nat
             /\ Cardinality(SameLater(hs, t, i)) =
                  IF i # x /\ hs[i][1] = name /\ ok
                  THEN Cardinality(SameLater(hs, r, i)) + 1
                  ELSE Cardinality(SameLater(hs, r, i))
             /\ i = x => Cardinality(SameLater(hs, t, i)) = 0
  <2> DEFINE A == SameLater(hs, r, i)
             B == SameLater(hs, t, i)
  <2>1. /\ IsFiniteSet(A) /\ x \notin A
        /\ B = IF i # x /\ hs[i][1] = name /\ ok THEN A \cup {x} ELSE A
        /\ i = x => A = {}
    BY <1>2
  <2> HIDE DEF A, B, name, ok
  <2>2. Cardinality(A) \in Nat /\ Cardinality(A \cup {x}) = Cardinality(A) + 1
    BY <2>1, FS_AddElement, FS_CardinalityType
  <2>3. i = x => Cardinality(B) = 0
    BY <2>1, FS_EmptySet
  <2>4. QED
    BY <2>1, <2>2, <2>3 DEF A, B
<1>4. CASE ~ok
  <2>1. n = m
    BY <1>4 DEF Accepted
  <2>2. ASSUME NEW i \in t, ValidHeader(hs[i])
        PROVE  Follows(m[hs[i][1]], Cardinality(SameLater(hs, t, i)), hs[i][2])
    <3>1. i \in r
      BY <1>4, <2>2
    <3>2. Cardinality(SameLater(hs, t, i)) = Cardinality(SameLater(hs, r, i))
      BY <1>3, <1>4, <2>2
    <3>3. QED
      BY <2>2, <3>1, <3>2 DEF Placed
  <2>3. Placed(m, hs, t)
    BY <2>2 DEF Placed
  <2>4. QED
    BY <2>1, <2>3
<1>5. CASE ok
  <2>1. hs[x] = << name, v >>
    BY DEF HeaderLists
  <2>2. n = AppendTo(m, << name, v >>)
    BY <1>5, <2>1 DEF Accepted
  <2> HIDE DEF n, name, v
  <2>3. /\ n \in Maps(V) /\ n[name] = Append(m[name], v)
        /\ \A other \in HeaderNames \ {name} : n[other] = m[other]
    BY <1>1, <2>2, AppendedTo
  <2>4. m[name] \in Seq(V)
    BY <1>1 DEF Maps
  <2>5. ASSUME NEW i \in t, ValidHeader(hs[i])
        PROVE  Follows(n[hs[i][1]], Cardinality(SameLater(hs, t, i)), hs[i][2])
    <3>1. CASE i = x
      <4>1. Follows(Append(m[name], v), 0, v)
        BY <1>1, <2>4, FollowsAppended
      <4>2. QED
        BY <1>3, <2>3, <3>1, <4>1 DEF name, v
    <3>2. CASE i # x
      <4> DEFINE a == Cardinality(SameLater(hs, r, i))
      <4>1. Follows(m[hs[i][1]], a, hs[i][2]) /\ a \in Nat
        BY <1>3, <2>5, <3>2 DEF Placed
      <4>2. CASE hs[i][1] = name
        <5>1. Cardinality(SameLater(hs, t, i)) = a + 1
          BY <1>3, <1>5, <3>2, <4>2
        <5> HIDE DEF a
        <5>2. Follows(Append(m[name], v), a + 1, hs[i][2])
          BY <1>1, <2>4, <4>1, <4>2, FollowsAppended
        <5>3. QED
          BY <2>3, <4>2, <5>1, <5>2
      <4>3. CASE hs[i][1] # name
        <5>1. Cardinality(SameLater(hs, t, i)) = a
          BY <1>3, <4>3
        <5> HIDE DEF a
        <5>2. n[hs[i][1]] = m[hs[i][1]]
          BY <1>1, <2>3, <4>3
        <5>3. QED
          BY <4>1, <5>1, <5>2
      <4>4. QED
        BY <4>2, <4>3
    <3>3. QED
      BY <3>1, <3>2
  <2>6. Placed(n, hs, t)
    BY <2>5 DEF Placed
  <2>7. ASSUME NEW other \in HeaderNames
        PROVE  /\ Len(own[other]) <= Len(n[other])
               /\ \A j \in 1 .. Len(own[other]) : n[other][j] = own[other][j]
    <3> DEFINE k == Len(own[other])
               s == m[other]
    <3>1. k \in Nat /\ k <= Len(s) /\ \A j \in 1 .. k : s[j] = own[other][j]
      BY DEF Kept
    <3>2. CASE other = name
      <4> DEFINE w == Append(s, v)
      <4>1. Len(s) \in Nat /\ Len(w) = Len(s) + 1 /\ \A j \in 1 .. Len(s) : w[j] = s[j]
        BY <1>1, <2>4, <3>2, Appended
      <4>2. n[other] = w
        BY <2>3, <3>2
      <4> HIDE DEF w, s, k
      <4>3. k <= Len(w) /\ \A j \in 1 .. k : w[j] = own[other][j]
        BY <3>1, <4>1
      <4>4. QED
        BY <4>2, <4>3 DEF k
    <3>3. CASE other # name
      BY <2>3, <3>1, <3>3
    <3>4. QED
      BY <3>2, <3>3
  <2>8. Kept(n, own)
    BY <2>7 DEF Kept
  <2>9. QED
    BY <2>3, <2>6, <2>8 DEF n
<1>6. QED
  BY <1>4, <1>5

\* g has the map after each set of places of hs, taken in ascending order.
Builds(g, own, hs) ==
  g = [s \in SUBSET DOMAIN hs |->
         IF s = {} THEN own ELSE Accepted(g[s \ {Max(s)}], hs[Max(s)])]

LEMMA BuildsAt ==
  ASSUME NEW own, NEW hs, NEW g, Builds(g, own, hs), NEW s \in SUBSET DOMAIN hs
  PROVE  g[s] = IF s = {} THEN own ELSE Accepted(g[s \ {Max(s)}], hs[Max(s)])
BY DEF Builds

LEMMA LastPlace ==
  ASSUME NEW hs \in HeaderLists, NEW s \in SUBSET DOMAIN hs, s # {}
  PROVE  Max(s) \in s /\ \A y \in s : y <= Max(s)
<1>1. IsFiniteSet(s) /\ s \subseteq Int
  BY HeaderFacts, FS_Subset
<1>2. QED
  BY <1>1, Largest

\* The map that a header is accepted into is one, so there is a table.
LEMMA BuildsExists ==
  ASSUME NEW V, Seq(STRING) \subseteq V, NEW hs \in HeaderLists, NEW own \in Maps(V)
  PROVE  \E g : Builds(g, own, hs)
<1> DEFINE D    == DOMAIN hs
           step == [p \in Maps(V) \X D |-> Accepted(p[1], hs[p[2]])]
<1>1. IsFiniteSet(D) /\ \A s \in SUBSET D : s # {} => Max(s) \in s
  BY HeaderFacts, LastPlace
<1>2. PICK g : Folds(g, own, step, D)
  <2> HIDE DEF D, step
  <2>1. QED
    BY <1>1, FoldExists
<1>3. ASSUME NEW m \in Maps(V), NEW i \in D
      PROVE  step[<< m, i >>] = Accepted(m, hs[i]) /\ Accepted(m, hs[i]) \in Maps(V)
  <2>1. step[<< m, i >>] = Accepted(m, hs[i])
    OBVIOUS
  <2>2. hs[i] = << hs[i][1], hs[i][2] >> /\ hs[i][1] \in HeaderNames /\ hs[i][2] \in V
    <3>1. hs[i] \in HeaderNames \X Seq(STRING)
      BY DEF HeaderLists
    <3>2. QED
      BY <3>1
  <2>3. AppendTo(m, hs[i]) \in Maps(V)
    BY <2>2, AppendedTo
  <2>4. QED
    BY <2>1, <2>3 DEF Accepted
<1> HIDE DEF D, step
<1> DEFINE bad == { s \in SUBSET D : g[s] \notin Maps(V) }
<1>4. bad = {}
  <2> SUFFICES ASSUME bad # {} PROVE FALSE
    OBVIOUS
  <2>1. PICK s \in bad : \A u \in bad : u \subseteq s => u = s
    <3>1. bad \in SUBSET SUBSET D
      OBVIOUS
    <3> HIDE DEF bad
    <3>2. QED
      BY <1>1, <3>1, MinimalSet
  <2>2. /\ s \in SUBSET D /\ g[s] \notin Maps(V)
        /\ g[s] = IF s = {} THEN own ELSE step[<< g[s \ {Max(s)}], Max(s) >>]
    <3>1. s \in SUBSET D /\ g[s] \notin Maps(V)
      BY <2>1
    <3>2. g[s] = IF s = {} THEN own ELSE step[<< g[s \ {Max(s)}], Max(s) >>]
      BY <1>2, <3>1, FoldsAt
    <3>3. QED
      BY <3>1, <3>2
  <2>3. s # {} /\ Max(s) \in s
    BY <1>1, <2>2
  <2>4. g[s \ {Max(s)}] \in Maps(V)
    BY <2>1, <2>2, <2>3
  <2>5. QED
    BY <1>3, <2>2, <2>3, <2>4
<1> HIDE DEF bad
<1>5. ASSUME NEW s \in SUBSET D
      PROVE  g[s] = IF s = {} THEN own ELSE Accepted(g[s \ {Max(s)}], hs[Max(s)])
  <2>1. g[s] = IF s = {} THEN own ELSE step[<< g[s \ {Max(s)}], Max(s) >>]
    <3>1. g = [u \in SUBSET D |->
                 IF u = {} THEN own ELSE step[<< g[u \ {Max(u)}], Max(u) >>]]
      BY <1>2 DEF Folds
    <3>2. QED
      BY <3>1
  <2>2. CASE s = {}
    BY <2>1, <2>2
  <2>3. CASE s # {}
    <3>1. Max(s) \in D /\ g[s \ {Max(s)}] \in Maps(V)
      <4>1. Max(s) \in D /\ s \ {Max(s)} \in SUBSET D
        BY <1>1, <2>3
      <4>2. QED
        BY <1>4, <4>1 DEF bad
    <3>2. QED
      BY <1>3, <2>1, <2>3, <3>1
  <2>4. QED
    BY <2>2, <2>3
<1>6. g = [s \in SUBSET D |-> g[s]]
  BY <1>2 DEF Folds
<1>7. Builds(g, own, hs)
  BY <1>5, <1>6 DEF Builds, D
<1>8. QED
  BY <1>7

\* What the loop over the -H headers makes of the program's own.
LEMMA StaticHeadersFacts ==
  ASSUME NEW V, Seq(STRING) \subseteq V, NEW c, c.headers \in HeaderLists,
         NEW own \in Maps(V)
  PROVE  /\ StaticHeaders(own, c) \in Maps(V)
         /\ Placed(StaticHeaders(own, c), c.headers, DOMAIN c.headers)
         /\ Kept(StaticHeaders(own, c), own)
<1> DEFINE hs == c.headers
           D  == DOMAIN hs
           g  == CHOOSE f : Builds(f, own, hs)
<1> HIDE DEF hs
<1>1. hs \in HeaderLists
  BY DEF hs
<1>2. StaticHeaders(own, c) = g[D]
  BY DEF StaticHeaders, FoldLeft, MapThenFoldSet, Builds, Accepted, hs
<1>3. Builds(g, own, hs)
  BY <1>1, BuildsExists
<1> HIDE DEF g
<1>4. \A name \in HeaderNames : Len(own[name]) \in Nat
  BY DEF Maps
<1> DEFINE Good(s) == g[s] \in Maps(V) /\ Placed(g[s], hs, s) /\ Kept(g[s], own)
           bad == { s \in SUBSET D : ~Good(s) }
<1>5. bad = {}
  <2> SUFFICES ASSUME bad # {} PROVE FALSE
    OBVIOUS
  <2>1. IsFiniteSet(D)
    BY <1>1, HeaderFacts
  <2>2. PICK s \in bad : \A u \in bad : u \subseteq s => u = s
    <3>1. bad \in SUBSET SUBSET D
      OBVIOUS
    <3> HIDE DEF bad, D
    <3>2. QED
      BY <2>1, <3>1, MinimalSet
  <2>3. s \in SUBSET D /\ ~Good(s)
    BY <2>2
  <2>4. g[s] = IF s = {} THEN own ELSE Accepted(g[s \ {Max(s)}], hs[Max(s)])
    BY <1>3, <2>3, BuildsAt
  <2>5. CASE s = {}
    <3>1. g[s] = own
      BY <2>4, <2>5
    <3>2. Placed(own, hs, s)
      BY <2>5 DEF Placed
    <3>3. Kept(own, own)
      BY <1>4 DEF Kept
    <3>4. QED
      BY <2>3, <3>1, <3>2, <3>3
  <2>6. CASE s # {}
    <3> DEFINE x == Max(s)
    <3>1. x \in s /\ \A y \in s : y <= x
      BY <1>1, <2>3, <2>6, LastPlace
    <3> HIDE DEF x
    <3>2. s \ {x} \notin bad /\ s \ {x} \in SUBSET D
      BY <2>2, <2>3, <3>1
    <3>3. Good(s \ {x})
      BY <3>2
    <3>4. g[s] = Accepted(g[s \ {x}], hs[x])
      BY <2>4, <2>6 DEF x
    <3>5. Good(s)
      BY <1>1, <1>4, <2>3, <3>1, <3>3, <3>4, AcceptedStep
    <3>6. QED
      BY <2>3, <3>5
  <2>7. QED
    BY <2>5, <2>6
<1>6. Good(D)
  <2> HIDE DEF Good
  <2>1. QED
    BY <1>5
<1>7. QED
  BY <1>2, <1>6 DEF hs

\* The headers the program sends itself, and the one it adds for the body.
LEMMA OwnHeaders ==
  ASSUME NEW V, << "wrk-rs/0.1.0" >> \in V, NEW host \in V
  PROVE  LET own == AppendTo(AppendTo(NoHeaders, << "host", host >>), UserAgent)
         IN  /\ own \in Maps(V) /\ own["host"] = << host >>
             /\ InsertInto(NoHeaders, UserAgent) \in Maps(V)
<1>1. NoHeaders \in Maps(V) /\ NoHeaders["host"] = << >>
  BY DEF NoHeaders, Maps, HeaderNames
<1>2. "host" \in HeaderNames /\ "user-agent" \in HeaderNames
  BY DEF HeaderNames
<1> HIDE DEF NoHeaders
<1> DEFINE one == AppendTo(NoHeaders, << "host", host >>)
           two == AppendTo(one, UserAgent)
<1>3. one \in Maps(V) /\ one["host"] = << host >>
  <2>1. one \in Maps(V) /\ one["host"] = Append(<< >>, host)
    BY <1>1, <1>2, AppendedTo
  <2>2. QED
    BY <2>1
<1> HIDE DEF one
<1>4. two \in Maps(V) /\ two["host"] = << host >>
  <2>1. "host" \in HeaderNames \ {"user-agent"}
    BY <1>2
  <2>2. AppendTo(one, << "user-agent", << "wrk-rs/0.1.0" >> >>) \in Maps(V)
    BY <1>2, <1>3, AppendedTo
  <2>3. AppendTo(one, << "user-agent", << "wrk-rs/0.1.0" >> >>)["host"] = one["host"]
    BY <1>2, <1>3, <2>1, AppendedTo
  <2>4. QED
    BY <1>3, <2>2, <2>3 DEF UserAgent
<1>5. InsertInto(NoHeaders, UserAgent) \in Maps(V)
  <2>1. << << "wrk-rs/0.1.0" >> >> \in Seq(V)
    OBVIOUS
  <2>2. QED
    BY <1>1, <1>2, <2>1 DEF InsertInto, UserAgent, Maps
<1>6. QED
  BY <1>4, <1>5 DEF one

LEMMA LengthAdded ==
  ASSUME NEW V, NEW m \in Maps(V), NEW n \in Nat, << ToString(n) >> \in V,
         NEW k \in { InsertInto(m, ContentLength(n)), AppendTo(m, ContentLength(n)) }
  PROVE  /\ \A other \in HeaderNames \ {"content-length"} : k[other] = m[other]
         /\ Last(k["content-length"]) = << ToString(n) >>
<1> DEFINE v == << ToString(n) >>
<1>1. "content-length" \in HeaderNames /\ m["content-length"] \in Seq(V)
  BY DEF HeaderNames, Maps
<1> HIDE DEF v
<1>2. CASE k = InsertInto(m, ContentLength(n))
  <2>1. /\ k["content-length"] = << v >>
        /\ \A other \in HeaderNames \ {"content-length"} : k[other] = m[other]
    BY <1>1, <1>2 DEF InsertInto, ContentLength, Maps, v
  <2>2. QED
    BY <2>1 DEF Last, v
<1>3. CASE k = AppendTo(m, ContentLength(n))
  <2>1. k = AppendTo(m, << "content-length", v >>)
    BY <1>3 DEF ContentLength, v
  <2>2. v \in V
    BY DEF v
  <2>3. /\ k["content-length"] = Append(m["content-length"], v)
        /\ \A other \in HeaderNames \ {"content-length"} : k[other] = m[other]
    BY <1>1, <2>1, <2>2, AppendedTo
  <2>4. Last(Append(m["content-length"], v)) = v
    BY <1>1, <2>2, Appended DEF Last
  <2>5. QED
    BY <2>3, <2>4 DEF v
<1>4. QED
  BY <1>2, <1>3

LEMMA Joined == ASSUME NEW a, NEW b PROVE << a >> \o << b >> = << a, b >>
<1> DEFINE S == {a, b}
           s == << a >> \o << b >>
<1>1. << a >> \in Seq(S) /\ << b >> \in Seq(S)
  OBVIOUS
<1>2. s \in Seq(S) /\ Len(s) = 2 /\ s[1] = a /\ s[2] = b
  BY <1>1
<1>3. << a, b >> \in Seq(S) /\ Len(<< a, b >>) = 2
  OBVIOUS
<1> HIDE DEF s
<1>4. \A i \in 1 .. 2 : s[i] = << a, b >>[i]
  BY <1>2
<1>5. s = << a, b >>
  BY <1>2, <1>3, <1>4
<1>6. QED
  BY <1>5 DEF s

\* Where the -H headers and the body of a request are.
CarriesHeaders(r, c) ==
  \A i \in DOMAIN c.headers :
    LET name == c.headers[i][1]
    IN  ValidHeader(c.headers[i]) /\ ~Replaced(c, name) =>
          Follows(r.headers[name],
                  Cardinality(SameLater(c.headers, DOMAIN c.headers, i)) + OwnLast(c, name),
                  c.headers[i][2])

CarriesBody(r, c) ==
  c.body > 0 =>
    r.body = c.body /\ Last(r.headers["content-length"]) = << ToString(c.body) >>

\* What is added to the map after the user's headers moves none but a
\* content-length.
LEMMA HeadersCarried ==
  ASSUME NEW V, NEW c, c.headers \in HeaderLists, NEW m \in Maps(V),
         Placed(m, c.headers, DOMAIN c.headers), NEW k, NEW v \in V,
         \A other \in HeaderNames \ {"content-length"} : k[other] = m[other],
         \/ Replaced(c, "content-length")
         \/ OwnLast(c, "content-length") = 0 /\ k["content-length"] = m["content-length"]
         \/ /\ OwnLast(c, "content-length") = 1
            /\ k["content-length"] = Append(m["content-length"], v),
         NEW r, r.headers = k
  PROVE  CarriesHeaders(r, c)
<1> SUFFICES ASSUME NEW i \in DOMAIN c.headers, ValidHeader(c.headers[i]),
                    ~Replaced(c, c.headers[i][1])
             PROVE  Follows(k[c.headers[i][1]],
                            Cardinality(SameLater(c.headers, DOMAIN c.headers, i))
                              + OwnLast(c, c.headers[i][1]),
                            c.headers[i][2])
  BY DEF CarriesHeaders
<1> DEFINE name  == c.headers[i][1]
           value == c.headers[i][2]
           later == SameLater(c.headers, DOMAIN c.headers, i)
           a     == Cardinality(later)
<1>1. name \in HeaderNames
  BY HeaderFacts
<1>2. a \in Nat
  <2>1. later \subseteq DOMAIN c.headers /\ IsFiniteSet(DOMAIN c.headers)
    BY HeaderFacts DEF SameLater
  <2> HIDE DEF later
  <2>2. QED
    BY <2>1, FS_Subset, FS_CardinalityType
<1>3. Follows(m[name], a, value)
  BY DEF Placed
<1> HIDE DEF a, name, value, later
<1>4. CASE name # "content-length"
  <2>1. k[name] = m[name] /\ OwnLast(c, name) = 0
    BY <1>1, <1>4 DEF OwnLast
  <2>2. QED
    BY <1>2, <1>3, <2>1 DEF a, name, value, later
<1>5. CASE name = "content-length" /\ OwnLast(c, name) = 0
  <2>1. k[name] = m[name]
    BY <1>5 DEF name
  <2>2. QED
    BY <1>2, <1>3, <1>5, <2>1 DEF a, name, value, later
<1>6. CASE name = "content-length" /\ OwnLast(c, name) = 1
  <2>1. k[name] = Append(m[name], v) /\ m[name] \in Seq(V)
    BY <1>1, <1>6 DEF name, Maps
  <2>2. Follows(k[name], a + 1, value)
    BY <1>2, <1>3, <2>1, FollowsAppended
  <2>3. QED
    BY <1>6, <2>2 DEF a, name, value, later
<1>7. OwnLast(c, name) \in {0, 1}
  BY DEF OwnLast
<1>8. QED
  BY <1>4, <1>5, <1>6, <1>7

LEMMA RequestFacts ==
  ASSUME NEW c \in ConfigType, c.path = "absolute",
         c.resolved \in {"Http1", "Http2", "Http3"},
         c.resolved = "Http1" \/ UriHost(c.host)
  PROVE  LET r == Request(c.resolved, c)
         IN  /\ r.method = c.method /\ r.path = c.path
             /\ r.authority = HostHeader(c)
             /\ CarriesHeaders(r, c)
             /\ c.resolved # "Http3" => CarriesBody(r, c)
<1> DEFINE V == Seq(STRING) \cup
                { HostHeader(c), << ToString(c.body) >>, << "wrk-rs/0.1.0" >> }
           host == HostHeader(c)
           own1 == AppendTo(AppendTo(NoHeaders, << "host", host >>), UserAgent)
           own2 == InsertInto(NoHeaders, UserAgent)
           m1 == StaticHeaders(own1, c)
           m2 == StaticHeaders(own2, c)
           v  == << ToString(c.body) >>
           r == Request(c.resolved, c)
<1>1. /\ Seq(STRING) \subseteq V /\ host \in V /\ v \in V
      /\ << "wrk-rs/0.1.0" >> \in V
  OBVIOUS
<1>2. c.headers \in HeaderLists /\ c.body \in Nat
  BY DEF ConfigType, HeaderLists
<1> HIDE DEF V, own1, own2
<1>3. own1 \in Maps(V) /\ own1["host"] = << host >> /\ own2 \in Maps(V)
  BY <1>1, OwnHeaders DEF own1, own2
<1>4. m1 \in Maps(V) /\ Placed(m1, c.headers, DOMAIN c.headers) /\ Kept(m1, own1)
  BY <1>1, <1>2, <1>3, StaticHeadersFacts
<1>5. m2 \in Maps(V) /\ Placed(m2, c.headers, DOMAIN c.headers)
  BY <1>1, <1>2, <1>3, StaticHeadersFacts
<1> HIDE DEF m1, m2, host, v
<1>6. m1["host"][1] = host
  <2>1. "host" \in HeaderNames
    BY DEF HeaderNames
  <2>2. Len(<< host >>) = 1 /\ << host >>[1] = host /\ 1 \in 1 .. 1
    OBVIOUS
  <2>3. QED
    BY <1>3, <1>4, <2>1, <2>2 DEF Kept
<1>7. CASE c.resolved = "Http1"
  <2> DEFINE k == IF c.body = 0 THEN m1 ELSE InsertInto(m1, ContentLength(c.body))
  <2>1. r = H1Request(c)
    BY <1>7 DEF Request
  <2>2. /\ r.method = c.method /\ r.path = c.path
        /\ r.authority = m1["host"][1] /\ r.body = c.body /\ r.headers = k
    BY <2>1 DEF H1Request, m1, own1, host
  <2>3. /\ \A other \in HeaderNames \ {"content-length"} : k[other] = m1[other]
        /\ c.body > 0 => Last(k["content-length"]) = << ToString(c.body) >>
    BY <1>1, <1>2, <1>4, LengthAdded DEF v
  <2>4. \/ Replaced(c, "content-length")
        \/ OwnLast(c, "content-length") = 0 /\ k["content-length"] = m1["content-length"]
    BY <1>2, <1>7 DEF Replaced, OwnLast
  <2> HIDE DEF k, r
  <2>5. CarriesHeaders(r, c)
    BY <1>1, <1>2, <1>4, <2>2, <2>3, <2>4, HeadersCarried
  <2>6. CarriesBody(r, c)
    BY <2>2, <2>3 DEF CarriesBody
  <2>7. QED
    BY <1>6, <2>2, <2>5, <2>6 DEF r, host
<1>8. CASE c.resolved = "Http2"
  <2> DEFINE k == IF c.body = 0 THEN m2 ELSE AppendTo(m2, ContentLength(c.body))
  <2>1. r = H2Request(c) /\ ValidUri(c)
    BY <1>8 DEF Request, ValidUri
  <2>2. /\ r.method = c.method /\ r.path = c.path
        /\ r.authority = host /\ r.body = c.body /\ r.headers = k
    BY <2>1 DEF H2Request, MuxRequest, m2, own2, host
  <2>3. /\ \A other \in HeaderNames \ {"content-length"} : k[other] = m2[other]
        /\ c.body > 0 => Last(k["content-length"]) = << ToString(c.body) >>
    BY <1>1, <1>2, <1>5, LengthAdded DEF v
  <2>4. \/ OwnLast(c, "content-length") = 0 /\ k["content-length"] = m2["content-length"]
        \/ /\ OwnLast(c, "content-length") = 1
           /\ k["content-length"] = Append(m2["content-length"], v)
    <3>1. CASE c.body = 0
      BY <3>1 DEF OwnLast
    <3>2. CASE c.body # 0
      <4>1. k = AppendTo(m2, << "content-length", v >>) /\ "content-length" \in HeaderNames
        BY <3>2 DEF ContentLength, v, HeaderNames
      <4>2. k["content-length"] = Append(m2["content-length"], v)
        BY <1>1, <1>5, <4>1, AppendedTo
      <4>3. QED
        BY <1>2, <1>8, <3>2, <4>2 DEF OwnLast
    <3>3. QED
      BY <3>1, <3>2
  <2> HIDE DEF k, r
  <2>5. CarriesHeaders(r, c)
    BY <1>1, <1>2, <1>5, <2>2, <2>3, <2>4, HeadersCarried
  <2>6. CarriesBody(r, c)
    BY <2>2, <2>3 DEF CarriesBody
  <2>7. QED
    BY <2>2, <2>5, <2>6 DEF r, host
<1>9. CASE c.resolved = "Http3"
  <2>1. r = H3Request(c) /\ ValidUri(c)
    BY <1>9 DEF Request, ValidUri
  <2>2. /\ r.method = c.method /\ r.path = c.path
        /\ r.authority = host /\ r.headers = m2
    BY <2>1 DEF H3Request, MuxRequest, m2, own2, host
  <2>3. OwnLast(c, "content-length") = 0
    BY <1>9 DEF OwnLast
  <2> HIDE DEF r
  <2>4. CarriesHeaders(r, c)
    BY <1>1, <1>2, <1>5, <2>2, <2>3, HeadersCarried
  <2>5. QED
    BY <1>9, <2>2, <2>4 DEF r, host
<1>10. QED
  BY <1>7, <1>8, <1>9

\* A request has the method and the path, goes to the server of the URL, has
\* every -H in its order, but for a content-length as the property says, and
\* over HTTP/1 and HTTP/2 the body with its length: what the README promises
\* of the options of a request, for command lines with any number of headers.
THEOREM OptionsCarried == Spec => []RequestsCarryOptions
<1>1. IInv => RequestsCarryOptions
  <2> SUFFICES ASSUME IInv, phase = "requesting", cfg.path = "absolute",
                      cfg.resolved = "Http1" \/ UriHost(cfg.host)
               PROVE  LET r == Request(cfg.resolved, cfg)
                      IN  /\ r.method = cfg.method /\ r.path = cfg.path
                          /\ << cfg.host, cfg.port >> =
                               r.authority \o IF Len(r.authority) = 1
                                               THEN << DefaultPort(cfg.scheme) >> ELSE << >>
                          /\ \A i \in DOMAIN cfg.headers :
                               LET name   == cfg.headers[i][1]
                                   values == r.headers[name]
                                   after  == Cardinality(Later(i, name)) + OwnLast(cfg, name)
                               IN  ValidHeader(cfg.headers[i]) /\ ~Replaced(cfg, name) =>
                                     /\ Len(values) > after
                                     /\ values[Len(values) - after] = cfg.headers[i][2]
                          /\ cfg.body > 0 /\ cfg.resolved # "Http3" =>
                               /\ r.body = cfg.body
                               /\ Last(r.headers["content-length"]) = << ToString(cfg.body) >>
    BY DEF RequestsCarryOptions
  <2>1. cfg \in ConfigType /\ cfg.resolved \in {"Http1", "Http2", "Http3"}
    BY DEF IInv, FromLine, Choice, Configured, VersionChosen, TypeOK
  <2> DEFINE r == Request(cfg.resolved, cfg)
  <2>2. /\ r.method = cfg.method /\ r.path = cfg.path
        /\ r.authority = HostHeader(cfg)
        /\ CarriesHeaders(r, cfg)
        /\ cfg.resolved # "Http3" => CarriesBody(r, cfg)
    BY <2>1, RequestFacts
  <2> HIDE DEF r
  <2>3. << cfg.host, cfg.port >> =
          r.authority \o IF Len(r.authority) = 1 THEN << DefaultPort(cfg.scheme) >> ELSE << >>
    <3>1. CASE cfg.port = DefaultPort(cfg.scheme)
      <4>1. r.authority = << cfg.host >> /\ Len(<< cfg.host >>) = 1
        BY <2>2, <3>1 DEF HostHeader
      <4>2. << cfg.host >> \o << cfg.port >> = << cfg.host, cfg.port >>
        BY Joined
      <4>3. QED
        BY <3>1, <4>1, <4>2
    <3>2. CASE cfg.port # DefaultPort(cfg.scheme)
      <4>1. r.authority = << cfg.host, cfg.port >> /\ Len(<< cfg.host, cfg.port >>) = 2
        BY <2>2, <3>2 DEF HostHeader
      <4>2. << cfg.host, cfg.port >> \o << >> = << cfg.host, cfg.port >>
        OBVIOUS
      <4>3. QED
        BY <4>1, <4>2
    <3>3. QED
      BY <3>1, <3>2
  <2>4. ASSUME NEW i \in DOMAIN cfg.headers, ValidHeader(cfg.headers[i]),
               ~Replaced(cfg, cfg.headers[i][1])
        PROVE  Follows(r.headers[cfg.headers[i][1]],
                       Cardinality(Later(i, cfg.headers[i][1]))
                         + OwnLast(cfg, cfg.headers[i][1]),
                       cfg.headers[i][2])
    <3>1. Later(i, cfg.headers[i][1]) = SameLater(cfg.headers, DOMAIN cfg.headers, i)
      BY DEF Later, SameLater
    <3>2. QED
      BY <2>2, <2>4, <3>1 DEF CarriesHeaders
  <2>5. QED
    BY <2>2, <2>3, <2>4 DEF Follows, CarriesBody, r
<1>2. QED
  BY Invariance, <1>1, PTL
=============================================================================
