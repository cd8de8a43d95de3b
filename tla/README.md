# wrk-rs in TLA+

This directory models [wrk-rs](../src/README.md), an HTTP benchmarking tool: the program
opens `-c` connections on `-t` threads, sends requests back to back for `-d` seconds, and
reports how many were answered, how fast, and what failed. A benchmark has little state that
outlives it, and nothing to recover. What can go wrong is that its **figures are wrong** (a
request lost, counted twice, put in the wrong column, a percentile read off the wrong
samples), that it measures **something else than it was asked to** (another protocol,
request or timeout), or that it **does not end**. These are the three subjects of the
models.

* [The system](#the-system)
* [Modules](#modules)
* [Runs](#runs)
* [What was found](#what-was-found)
* [Proofs](#proofs)
* [Abstractions](#abstractions)
* [Not modelled](#not-modelled)
* [Plan](#plan)

## The system

| Component | Source | State | Operations | Talks to |
|---|---|---|---|---|
| command line | `config.rs` | none; builds the `Config` | `parse_args`, `parse_url`, `host_header` | main |
| units | `units.rs` | none | `format_*`, `scan_*` | command line, report |
| main thread | `main.rs` | the stop flag, the two histograms, the join handles | allocate, spawn, sleep, stop, join, sum, correct, report | everything |
| protocol choice | `main.rs:195-311` | `resolved` in the `Config`; the process-wide crypto provider of rustls | `resolve_protocol`, `probe_quic`, `probe_alpn` | main, the server |
| TLS and QUIC | `main.rs:334-427`, `h3.rs:28` | the crypto provider | `build_tls`, `build_endpoint`, `NoVerifier` | rustls, quinn |
| request building | `connection.rs:380`, `h2.rs`, `h3.rs:267` | the header list of a task | `build_request`, `build_h2_request`, `build_h3_request` | the connection tasks |
| worker thread | `worker.rs` | its runtime, its `Counters`, its rate counter | `run_worker`, `run_h2_worker`, `run_h3_worker` | main: returns a snapshot |
| rate recorder | `worker.rs:188` | start of the interval | one tick every 100 ms | swaps the rate counter, reads the flag, records in the Req/Sec histogram |
| HTTP/1 connection task | `connection.rs:198` | the connection, `local_complete`, `start` | connect, handshake, request loop | its worker's counters, the latency histogram, the flag |
| HTTP/2 connection and stream tasks | `h2.rs` | the same per stream; the handles of the streams | open, spawn streams, join them; request loop | the same |
| HTTP/3 connection and stream tasks | `h3.rs` | the same, and the resolved address | resolve, open, spawn streams, join them; request loop | the same |
| histogram | `stats.rs` | `count`, `min`, `max`, `data` (atomics, no lock) | `record`; `correct`, `percentile`, `mean`, `stdev`, `within_stdev` | written by all workers, read by main after the join |
| report | `report.rs` | none | `print_report` | reads the sums and the histograms |

A run goes through these in order: the command line becomes a `Config`; with `--http auto`
two probes find out what the server speaks; main allocates the histograms, builds the TLS
configuration and spawns the workers; the connection tasks build their request and send it
until the flag; main joins, sums, corrects and reports.

Three things are shared between threads: the stop flag, the latency histogram and the
Req/Sec histogram. A worker's counters are shared by its tasks only, which one thread polls.

**What is hard.** The tasks of a worker are cut at their awaits and interleave there with
each other, with the tick and with the flag. When the rate recorder, the *root* future of
the runtime, returns, every other task of the worker is dropped where it stands. A request
has no deadline: its age is looked at when it is answered, if it is. Each protocol has its
own copy of the request loop, with its own exits, each of which must update the right
counters. The histogram is updated by relaxed atomics and has two bounds that every query
relies on; the correction for coordinated omission adds samples after the run without moving
them. Before the run, numbers with units are multiplied three times in a row on the way to
the size of the histogram, each product with another treatment of overflow; and a protocol
that one function negotiated is negotiated again by another, over a configuration built
elsewhere. The list with lines is under `hazards` in `PROJECT.json`.

**What makes each component correct.**

* Command line: what it accepts is what the rest of the program assumes, without checking
  again.
* Protocol choice and TLS: the probes end; the connections get the protocol that was found;
  nothing panics on the way.
* Requests: they go to the server of the URL and carry the options.
* Run: it ends whatever the server does; no request is issued after the flag; what it
  reports was settled.
* Connection and stream tasks: every issued request is answered, failed or in flight, and
  only one of these; a response is counted once, in the shared counter or in the counter of
  the task that read it; it gives one latency sample or one timeout; a task gives up only
  when the documentation says so.
* Multiplexed connections: a connection is replaced only after its streams, and after a loss
  it is replaced.
* Rate recorder: no request is missing from the samples.
* Histogram: after concurrent recording, the count and the bounds fit the buckets; the
  correction adds what it should, and where the queries look; the figures of a row fit each
  other.

## Modules

```
Units    <--+
Requests <--+-- Startup <- StartupProofs                 (and Sums)
                        <- MCStartup

Counters <- RunControl <- H1Run                          RunPromise
                ^     <- MuxRun <- H2Run                    ^
                |                <- H3Run <- H3Recovery     |
                +-------- Promise == INSTANCE ... WITH -----+

StatsRecord                               Histogram <- MeasuredRun

Counters <- Sums <- RunControlProofs <- H1RunProofs      (and H1Run)
                                     <- MuxRunProofs     (and MuxRun)
                                          ^-- MuxProtocolProofs  (and H2Run, H3Run)
                 <- StatsRecordProofs                    (and StatsRecord)
                 <- MeasuredRunProofs                    (and MeasuredRun)
```

(`A <- B`: `B` extends `A`; a module of proofs also extends the module it is about.)
`Startup` ends where the modules of the run begin: its `RunnableConfig` is what they assume
of their constants. `MeasuredRun` begins where they end.

**`Units`** has the numbers with a suffix as `config.rs` reads them, the checked, saturating
and wrapping products of the code, and `format_time_s`, which writes the duration in the
header of the run.

**`Requests`** has the three request builders as operators from a protocol and a
configuration to a request, with a `HeaderMap` as a function from names to sequences of
values, and its two ways to add a header, `append` and `insert`.

**`Startup`** takes a command line and a server and goes, in `phase`, through the awaits and
the panics between them:

| `phase` | where | next actions |
|---|---|---|
| start | `parse_args` | `ParseArgs` |
| resolving | `resolve_protocol` (`main.rs:197`) | `Resolve` |
| quicLookup | `lookup_host` (`:242`) | `QuicLookup` |
| quicHandshake | the QUIC connection (`:254`) | `QuicHandshake`, `Timer` |
| alpnProbe | `probe_alpn` (`:261`) | `ProbeAlpn` |
| alpnConnect | TCP (`:291`) | `AlpnConnect`, `Timer` |
| alpnHandshake | TLS (`:299`) | `AlpnHandshake`, `Timer` |
| allocating | `Stats::alloc` (`:43`) | `Allocate` |
| building | TLS, endpoint and threads (`:58` on) | `Build` |
| running | the first poll of a task; the tasks connect | `FirstPoll`, `FirstRequest` |
| requesting, exited, aborted | the end | |

`provider` is the one piece of state that outlives a function without being passed on: the
crypto provider that `build_endpoint` and `build_tls` install and `probe_alpn` only uses.
`quicProbe` is a history variable. `MachineFails` is possible in every phase: main needs
memory, threads and somebody who reads what it prints. **`MCStartup`** has the command lines
and servers that are checked.

**`Counters`** has the record of the counters, the snapshot and the sum.

**`RunControl`** is main and the workers. `main` goes from "sleeping" through "joining" to
"done" (`SetStop`, `JoinWorkers`); a worker from "spawned" through "running" to "exited"
(`EnterRuntime` or `RuntimeFails`, then `RecordRate` once `stop` is set). All task actions
require `worker[w] = "running"`: this is how the tasks are dropped. `sampled` and
`responses` are history variables: what the recorder took out of the rate counter, and what
the tasks read to the end.

**`H1Run`** adds the HTTP/1 tasks. An action is the code from one await to the next, and
`task[w][c]` names the await at which the task is suspended:

| `task` | await | next actions |
|---|---|---|
| spawned | first poll | `Start` |
| connecting | `connect()` (`connection.rs:250`) | `ConnectOk`, `ConnectErr` |
| backoff | 10 ms sleep (`:254`) | `BackoffOver` |
| handshaking | `http1` handshake (`:262`) | `HandshakeOk`, `HandshakeErr` |
| sending | `send_request` (`:311`) | `SendOk`, `SendErr` |
| draining | the body (`:326`) | `DrainOk`, `DrainErr` |

`NextRequest` is the head of the request loop (stop check and flush, or the next request),
`Break` the three exits that flush and reconnect. `age` is the time since `start`;
`TimePasses` advances it for all requests in flight, up to `Timeout + 1`, which stands for
every longer time.

**`MuxRun`** is what HTTP/2 and HTTP/3 share: connection tasks that spawn `Streams` stream
tasks and join them, and the fragments of a stream's loop. **`H2Run`** and **`H3Run`** add
how a connection is opened (`H2ConnStep`, `H3ConnStep`) and what a stream does with a response
(`H2Answered`, `H3Answered`); their specifications are `H2Spec` and `H3Spec`. In HTTP/2 a late response ends the stream, in HTTP/3 it does not but its bytes are skipped;
only HTTP/3 resolves the name once, and gives up if that fails. `SendOk` separates what
fails as a write error from what fails as a read error: the head of the response in HTTP/2,
the sent request in HTTP/3.

**`H3Recovery`** adds to `H3Run` that connections die under all their streams (`dead`), with
what is assumed of quinn then: nothing more is sent, every pending call returns, the tasks
it wakes are polled. `Recovers` says that this is enough to reconnect, which it would not be
if a stream could wait for something else.

**`RunPromise`** is the abstract specification of a run: requests are issued while the run
is open, each is settled at most once, and the run closes in finite time with a report that
claims no more than was settled. `RunControl` instantiates it as `Promise` with a refinement
mapping (`issued` is the sum of the rate samples and the rate counters, `settled` the
responses and failures of all workers, `reported` what main's sum has of both). `Implements`
is its whole specification, liveness included, as a property of each protocol;
`Promise!Safety` is its safety part, which is proved.

**`StatsRecord`** is `Stats::record` with one action per atomic instruction, for any number
of threads. A relaxed load returns any value the location has had that is not older than
what the thread has read of it before; an exchange acts on the newest value, may fail for no
reason, and a failed one is only a load.

**`Histogram`** has the histogram as a value: `alloc`, a whole `record`, `correct`, `mean`,
`stdev`, `within_stdev` and `percentile` as operators, with `NearestRank` and `WithOmitted`
as references that look at all buckets. The floating-point quotients of mean and deviation
are compared by multiplying both sides out. **`MeasuredRun`** uses it as main does:
latencies are recorded, the workers joined, the interval computed from the completed
requests and the histogram corrected. Here time is measured: the latencies of one slot add
up to no more than the time it ran.

Definitions named `Operation_Bug` (`Break_NoFlush`, `CasMax_NoRetry`) are what an operation
would be with a plausible bug. No specification uses them: they show for each property a bug
that violates it, as listed under `mutants`.

## Runs

Every pass run finishes in less than a minute on two workers.

| Run | What it shows | Bounds |
|---|---|---|
| `MCStartup` | from the command line to the first request | the 1190 command lines of `MCStartup`, the 16 kinds of server, `U64Max` 2100000, `MetricScale` 10, `F64Exact` 8192, `HeaderRoom` 6 |
| `H1RunOneWorker` | safety of the HTTP/1 accounting | 1 worker, 2 connections, `Timeout` 1 (ages 0, 1 and late), statuses 200 and 500, 3 requests, 1 connect error |
| `H1RunTwoWorkers` | termination and the promise | 2 workers, 3 connections (one never opened), 2 requests and 1 connect error per worker |
| `H2Run`, `H3Run` | safety and the promise, multiplexed | 1 worker, 2 connections of 2 streams, 3 requests, 1 connect error |
| `H3Recovery` | a lost connection is replaced | 1 worker, 1 connection of 3 streams, 4 requests |
| `StatsRecord` | concurrent recording | 3 threads, 3 values, each at most twice |
| `MeasuredRun` | correction, percentiles and figures of the report, HTTP/1 | 2 connections, latencies 0 to 5 and late, runtime 5, head start 3, 8 responses |
| `H1RunLostCompletions`, `H3RunResolveFails`, `H3BodyDropped`, `MeasuredRunStreams` | one violated claim of the documentation each | as small as shows it |

*Why the bounds suffice.* The properties of a run are about one request, one task and its
worker, or about a sum over them. Tasks of a worker interact through its counters, which are
sums, and through the flag; so two tasks show every interaction of a pair, and three
requests let one task complete a request, fail a second and reconnect for a third while the
other holds one. With one connect error every failing path is taken and reconnects. Two
workers interact through the flag, the join and the sum only. `MaxIssued` and
`MaxConnectErrors` are guards of the model: a task that may issue no more waits at its loop
head, which the code can do too, as long as a connect or a response takes; no property says
that a request must be issued. `StatsRecord` needs three threads for an exchange that loses
twice, and three values for a minimum, a maximum and one between; one thread per value twice
has every order of equal and different values. In `MeasuredRun` a sample must be more than
two intervals long to be corrected, and three to be corrected again by a faulty pass: eight
responses in a runtime of 5 give intervals from 1 to 5, so samples up to five intervals
long. `SpawnTime`, the head start that the first worker has over main's clock, is the
largest for which the properties hold (see finding 3).

`MCStartup` varies, from a default line, the options one question is about at a time: what
clap refuses, URLs and protocols, numbers at the limits of the checks, timeouts on either
side of each overflow, shapes of requests, hosts and header values that a library refuses,
certificates; all of them meet every server. `HeaderRoom` 6 (24576 in http) lets lines have
a header less than there is room for, as many, and one more; `F64Exact` 8192 (2^53) lies
above most durations of the lines and below some. The
integers of TLC have 32 bits, so `U64Max` is a number that leaves room for its product with
1000: the lines have a timeout for which no product passes it, one whose microseconds
saturate, so that the increment overflows, and ones whose milliseconds wrap. With
`MetricScale` 10 all suffixes fit below it. `StartupProofs` has no such bound. In
`H3Recovery` three streams can be in three different awaits when the connection dies, and
the fourth request is one that a stream issues after it; once `MaxIssued` is reached a
waiting stream is the model's bound and not the code's, and `Recovers` excuses it.

*Deadlock* is checked in the runs; `Terminated` and `Reported` stutter at the end, and
`Ended` in `Startup`. It is not in `StatsRecord`, where all threads stop when the bound on
the samples is reached.

*Fairness.* `Fairness` is weak fairness of `Stop` and `Join` (main's sleep and joins) and,
per worker, of `StartWorker` and `Tick` (threads are scheduled, tokio's timers fire). It is
not assumed that a connect, a request or a body ever ends, nor that any connection task is
polled: `Termination` holds with a server that never answers. That a `Tick` always happens
relies on tasks not blocking their thread between awaits, which the code does not: it awaits
sockets only. In `Startup` main runs, the timers of the probes fire and the system's
resolver gives up some time, the one await without a timer; a server that accepts and stays
silent is allowed. In `H3Recovery` the only fairness is that the tasks of a *dead*
connection run, which is what quinn's waking them means on a runtime that polls what is
woken; neither the flag nor the server is fair.

## What was found

Four claims of the documentation do not hold of the code; each has its run.

1. `ReportsEveryResponse`: responses held in `local_complete` by a task whose worker's
   runtime returns are in no counter (`connection.rs:301`, `README.md:245`). A task that
   waits for a response at the last tick loses all the responses it read on its present
   connection. `CleanRunReportsAll` is what does hold.
2. `ConnReturnsOnlyOnStop` for HTTP/3: a failed lookup ends the connection task
   (`h3.rs:107`, `README.md:33`).
3. `PercentilesAreNearestRank` with more than one stream per connection: the interval is
   then less than the smallest latency, `correct` adds samples below `min`, and
   `percentile`, which starts at `min`, answers too high or 0 (`stats.rs:130`,
   `README.md:260`). For one request per connection the run shows that the interval is never
   that small, as long as the workers do not run for long before main starts its clock
   (`main.rs:150`). How long is a matter of arithmetic: with a head start `S` and a runtime
   `R` the window is safe if `(S + 1)^2 < 4 * (R + 1)`, which `MeasuredRunProofs` proves for
   every run, and the run has the `S` and `R` where one more is too much. In microseconds
   that is 2 ms for `-d 1s` and 6 ms for `-d 10s`, which spawning the threads takes only if
   there are very many.
4. `BodySent`: an HTTP/3 run drops the body of `-b` and its length (`h3.rs:267`,
   `README.md:140`).

The models also have these disagreements, for which there is no run:

* A request that is never answered is not among the timeouts, which "counts requests that
  exceeded `-T`" (`README.md:267`): the elapsed time is looked at only after an answer
  (`connection.rs:341`).
* A late response ends an HTTP/2 stream, and the concurrency stays below `-c` x `--streams`
  (`README.md:213`) until all its siblings have ended (`h2.rs:185`, `h2.rs:135`).
* The bytes of late HTTP/3 responses are not counted (`h3.rs:220`), though the accounting is
  said to be that of HTTP/1 (`h3.rs:9`) and the report to show the "total bytes received"
  (`README.md:246`).
* A latency of exactly the timeout is a sample and has a bucket: late is `elapsed >
  timeout_dur` (`connection.rs:348`, `h2.rs:185`, `h3.rs:220`), and the histogram's limit is
  the timeout plus one (`stats.rs:31`). `README.md:400` says that a sample `≥ timeout` is
  discarded and counted as a timeout; `README.md:130`, "exceeding", agrees with the code, and
  so do `HistogramCoversTimeout` and `SampledOrTimedOut`.
* A `-T` whose milliseconds pass the largest u64 wraps to a short timeout (`config.rs:357`,
  `README.md:130` and `:173`), and answers in time are timeouts. `HistogramCoversTimeout` is
  about the timeout that results, and that it is the one asked for if it fits. `-T 0` is
  accepted.
* Over HTTP/1 with a body, a `-H` of a `Content-Length` is not in the request, because the
  program's own is inserted and not appended (`connection.rs:401`, `README.md:128`). Over
  HTTP/2 both are sent. `RequestsCarryOptions` says what does hold: every other `-H` is
  there, in its order.
* A host with a control character (a carriage return at the end of a line of URLs) passes
  `parse_url`. Over plain http it is not looked at again until the first poll of the first
  task, which panics (`connection.rs:231`): cause "host" of `AbortsExplained`.
* An IPv6 host without brackets is accepted by `parse_url` and by TLS, but no URI: over
  HTTP/2 and HTTP/3 the requests go to `https://localhost/` (`h2.rs:42`, `h3.rs:88`), on a
  connection to the right server.
* A `-H` that http refuses, for its name or its value, is left out without a word
  (`connection.rs:238`). With more than 24576 headers a `HeaderMap` panics (`h2.rs:48`,
  `connection.rs:396`).
* The header of the run converts the duration to an f64 (`main.rs:52`): beyond 2^53 s it is
  another one, four minutes off for the largest u64.
* The path of the URL is ignored (`config.rs:441`); only `--path` counts. A `Put` is refused
  where `README.md:138` lists it.
* A `--path` that is no URI ends an HTTP/1 run at the first request, in a panic; over HTTP/2
  and HTTP/3 it makes every request go to `https://localhost/`. A path without a leading
  slash becomes part of the authority there.
* HTTP/3 sends no `Host` header, which the comment at `h3.rs:86` says is kept. A `Host` of
  the user is sent in addition to the program's own over HTTP/1.
* `probe_alpn` panics if `probe_quic` could not build its runtime, because no crypto
  provider is installed then (`AbortsExplained`).
* Ticks without a request are not recorded (`worker.rs:198`), so the Req/Sec row, "sampled
  every 100 ms" (`README.md:242`), is over the busy intervals.

## Proofs

All theorems are checked by TLAPS for every value of the constants that satisfies the
`ASSUME`s of the modules. These say what `parse_args` enforces (at least one thread, as many
connections as threads, at least one stream), that the bounds are natural numbers and the
sets of tasks and threads finite, in `StatsRecord` that a histogram has a bucket and
`U64Max` is not below its limit, in `Units` that the scales fit in `U64Max` and that
`F64Exact` (2^53) is between 51 and `U64Max - 30`, and in `Startup` that the constants have
their types. TLC evaluates them in the passing runs.

**`Sums`** makes the rest possible. `Total`, `SumSnapshots` and the number of samples in the
buckets are folds of the community modules, recursive functions over the subsets of a set; a
step changes one element, and what is needed is what that does to the sum. The induction
theorems of the library take an operator and cannot be used, so each induction is the choice
of a minimal counterexample: `MinimalSet` says that a nonempty set of subsets of a finite
set has a minimal element, which follows from the well-foundedness of strict inclusion
(`WFMin`, without an operator parameter). From it come that the recursive function exists
and is unique (`TableExists`, `TableUnique`), that any element may be taken out first
(`SumTake`), and so type, zero, addition, monotonicity, and `SumChange`: to change `f` at
one point changes the sum by the difference. `CountMove` is the same for the number of tasks
that are at some await. Its last section does the same for `FoldLeft`, which takes the last
place of a sequence out first: `Largest` that a finite set of integers has a maximum,
`FoldUnique` and `FoldExists` that the recursive function over the sets of places is there
and is the only one, for steps that need not be sums.

**`RunControlProofs`** has what no protocol changes, in two parts. `ControlInv` is the
invariant of main and the workers: the flag is set exactly when main has stopped sleeping;
the total is zero before main is done and the sum of the snapshots after; a worker that has
exited has a snapshot of its counters and never touches them again. `Books(w, issue, answer,
fail, flush, bytes)` is what any step of any task enters: how many requests it issues,
answers and fails, how many responses it flushes and bytes it counts, and for each answer a
sample or a timeout. `KeepBooks` and `FlushBooks` show that the fragments of the code enter
books; `BooksAt`, `BooksSettled` and `BooksPromise` what books do to the invariant and to
the promise.

**`H1RunProofs`** (any number of threads and connections, any timeout):

* `TypeCorrect`, `RequestAccounting` (`RequestsConserved`), `RateAccounting`
  (`RateDrained`), `ResponseAccounting` (`EveryResponseCounted`), `LatencyAccounting`
  (`SampledOrTimedOut`)
  and `CleanReport` (`CleanRunReportsAll`) follow from one inductive invariant, `IInv`. None
  of the properties is inductive alone: the step that creates the tasks forgets those there
  were, so a worker that has not entered its runtime must have none (`NotEntered`); and a
  task that leaves the request loop takes its held back responses along unless it has
  flushed them (`Idle`: a task with no request in flight holds none). The argument: each
  action has an `Effect`, books and the next await of one task, whose entries balance with
  the change of its membership in `InFlight`; a balanced effect keeps the sums.
* `NothingIssuedAfterStop`: `Spec => NoIssueAfterStop`; the loop head is the only place that
  moves the rate counter up, and a tick moves what it takes to `sampled`.
* `TasksReturnOnlyOnStop`: `Spec => ReturnsOnlyOnStop`.
* `KeepsPromise`: `Spec => Promise!Safety`, the refinement: `Init` maps to the promise's
  `Init`, a task's step to `Progress` or a stutter, main's to `Stop` and `Close`, by what
  its books have. The sums over the workers that the mapping is made of change by what one
  worker enters; that the report claims no more than was settled is that `total` is the sum
  of counters that are not touched any more, each at most its worker's responses.

**`MuxRunProofs`** has the same for streams, once for both protocols. `MuxInv` needs one
more part: `Joined`, that unless a connection task waits for its streams they have all
returned, because `SpawnStreams` replaces the old streams by new ones. The steps are
abstracted to `MuxStep(sizes, ends, quits)`, whose parameters are where the protocols
differ: the sizes that a response may be counted with, why a stream may end, and why a
connection task may give up. `MuxStepInv` and its companions are about every such step.
**`MuxProtocolProofs`** shows that each action of either protocol is one with its own
parameters, and has the theorems, with H2 or H3 before their names:

| Theorem | HTTP/2 | HTTP/3 |
|---|---|---|
| `TypeCorrect` | `TypeOK` | `TypeOK` |
| `RequestAccounting` | `RequestsConserved`, `RateDrained` | the same |
| `ResponseAccounting` | `EveryResponseCounted`, `EveryByteCounted` | `EveryResponseCounted`; not the bytes (see What was found) |
| `LatencyAccounting` | `SampledOrTimedOut` | `SampledOrTimedOut`, though a late response ends nothing |
| `NoStreamLeftBehind` | `StreamsJoined` | `StreamsJoined` |
| `NothingIssuedAfterStop` | `NoIssueAfterStop` | `NoIssueAfterStop` |
| what ends a task | `ConnsReturnOnlyOnStop` | `StreamsEndOnStopOrError` |
| `KeepsPromise` | `Promise!Safety` | `Promise!Safety` |

**`StartupProofs`** (any set of command lines and servers, any `U64Max` and any
`MetricScale` that satisfy the assumptions of `Units`):

* `TypeCorrect`, `ConfigRunnable`, `TimeoutCovered`, `NegotiationHolds` and
  `PanicsExplained`: `Spec => []` of `TypeOK`, `RunnableConfig`, `HistogramCoversTimeout`,
  `NegotiationConnects` and `AbortsExplained`. All follow from one inductive invariant,
  because each is about a phase long after the check it rests on. `FromLine` carries what
  `parse_args` checked, and that the configuration is what the line asks for, up to the end;
  `Choice` carries what the probes found and that they only run for `auto` and `https`;
  `Covered` that the limit is one above a product that did not saturate; `Offered` that
  `build_tls` has advertised the resolved version and nothing before; `ProviderKept` that a
  probe that had a runtime left a provider. `ValueType` and `NumbersReadable` show that
  whatever clap accepts is a natural number; `Wrapped` that an overflow can only shorten the
  timeout, which is why the panic of `Allocate` means that the product was meant to be that
  large. That a bad host can only panic over plain http is in `Offered` too: over https an
  HTTP/1 run has had its `ServerName` from `build_tls`.
* `DurationShown`: `Spec => []HeaderTellsDuration`, up to `F64Exact`. `SecondsOrMinutes`
  says that the ladder of `format_time_s` is left at the minutes from 51 s on, however long
  the run, and `MinutesRoundTrip` that rounding to minutes is off by 30 s at most and yields
  what `scan_time` accepts. For longer durations nothing is claimed, and the model lets the
  header show any number of minutes.
* `OptionsCarried`: `Spec => []RequestsCarryOptions`, for any number of `-H`. The invariant
  brings the configuration to the first request; the rest is about the loop over its
  headers. `Placed(map, hs, t)` says that each valid header of the places `t` is as far from
  the end of the values of its name as there are later valid ones of that name in `t`, and
  `Kept(map, own)` that the program's own values are still the first: one more header keeps
  both (`AcceptedStep`), so that they hold after all of them (`StaticHeadersFacts`). Over
  HTTP/1 the authority is then the first `host`, which no `-H` can displace. The
  `content-length` that is added at the end disturbs no other name (`LengthAdded`); of its
  own name it leaves nothing over HTTP/1 (`Replaced`, the exception of the property) and
  stands after the user's over HTTP/2 (`OwnLast`).

**`StatsRecordProofs`** (any number of threads, any limit):

* `TypeCorrect`, and `WindowWidens`: `Spec => WindowOnlyWidens`.
* `BoundsExact`: `Spec => []BoundsExactWhenQuiet`. The inductive invariant says that past
  values of a bound are never inside it (`PastWider`), that what a thread has read is a past
  value (`ReadsPast`), that every recorded value is inside each bound **or owed to it** by a
  thread that has not finished with it (`Covered`), that a bound that moved is a recorded
  value (`BoundsRecorded`), and that a thread in a loop is there for a reason
  (`BranchesRight`). When all threads are idle nothing is owed, and `Covered` is the claim.
  It is `PastWider` that makes the fast path right: a stale load shows a narrower window
  than there is, so a value inside it is inside the real one.
* `CountExact`: `Spec => []CountExactWhenQuiet`, with the same idea: `CountInv` says that
  `count` and the threads that owe it one, between the two `fetch_add`s, together are the
  sum of the buckets.

**`MeasuredRunProofs`** (any number of connections, any timeout, runtime and head start):

* `CorrectionAddsSinglePass`: `Spec => CorrectionIsSinglePass`, with no further hypothesis.
  `correct` goes up through the buckets and adds to smaller ones. `After(h, e, s)` is the
  histogram when the turns `s` of the loop are done, without a loop; `AfterTurn` says that a
  turn later than those of `s` makes it `After(h, e, s \cup {x})`, because they have not
  touched the bucket it reads; by a minimal set of turns `CorrectedIsAfter` says that this is
  what the fold computes.
* `TypeCorrect`: `Spec => []TypeOK`, also with streams; the run leaves this one to the
  proof.
* `NoSampleOutside`, `NearestRankPercentiles` and `FiguresFitEachOther`: `Spec => []` of
  `WindowHoldsAll`, `PercentilesAreNearestRank` and `ReportAddsUp`, under two hypotheses:
  `OneRequestEach` (`Streams = 1`) and `ShortHeadStart` (`(SpawnTime + 1)^2 < 4 * (Runtime +
  1)`). Neither can be spared: `MeasuredRunStreams` violates the claim with two streams, and
  the run `MeasuredRun` would with a `SpawnTime` one larger, which is the first that does not
  fit; its own constants satisfy both.

  What has to be inductive is a fact about time. `Timed` says that the requests of each slot
  fit into its clock: there are numbers `served[k]`, `answered` in all, such that slot `k`
  has spent at least `served[k]` times the fastest latency, and for each sample `n` some slot
  has spent `n` on one request and at least the fastest latency on each of its others. Were a
  sample added below the fastest (`NothingBelowFastest`), let `e` be the interval and `p` the
  completed requests per connection, so that `p * (e + 1) > Runtime` (`IntervalFacts`). The
  fastest is at least `e + 2` and the sample that is corrected at least `2 * e + 1`; its slot
  was answered `p` times, or another `p + 1` times (`BusySlot`, a sum over the slots). Either
  way a slot has spent `(p - 1) * (e + 2) + 2 * e + 1`, which is more than there was
  (`TooLong`). So the correction keeps to the window (`CorrectedBounded`).

  The figures follow from two facts about a histogram, that its count is the sum of its
  buckets and that no bucket outside the window is used (`FiguresFit`). For the percentiles,
  the running sums of the window and of all buckets agree inside it (`SamplesUpTo`), and the
  rank is reached; for the mean, each term of the sum is between its bounds; for the
  deviation, were all samples further from the mean than a deviation, the sum of the squares
  would be larger than it is (`SomeWithinStdev`).

**Only model-checked.** Liveness, which needs `ENABLED`: `Termination`, `StartupEnds`,
`Recovers`, and the fairness part of `Implements`, whose safety part is `KeepsPromise`. Every
other property of a passing run is a theorem. The properties of the four violation runs are
not, being false.

## Abstractions

* *Time.* Ticks, the duration and the network interleave in every order. In the connection
  modules only a request's age is measured; in `MeasuredRun` only latencies and the runtime.
  `start.elapsed()` is compared as a `Duration` and recorded in whole microseconds; here
  both are the same number, so that a latency of exactly the timeout is in the histogram's
  range, as it is in the code (`limit = max + 1`).
* *The flag* is relaxed: a worker may see it later than it is stored. `SetStop` is the
  moment it is seen; as a worker's steps touch no other worker's state but the histogram, to
  which they add, steps of a worker that has not seen it can be moved before the store.
  Main's own wait is for the workers.
* *Counters* are unbounded (u64 counts of one run), and the bytes of a response are the
  constant `ResponseSize`.
* *`stop` in the recorder*, *the order of the joins*, *the order in which stream handles are
  awaited*: joining many is modelled as waiting for all.
* *Drivers.* The background task that drives a connection has no state of the program; it
  shows as the outcomes of the awaits. A connection that broke may fail any of them, at any
  time.
* *Panics.* `Cargo.toml:35` builds releases with `panic = "abort"`, so a panic anywhere ends
  the process: `Abort` in `Startup`, up to the first request of a task. Its causes are the
  increment of `Stats::alloc`, rustls without a provider, the `expect`s on `build_tls`, the
  host and the path over HTTP/1 and a full `HeaderMap`; `MachineFails` stands for everything
  that depends on the machine (an allocation, a thread that cannot be spawned, output nobody
  reads). The modules of the run have no panic: the requests after the first are built from
  the same values, what the machine may do to a run is left out, and no worker needs a join
  error.
* *Command lines* are what clap makes of them: a flag for what it refuses for other reasons
  than a number, and for each number the digits and the suffix that `split_unit` finds. Of a
  URL the scheme, the host and the port are kept, of a path whether it starts with a slash
  and whether it is a URI at all, of a body its length. One host stands for each kind that a
  library treats in its own way: a name, IPv6 with and without brackets, and one with a
  control character; a header value is fit for a header or has one, too.
* *A server* is whether it answers QUIC, which protocols it knows under ALPN, and whether
  its certificate is valid; it may fail or be silent at any await. It does not change
  between the probe and the run. What a server does that knows none of the offered protocols
  is its own choice (`Outcomes`).
* *Numbers in the header* are exact up to 2^53 s, where the f64 of a duration is the
  duration, and its quotient by 60 is on the same side of every half. Beyond, `FormatTimeS`
  is any number of minutes.
* *Figures of the report* are exact: the code rounds mean and deviation to f64, so that
  `within_stdev` may there count a sample on the edge of its interval in or out. The rank of
  a percentile is one definition (`Rank`, the formula of the code) in `Percentile` and in its
  reference: what `PercentilesAreNearestRank` checks is the window, the scan and the
  fall-through, not the formula.
* *TLS, DNS, QUIC, HTTP framing* are awaits that succeed or fail.
* *The remainder* of `-c` by `-t` is never opened (`main.rs:56`), as `README.md:125` says
  and `README.md:126` does not: `Conns` has `connections / threads` elements, and the run
  with two workers and three connections leaves one out. The correction divides by all of
  them; in `MeasuredRun` a slot that never answers is one that was not opened.
* *The clock of a slot* in `MeasuredRun` may start up to `SpawnTime` before `wall_start`, as
  the workers do. Fewer responses may be in `complete` than were read, any number, because
  of finding 1.

## Not modelled

* The column layout of the report, and `format_time_us`, `format_binary` and
  `format_metric`, which write it: the ladder of units is in `Units`, their two decimals
  decide nothing.
* The quotient of the rate recorder (`worker.rs:200`): it divides by a measured time that
  the modules of the run do not have, and its value only reaches a row of the report. The
  swap, the order of its steps and what it counts are in `RecordRate`.
* clap, rustls, quinn, h3 and hyper, but for what the code asks of them.
* `popcount` and the accessors of `Stats`, which the program does not call.
* The example servers.

`components` in `PROJECT.json` has the status of every part.

## Plan

Done: all modules of the list above, with the proofs of the run in its three protocols, of
the start of the program, of concurrent recording, and of the correction and the figures.

Left, if the Req/Sec row is to be covered: **time in the rate recorder**, with measured ticks
and the quotient.
