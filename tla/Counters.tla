------------------------------ MODULE Counters ------------------------------
(***************************************************************************)
(* The per-worker counters of connection.rs.  A worker owns one            *)
(* `Counters`; its connection tasks bump the fields with relaxed           *)
(* fetch_adds, which never race because all of a worker's tasks are polled *)
(* by one thread.  A `CounterSnapshot` is a copy of the fields, and main   *)
(* adds up the snapshots of all workers.  The fields are u64 in the code;  *)
(* they count events of one run and are taken as unbounded here.           *)
(***************************************************************************)
EXTENDS Integers, FiniteSets, FiniteSetsExt

CounterSnapshot ==
  [ complete       : Nat,    \* requests whose response was fully read
    bytes          : Nat,
    errors_connect : Nat,
    errors_read    : Nat,
    errors_write   : Nat,
    errors_status  : Nat,
    errors_timeout : Nat ]

ZeroCounters ==
  [ complete       |-> 0, bytes         |-> 0, errors_connect |-> 0,
    errors_read    |-> 0, errors_write  |-> 0,
    errors_status  |-> 0, errors_timeout |-> 0 ]

\* The sum of f[x] over the domain of f.
Total(f) == MapThenSumSet(LAMBDA x : f[x], DOMAIN f)

\* CounterSnapshot::sum: the field-wise sum of a family of snapshots.
SumSnapshots(snapshots) ==
  [ complete       |-> Total([w \in DOMAIN snapshots |-> snapshots[w].complete]),
    bytes          |-> Total([w \in DOMAIN snapshots |-> snapshots[w].bytes]),
    errors_connect |-> Total([w \in DOMAIN snapshots |-> snapshots[w].errors_connect]),
    errors_read    |-> Total([w \in DOMAIN snapshots |-> snapshots[w].errors_read]),
    errors_write   |-> Total([w \in DOMAIN snapshots |-> snapshots[w].errors_write]),
    errors_status  |-> Total([w \in DOMAIN snapshots |-> snapshots[w].errors_status]),
    errors_timeout |-> Total([w \in DOMAIN snapshots |-> snapshots[w].errors_timeout]) ]

\* A task adds the n responses it has held back to the shared counter.
Flush(snap, n) == [snap EXCEPT !.complete = @ + n]

\* The increment of a conditional fetch_add(1).
OneIf(condition) == IF condition THEN 1 ELSE 0
=============================================================================
