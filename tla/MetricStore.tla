---------------------------- MODULE MetricStore ----------------------------
(***************************************************************************)
(* What a MetricsRepo promises: gauges and counters by name, a gauge keeps *)
(* the last value written, a counter adds up its deltas, and a batch is    *)
(* one step.  The memory storage                                           *)
(* (internal/repository/memory/memstorage.go) is this, one call under its  *)
(* mutex a step; PostgresStorage is shown to implement it.                 *)
(***************************************************************************)
EXTENDS Naturals, Sequences

CONSTANTS
    Ids,        \* names of metrics
    Null,       \* no value
    Ops,        \* update calls, each made once
    Batch       \* [Ops -> Seq([id, type, v])], what each of them updates

VARIABLES
    store,      \* [gauges, counters : [Ids -> value or Null]]
    applied     \* the calls that have taken effect

vars == <<store, applied>>

Empty == [gauges |-> [i \in Ids |-> Null], counters |-> [i \in Ids |-> Null]]

Init == store = Empty /\ applied = {}

\* UpsertGauge and UpsertCounter.
Upsert(s, e) ==
    IF e.type = "gauge"
    THEN [s EXCEPT !.gauges[e.id] = e.v]
    ELSE [s EXCEPT !.counters[e.id] = IF @ = Null THEN e.v ELSE @ + e.v]

\* The updates of a batch, one after another.
After(s, entries) ==
    LET upto[n \in 0..Len(entries)] ==
            IF n = 0 THEN s ELSE Upsert(upto[n - 1], entries[n])
    IN upto[Len(entries)]

\* Whole calls, one after another, on an empty store.
AfterCalls(calls) ==
    LET upto[n \in 0..Len(calls)] ==
            IF n = 0 THEN Empty ELSE After(upto[n - 1], Batch[calls[n]])
    IN upto[Len(calls)]

UpdateMetricsBatch(o) ==
    /\ store' = After(store, Batch[o])
    /\ applied' = applied \union {o}

Next == \E o \in Ops \ applied : UpdateMetricsBatch(o)

Spec == Init /\ [][Next]_vars

=============================================================================
