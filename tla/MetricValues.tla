---------------------------- MODULE MetricValues ----------------------------
(***************************************************************************)
(* What the repository holds, as far as saving and restoring can tell:     *)
(* which updates are part of the stored values, and how often.  There is   *)
(* one counter, which adds up its updates, and one gauge, which keeps its  *)
(* last update only.                                                       *)
(* BugRestoreOverwrites is a plausible mistake in the operator below it.   *)
(***************************************************************************)
EXTENDS Naturals

CONSTANTS
    Updates,        \* update requests, each of them made at most once
    GaugeUpdates    \* those that write the gauge; the others are counter deltas

ASSUME ValuesAssumption == GaugeUpdates \subseteq Updates

CounterUpdates == Updates \ GaugeUpdates

NoValues == [u \in Updates |-> 0]

\* UpsertGauge and UpsertCounter.
Apply(values, u) ==
    [v \in Updates |->
        IF v = u THEN values[v] + 1
        ELSE IF u \in GaugeUpdates /\ v \in GaugeUpdates THEN 0
        ELSE values[v]]

\* The counter is set to what was saved.
BugRestoreOverwrites(values, saved) ==
    [v \in Updates |->
        IF \E u \in Updates : saved[u] > 0 /\ (u \in CounterUpdates <=> v \in CounterUpdates)
        THEN saved[v] ELSE values[v]]

\* UpsertGauge and UpsertCounter for the gauge and the counter in saved: the counter
\* is added to what is stored, the gauge replaces it.
Restore(values, saved) ==
    [v \in Updates |->
        IF v \in CounterUpdates THEN values[v] + saved[v]
        ELSE IF \E g \in GaugeUpdates : saved[g] > 0 THEN saved[v]
        ELSE values[v]]

=============================================================================
