------------------------ MODULE MCMetricsPersistence ------------------------
(***************************************************************************)
(* MetricsPersistence in the settings the runs ask about.                  *)
(***************************************************************************)
EXTENDS MetricsPersistence

\* Two updates over HTTP, the second posted as a batch, one over gRPC, a gauge and
\* a gauge JSON cannot express.
CONSTANTS c1, c2, c3, g1, nan, h1, h2

\* Crashes and restarts: one request at a time, two runs of the process.
Crashing(sync, diskFails, stops, updates) ==
    [sync |-> sync, diskFails |-> diskFails, stops |-> stops,
     handlers |-> {h1}, updates |-> updates, runs |-> 2]

\* Shutdown: one run.
Stopping(sync, diskFails, handlers, updates) ==
    [sync |-> sync, diskFails |-> diskFails, stops |-> TRUE,
     handlers |-> handlers, updates |-> updates, runs |-> 1]

\* In the third and the last setting the last save may overlap a periodic one.
AllSettings ==
    {Crashing(TRUE, FALSE, TRUE, {c1, c3, g1}),
     Crashing(FALSE, TRUE, FALSE, {c1, c3, g1}),
     Crashing(FALSE, TRUE, TRUE, {c1, c3}),
     Stopping(TRUE, FALSE, {h1, h2}, {c1, c2, c3, nan}),
     Stopping(FALSE, TRUE, {h1}, {c1, g1, nan})}

OverlapSettings ==
    {[sync |-> TRUE, diskFails |-> FALSE, stops |-> FALSE,
      handlers |-> {h1, h2}, updates |-> {c1, c2}, runs |-> 1]}

=============================================================================
