-------------------------- MODULE AtomicCheckpoint --------------------------
(***************************************************************************)
(* What "saves all metrics, atomically" (internal/service/metrics.go:121)  *)
(* means to whoever restarts the server: the saved state goes from one     *)
(* whole copy of the memory to another, never through anything else, a     *)
(* restart continues from the copy, and only updates change the memory.    *)
(***************************************************************************)
EXTENDS MetricValues

VARIABLES
    working,    \* the values in memory
    copies,     \* copies taken of it that may still be saved
    durable,    \* the saved copy
    restored    \* the process is up and has read the saved copy

vars == <<working, copies, durable, restored>>

Init ==
    /\ working = NoValues
    /\ copies = {}
    /\ durable = NoValues
    /\ restored = FALSE

Update ==
    /\ \E u \in Updates : working' = Apply(working, u)
    /\ UNCHANGED <<copies, durable, restored>>

Copy ==
    /\ restored
    /\ copies' = copies \union {working}
    /\ UNCHANGED <<working, durable, restored>>

Save ==
    /\ durable' \in copies
    /\ copies' \in SUBSET copies
    /\ UNCHANGED <<working, restored>>

GiveUp ==
    /\ copies' \in SUBSET copies
    /\ UNCHANGED <<working, durable, restored>>

Continue ==
    /\ ~restored
    /\ restored' = TRUE
    /\ working' = Restore(working, durable)
    /\ UNCHANGED <<copies, durable>>

Stop ==
    /\ working' = NoValues
    /\ copies' = {}
    /\ restored' = FALSE
    /\ UNCHANGED durable

Next == Update \/ Copy \/ Save \/ GiveUp \/ Continue \/ Stop

Spec == Init /\ [][Next]_vars

=============================================================================
