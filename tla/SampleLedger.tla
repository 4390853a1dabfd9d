--------------------------- MODULE SampleLedger ---------------------------
(***************************************************************************)
(* What the agent promises about every sample a collector takes, with no   *)
(* goroutine, batch, pool or channel in sight: a sample is pending from    *)
(* the moment it is taken until it is settled, it is settled once, as      *)
(* delivered or as dropped, and nothing is dropped while the agent runs    *)
(* on a healthy network.  AgentPipeline is shown to implement this.        *)
(***************************************************************************)
CONSTANTS
    Samples,        \* everything the collectors could ever take
    NetworkFails    \* BOOLEAN: may a send on a live context fail?

VARIABLES
    pending,    \* taken, and held somewhere inside the agent
    delivered,  \* accepted by the server
    dropped,    \* given up
    cancelled   \* the agent was told to stop

vars == <<pending, delivered, dropped, cancelled>>

Init ==
    /\ pending = {}
    /\ delivered = {}
    /\ dropped = {}
    /\ cancelled = FALSE

\* A collector takes a sample nobody has taken before.
Take ==
    /\ \E s \in Samples \ (pending \union delivered \union dropped) :
          pending' = pending \union {s}
    /\ UNCHANGED <<delivered, dropped, cancelled>>

\* One send ends: the samples of one batch leave the agent together, those the
\* server accepted as delivered and the rest as dropped.
Settle ==
    \E batch \in SUBSET pending : \E got \in SUBSET batch :
        /\ (~NetworkFails /\ ~cancelled) => got = batch
        /\ pending' = pending \ batch
        /\ delivered' = delivered \union got
        /\ dropped' = dropped \union (batch \ got)
        /\ UNCHANGED cancelled

Cancel ==
    /\ ~cancelled
    /\ cancelled' = TRUE
    /\ UNCHANGED <<pending, delivered, dropped>>

Next == Take \/ Settle \/ Cancel

Spec == Init /\ [][Next]_vars

===========================================================================
