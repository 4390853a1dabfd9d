-------------------------- MODULE MCAgentPipeline --------------------------
(***************************************************************************)
(* AgentPipeline on small instances.                                       *)
(***************************************************************************)
EXTENDS AgentPipeline, TLC

\* make(chan *model.MetricsBatch, a.rateLimit*2)
CodeChanCap == 2 * Cardinality(Workers)

\* Batches in use at once: the current one, the dispatcher's, and those in the
\* channel and with the workers, which hold at least one sample each.
InFlightBound ==
    LET slots == ChanCap + Cardinality(Workers)
        samples == 2 * MaxPolls
    IN IF slots < samples THEN slots ELSE samples

ASSUME EnoughBatches == Cardinality(Batches) >= InFlightBound + 2

\* Batches nobody owns are alike, and NewBatch may take any one of them; used
\* where only safety is checked.
BatchSymmetry == Permutations(Batches)

=============================================================================
