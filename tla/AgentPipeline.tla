--------------------------- MODULE AgentPipeline ---------------------------
(***************************************************************************)
(* The agent's goroutines (internal/agent/agent.go): two collectors that   *)
(* append samples to the current batch, a dispatcher that swaps the        *)
(* current batch out on every report tick and offers it to a bounded       *)
(* channel, a pool of workers that send batches, and Start itself, which   *)
(* waits for all of them and makes the final send.  The batches come from  *)
(* a sync.Pool and go back to it, so a batch has one owner at a time only  *)
(* because every hand-over is done in the right order.                     *)
(*                                                                         *)
(* The metrics one call of a collector returns travel together, so they    *)
(* are one sample here: [src |-> collector, n |-> its number].             *)
(*                                                                         *)
(* The operators named Bug... are plausible mistakes in the operator that  *)
(* follows them; each makes one property at the end of the module fail.    *)
(***************************************************************************)
EXTENDS Naturals, Sequences, FiniteSets, Functions

CONSTANTS
    Batches,        \* identities of *model.MetricsBatch
    NoBatch,        \* a goroutine's local variable before it holds a batch
    Workers,        \* the rateLimit reportWorker goroutines
    ChanCap,        \* capacity of metricsCh; the code has rateLimit*2
    MaxPolls,       \* bound: samples taken by each collector
    NetworkFails    \* BOOLEAN: may a send on a live context fail?

Collectors == {"runtime", "system"}
Holders == Workers \union {"dispatcher", "main"}
Procs == Holders \union Collectors

ASSUME PipelineAssumption ==
    /\ IsFiniteSet(Workers)
    /\ Workers \intersect {"runtime", "system", "dispatcher", "main"} = {}
    /\ NoBatch \notin Batches
    /\ Batches # {}
    /\ ChanCap \in Nat
    /\ Workers # {} <=> ChanCap > 0     \* rateLimit and rateLimit*2 (agent.go:49)
    /\ MaxPolls \in Nat
    /\ NetworkFails \in BOOLEAN

Samples == [src : Collectors, n : 1..MaxPolls]

VARIABLES
    cancelled,  \* the context of Start is done (signal or caller)
    polls,      \* [Collectors -> Nat], non-empty samples taken so far
    pc,         \* where each goroutine is
    gathered,   \* [Collectors -> Seq], result of Collect not yet appended
    cur,        \* SafeMetrics.cur
    items,      \* [Batches -> Seq(Samples)], MetricsBatch.Item
    pool,       \* [Batches -> Nat], how often the sync.Pool holds the batch
    hand,       \* [Holders -> batch], the local variable "batch"
    channel,    \* metricsCh, oldest batch first
    closed,     \* close(metricsCh) was called
    quitting,   \* the dispatcher is on its way out through case Done
    delivered,  \* samples the server accepted
    dropped     \* samples of a send that ended without the server's answer

collectVars == <<polls, gathered>>
batchVars == <<cur, items, pool, hand>>
chanVars == <<channel, closed, quitting>>
outcome == <<delivered, dropped>>
vars == <<cancelled, collectVars, pc, batchVars, chanVars, outcome>>

-----------------------------------------------------------------------------
(* SafeMetrics and the pool.  Each operator is one call.                    *)

\* A batch nobody holds: where the pool's factory may place a new one.
Unowned(b) ==
    /\ b # cur
    /\ b \notin Range(channel)
    /\ \A h \in Holders : hand[h] # b
    /\ pool[b] = 0

\* Which of the unused identities a new batch gets makes no difference.
NewBatch == CHOOSE b \in Batches : Unowned(b)

\* The new samples are put in front.
BugAppendMetricsPrepends(q) ==
    items' = [items EXCEPT ![cur] = q \o @]

\* Append under the mutex: the samples go to the end of the current batch.
AppendMetrics(q) ==
    items' = [items EXCEPT ![cur] = @ \o q]

\* GetAndClear under the mutex: h takes the current batch, and the pool
\* supplies the next one.  sync.Pool may return any batch it holds, or miss and
\* call the factory even when it holds some.
GetAndClear(h) ==
    /\ hand' = [hand EXCEPT ![h] = cur]
    /\ \E b \in Batches :
          /\ cur' = b
          /\ \/ /\ pool[b] > 0
                /\ pool' = [pool EXCEPT ![b] = @ - 1]
                /\ UNCHANGED items
             \/ /\ Unowned(b) /\ b = NewBatch
                /\ items' = [items EXCEPT ![b] = <<>>]
                /\ UNCHANGED pool

\* The batch goes back to the pool with its samples.
BugPutBatchWithoutReset(h) ==
    /\ pool' = [pool EXCEPT ![hand[h]] = @ + 1]
    /\ hand' = [hand EXCEPT ![h] = NoBatch]
    /\ UNCHANGED <<cur, items>>

\* PutBatch: Pool.Put resets the batch (Item = Item[:0]) and stores it.
PutBatch(h) ==
    /\ items' = [items EXCEPT ![hand[h]] = <<>>]
    /\ pool' = [pool EXCEPT ![hand[h]] = @ + 1]
    /\ hand' = [hand EXCEPT ![h] = NoBatch]
    /\ UNCHANGED cur

GoTo(p, label) == pc' = [pc EXCEPT ![p] = label]

Init ==
    /\ cancelled = FALSE
    /\ polls = [c \in Collectors |-> 0]
    /\ pc = [p \in Procs |-> IF p = "main" THEN "wait" ELSE "select"]
    /\ gathered = [c \in Collectors |-> <<>>]
    /\ cur = (CHOOSE b \in Batches : TRUE)
    /\ items = [b \in Batches |-> <<>>]
    /\ pool = [b \in Batches |-> 0]
    /\ hand = [h \in Holders |-> NoBatch]
    /\ channel = <<>>
    /\ closed = FALSE
    /\ quitting = FALSE
    /\ delivered = {}
    /\ dropped = {}

-----------------------------------------------------------------------------
(* The collectors.                                                          *)

\* case <-ticker.C: the collector takes a sample.  CollectSystemMetrics returns
\* nothing when both gopsutil calls fail.
CollectTick(c) ==
    /\ pc[c] = "select"
    /\ \/ /\ polls[c] < MaxPolls
          /\ polls' = [polls EXCEPT ![c] = @ + 1]
          /\ gathered' = [gathered EXCEPT ![c] = <<[src |-> c, n |-> polls[c] + 1]>>]
       \/ /\ c = "system"
          /\ UNCHANGED <<polls, gathered>>
    /\ GoTo(c, "append")
    /\ UNCHANGED <<cancelled, batchVars, chanVars, outcome>>

\* collectedMetrics.Append(metrics), after the tick and not atomic with it.
CollectAppend(c) ==
    /\ pc[c] = "append"
    /\ AppendMetrics(gathered[c])
    /\ gathered' = [gathered EXCEPT ![c] = <<>>]
    /\ GoTo(c, "select")
    /\ UNCHANGED <<cancelled, polls, cur, pool, hand, chanVars, outcome>>

\* The loop of the system collector has no Done case.
BugCollectStopRuntimeOnly(c) ==
    /\ c = "runtime"
    /\ pc[c] = "select"
    /\ cancelled
    /\ GoTo(c, "exited")
    /\ UNCHANGED <<cancelled, collectVars, batchVars, chanVars, outcome>>

\* case <-gctx.Done()
CollectStop(c) ==
    /\ pc[c] = "select"
    /\ cancelled
    /\ GoTo(c, "exited")
    /\ UNCHANGED <<cancelled, collectVars, batchVars, chanVars, outcome>>

-----------------------------------------------------------------------------
(* The dispatcher.                                                          *)

\* case <-reportTicker.C: swap the current batch out.  An empty one is put
\* back at once, a non-empty one is offered to the workers.
DispatchTick ==
    /\ pc["dispatcher"] = "select"
    /\ GetAndClear("dispatcher")
    /\ GoTo("dispatcher", IF items[cur] = <<>> THEN "recycle" ELSE "offer")
    /\ UNCHANGED <<cancelled, collectVars, chanVars, outcome>>

\* case <-gctx.Done() of the outer select; the deferred close runs.
DispatchStop ==
    /\ pc["dispatcher"] = "select"
    /\ cancelled
    /\ closed' = TRUE
    /\ GoTo("dispatcher", "exited")
    /\ UNCHANGED <<cancelled, collectVars, batchVars, channel, quitting, outcome>>

\* The channel takes any number of batches.
BugOfferSendUnbounded ==
    /\ pc["dispatcher"] = "offer"
    /\ channel' = Append(channel, hand["dispatcher"])
    /\ hand' = [hand EXCEPT !["dispatcher"] = NoBatch]
    /\ GoTo("dispatcher", "select")
    /\ UNCHANGED <<cancelled, collectVars, cur, items, pool, closed, quitting, outcome>>

\* The batch is put back to the pool although a worker will receive it.
BugOfferSendThenRecycle ==
    /\ pc["dispatcher"] = "offer"
    /\ Len(channel) < ChanCap
    /\ channel' = Append(channel, hand["dispatcher"])
    /\ GoTo("dispatcher", "recycle")
    /\ UNCHANGED <<cancelled, collectVars, batchVars, closed, quitting, outcome>>

\* case metricsCh <- batch
OfferSend ==
    /\ pc["dispatcher"] = "offer"
    /\ Len(channel) < ChanCap
    /\ channel' = Append(channel, hand["dispatcher"])
    /\ hand' = [hand EXCEPT !["dispatcher"] = NoBatch]
    /\ GoTo("dispatcher", "select")
    /\ UNCHANGED <<cancelled, collectVars, cur, items, pool, closed, quitting, outcome>>

\* The refused batch is put back to the pool without being requeued.
BugOfferCancelledDrops ==
    /\ pc["dispatcher"] = "offer"
    /\ cancelled
    /\ quitting' = TRUE
    /\ GoTo("dispatcher", "recycle")
    /\ UNCHANGED <<cancelled, collectVars, batchVars, channel, closed, outcome>>

\* case <-gctx.Done() of the inner select.
OfferCancelled ==
    /\ pc["dispatcher"] = "offer"
    /\ cancelled
    /\ quitting' = TRUE
    /\ GoTo("dispatcher", "requeue")
    /\ UNCHANGED <<cancelled, collectVars, batchVars, channel, closed, outcome>>

\* "Worker pool busy, skipping batch" taken literally.
BugOfferBusyDrops ==
    /\ pc["dispatcher"] = "offer"
    /\ ~cancelled
    /\ Len(channel) >= ChanCap
    /\ GoTo("dispatcher", "recycle")
    /\ UNCHANGED <<cancelled, collectVars, batchVars, chanVars, outcome>>

\* default: taken only when no other case is ready.
OfferBusy ==
    /\ pc["dispatcher"] = "offer"
    /\ ~cancelled
    /\ Len(channel) >= ChanCap
    /\ GoTo("dispatcher", "requeue")
    /\ UNCHANGED <<cancelled, collectVars, batchVars, chanVars, outcome>>

\* collectedMetrics.Append(batch.Item): the older samples go behind whatever
\* the collectors appended to the new current batch in the meantime.
Requeue ==
    /\ pc["dispatcher"] = "requeue"
    /\ AppendMetrics(items[hand["dispatcher"]])
    /\ GoTo("dispatcher", "recycle")
    /\ UNCHANGED <<cancelled, collectVars, cur, pool, hand, chanVars, outcome>>

\* collectedMetrics.PutBatch(batch), then the next round, or return and the
\* deferred close.
DispatcherRecycle ==
    /\ pc["dispatcher"] = "recycle"
    /\ PutBatch("dispatcher")
    /\ closed' = quitting
    /\ GoTo("dispatcher", IF quitting THEN "exited" ELSE "select")
    /\ UNCHANGED <<cancelled, collectVars, channel, quitting, outcome>>

-----------------------------------------------------------------------------
(* The workers (reportWorker).                                              *)

\* for batch := range metricsCh.  The send context is derived from the agent's:
\* a batch received after the cancellation is sent on a dead context.
Receive(w) ==
    /\ pc[w] = "select"
    /\ channel # <<>>
    /\ hand' = [hand EXCEPT ![w] = Head(channel)]
    /\ channel' = Tail(channel)
    /\ GoTo(w, IF items[Head(channel)] = <<>> THEN "recycle"
               ELSE IF cancelled THEN "doomed" ELSE "send")
    /\ UNCHANGED <<cancelled, collectVars, cur, items, pool, closed, quitting, outcome>>

\* The worker selects on Done instead of ranging over the channel.
BugWorkerExitOnDone(w) ==
    /\ pc[w] = "select"
    /\ cancelled
    /\ GoTo(w, "exited")
    /\ UNCHANGED <<cancelled, collectVars, batchVars, chanVars, outcome>>

\* The range loop ends once the channel is closed and drained.
WorkerExit(w) ==
    /\ pc[w] = "select"
    /\ closed
    /\ channel = <<>>
    /\ GoTo(w, "exited")
    /\ UNCHANGED <<cancelled, collectVars, batchVars, chanVars, outcome>>

\* The samples of h's batch leave the agent: the server accepted got, the rest
\* is dropped, whatever the sender returned.
SettleBatch(h, got) ==
    /\ delivered' = delivered \union got
    /\ dropped' = dropped \union (Range(items[hand[h]]) \ got)

\* A send that failed puts the whole batch back, the accepted part included.
BugSendFinishedRequeues(w) ==
    /\ pc[w] \in {"send", "doomed"}
    /\ \E got \in SUBSET Range(items[hand[w]]) :
          /\ pc[w] = "doomed" => got = {}
          /\ delivered' = delivered \union got
          /\ IF got = Range(items[hand[w]])
             THEN UNCHANGED items
             ELSE AppendMetrics(items[hand[w]])
    /\ GoTo(w, "recycle")
    /\ UNCHANGED <<cancelled, collectVars, cur, pool, hand, chanVars, dropped>>

\* SendMetrics, with or without Retry, returns; its error is only logged.
SendFinished(w) ==
    /\ pc[w] \in {"send", "doomed"}
    /\ \E got \in SUBSET Range(items[hand[w]]) :
          /\ pc[w] = "doomed" => got = {}
          /\ (pc[w] = "send" /\ ~NetworkFails /\ ~cancelled)
                => got = Range(items[hand[w]])
          /\ SettleBatch(w, got)
    /\ GoTo(w, "recycle")
    /\ UNCHANGED <<cancelled, collectVars, batchVars, chanVars>>

\* collectedMetrics.PutBatch(batch)
WorkerRecycle(w) ==
    /\ pc[w] = "recycle"
    /\ PutBatch(w)
    /\ GoTo(w, "select")
    /\ UNCHANGED <<cancelled, collectVars, chanVars, outcome>>

-----------------------------------------------------------------------------
(* Start after the goroutines are running.                                  *)

\* SIGINT, SIGTERM or the caller's cancel.
Cancel ==
    /\ ~cancelled
    /\ cancelled' = TRUE
    /\ UNCHANGED <<collectVars, pc, batchVars, chanVars, outcome>>

\* Only the dispatcher was started through the errgroup.
BugWaitDoneDispatcherOnly ==
    /\ pc["main"] = "wait"
    /\ pc["dispatcher"] = "exited"
    /\ GetAndClear("main")
    /\ GoTo("main", IF items[cur] = <<>> THEN "recycle" ELSE "send")
    /\ UNCHANGED <<cancelled, collectVars, chanVars, outcome>>

\* g.Wait() returns, and Start takes what is left.
WaitDone ==
    /\ pc["main"] = "wait"
    /\ \A p \in Procs \ {"main"} : pc[p] = "exited"
    /\ GetAndClear("main")
    /\ GoTo("main", IF items[cur] = <<>> THEN "recycle" ELSE "send")
    /\ UNCHANGED <<cancelled, collectVars, chanVars, outcome>>

\* finalShutdownSend, on a context of its own.
FinalSend ==
    /\ pc["main"] = "send"
    /\ \E got \in SUBSET Range(items[hand["main"]]) :
          /\ ~NetworkFails => got = Range(items[hand["main"]])
          /\ SettleBatch("main", got)
    /\ GoTo("main", "recycle")
    /\ UNCHANGED <<cancelled, collectVars, batchVars, chanVars>>

FinalRecycle ==
    /\ pc["main"] = "recycle"
    /\ PutBatch("main")
    /\ GoTo("main", "returned")
    /\ UNCHANGED <<cancelled, collectVars, chanVars, outcome>>

\* Start has returned: the only state with nothing left to do.
Terminated ==
    /\ pc["main"] = "returned"
    /\ UNCHANGED vars

CollectorStep(c) == CollectTick(c) \/ CollectAppend(c) \/ CollectStop(c)

DispatcherStep ==
    \/ DispatchTick \/ DispatchStop
    \/ OfferSend \/ OfferCancelled \/ OfferBusy
    \/ Requeue \/ DispatcherRecycle

WorkerStep(w) == Receive(w) \/ WorkerExit(w) \/ SendFinished(w) \/ WorkerRecycle(w)

MainStep == WaitDone \/ FinalSend \/ FinalRecycle

Next ==
    \/ Cancel
    \/ \E c \in Collectors : CollectorStep(c)
    \/ DispatcherStep
    \/ \E w \in Workers : WorkerStep(w)
    \/ MainStep
    \/ Terminated

Spec == Init /\ [][Next]_vars

\* Every goroutine keeps running, sends are bounded by their timeouts, and a
\* select whose Done case is ready again and again takes it in the end (Go picks
\* among the ready cases at random).  Nothing forces the agent to be stopped.
Fairness ==
    /\ \A c \in Collectors : WF_vars(CollectorStep(c)) /\ SF_vars(CollectStop(c))
    /\ WF_vars(DispatcherStep) /\ SF_vars(DispatchStop)
    /\ \A w \in Workers : WF_vars(WorkerStep(w))
    /\ WF_vars(MainStep)

FairSpec == Spec /\ Fairness

-----------------------------------------------------------------------------
(* Properties.                                                              *)

Labels == {"select", "append", "offer", "requeue", "send", "doomed",
           "recycle", "exited", "wait", "returned"}

\* Every variable keeps its type, and the channel never holds more than its
\* capacity of rateLimit*2 batches (agent.go:49).
TypeOK ==
    /\ cancelled \in BOOLEAN
    /\ polls \in [Collectors -> 0..MaxPolls]
    /\ pc \in [Procs -> Labels]
    /\ gathered \in [Collectors -> Seq(Samples)]
    /\ cur \in Batches
    /\ items \in [Batches -> Seq(Samples)]
    /\ pool \in [Batches -> Nat]
    /\ hand \in [Holders -> Batches \union {NoBatch}]
    /\ channel \in Seq(Batches)
    /\ Len(channel) <= ChanCap
    /\ closed \in BOOLEAN
    /\ quitting \in BOOLEAN
    /\ delivered \subseteq Samples
    /\ dropped \subseteq Samples

\* A batch has one owner: SafeMetrics.cur, one goroutine's local, one slot of
\* the channel, or one slot of the pool.  Two owners would append to, send and
\* reset the same Item slice with no lock (safe_metrics.go, agent.go:86-157).
BatchExclusive ==
    /\ pool[cur] = 0
    /\ \A b \in Batches : pool[b] <= 1
    /\ \A h \in Holders : hand[h] # NoBatch =>
          /\ hand[h] # cur
          /\ pool[hand[h]] = 0
          /\ \A g \in Holders \ {h} : hand[g] # hand[h]
    /\ \A i \in 1..Len(channel) :
          /\ channel[i] # cur
          /\ pool[channel[i]] = 0
          /\ \A h \in Holders : hand[h] # channel[i]
          /\ \A j \in 1..Len(channel) : channel[j] = channel[i] => j = i

\* What the pool hands out holds no sample of an earlier use, so GetAndClear
\* never resurrects a batch that was sent before (pool.go:23-29).
PooledBatchesEmpty ==
    \A b \in Batches : pool[b] > 0 => items[b] = <<>>

\* Samples some collector has taken.
Collected == {s \in Samples : s.n <= polls[s.src]}

\* A batch whose samples are still on their way: a holder at "recycle" has
\* already sent or requeued them and is about to reset the batch.
Live(b) ==
    \/ b = cur
    \/ \E i \in 1..Len(channel) : channel[i] = b
    \/ \E h \in Holders : hand[h] = b /\ pc[h] # "recycle"

Pending ==
    {s \in Samples :
        \/ \E c \in Collectors : s \in Range(gathered[c])
        \/ \E b \in Batches : Live(b) /\ s \in Range(items[b])}

\* A sample, once taken, is either held by somebody who will still send it or
\* settled; no interleaving of swap, requeue, put and collect loses one.
NoSampleLost == Collected = Pending \union delivered \union dropped

Occurrences(s, q) == Cardinality({i \in DOMAIN q : q[i] = s})

\* No sample is in two places that will both be sent, twice in one batch, or
\* on its way again after it was settled: counters are additive on the server,
\* so a sample sent twice would be counted twice (agent.go:103-110).
NoSampleTwice ==
    \A s \in Samples :
        LET inFlight == {b \in Batches : Live(b) /\ s \in Range(items[b])}
            waiting == {c \in Collectors : s \in Range(gathered[c])}
        IN /\ Cardinality(inFlight) + Cardinality(waiting) <= 1
           /\ \A b \in inFlight : Occurrences(s, items[b]) = 1
           /\ s \in delivered \union dropped =>
                 inFlight = {} /\ waiting = {}
           /\ s \notin delivered \intersect dropped

\* When Start has returned every sample taken was settled, and the channel,
\* the current batch and the collectors hold nothing (agent.go:116-123).
NothingLeftBehind ==
    pc["main"] = "returned" =>
        /\ Collected = delivered \union dropped
        /\ channel = <<>>
        /\ closed

\* The samples of each collector are in the order they were taken.
InOrder(q) ==
    \A i, j \in DOMAIN q : (i < j /\ q[i].src = q[j].src) => q[i].n < q[j].n

\* Only putting a refused batch back can leave a current batch in which an
\* older gauge value follows a newer one, which the server would then keep
\* (agent.go:104 and agent.go:109).
OnlyRequeueReorders ==
    [][InOrder(items[cur]) /\ ~InOrder(items'[cur']) => Requeue]_vars

\* After the cancellation Start returns: the dispatcher closes the channel, the
\* workers drain it and the final send runs (agent.go:88-123).
CancelLeadsToReturn == cancelled ~> pc["main"] = "returned"

\* With at least one worker a sample is never held for ever: a refused batch
\* is offered again together with whatever was collected since.
EventuallySettled ==
    \A s \in Samples : s \in Collected ~> s \in delivered \union dropped

\* The pipeline implements the ledger.
Ledger == INSTANCE SampleLedger WITH pending <- Pending
LedgerSpec == Ledger!Spec

=============================================================================
