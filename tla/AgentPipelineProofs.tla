------------------------ MODULE AgentPipelineProofs ------------------------
(***************************************************************************)
(* Type correctness and batch ownership of AgentPipeline, for any number   *)
(* of batches, workers, samples and channel slots.                         *)
(***************************************************************************)
EXTENDS AgentPipeline, TLAPS

\* Where a goroutine is tells whether it holds a batch.
Holding == {"offer", "requeue", "send", "doomed", "recycle"}

HandsMatchPc ==
    \A h \in Holders : hand[h] # NoBatch <=> pc[h] \in Holding

\* The inductive invariant: ownership is exclusive, what the pool hands out is
\* empty, and a step that uses its local batch has one.
OwnershipInv ==
    /\ TypeOK
    /\ HandsMatchPc
    /\ BatchExclusive
    /\ PooledBatchesEmpty

\* The parts of the type invariant a step disturbs together.
BatchTypes ==
    /\ cur \in Batches
    /\ items \in [Batches -> Seq(Samples)]
    /\ pool \in [Batches -> Nat]
    /\ hand \in [Holders -> Batches \union {NoBatch}]

ChannelTypes ==
    /\ channel \in Seq(Batches)
    /\ Len(channel) <= ChanCap
    /\ closed \in BOOLEAN
    /\ quitting \in BOOLEAN

CollectTypes ==
    /\ cancelled \in BOOLEAN
    /\ polls \in [Collectors -> 0..MaxPolls]
    /\ gathered \in [Collectors -> Seq(Samples)]

OutcomeTypes ==
    /\ delivered \subseteq Samples
    /\ dropped \subseteq Samples

Ownership == HandsMatchPc /\ BatchExclusive /\ PooledBatchesEmpty

USE PipelineAssumption

-----------------------------------------------------------------------------
(* The type invariant in four groups and the program counters.              *)

LEMMA InvFromGroups ==
    ASSUME BatchTypes', ChannelTypes', CollectTypes', OutcomeTypes',
           pc' \in [Procs -> Labels], Ownership'
    PROVE  OwnershipInv'
  BY DEF OwnershipInv, Ownership, TypeOK,
         BatchTypes, ChannelTypes, CollectTypes, OutcomeTypes

LEMMA RangeOfSeq ==
    ASSUME NEW S, NEW q \in Seq(S)
    PROVE  Range(q) \subseteq S
  BY DEF Range

\* A step of one goroutine keeps the program counters well typed.
LEMMA GoToTypes ==
    ASSUME pc \in [Procs -> Labels], NEW p \in Procs, NEW l \in Labels, GoTo(p, l)
    PROVE  /\ pc' \in [Procs -> Labels]
           /\ pc'[p] = l
           /\ \A r \in Procs \ {p} : pc'[r] = pc[r]
  BY DEF GoTo

LEMMA ProcSets ==
    /\ Holders \subseteq Procs
    /\ Collectors \subseteq Procs
    /\ Workers \subseteq Holders
    /\ "dispatcher" \in Holders /\ "main" \in Holders
    /\ Collectors \intersect Holders = {}
    /\ "dispatcher" \notin Workers /\ "main" \notin Workers
    /\ "runtime" \in Collectors /\ "system" \in Collectors
  BY DEF Holders, Procs, Collectors

LEMMA InitOwnership == Init => OwnershipInv
<1> SUFFICES ASSUME Init PROVE OwnershipInv
  OBVIOUS
<1>1. TypeOK
  <2>1. pc \in [Procs -> Labels]
    BY DEF Init, Labels
  <2>2. /\ gathered \in [Collectors -> Seq(Samples)]
        /\ items \in [Batches -> Seq(Samples)]
    BY DEF Init
  <2>3. channel \in Seq(Batches) /\ Len(channel) <= ChanCap
    BY DEF Init
  <2>4. polls \in [Collectors -> 0..MaxPolls]
    BY DEF Init
  <2>5. QED
    BY <2>1, <2>2, <2>3, <2>4 DEF Init, TypeOK
<1>2. HandsMatchPc
  BY DEF Init, HandsMatchPc, Holding, Procs, Holders
<1>3. BatchExclusive
  BY DEF Init, BatchExclusive
<1>4. PooledBatchesEmpty
  BY DEF Init, PooledBatchesEmpty
<1>5. QED
  BY <1>1, <1>2, <1>3, <1>4 DEF OwnershipInv

-----------------------------------------------------------------------------
(* What each call of SafeMetrics does to the batches.                       *)

\* A step that touches no batch, and leaves its goroutine as full or as empty
\* handed as it was, keeps ownership.
LEMMA QuietStep ==
    ASSUME TypeOK, Ownership, UNCHANGED <<batchVars, channel>>,
           NEW p \in Procs, NEW l \in Labels, GoTo(p, l),
           p \in Holders => (l \in Holding <=> pc[p] \in Holding)
    PROVE  BatchTypes' /\ Ownership'
<1>1. BatchTypes'
  BY DEF TypeOK, BatchTypes, batchVars
<1>2. HandsMatchPc'
  BY GoToTypes, ProcSets DEF TypeOK, Ownership, HandsMatchPc, batchVars
<1>3. BatchExclusive' /\ PooledBatchesEmpty'
  BY DEF Ownership, BatchExclusive, PooledBatchesEmpty, batchVars
<1>4. QED
  BY <1>1, <1>2, <1>3 DEF Ownership

\* AppendMetrics touches the current batch only, which the pool does not hold.
LEMMA AppendStep ==
    ASSUME TypeOK, Ownership, NEW q \in Seq(Samples), AppendMetrics(q),
           UNCHANGED <<cur, pool, hand, channel>>,
           NEW p \in Procs, NEW l \in Labels, GoTo(p, l),
           p \in Holders => (l \in Holding <=> pc[p] \in Holding)
    PROVE  BatchTypes' /\ Ownership'
<1>1. BatchTypes'
  <2>1. items[cur] \o q \in Seq(Samples)
    BY DEF TypeOK
  <2>2. QED
    BY <2>1 DEF TypeOK, BatchTypes, AppendMetrics
<1>2. HandsMatchPc'
  BY GoToTypes, ProcSets DEF TypeOK, Ownership, HandsMatchPc
<1>3. BatchExclusive'
  BY DEF Ownership, BatchExclusive
<1>4. PooledBatchesEmpty'
  <2>1. \A b \in Batches : pool[b] > 0 => b # cur
    BY DEF Ownership, BatchExclusive, TypeOK
  <2>2. \A b \in Batches : b # cur => items'[b] = items[b]
    BY DEF TypeOK, AppendMetrics
  <2>3. QED
    BY <2>1, <2>2 DEF Ownership, PooledBatchesEmpty
<1>5. QED
  BY <1>1, <1>2, <1>3, <1>4 DEF Ownership

\* GetAndClear by an empty-handed goroutine: the new current batch was nobody's
\* or the pool's only copy, and it is empty.
LEMMA SwapBatch ==
    ASSUME TypeOK, Ownership, NEW h \in Holders, pc[h] \notin Holding,
           GetAndClear(h), UNCHANGED channel
    PROVE  /\ hand[h] = NoBatch
           /\ hand' = [hand EXCEPT ![h] = cur]
           /\ channel' = channel
           /\ \E b \in Batches :
                 /\ cur' = b
                 /\ \/ /\ pool[b] > 0
                       /\ pool' = [pool EXCEPT ![b] = @ - 1]
                       /\ UNCHANGED items
                    \/ /\ Unowned(b)
                       /\ items' = [items EXCEPT ![b] = <<>>]
                       /\ UNCHANGED pool
                 /\ b # cur
                 /\ \A g \in Holders : hand[g] # b
                 /\ \A i \in 1..Len(channel) : channel[i] # b
                 /\ items'[b] = <<>>
                 /\ pool'[b] = 0
                 /\ \A c \in Batches \ {b} : pool'[c] = pool[c] /\ items'[c] = items[c]
<1>1. hand[h] = NoBatch
  BY DEF Ownership, HandsMatchPc
<1>2. PICK b \in Batches :
          /\ cur' = b
          /\ \/ /\ pool[b] > 0
                /\ pool' = [pool EXCEPT ![b] = @ - 1]
                /\ UNCHANGED items
             \/ /\ Unowned(b)
                /\ items' = [items EXCEPT ![b] = <<>>]
                /\ UNCHANGED pool
  BY DEF GetAndClear
<1>3. /\ hand' = [hand EXCEPT ![h] = cur]
      /\ channel' = channel
  BY DEF GetAndClear
<1>4. /\ b # cur
      /\ \A g \in Holders : hand[g] # b
      /\ \A i \in 1..Len(channel) : channel[i] # b
      /\ items'[b] = <<>>
      /\ pool'[b] = 0
      /\ \A c \in Batches \ {b} : pool'[c] = pool[c] /\ items'[c] = items[c]
  <2>1. CASE pool[b] > 0 /\ pool' = [pool EXCEPT ![b] = @ - 1] /\ UNCHANGED items
    <3>1. pool[b] = 1 /\ items[b] = <<>>
      BY <2>1 DEF Ownership, BatchExclusive, PooledBatchesEmpty, TypeOK
    <3>2. b # cur /\ b # NoBatch
      BY <2>1 DEF Ownership, BatchExclusive, TypeOK
    <3>3. \A g \in Holders : hand[g] # b
      BY <2>1, <3>2 DEF Ownership, BatchExclusive
    <3>4. \A i \in 1..Len(channel) : channel[i] # b
      BY <2>1 DEF Ownership, BatchExclusive, TypeOK
    <3>5. QED
      BY <2>1, <3>1, <3>2, <3>3, <3>4 DEF TypeOK
  <2>2. CASE Unowned(b) /\ items' = [items EXCEPT ![b] = <<>>] /\ UNCHANGED pool
    <3>1. \A i \in 1..Len(channel) : channel[i] # b
      BY <2>2 DEF Unowned, Range, TypeOK
    <3>2. QED
      BY <2>2, <3>1 DEF Unowned, TypeOK
  <2>3. QED
    BY <1>2, <2>1, <2>2
<1>5. QED
  BY <1>1, <1>2, <1>3, <1>4

\* GetAndClear: the old current batch moves to the hand of the goroutine.
LEMMA SwapStep ==
    ASSUME TypeOK, Ownership, NEW h \in Holders, pc[h] \notin Holding,
           GetAndClear(h), UNCHANGED channel,
           NEW l \in Holding, GoTo(h, l)
    PROVE  BatchTypes' /\ Ownership'
<1>1. PICK b \in Batches :
          /\ cur' = b
          /\ \/ /\ pool[b] > 0
                /\ pool' = [pool EXCEPT ![b] = @ - 1]
                /\ UNCHANGED items
             \/ /\ Unowned(b)
                /\ items' = [items EXCEPT ![b] = <<>>]
                /\ UNCHANGED pool
          /\ b # cur
          /\ \A g \in Holders : hand[g] # b
          /\ \A i \in 1..Len(channel) : channel[i] # b
          /\ items'[b] = <<>>
          /\ pool'[b] = 0
          /\ \A c \in Batches \ {b} : pool'[c] = pool[c] /\ items'[c] = items[c]
  BY SwapBatch
<1>2. /\ hand[h] = NoBatch
      /\ hand' = [hand EXCEPT ![h] = cur]
      /\ channel' = channel
  BY SwapBatch
<1>3. BatchTypes'
  <2>1. pool' \in [Batches -> Nat]
    <3>1. CASE pool[b] > 0 /\ pool' = [pool EXCEPT ![b] = @ - 1]
      <4>1. pool[b] - 1 \in Nat
        BY <3>1 DEF TypeOK
      <4>2. QED
        BY <3>1, <4>1 DEF TypeOK
    <3>2. CASE UNCHANGED pool
      BY <3>2 DEF TypeOK
    <3>3. QED
      BY <1>1, <3>1, <3>2
  <2>2. items' \in [Batches -> Seq(Samples)]
    <3>1. CASE items' = [items EXCEPT ![b] = <<>>]
      <4>1. <<>> \in Seq(Samples)
        OBVIOUS
      <4>2. QED
        BY <3>1, <4>1 DEF TypeOK
    <3>2. CASE UNCHANGED items
      BY <3>2 DEF TypeOK
    <3>3. QED
      BY <1>1, <3>1, <3>2
  <2>3. QED
    BY <1>1, <1>2, <2>1, <2>2 DEF TypeOK, BatchTypes
<1>4. HandsMatchPc'
  <2>1. l \in Labels
    BY DEF Holding, Labels
  <2>2. pc' [h] = l /\ \A r \in Holders \ {h} : pc'[r] = pc[r]
    BY <2>1, GoToTypes, ProcSets DEF TypeOK
  <2>3. cur # NoBatch
    BY DEF TypeOK
  <2>4. QED
    BY <1>2, <2>2, <2>3 DEF TypeOK, Ownership, HandsMatchPc
<1>5. BatchExclusive'
  <2>1. pool'[cur'] = 0
    BY <1>1
  <2>2. \A c \in Batches : pool'[c] <= 1
    BY <1>1 DEF Ownership, BatchExclusive
  <2>3. \A g \in Holders : hand'[g] # NoBatch =>
            /\ hand'[g] # cur'
            /\ pool'[hand'[g]] = 0
            /\ \A k \in Holders \ {g} : hand'[k] # hand'[g]
    <3> SUFFICES ASSUME NEW g \in Holders, hand'[g] # NoBatch
                 PROVE  /\ hand'[g] # cur'
                        /\ pool'[hand'[g]] = 0
                        /\ \A k \in Holders \ {g} : hand'[k] # hand'[g]
      OBVIOUS
    <3>1. CASE g = h
      <4>1. hand'[g] = cur /\ pool[cur] = 0 /\ cur \in Batches
        BY <3>1, <1>2 DEF TypeOK, Ownership, BatchExclusive
      <4>2. \A k \in Holders : hand[k] # cur
        BY <4>1 DEF TypeOK, Ownership, BatchExclusive
      <4>3. \A k \in Holders \ {g} : hand'[k] = hand[k]
        BY <3>1, <1>2 DEF TypeOK
      <4>4. QED
        BY <4>1, <4>2, <4>3, <1>1
    <3>2. CASE g # h
      <4>1. hand'[g] = hand[g] /\ hand'[h] = cur
        BY <3>2, <1>2 DEF TypeOK
      <4>2. hand[g] \in Batches /\ hand[g] # cur /\ pool[hand[g]] = 0
        BY <4>1 DEF TypeOK, Ownership, BatchExclusive
      <4>3. \A k \in Holders \ {g, h} : hand'[k] # hand'[g]
        BY <4>1, <1>2 DEF TypeOK, Ownership, BatchExclusive
      <4>4. QED
        BY <4>1, <4>2, <4>3, <1>1
    <3>3. QED
      BY <3>1, <3>2
  <2>4. \A i \in 1..Len(channel') :
            /\ channel'[i] # cur'
            /\ pool'[channel'[i]] = 0
            /\ \A g \in Holders : hand'[g] # channel'[i]
            /\ \A j \in 1..Len(channel') : channel'[j] = channel'[i] => j = i
    <3> SUFFICES ASSUME NEW i \in 1..Len(channel)
                 PROVE  /\ channel[i] # cur'
                        /\ pool'[channel[i]] = 0
                        /\ \A g \in Holders : hand'[g] # channel[i]
                        /\ \A j \in 1..Len(channel) : channel[j] = channel[i] => j = i
      BY <1>2
    <3>1. channel[i] \in Batches /\ channel[i] # b /\ channel[i] # cur
      <4>1. channel[i] \in Batches
        BY DEF TypeOK
      <4>2. channel[i] # cur
        BY DEF Ownership, BatchExclusive
      <4>3. QED
        BY <4>1, <4>2, <1>1
    <3>2. pool'[channel[i]] = 0
      BY <3>1, <1>1 DEF Ownership, BatchExclusive
    <3>3. \A g \in Holders : hand'[g] # channel[i]
      BY <3>1, <1>2 DEF TypeOK, Ownership, BatchExclusive
    <3>4. \A j \in 1..Len(channel) : channel[j] = channel[i] => j = i
      BY DEF Ownership, BatchExclusive
    <3>5. channel[i] # cur'
      BY <3>1, <1>1
    <3>6. QED
      BY <3>2, <3>3, <3>4, <3>5
  <2>5. QED
    BY <2>1, <2>2, <2>3, <2>4 DEF BatchExclusive
<1>6. PooledBatchesEmpty'
  BY <1>1 DEF TypeOK, Ownership, PooledBatchesEmpty
<1>7. QED
  BY <1>3, <1>4, <1>5, <1>6 DEF Ownership

\* PutBatch by a goroutine that holds a batch, which is then empty-handed.
LEMMA RecycleStep ==
    ASSUME TypeOK, Ownership, NEW h \in Holders, pc[h] = "recycle",
           PutBatch(h), UNCHANGED channel,
           NEW l \in Labels \ Holding, GoTo(h, l)
    PROVE  BatchTypes' /\ Ownership'
<1> DEFINE b == hand[h]
<1>1. b \in Batches /\ b # NoBatch
  BY DEF TypeOK, Ownership, HandsMatchPc, Holding
<1>2. /\ b # cur
      /\ pool[b] = 0
      /\ \A g \in Holders \ {h} : hand[g] # b
      /\ \A i \in 1..Len(channel) : channel[i] # b
  BY <1>1 DEF Ownership, BatchExclusive
<1>3. /\ items' = [items EXCEPT ![b] = <<>>]
      /\ pool' = [pool EXCEPT ![b] = @ + 1]
      /\ hand' = [hand EXCEPT ![h] = NoBatch]
      /\ cur' = cur /\ channel' = channel
  BY DEF PutBatch
<1>4. BatchTypes'
  <2>1. items' \in [Batches -> Seq(Samples)]
    <3>1. <<>> \in Seq(Samples)
      OBVIOUS
    <3>2. QED
      BY <3>1, <1>3 DEF TypeOK
  <2>2. pool' \in [Batches -> Nat]
    <3>1. pool[b] + 1 \in Nat
      BY <1>2
    <3>2. QED
      BY <3>1, <1>3 DEF TypeOK
  <2>3. QED
    BY <1>3, <2>1, <2>2 DEF TypeOK, BatchTypes
<1>5. /\ pool'[b] = 1 /\ items'[b] = <<>>
      /\ \A c \in Batches \ {b} : pool'[c] = pool[c] /\ items'[c] = items[c]
      /\ hand'[h] = NoBatch
      /\ \A g \in Holders \ {h} : hand'[g] = hand[g]
  BY <1>1, <1>2, <1>3 DEF TypeOK
<1>6. HandsMatchPc'
  <2>1. pc'[h] = l /\ \A r \in Holders \ {h} : pc'[r] = pc[r]
    BY GoToTypes, ProcSets DEF TypeOK
  <2>2. QED
    BY <1>5, <2>1 DEF Ownership, HandsMatchPc
<1>7. BatchExclusive'
  <2>1. pool'[cur'] = 0
    BY <1>2, <1>3, <1>5 DEF TypeOK, Ownership, BatchExclusive
  <2>2. \A c \in Batches : pool'[c] <= 1
    BY <1>5 DEF Ownership, BatchExclusive
  <2>3. \A g \in Holders : hand'[g] # NoBatch =>
            /\ hand'[g] # cur'
            /\ pool'[hand'[g]] = 0
            /\ \A k \in Holders \ {g} : hand'[k] # hand'[g]
    <3> SUFFICES ASSUME NEW g \in Holders \ {h}, hand[g] # NoBatch
                 PROVE  /\ hand[g] # cur
                        /\ pool'[hand[g]] = 0
                        /\ \A k \in Holders \ {g} : hand'[k] # hand[g]
      BY <1>3, <1>5
    <3>1. hand[g] \in Batches \ {b}
      BY <1>2 DEF TypeOK
    <3>2. QED
      BY <3>1, <1>5 DEF Ownership, BatchExclusive
  <2>4. \A i \in 1..Len(channel') :
            /\ channel'[i] # cur'
            /\ pool'[channel'[i]] = 0
            /\ \A g \in Holders : hand'[g] # channel'[i]
            /\ \A j \in 1..Len(channel') : channel'[j] = channel'[i] => j = i
    <3> SUFFICES ASSUME NEW i \in 1..Len(channel)
                 PROVE  /\ channel[i] # cur
                        /\ pool'[channel[i]] = 0
                        /\ \A g \in Holders : hand'[g] # channel[i]
                        /\ \A j \in 1..Len(channel) : channel[j] = channel[i] => j = i
      BY <1>3
    <3>1. channel[i] \in Batches \ {b}
      BY <1>2 DEF TypeOK
    <3>2. QED
      BY <3>1, <1>5 DEF Ownership, BatchExclusive
  <2>5. QED
    BY <2>1, <2>2, <2>3, <2>4 DEF BatchExclusive
<1>8. PooledBatchesEmpty'
  BY <1>5 DEF Ownership, PooledBatchesEmpty
<1>9. QED
  BY <1>4, <1>6, <1>7, <1>8 DEF Ownership

\* OfferSend: the dispatcher's batch becomes the youngest of the channel.
LEMMA SendStep ==
    ASSUME TypeOK, Ownership, OfferSend
    PROVE  BatchTypes' /\ ChannelTypes' /\ Ownership'
<1> DEFINE b == hand["dispatcher"]
           n == Len(channel)
<1>0. n \in Nat /\ \A j \in 1..(n + 1) : j \in 1..n \/ j = n + 1
  <2>1. n \in Nat
    BY DEF TypeOK
  <2>2. QED
    BY <2>1
<1>1. b \in Batches /\ b # NoBatch
  BY ProcSets DEF OfferSend, TypeOK, Ownership, HandsMatchPc, Holding
<1>2. /\ b # cur
      /\ pool[b] = 0
      /\ \A g \in Holders \ {"dispatcher"} : hand[g] # b
      /\ \A i \in 1..n : channel[i] # b
  BY <1>1, ProcSets DEF Ownership, BatchExclusive
<1>3. /\ channel' \in Seq(Batches)
      /\ Len(channel') = n + 1
      /\ channel'[n + 1] = b
      /\ \A i \in 1..n : channel'[i] = channel[i]
  BY <1>1 DEF OfferSend, TypeOK
<1>4. /\ hand' = [hand EXCEPT !["dispatcher"] = NoBatch]
      /\ cur' = cur /\ items' = items /\ pool' = pool
  BY DEF OfferSend
<1>5. BatchTypes'
  BY <1>4 DEF TypeOK, BatchTypes
<1>6. ChannelTypes'
  BY <1>3, ProcSets DEF TypeOK, ChannelTypes, OfferSend
<1>7. /\ hand'["dispatcher"] = NoBatch
      /\ \A g \in Holders \ {"dispatcher"} : hand'[g] = hand[g]
  BY <1>4, ProcSets DEF TypeOK
<1>8. HandsMatchPc'
  <2>1. /\ pc'["dispatcher"] = "select"
        /\ \A r \in Holders \ {"dispatcher"} : pc'[r] = pc[r]
    BY ProcSets, GoToTypes DEF OfferSend, TypeOK, Labels
  <2>2. QED
    BY <1>7, <2>1 DEF Ownership, HandsMatchPc, Holding
<1>9. BatchExclusive'
  <2>1. \A g \in Holders : hand'[g] # NoBatch =>
            /\ hand'[g] # cur'
            /\ pool'[hand'[g]] = 0
            /\ \A k \in Holders \ {g} : hand'[k] # hand'[g]
    BY <1>4, <1>7 DEF Ownership, BatchExclusive
  <2>2. ASSUME NEW i \in 1..n
        PROVE  /\ channel'[i] # cur'
               /\ pool'[channel'[i]] = 0
               /\ \A g \in Holders : hand'[g] # channel'[i]
               /\ \A j \in 1..(n + 1) : channel'[j] = channel'[i] => j = i
    <3>1. channel'[i] = channel[i] /\ channel[i] \in Batches /\ channel[i] # b
      BY <1>2, <1>3 DEF TypeOK
    <3>2. \A j \in 1..(n + 1) : channel'[j] = channel'[i] => j = i
      <4> SUFFICES ASSUME NEW j \in 1..(n + 1), channel'[j] = channel'[i]
                   PROVE  j = i
        OBVIOUS
      <4>1. j # n + 1
        BY <3>1, <1>3
      <4>2. j \in 1..n /\ channel[j] = channel[i]
        <5>1. j \in 1..n
          BY <4>1, <1>0
        <5>2. channel'[j] = channel[j]
          BY <5>1, <1>3
        <5>3. QED
          BY <5>1, <5>2, <3>1
      <4>3. QED
        BY <4>2 DEF Ownership, BatchExclusive
    <3>3. \A g \in Holders : hand'[g] # channel'[i]
      BY <3>1, <1>7 DEF TypeOK, Ownership, BatchExclusive
    <3>4. QED
      BY <3>1, <3>2, <3>3, <1>4 DEF Ownership, BatchExclusive
  <2>3. /\ channel'[n + 1] # cur'
        /\ pool'[channel'[n + 1]] = 0
        /\ \A g \in Holders : hand'[g] # channel'[n + 1]
        /\ \A j \in 1..(n + 1) : channel'[j] = channel'[n + 1] => j = n + 1
    <3>1. \A j \in 1..(n + 1) : channel'[j] = channel'[n + 1] => j = n + 1
      BY <1>0, <1>2, <1>3
    <3>2. QED
      BY <3>1, <1>1, <1>2, <1>3, <1>4, <1>7
  <2>4. QED
    BY <1>0, <1>3, <1>4, <2>1, <2>2, <2>3 DEF Ownership, BatchExclusive
<1>10. PooledBatchesEmpty'
  BY <1>4 DEF Ownership, PooledBatchesEmpty
<1>11. QED
  BY <1>5, <1>6, <1>8, <1>9, <1>10 DEF Ownership

\* Receive: the oldest batch of the channel moves to the worker's hand.
LEMMA ReceiveStep ==
    ASSUME TypeOK, Ownership, NEW w \in Workers, Receive(w)
    PROVE  BatchTypes' /\ ChannelTypes' /\ Ownership'
<1> DEFINE b == channel[1]
           n == Len(channel)
<1>1. /\ n \in Nat /\ n >= 1
      /\ Head(channel) = b /\ b \in Batches /\ b # NoBatch
  BY DEF Receive, TypeOK
<1>2. /\ b # cur
      /\ pool[b] = 0
      /\ \A g \in Holders : hand[g] # b
      /\ \A i \in 2..n : channel[i] # b
  BY <1>1 DEF Ownership, BatchExclusive
<1>3. /\ channel' \in Seq(Batches)
      /\ Len(channel') = n - 1
      /\ \A i \in 1..(n - 1) : channel'[i] = channel[i + 1]
  BY <1>1 DEF Receive, TypeOK
<1>4. /\ hand' = [hand EXCEPT ![w] = b]
      /\ cur' = cur /\ items' = items /\ pool' = pool
  BY <1>1 DEF Receive
<1>5. BatchTypes'
  BY <1>1, <1>4 DEF TypeOK, BatchTypes
<1>6. ChannelTypes'
  BY <1>1, <1>3 DEF TypeOK, ChannelTypes, Receive
<1>7. /\ hand'[w] = b
      /\ \A g \in Holders \ {w} : hand'[g] = hand[g]
  BY <1>4, ProcSets DEF TypeOK
<1>8. HandsMatchPc'
  <2>1. PICK l \in Holding : GoTo(w, l)
    BY DEF Receive, Holding
  <2>2. l \in Labels
    BY DEF Holding, Labels
  <2>3. /\ pc'[w] = l
        /\ \A r \in Holders \ {w} : pc'[r] = pc[r]
    BY <2>1, <2>2, ProcSets, GoToTypes DEF TypeOK
  <2>4. QED
    BY <1>1, <1>7, <2>3 DEF Ownership, HandsMatchPc
<1>9. BatchExclusive'
  <2>1. \A g \in Holders : hand'[g] # NoBatch =>
            /\ hand'[g] # cur'
            /\ pool'[hand'[g]] = 0
            /\ \A k \in Holders \ {g} : hand'[k] # hand'[g]
    BY <1>1, <1>2, <1>4, <1>7 DEF Ownership, BatchExclusive
  <2>2. ASSUME NEW i \in 1..(n - 1)
        PROVE  /\ channel'[i] # cur'
               /\ pool'[channel'[i]] = 0
               /\ \A g \in Holders : hand'[g] # channel'[i]
               /\ \A j \in 1..(n - 1) : channel'[j] = channel'[i] => j = i
    <3>1. /\ i + 1 \in 2..n /\ i + 1 \in 1..n
          /\ channel'[i] = channel[i + 1] /\ channel[i + 1] # b
      BY <1>1, <1>2, <1>3
    <3>2. \A j \in 1..(n - 1) : channel'[j] = channel'[i] => j = i
      <4> SUFFICES ASSUME NEW j \in 1..(n - 1), channel'[j] = channel'[i]
                   PROVE  j = i
        OBVIOUS
      <4>1. j + 1 \in 1..n /\ channel[j + 1] = channel[i + 1]
        BY <1>1, <1>3, <3>1
      <4>2. j + 1 = i + 1
        BY <3>1, <4>1 DEF Ownership, BatchExclusive
      <4>3. QED
        BY <4>2
    <3>3. QED
      BY <3>1, <3>2, <1>4, <1>7 DEF Ownership, BatchExclusive
  <2>3. QED
    BY <1>3, <1>4, <2>1, <2>2 DEF Ownership, BatchExclusive
<1>10. PooledBatchesEmpty'
  BY <1>4 DEF Ownership, PooledBatchesEmpty
<1>11. QED
  BY <1>5, <1>6, <1>8, <1>9, <1>10 DEF Ownership

-----------------------------------------------------------------------------
(* Every goroutine's steps keep the invariant.                              *)

LEMMA CollectorKeeps ==
    ASSUME OwnershipInv, NEW c \in Collectors, CollectorStep(c)
    PROVE  OwnershipInv'
<1> USE DEF OwnershipInv, Ownership
<1>1. c \in Procs /\ c \notin Holders
  BY ProcSets
<1>2. CASE CollectTick(c)
  <2>1. CollectTypes'
    <3>1. CASE polls[c] < MaxPolls /\ polls' = [polls EXCEPT ![c] = @ + 1]
               /\ gathered' = [gathered EXCEPT ![c] = <<[src |-> c, n |-> polls[c] + 1]>>]
      <4>1. polls[c] + 1 \in 1..MaxPolls
        BY <3>1 DEF TypeOK
      <4>2. [src |-> c, n |-> polls[c] + 1] \in Samples
        BY <4>1 DEF Samples
      <4>3. <<[src |-> c, n |-> polls[c] + 1]>> \in Seq(Samples)
        BY <4>2
      <4>4. polls' \in [Collectors -> 0..MaxPolls]
        BY <3>1, <4>1 DEF TypeOK
      <4>5. gathered' \in [Collectors -> Seq(Samples)]
        BY <3>1, <4>3 DEF TypeOK
      <4>6. QED
        BY <1>2, <4>4, <4>5 DEF TypeOK, CollectTypes, CollectTick
    <3>2. CASE UNCHANGED <<polls, gathered>>
      BY <1>2, <3>2 DEF TypeOK, CollectTypes, CollectTick
    <3>3. QED
      BY <1>2, <3>1, <3>2 DEF CollectTick
  <2>2. GoTo(c, "append") /\ "append" \in Labels
    BY <1>2 DEF CollectTick, Labels
  <2>3. BatchTypes' /\ Ownership' /\ pc' \in [Procs -> Labels]
    BY <1>1, <1>2, <2>2, QuietStep, GoToTypes
       DEF CollectTick, chanVars, TypeOK
  <2>4. ChannelTypes' /\ OutcomeTypes'
    BY <1>2 DEF CollectTick, chanVars, outcome, TypeOK, ChannelTypes, OutcomeTypes
  <2>5. QED
    BY <2>1, <2>3, <2>4, InvFromGroups
<1>3. CASE CollectAppend(c)
  <2>1. gathered[c] \in Seq(Samples) /\ <<>> \in Seq(Samples)
    BY DEF TypeOK
  <2>2. CollectTypes'
    BY <1>3, <2>1 DEF CollectAppend, TypeOK, CollectTypes
  <2>3. GoTo(c, "select") /\ "select" \in Labels
    BY <1>3 DEF CollectAppend, Labels
  <2>4. BatchTypes' /\ Ownership' /\ pc' \in [Procs -> Labels]
    BY <1>1, <1>3, <2>1, <2>3, AppendStep, GoToTypes
       DEF CollectAppend, chanVars, TypeOK
  <2>5. ChannelTypes' /\ OutcomeTypes'
    BY <1>3 DEF CollectAppend, chanVars, outcome, TypeOK, ChannelTypes, OutcomeTypes
  <2>6. QED
    BY <2>2, <2>4, <2>5, InvFromGroups
<1>4. CASE CollectStop(c)
  <2>1. GoTo(c, "exited") /\ "exited" \in Labels
    BY <1>4 DEF CollectStop, Labels
  <2>2. BatchTypes' /\ Ownership' /\ pc' \in [Procs -> Labels]
    BY <1>1, <1>4, <2>1, QuietStep, GoToTypes DEF CollectStop, chanVars, TypeOK
  <2>3. ChannelTypes' /\ OutcomeTypes' /\ CollectTypes'
    BY <1>4 DEF CollectStop, chanVars, outcome, collectVars, TypeOK,
                ChannelTypes, OutcomeTypes, CollectTypes
  <2>4. QED
    BY <2>2, <2>3, InvFromGroups
<1>5. QED
  BY <1>2, <1>3, <1>4 DEF CollectorStep

LEMMA DispatcherKeeps ==
    ASSUME OwnershipInv, DispatcherStep
    PROVE  OwnershipInv'
<1> USE DEF OwnershipInv, Ownership
<1> DEFINE d == "dispatcher"
<1>1. d \in Procs /\ d \in Holders
  BY ProcSets
<1>2. CASE DispatchTick
  <2>1. PICK l \in {"recycle", "offer"} : GoTo(d, l)
    BY <1>2 DEF DispatchTick
  <2>2. l \in Holding /\ l \in Labels /\ pc[d] \notin Holding
    BY <1>2 DEF Holding, Labels, DispatchTick
  <2>3. BatchTypes' /\ Ownership' /\ pc' \in [Procs -> Labels]
    BY <1>1, <1>2, <2>1, <2>2, SwapStep, GoToTypes DEF DispatchTick, chanVars, TypeOK
  <2>4. ChannelTypes' /\ OutcomeTypes' /\ CollectTypes'
    BY <1>2 DEF DispatchTick, chanVars, outcome, collectVars, TypeOK,
                ChannelTypes, OutcomeTypes, CollectTypes
  <2>5. QED
    BY <2>3, <2>4, InvFromGroups
<1>3. CASE DispatchStop
  <2>1. GoTo(d, "exited") /\ "exited" \in Labels
    BY <1>3 DEF DispatchStop, Labels
  <2>2. "exited" \notin Holding /\ pc[d] \notin Holding
    BY <1>3 DEF DispatchStop, Holding
  <2>3. BatchTypes' /\ Ownership' /\ pc' \in [Procs -> Labels]
    BY <1>1, <1>3, <2>1, <2>2, QuietStep, GoToTypes DEF DispatchStop, TypeOK
  <2>4. ChannelTypes' /\ OutcomeTypes' /\ CollectTypes'
    BY <1>3 DEF DispatchStop, outcome, collectVars, TypeOK,
                ChannelTypes, OutcomeTypes, CollectTypes
  <2>5. QED
    BY <2>3, <2>4, InvFromGroups
<1>4. CASE OfferSend
  <2>1. GoTo(d, "select") /\ "select" \in Labels
    BY <1>4 DEF OfferSend, Labels
  <2>2. pc' \in [Procs -> Labels]
    BY <1>1, <2>1, GoToTypes DEF TypeOK
  <2>3. OutcomeTypes' /\ CollectTypes'
    BY <1>4 DEF OfferSend, outcome, collectVars, TypeOK, OutcomeTypes, CollectTypes
  <2>4. QED
    BY <1>4, <2>2, <2>3, SendStep, InvFromGroups
<1>5. CASE OfferCancelled
  <2>1. GoTo(d, "requeue") /\ "requeue" \in Labels
    BY <1>5 DEF OfferCancelled, Labels
  <2>2. "requeue" \in Holding /\ pc[d] \in Holding
    BY <1>5 DEF OfferCancelled, Holding
  <2>3. BatchTypes' /\ Ownership' /\ pc' \in [Procs -> Labels]
    BY <1>1, <1>5, <2>1, <2>2, QuietStep, GoToTypes DEF OfferCancelled, TypeOK
  <2>4. ChannelTypes' /\ OutcomeTypes' /\ CollectTypes'
    BY <1>5 DEF OfferCancelled, outcome, collectVars, TypeOK,
                ChannelTypes, OutcomeTypes, CollectTypes
  <2>5. QED
    BY <2>3, <2>4, InvFromGroups
<1>6. CASE OfferBusy
  <2>1. GoTo(d, "requeue") /\ "requeue" \in Labels
    BY <1>6 DEF OfferBusy, Labels
  <2>2. "requeue" \in Holding /\ pc[d] \in Holding
    BY <1>6 DEF OfferBusy, Holding
  <2>3. BatchTypes' /\ Ownership' /\ pc' \in [Procs -> Labels]
    BY <1>1, <1>6, <2>1, <2>2, QuietStep, GoToTypes DEF OfferBusy, chanVars, TypeOK
  <2>4. ChannelTypes' /\ OutcomeTypes' /\ CollectTypes'
    BY <1>6 DEF OfferBusy, chanVars, outcome, collectVars, TypeOK,
                ChannelTypes, OutcomeTypes, CollectTypes
  <2>5. QED
    BY <2>3, <2>4, InvFromGroups
<1>7. CASE Requeue
  <2>1. items[hand[d]] \in Seq(Samples)
    <3>1. hand[d] \in Batches
      BY <1>1, <1>7 DEF Requeue, TypeOK, HandsMatchPc, Holding
    <3>2. QED
      BY <3>1 DEF TypeOK
  <2>2. GoTo(d, "recycle") /\ "recycle" \in Labels
    BY <1>7 DEF Requeue, Labels
  <2>3. "recycle" \in Holding /\ pc[d] \in Holding
    BY <1>7 DEF Requeue, Holding
  <2>4. BatchTypes' /\ Ownership' /\ pc' \in [Procs -> Labels]
    BY <1>1, <1>7, <2>1, <2>2, <2>3, AppendStep, GoToTypes DEF Requeue, chanVars, TypeOK
  <2>5. ChannelTypes' /\ OutcomeTypes' /\ CollectTypes'
    BY <1>7 DEF Requeue, chanVars, outcome, collectVars, TypeOK,
                ChannelTypes, OutcomeTypes, CollectTypes
  <2>6. QED
    BY <2>4, <2>5, InvFromGroups
<1>8. CASE DispatcherRecycle
  <2>1. PICK l \in {"exited", "select"} : GoTo(d, l)
    BY <1>8 DEF DispatcherRecycle
  <2>2. l \in Labels \ Holding
    BY DEF Holding, Labels
  <2>3. BatchTypes' /\ Ownership' /\ pc' \in [Procs -> Labels]
    BY <1>1, <1>8, <2>1, <2>2, RecycleStep, GoToTypes DEF DispatcherRecycle, TypeOK
  <2>4. ChannelTypes' /\ OutcomeTypes' /\ CollectTypes'
    BY <1>8 DEF DispatcherRecycle, outcome, collectVars, TypeOK,
                ChannelTypes, OutcomeTypes, CollectTypes
  <2>5. QED
    BY <2>3, <2>4, InvFromGroups
<1>9. QED
  BY <1>2, <1>3, <1>4, <1>5, <1>6, <1>7, <1>8 DEF DispatcherStep

\* Settling a batch moves samples only between sets of samples.
LEMMA SettleTypes ==
    ASSUME OwnershipInv, NEW h \in Holders, pc[h] \in Holding,
           NEW got \in SUBSET Range(items[hand[h]]), SettleBatch(h, got)
    PROVE  OutcomeTypes'
<1>1. hand[h] \in Batches
  BY DEF OwnershipInv, TypeOK, HandsMatchPc
<1>2. Range(items[hand[h]]) \subseteq Samples
  BY <1>1, RangeOfSeq DEF OwnershipInv, TypeOK
<1>3. QED
  BY <1>2 DEF SettleBatch, OwnershipInv, TypeOK, OutcomeTypes

LEMMA WorkerKeeps ==
    ASSUME OwnershipInv, NEW w \in Workers, WorkerStep(w)
    PROVE  OwnershipInv'
<1> USE DEF OwnershipInv, Ownership
<1>1. w \in Procs /\ w \in Holders
  BY ProcSets
<1>2. CASE Receive(w)
  <2>1. PICK l \in Labels : GoTo(w, l)
    BY <1>2 DEF Receive, Labels
  <2>2. pc' \in [Procs -> Labels]
    BY <1>1, <2>1, GoToTypes DEF TypeOK
  <2>3. OutcomeTypes' /\ CollectTypes'
    BY <1>2 DEF Receive, outcome, collectVars, TypeOK, OutcomeTypes, CollectTypes
  <2>4. QED
    BY <1>2, <2>2, <2>3, ReceiveStep, InvFromGroups
<1>3. CASE WorkerExit(w)
  <2>1. GoTo(w, "exited") /\ "exited" \in Labels
    BY <1>3 DEF WorkerExit, Labels
  <2>2. "exited" \notin Holding /\ pc[w] \notin Holding
    BY <1>3 DEF WorkerExit, Holding
  <2>3. BatchTypes' /\ Ownership' /\ pc' \in [Procs -> Labels]
    BY <1>1, <1>3, <2>1, <2>2, QuietStep, GoToTypes DEF WorkerExit, chanVars, TypeOK
  <2>4. ChannelTypes' /\ OutcomeTypes' /\ CollectTypes'
    BY <1>3 DEF WorkerExit, chanVars, outcome, collectVars, TypeOK,
                ChannelTypes, OutcomeTypes, CollectTypes
  <2>5. QED
    BY <2>3, <2>4, InvFromGroups
<1>4. CASE SendFinished(w)
  <2>1. GoTo(w, "recycle") /\ "recycle" \in Labels
    BY <1>4 DEF SendFinished, Labels
  <2>2. "recycle" \in Holding /\ pc[w] \in Holding
    BY <1>4 DEF SendFinished, Holding
  <2>3. BatchTypes' /\ Ownership' /\ pc' \in [Procs -> Labels]
    BY <1>1, <1>4, <2>1, <2>2, QuietStep, GoToTypes DEF SendFinished, chanVars, TypeOK
  <2>4. OutcomeTypes'
    BY <1>1, <1>4, <2>2, SettleTypes DEF SendFinished
  <2>5. ChannelTypes' /\ CollectTypes'
    BY <1>4 DEF SendFinished, chanVars, collectVars, TypeOK, ChannelTypes, CollectTypes
  <2>6. QED
    BY <2>3, <2>4, <2>5, InvFromGroups
<1>5. CASE WorkerRecycle(w)
  <2>1. GoTo(w, "select") /\ "select" \in Labels \ Holding
    BY <1>5 DEF WorkerRecycle, Labels, Holding
  <2>2. BatchTypes' /\ Ownership' /\ pc' \in [Procs -> Labels]
    BY <1>1, <1>5, <2>1, RecycleStep, GoToTypes DEF WorkerRecycle, chanVars, TypeOK
  <2>3. ChannelTypes' /\ OutcomeTypes' /\ CollectTypes'
    BY <1>5 DEF WorkerRecycle, chanVars, outcome, collectVars, TypeOK,
                ChannelTypes, OutcomeTypes, CollectTypes
  <2>4. QED
    BY <2>2, <2>3, InvFromGroups
<1>6. QED
  BY <1>2, <1>3, <1>4, <1>5 DEF WorkerStep

LEMMA MainKeeps ==
    ASSUME OwnershipInv, MainStep
    PROVE  OwnershipInv'
<1> USE DEF OwnershipInv, Ownership
<1> DEFINE m == "main"
<1>1. m \in Procs /\ m \in Holders
  BY ProcSets
<1>2. CASE WaitDone
  <2>1. PICK l \in {"recycle", "send"} : GoTo(m, l)
    BY <1>2 DEF WaitDone
  <2>2. l \in Holding /\ l \in Labels /\ pc[m] \notin Holding
    BY <1>2 DEF Holding, Labels, WaitDone
  <2>3. BatchTypes' /\ Ownership' /\ pc' \in [Procs -> Labels]
    BY <1>1, <1>2, <2>1, <2>2, SwapStep, GoToTypes DEF WaitDone, chanVars, TypeOK
  <2>4. ChannelTypes' /\ OutcomeTypes' /\ CollectTypes'
    BY <1>2 DEF WaitDone, chanVars, outcome, collectVars, TypeOK,
                ChannelTypes, OutcomeTypes, CollectTypes
  <2>5. QED
    BY <2>3, <2>4, InvFromGroups
<1>3. CASE FinalSend
  <2>1. GoTo(m, "recycle") /\ "recycle" \in Labels
    BY <1>3 DEF FinalSend, Labels
  <2>2. "recycle" \in Holding /\ pc[m] \in Holding
    BY <1>3 DEF FinalSend, Holding
  <2>3. BatchTypes' /\ Ownership' /\ pc' \in [Procs -> Labels]
    BY <1>1, <1>3, <2>1, <2>2, QuietStep, GoToTypes DEF FinalSend, chanVars, TypeOK
  <2>4. OutcomeTypes'
    BY <1>1, <1>3, <2>2, SettleTypes DEF FinalSend
  <2>5. ChannelTypes' /\ CollectTypes'
    BY <1>3 DEF FinalSend, chanVars, collectVars, TypeOK, ChannelTypes, CollectTypes
  <2>6. QED
    BY <2>3, <2>4, <2>5, InvFromGroups
<1>4. CASE FinalRecycle
  <2>1. GoTo(m, "returned") /\ "returned" \in Labels \ Holding
    BY <1>4 DEF FinalRecycle, Labels, Holding
  <2>2. BatchTypes' /\ Ownership' /\ pc' \in [Procs -> Labels]
    BY <1>1, <1>4, <2>1, RecycleStep, GoToTypes DEF FinalRecycle, chanVars, TypeOK
  <2>3. ChannelTypes' /\ OutcomeTypes' /\ CollectTypes'
    BY <1>4 DEF FinalRecycle, chanVars, outcome, collectVars, TypeOK,
                ChannelTypes, OutcomeTypes, CollectTypes
  <2>4. QED
    BY <2>2, <2>3, InvFromGroups
<1>5. QED
  BY <1>2, <1>3, <1>4 DEF MainStep

LEMMA StepKeepsOwnership == OwnershipInv /\ [Next]_vars => OwnershipInv'
<1> SUFFICES ASSUME OwnershipInv, [Next]_vars PROVE OwnershipInv'
  OBVIOUS
<1>1. CASE Cancel
  BY <1>1 DEF Cancel, OwnershipInv, TypeOK, HandsMatchPc, BatchExclusive,
              PooledBatchesEmpty, collectVars, batchVars, chanVars, outcome
<1>2. CASE UNCHANGED vars
  BY <1>2 DEF vars, OwnershipInv, TypeOK, HandsMatchPc, BatchExclusive,
              PooledBatchesEmpty, collectVars, batchVars, chanVars, outcome
<1>3. QED
  BY <1>1, <1>2, CollectorKeeps, DispatcherKeeps, WorkerKeeps, MainKeeps
     DEF Next, Terminated

-----------------------------------------------------------------------------
\* Every variable keeps its type and the channel its capacity, whatever the
\* numbers of batches, workers, slots and samples (agent.go:35-124).
THEOREM TypeCorrect == Spec => []TypeOK
<1>1. OwnershipInv => TypeOK
  BY DEF OwnershipInv
<1>2. QED
  BY <1>1, InitOwnership, StepKeepsOwnership, PTL DEF Spec

\* A batch always has one owner: no interleaving of dispatcher, workers and
\* collectors sends, appends to or resets a batch somebody else holds
\* (safe_metrics.go, agent.go:86-157).
THEOREM Exclusive == Spec => []BatchExclusive
<1>1. OwnershipInv => BatchExclusive
  BY DEF OwnershipInv
<1>2. QED
  BY <1>1, InitOwnership, StepKeepsOwnership, PTL DEF Spec

\* A batch the pool hands out holds no sample of an earlier use (pool.go:23-29).
THEOREM PoolEmpty == Spec => []PooledBatchesEmpty
<1>1. OwnershipInv => PooledBatchesEmpty
  BY DEF OwnershipInv
<1>2. QED
  BY <1>1, InitOwnership, StepKeepsOwnership, PTL DEF Spec

=============================================================================
