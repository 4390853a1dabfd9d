------------------------- MODULE AgentSamplesProofs -------------------------
(***************************************************************************)
(* The way of every sample through AgentPipeline: none is lost, none is in *)
(* two places, nothing is left behind when Start returns, and the pipeline *)
(* implements SampleLedger, for any number of batches, workers, slots and  *)
(* samples.                                                                *)
(*                                                                         *)
(* The proofs look at the batches through Load: what a batch still has to  *)
(* deliver.  Every step of every goroutine changes the loads in one of     *)
(* five ways, and only these are reasoned about after StepEffect.          *)
(***************************************************************************)
EXTENDS AgentPipelineProofs, FiniteSetTheorems

\* The samples of a batch that are still on their way.
Load(b) == IF Live(b) THEN items[b] ELSE <<>>

Carried(b) == Range(Load(b))

Waiting(c) == Range(gathered[c])

Settled == delivered \union dropped

-----------------------------------------------------------------------------
(* The invariant about samples.                                             *)

\* A collector holds at most its youngest sample, between tick and append.
GatheredIsYoungest ==
    \A c \in Collectors : gathered[c] # <<>> =>
        /\ pc[c] = "append"
        /\ polls[c] > 0
        /\ gathered[c] = <<[src |-> c, n |-> polls[c]]>>

\* What was taken is waiting, carried or settled, and nothing else is.
Accounted ==
    \A s \in Samples :
        s.n <= polls[s.src] <=>
            \/ \E c \in Collectors : s \in Waiting(c)
            \/ \E b \in Batches : s \in Carried(b)
            \/ s \in Settled

\* A sample is at one index of one load.
CarriedOnce ==
    \A a, b \in Batches : \A i \in DOMAIN Load(a), j \in DOMAIN Load(b) :
        Load(a)[i] = Load(b)[j] => a = b /\ i = j

\* The three ways to be accounted for exclude each other, and a sample is not
\* both delivered and dropped.
PlacesDisjoint ==
    /\ \A c \in Collectors, b \in Batches : Waiting(c) \intersect Carried(b) = {}
    /\ \A c \in Collectors : Waiting(c) \intersect Settled = {}
    /\ \A b \in Batches : Carried(b) \intersect Settled = {}
    /\ delivered \intersect dropped = {}

\* A worker that received its batch after the cancellation sends in vain.
DoomedIsCancelled == \A w \in Workers : pc[w] = "doomed" => cancelled

SampleInv ==
    /\ GatheredIsYoungest
    /\ DoomedIsCancelled
    /\ Accounted
    /\ CarriedOnce
    /\ PlacesDisjoint

-----------------------------------------------------------------------------
(* The five ways a step may change what is known of the samples.            *)

LoadsKept == \A b \in Batches : Load(b)' = Load(b)

Quiet == LoadsKept /\ UNCHANGED <<collectVars, outcome>>

\* Collector c has taken its next sample.
Taken(c) ==
    /\ polls[c] < MaxPolls
    /\ gathered[c] = <<>>
    /\ polls' = [polls EXCEPT ![c] = @ + 1]
    /\ gathered' = [gathered EXCEPT ![c] = <<[src |-> c, n |-> polls[c] + 1]>>]
    /\ LoadsKept
    /\ UNCHANGED <<cancelled, outcome>>

\* What collector c held is at the end of load a.
Appended(c, a) ==
    /\ gathered' = [gathered EXCEPT ![c] = <<>>]
    /\ Load(a)' = Load(a) \o gathered[c]
    /\ \A b \in Batches \ {a} : Load(b)' = Load(b)
    /\ UNCHANGED <<cancelled, polls, outcome>>

\* The load of z is at the end of load a.
Moved(z, a) ==
    /\ z # a
    /\ Load(z)' = <<>>
    /\ Load(a)' = Load(a) \o Load(z)
    /\ \A b \in Batches \ {a, z} : Load(b)' = Load(b)
    /\ UNCHANGED <<cancelled, collectVars, outcome>>

\* The load of z has left the agent; the server accepted got.
Emptied(z, got) ==
    /\ got \subseteq Carried(z)
    /\ ~NetworkFails /\ ~cancelled => got = Carried(z)
    /\ delivered' = delivered \union got
    /\ dropped' = dropped \union (Carried(z) \ got)
    /\ Load(z)' = <<>>
    /\ \A b \in Batches \ {z} : Load(b)' = Load(b)
    /\ UNCHANGED <<cancelled, collectVars>>

Effect ==
    \/ Quiet
    \/ \E c \in Collectors : Taken(c)
    \/ \E c \in Collectors, a \in Batches : Appended(c, a)
    \/ \E z, a \in Batches : Moved(z, a)
    \/ \E z \in Batches : \E got \in SUBSET Carried(z) : Emptied(z, got)

-----------------------------------------------------------------------------
(* The invariant about the end of Start.                                    *)

\* Only the dispatcher closes the channel, on its way out; a worker leaves a
\* closed and drained channel; Start goes on when all others have left, and the
\* batch it takes is the last one with samples in it.
ShutdownInv ==
    /\ closed <=> pc["dispatcher"] = "exited"
    /\ \A w \in Workers : pc[w] = "exited" => closed /\ channel = <<>>
    /\ pc["main"] # "wait" =>
          /\ \A p \in Procs \ {"main"} : pc[p] = "exited"
          /\ items[cur] = <<>>
    /\ pc["main"] \in {"wait", "send", "recycle", "returned"}

-----------------------------------------------------------------------------
(* What the steps of the goroutines do to the loads.                        *)

USE PipelineAssumption

LEMMA LoadTypes ==
    ASSUME OwnershipInv, NEW b \in Batches
    PROVE  /\ Load(b) \in Seq(Samples)
           /\ Carried(b) \subseteq Samples
<1>1. Load(b) \in Seq(Samples)
  BY DEF OwnershipInv, TypeOK, Load
<1>2. QED
  BY <1>1, RangeOfSeq DEF Carried

\* The batch in a goroutine's hand has its samples on their way until recycled.
LEMMA HeldLoad ==
    ASSUME OwnershipInv, NEW h \in Holders, pc[h] \in Holding
    PROVE  /\ hand[h] \in Batches
           /\ hand[h] # cur
           /\ \A i \in 1..Len(channel) : channel[i] # hand[h]
           /\ \A g \in Holders \ {h} : hand[g] # hand[h]
           /\ Load(hand[h]) = IF pc[h] = "recycle" THEN <<>> ELSE items[hand[h]]
<1>1. hand[h] \in Batches /\ hand[h] # NoBatch
  BY DEF OwnershipInv, TypeOK, HandsMatchPc
<1>2. /\ hand[h] # cur
      /\ \A i \in 1..Len(channel) : channel[i] # hand[h]
      /\ \A g \in Holders \ {h} : hand[g] # hand[h]
  BY <1>1 DEF OwnershipInv, BatchExclusive
<1>3. Live(hand[h]) <=> pc[h] # "recycle"
  BY <1>2 DEF Live
<1>4. QED
  BY <1>1, <1>2, <1>3 DEF Load

\* A step of goroutine p that touches no batch and does not leave or enter
\* "recycle" with one.
LEMMA QuietLoads ==
    ASSUME OwnershipInv, UNCHANGED <<batchVars, channel>>,
           NEW p \in Procs, NEW l \in Labels, GoTo(p, l),
           p \in Holders /\ hand[p] # NoBatch => l # "recycle" /\ pc[p] # "recycle"
    PROVE  LoadsKept
<1> SUFFICES ASSUME NEW b \in Batches PROVE Load(b)' = Load(b)
  BY DEF LoadsKept
<1>1. b # NoBatch
  OBVIOUS
<1>2. pc'[p] = l /\ \A r \in Procs \ {p} : pc'[r] = pc[r]
  BY GoToTypes DEF OwnershipInv, TypeOK
<1>3. \A h \in Holders : hand[h] = b => (pc'[h] = "recycle" <=> pc[h] = "recycle")
  BY <1>1, <1>2, ProcSets
<1>4. Live(b)' <=> Live(b)
  BY <1>3 DEF Live, batchVars
<1>5. QED
  BY <1>4 DEF Load, batchVars

\* GetAndClear: the old current batch goes on in the goroutine's hand, or was
\* empty, and the new one is empty.
LEMMA SwapLoads ==
    ASSUME OwnershipInv, NEW h \in Holders, pc[h] \notin Holding,
           GetAndClear(h), UNCHANGED channel,
           NEW l \in Labels \ {"recycle"},
           GoTo(h, IF items[cur] = <<>> THEN "recycle" ELSE l)
    PROVE  LoadsKept /\ items'[cur'] = <<>>
<1>1. PICK n \in Batches :
          /\ cur' = n
          /\ n # cur
          /\ \A g \in Holders : hand[g] # n
          /\ \A i \in 1..Len(channel) : channel[i] # n
          /\ items'[n] = <<>>
          /\ \A c \in Batches \ {n} : items'[c] = items[c]
  BY SwapBatch DEF OwnershipInv, Ownership
<1>2. /\ hand[h] = NoBatch
      /\ channel' = channel
      /\ hand'[h] = cur
      /\ \A g \in Holders \ {h} : hand'[g] = hand[g]
  BY SwapBatch DEF OwnershipInv, Ownership, TypeOK
<1>3. /\ pc'[h] = IF items[cur] = <<>> THEN "recycle" ELSE l
      /\ \A g \in Holders \ {h} : pc'[g] = pc[g]
  <2>1. "recycle" \in Labels
    BY DEF Labels
  <2>2. QED
    BY <2>1, GoToTypes, ProcSets DEF OwnershipInv, TypeOK
<1>4. /\ cur \in Batches /\ cur # NoBatch
      /\ \A i \in 1..Len(channel) : channel[i] # cur
      /\ \A g \in Holders : hand[g] # cur
  BY DEF OwnershipInv, TypeOK, BatchExclusive
<1>5. ASSUME NEW b \in Batches
      PROVE  Load(b)' = Load(b)
  <2>1. CASE b = n
    BY <2>1, <1>1 DEF Load, Live
  <2>2. CASE b = cur
    <3>1. Load(b) = items[cur] /\ items'[b] = items[cur]
      BY <2>2, <1>1, <1>4 DEF Load, Live
    <3>2. Live(b)' <=> items[cur] # <<>>
      BY <2>2, <1>1, <1>2, <1>3, <1>4 DEF Live
    <3>3. QED
      BY <3>1, <3>2 DEF Load
  <2>3. CASE b # n /\ b # cur
    <3>1. items'[b] = items[b] /\ b # NoBatch
      BY <2>3, <1>1
    <3>2. Live(b)' <=> Live(b)
      BY <2>3, <3>1, <1>1, <1>2, <1>3 DEF Live
    <3>3. QED
      BY <3>1, <3>2 DEF Load
  <2>4. QED
    BY <2>1, <2>2, <2>3
<1>6. QED
  BY <1>1, <1>5 DEF LoadsKept

\* OfferSend: the batch is on its way in the channel instead of the hand.
LEMMA SendLoads ==
    ASSUME OwnershipInv, OfferSend
    PROVE  LoadsKept
<1> DEFINE d == "dispatcher"
           n == Len(channel)
<1>1. d \in Holders /\ pc[d] = "offer" /\ pc[d] \in Holding
  BY ProcSets DEF OfferSend, Holding
<1>2. /\ hand[d] \in Batches
      /\ Load(hand[d]) = items[hand[d]]
  BY <1>1, HeldLoad
<1>3. /\ n \in Nat
      /\ channel \in Seq(Batches)
      /\ Len(channel') = n + 1
      /\ channel'[n + 1] = hand[d]
      /\ \A i \in 1..n : channel'[i] = channel[i]
  BY <1>2 DEF OfferSend, OwnershipInv, TypeOK
<1>4. /\ hand'[d] = NoBatch
      /\ \A g \in Holders \ {d} : hand'[g] = hand[g]
      /\ items' = items /\ cur' = cur
  BY <1>1 DEF OfferSend, OwnershipInv, TypeOK
<1>5. \A g \in Holders \ {d} : pc'[g] = pc[g]
  BY <1>1, GoToTypes, ProcSets DEF OfferSend, OwnershipInv, TypeOK, Labels
<1> SUFFICES ASSUME NEW b \in Batches PROVE Load(b)' = Load(b)
  BY DEF LoadsKept
<1>6. CASE b = hand[d]
  <2>1. n + 1 \in 1..Len(channel')
    BY <1>3
  <2>2. Live(b)'
    BY <2>1, <1>3, <1>6 DEF Live
  <2>3. QED
    BY <2>2, <1>2, <1>4, <1>6 DEF Load
<1>7. CASE b # hand[d]
  <2>1. (\E i \in 1..Len(channel') : channel'[i] = b)
            <=> (\E i \in 1..Len(channel) : channel[i] = b)
    <3>1. \A i \in 1..(n + 1) : i \in 1..n \/ i = n + 1
      BY <1>3
    <3>2. \A i \in 1..n : i \in 1..(n + 1)
      BY <1>3
    <3>3. QED
      BY <3>1, <3>2, <1>3, <1>7
  <2>2. (\E h \in Holders : hand'[h] = b /\ pc'[h] # "recycle")
            <=> (\E h \in Holders : hand[h] = b /\ pc[h] # "recycle")
    <3>1. b # NoBatch
      OBVIOUS
    <3>2. QED
      BY <3>1, <1>4, <1>5, <1>7
  <2>3. Live(b)' <=> Live(b)
    BY <2>1, <2>2, <1>4 DEF Live
  <2>4. QED
    BY <2>3, <1>4 DEF Load
<1>8. QED
  BY <1>6, <1>7

\* Receive: the batch is on its way in the worker's hand instead of the channel.
LEMMA ReceiveLoads ==
    ASSUME OwnershipInv, NEW w \in Workers, Receive(w)
    PROVE  LoadsKept
<1> DEFINE x == channel[1]
           n == Len(channel)
<1>0. w \in Holders /\ channel \in Seq(Batches) /\ channel # <<>>
  BY ProcSets DEF Receive, OwnershipInv, TypeOK
<1>1. /\ n \in Nat /\ n >= 1
      /\ Head(channel) = x /\ x \in Batches /\ x # NoBatch
  BY <1>0
<1>2. /\ Len(channel') = n - 1
      /\ \A i \in 1..(n - 1) : channel'[i] = channel[i + 1]
      /\ \A i \in 1..(n - 1) : i + 1 \in 2..n
  BY <1>0, <1>1 DEF Receive
<1>3. /\ hand'[w] = x
      /\ \A g \in Holders \ {w} : hand'[g] = hand[g]
      /\ items' = items /\ cur' = cur
  BY <1>0, <1>1 DEF Receive, OwnershipInv, TypeOK
<1>4. /\ pc'[w] = "recycle" <=> items[x] = <<>>
      /\ \A g \in Holders \ {w} : pc'[g] = pc[g]
  <2>1. PICK l \in Labels : GoTo(w, l) /\ (l = "recycle" <=> items[x] = <<>>)
    BY <1>1 DEF Receive, Labels
  <2>2. QED
    BY <1>0, <2>1, GoToTypes, ProcSets DEF OwnershipInv, TypeOK
<1>5. hand[w] = NoBatch
  BY <1>0 DEF Receive, OwnershipInv, HandsMatchPc, Holding
<1>6. /\ x # cur
      /\ \A g \in Holders : hand[g] # x
      /\ \A i \in 2..n : channel[i] # x
  BY <1>1 DEF OwnershipInv, BatchExclusive
<1> SUFFICES ASSUME NEW b \in Batches PROVE Load(b)' = Load(b)
  BY DEF LoadsKept
<1>7. CASE b = x
  <2>1. Load(b) = items[x]
    <3>1. 1 \in 1..n
      BY <1>1
    <3>2. QED
      BY <3>1, <1>7 DEF Load, Live
  <2>2. \A i \in 1..Len(channel') : channel'[i] # b
    BY <1>2, <1>6, <1>7
  <2>3. Live(b)' <=> items[x] # <<>>
    BY <2>2, <1>0, <1>3, <1>4, <1>6, <1>7 DEF Live
  <2>4. QED
    BY <2>1, <2>3, <1>3, <1>7 DEF Load
<1>8. CASE b # x
  <2>1. (\E i \in 1..Len(channel') : channel'[i] = b)
            <=> (\E i \in 1..Len(channel) : channel[i] = b)
    <3>1. ASSUME NEW i \in 1..n, channel[i] = b
          PROVE  \E j \in 1..(n - 1) : channel'[j] = b
      <4>1. i # 1
        BY <1>8, <3>1
      <4>2. PICK j \in 1..(n - 1) : j + 1 = i
        <5>1. n \in Nat /\ i \in Nat /\ 1 <= i /\ i <= n
          BY <1>1
        <5>2. i - 1 \in 1..(n - 1) /\ (i - 1) + 1 = i
          BY <4>1, <5>1
        <5>3. QED
          BY <5>2
      <4>3. QED
        BY <4>2, <1>2, <3>1
    <3>2. ASSUME NEW i \in 1..(n - 1), channel'[i] = b
          PROVE  \E j \in 1..n : channel[j] = b
      <4>1. i + 1 \in 1..n
        BY <1>1
      <4>2. QED
        BY <4>1, <1>2, <3>2
    <3>3. QED
      BY <3>1, <3>2, <1>2
  <2>2. (\E h \in Holders : hand'[h] = b /\ pc'[h] # "recycle")
            <=> (\E h \in Holders : hand[h] = b /\ pc[h] # "recycle")
    <3>1. b # NoBatch
      OBVIOUS
    <3>2. QED
      BY <3>1, <1>3, <1>4, <1>5, <1>8
  <2>3. Live(b)' <=> Live(b)
    BY <2>1, <2>2, <1>3 DEF Live
  <2>4. QED
    BY <2>3, <1>3 DEF Load
<1>9. QED
  BY <1>7, <1>8

\* PutBatch: what is reset was not on its way any more.
LEMMA RecycleLoads ==
    ASSUME OwnershipInv, NEW h \in Holders, pc[h] = "recycle",
           PutBatch(h), UNCHANGED channel,
           NEW l \in Labels \ Holding, GoTo(h, l)
    PROVE  LoadsKept
<1> DEFINE x == hand[h]
<1>1. /\ x \in Batches /\ x # cur
      /\ \A i \in 1..Len(channel) : channel[i] # x
      /\ \A g \in Holders \ {h} : hand[g] # x
      /\ Load(x) = <<>>
  BY HeldLoad DEF Holding
<1>2. /\ hand'[h] = NoBatch
      /\ \A g \in Holders \ {h} : hand'[g] = hand[g]
      /\ items'[x] = <<>>
      /\ \A b \in Batches \ {x} : items'[b] = items[b]
      /\ cur' = cur /\ channel' = channel
  BY <1>1 DEF PutBatch, OwnershipInv, TypeOK
<1>3. \A g \in Holders \ {h} : pc'[g] = pc[g]
  BY GoToTypes, ProcSets DEF OwnershipInv, TypeOK
<1> SUFFICES ASSUME NEW b \in Batches PROVE Load(b)' = Load(b)
  BY DEF LoadsKept
<1>4. CASE b = x
  BY <1>1, <1>2, <1>4 DEF Load
<1>5. CASE b # x
  <2>1. b # NoBatch
    OBVIOUS
  <2>2. Live(b)' <=> Live(b)
    BY <2>1, <1>2, <1>3, <1>5 DEF Live
  <2>3. QED
    BY <2>2, <1>2, <1>5 DEF Load
<1>6. QED
  BY <1>4, <1>5

\* AppendMetrics: the samples are behind those of the current batch.
LEMMA AppendLoads ==
    ASSUME OwnershipInv, NEW c \in Collectors, CollectAppend(c)
    PROVE  \E a \in Batches : a = cur /\ Appended(c, a)
<1> PICK a \in Batches : a = cur
  BY DEF OwnershipInv, TypeOK
<1>1. /\ items'[a] = items[a] \o gathered[c]
      /\ \A b \in Batches \ {a} : items'[b] = items[b]
      /\ UNCHANGED <<cur, hand, channel>>
  BY DEF CollectAppend, AppendMetrics, OwnershipInv, TypeOK, chanVars
<1>2. \A h \in Holders : pc'[h] = pc[h]
  <2>1. GoTo(c, "select") /\ "select" \in Labels
    BY DEF CollectAppend, Labels
  <2>2. QED
    BY <2>1, GoToTypes, ProcSets DEF OwnershipInv, TypeOK
<1>3. ASSUME NEW b \in Batches
      PROVE  Live(b)' <=> Live(b)
  BY <1>1, <1>2 DEF Live
<1>4. Load(a)' = Load(a) \o gathered[c]
  BY <1>1, <1>3 DEF Load, Live
<1>5. \A b \in Batches \ {a} : Load(b)' = Load(b)
  BY <1>1, <1>3 DEF Load
<1>6. QED
  BY <1>4, <1>5 DEF Appended, CollectAppend, outcome

\* Requeue: the refused samples are behind those of the current batch, and the
\* batch they came in has nothing to deliver any more.
LEMMA RequeueLoads ==
    ASSUME OwnershipInv, Requeue
    PROVE  \E z, a \in Batches : a = cur /\ Moved(z, a)
<1> DEFINE d == "dispatcher"
<1>1. d \in Holders /\ pc[d] = "requeue" /\ pc[d] \in Holding
  BY ProcSets DEF Requeue, Holding
<1> PICK z \in Batches : z = hand[d]
  BY <1>1, HeldLoad
<1> PICK a \in Batches : a = cur
  BY DEF OwnershipInv, TypeOK
<1>2. /\ z # a
      /\ \A i \in 1..Len(channel) : channel[i] # z
      /\ \A g \in Holders \ {d} : hand[g] # z
      /\ Load(z) = items[z]
  BY <1>1, HeldLoad
<1>3. /\ items'[a] = items[a] \o items[z]
      /\ \A b \in Batches \ {a} : items'[b] = items[b]
      /\ UNCHANGED <<cur, hand, channel>>
  BY DEF Requeue, AppendMetrics, OwnershipInv, TypeOK, chanVars
<1>4. pc'[d] = "recycle" /\ \A g \in Holders \ {d} : pc'[g] = pc[g]
  <2>1. GoTo(d, "recycle") /\ "recycle" \in Labels
    BY DEF Requeue, Labels
  <2>2. QED
    BY <2>1, <1>1, GoToTypes, ProcSets DEF OwnershipInv, TypeOK
<1>5. Load(z)' = <<>>
  <2>1. ~Live(z)'
    BY <1>2, <1>3, <1>4 DEF Live
  <2>2. QED
    BY <2>1 DEF Load
<1>6. ASSUME NEW b \in Batches \ {z}
      PROVE  Live(b)' <=> Live(b)
  BY <1>3, <1>4 DEF Live
<1>7. Load(a)' = Load(a) \o Load(z)
  <2>1. Live(a) /\ Live(a)'
    BY <1>2, <1>6 DEF Live
  <2>2. QED
    BY <2>1, <1>2, <1>3 DEF Load
<1>8. \A b \in Batches \ {a, z} : Load(b)' = Load(b)
  BY <1>3, <1>6 DEF Load
<1>9. QED
  BY <1>2, <1>5, <1>7, <1>8 DEF Moved, Requeue, outcome

\* A send has ended: whatever came of it, the batch has nothing to deliver.
LEMMA SettleLoads ==
    ASSUME OwnershipInv, NEW h \in Holders, pc[h] \in {"send", "doomed"},
           NEW got \in SUBSET Range(items[hand[h]]), SettleBatch(h, got),
           ~NetworkFails /\ ~cancelled => got = Range(items[hand[h]]),
           UNCHANGED <<cancelled, collectVars, batchVars, chanVars>>,
           GoTo(h, "recycle")
    PROVE  \E z \in Batches : \E g \in SUBSET Carried(z) : Emptied(z, g)
<1>1. pc[h] \in Holding
  BY DEF Holding
<1> PICK z \in Batches : z = hand[h]
  BY <1>1, HeldLoad
<1>2. /\ z # cur
      /\ \A i \in 1..Len(channel) : channel[i] # z
      /\ \A g \in Holders \ {h} : hand[g] # z
      /\ Load(z) = items[z]
  BY <1>1, HeldLoad
<1>3. pc'[h] = "recycle" /\ \A g \in Holders \ {h} : pc'[g] = pc[g]
  <2>1. "recycle" \in Labels
    BY DEF Labels
  <2>2. QED
    BY <2>1, GoToTypes, ProcSets DEF OwnershipInv, TypeOK
<1>4. UNCHANGED <<cur, items, hand, channel>>
  BY DEF batchVars, chanVars
<1>5. Load(z)' = <<>>
  <2>1. ~Live(z)'
    BY <1>2, <1>3, <1>4 DEF Live
  <2>2. QED
    BY <2>1 DEF Load
<1>6. ASSUME NEW b \in Batches \ {z}
      PROVE  Load(b)' = Load(b)
  <2>1. Live(b)' <=> Live(b)
    BY <1>3, <1>4 DEF Live
  <2>2. QED
    BY <2>1, <1>4 DEF Load
<1>7. Carried(z) = Range(items[hand[h]])
  BY <1>2 DEF Carried
<1>8. Emptied(z, got)
  BY <1>5, <1>6, <1>7 DEF Emptied, SettleBatch
<1>9. QED
  BY <1>7, <1>8

\* Every step of every goroutine has one of the five effects, and only Cancel
\* changes cancelled.
LEMMA StepEffect ==
    ASSUME OwnershipInv, GatheredIsYoungest, DoomedIsCancelled, [Next]_vars
    PROVE  Effect /\ (UNCHANGED cancelled \/ (Quiet /\ Cancel))
<1>1. CASE Cancel \/ UNCHANGED vars
  <2>1. UNCHANGED <<batchVars, pc, channel>> /\ Quiet
    <3>1. UNCHANGED <<batchVars, pc, channel, collectVars, outcome>>
      BY <1>1 DEF Cancel, vars, chanVars
    <3>2. LoadsKept
      BY <3>1 DEF LoadsKept, Load, Live, batchVars
    <3>3. QED
      BY <3>1, <3>2 DEF Quiet
  <2>2. QED
    BY <1>1, <2>1 DEF Effect, vars
<1>2. ASSUME NEW c \in Collectors, CollectorStep(c)
      PROVE  Effect /\ UNCHANGED cancelled
  <2>1. c \in Procs /\ c \notin Holders
    BY ProcSets
  <2>2. CASE CollectTick(c)
    <3>1. GoTo(c, "append") /\ "append" \in Labels /\ UNCHANGED <<batchVars, channel>>
      BY <2>2 DEF CollectTick, Labels, chanVars
    <3>2. LoadsKept
      BY <2>1, <3>1, QuietLoads
    <3>3. gathered[c] = <<>>
      BY <2>2 DEF CollectTick, GatheredIsYoungest
    <3>4. Taken(c) \/ Quiet
      BY <2>2, <3>2, <3>3 DEF CollectTick, Taken, Quiet, collectVars
    <3>5. QED
      BY <2>2, <3>4 DEF CollectTick, Effect
  <2>3. CASE CollectAppend(c)
    BY <2>3, AppendLoads DEF CollectAppend, Effect
  <2>4. CASE CollectStop(c)
    <3>1. GoTo(c, "exited") /\ "exited" \in Labels /\ UNCHANGED <<batchVars, channel>>
      BY <2>4 DEF CollectStop, Labels, chanVars
    <3>2. LoadsKept
      BY <2>1, <3>1, QuietLoads
    <3>3. QED
      BY <2>4, <3>2 DEF CollectStop, Effect, Quiet
  <2>5. QED
    BY <1>2, <2>2, <2>3, <2>4 DEF CollectorStep
<1>3. ASSUME DispatcherStep
      PROVE  Effect /\ UNCHANGED cancelled
  <2> DEFINE d == "dispatcher"
  <2>1. d \in Procs /\ d \in Holders
    BY ProcSets
  <2>2. CASE DispatchTick
    <3>1. "offer" \in Labels \ {"recycle"} /\ pc[d] \notin Holding
      BY <2>2 DEF Labels, Holding, DispatchTick
    <3>2. LoadsKept
      BY <2>1, <2>2, <3>1, SwapLoads DEF DispatchTick, chanVars
    <3>3. QED
      BY <2>2, <3>2 DEF DispatchTick, Effect, Quiet
  <2>3. CASE DispatchStop
    <3>1. GoTo(d, "exited") /\ "exited" \in Labels \ {"recycle"} /\ pc[d] # "recycle"
      BY <2>3 DEF DispatchStop, Labels
    <3>2. LoadsKept
      BY <2>1, <2>3, <3>1, QuietLoads DEF DispatchStop
    <3>3. QED
      BY <2>3, <3>2 DEF DispatchStop, Effect, Quiet
  <2>4. CASE OfferSend
    BY <2>4, SendLoads DEF OfferSend, Effect, Quiet
  <2>5. CASE OfferCancelled \/ OfferBusy
    <3>1. GoTo(d, "requeue") /\ "requeue" \in Labels \ {"recycle"} /\ pc[d] # "recycle"
      BY <2>5 DEF OfferCancelled, OfferBusy, Labels
    <3>2. LoadsKept
      BY <2>1, <2>5, <3>1, QuietLoads DEF OfferCancelled, OfferBusy, chanVars
    <3>3. QED
      BY <2>5, <3>2 DEF OfferCancelled, OfferBusy, Effect, Quiet
  <2>6. CASE Requeue
    BY <2>6, RequeueLoads DEF Requeue, Effect
  <2>7. CASE DispatcherRecycle
    <3>1. PICK l \in Labels \ Holding : GoTo(d, l)
      BY <2>7 DEF DispatcherRecycle, Labels, Holding
    <3>2. LoadsKept
      BY <2>1, <2>7, <3>1, RecycleLoads DEF DispatcherRecycle
    <3>3. QED
      BY <2>7, <3>2 DEF DispatcherRecycle, Effect, Quiet
  <2>8. QED
    BY <1>3, <2>2, <2>3, <2>4, <2>5, <2>6, <2>7 DEF DispatcherStep
<1>4. ASSUME NEW w \in Workers, WorkerStep(w)
      PROVE  Effect /\ UNCHANGED cancelled
  <2>1. w \in Procs /\ w \in Holders
    BY ProcSets
  <2>2. CASE Receive(w)
    BY <2>2, ReceiveLoads DEF Receive, Effect, Quiet
  <2>3. CASE WorkerExit(w)
    <3>1. GoTo(w, "exited") /\ "exited" \in Labels \ {"recycle"} /\ pc[w] # "recycle"
      BY <2>3 DEF WorkerExit, Labels
    <3>2. LoadsKept
      BY <2>1, <2>3, <3>1, QuietLoads DEF WorkerExit, chanVars
    <3>3. QED
      BY <2>3, <3>2 DEF WorkerExit, Effect, Quiet
  <2>4. CASE SendFinished(w)
    <3>1. PICK got \in SUBSET Range(items[hand[w]]) :
              /\ (pc[w] = "send" /\ ~NetworkFails /\ ~cancelled)
                    => got = Range(items[hand[w]])
              /\ SettleBatch(w, got)
      BY <2>4 DEF SendFinished
    <3>2. /\ pc[w] \in {"send", "doomed"}
          /\ ~NetworkFails /\ ~cancelled => got = Range(items[hand[w]])
      BY <2>4, <3>1 DEF SendFinished, DoomedIsCancelled
    <3>3. \E z \in Batches : \E g \in SUBSET Carried(z) : Emptied(z, g)
      BY <2>1, <2>4, <3>1, <3>2, SettleLoads DEF SendFinished
    <3>4. QED
      BY <2>4, <3>3 DEF SendFinished, Effect
  <2>5. CASE WorkerRecycle(w)
    <3>1. "select" \in Labels \ Holding
      BY DEF Labels, Holding
    <3>2. LoadsKept
      BY <2>1, <2>5, <3>1, RecycleLoads DEF WorkerRecycle, chanVars
    <3>3. QED
      BY <2>5, <3>2 DEF WorkerRecycle, Effect, Quiet
  <2>6. QED
    BY <1>4, <2>2, <2>3, <2>4, <2>5 DEF WorkerStep
<1>5. ASSUME MainStep
      PROVE  Effect /\ UNCHANGED cancelled
  <2> DEFINE m == "main"
  <2>1. m \in Procs /\ m \in Holders
    BY ProcSets
  <2>2. CASE WaitDone
    <3>1. "send" \in Labels \ {"recycle"} /\ pc[m] \notin Holding
      BY <2>2 DEF Labels, Holding, WaitDone
    <3>2. LoadsKept
      BY <2>1, <2>2, <3>1, SwapLoads DEF WaitDone, chanVars
    <3>3. QED
      BY <2>2, <3>2 DEF WaitDone, Effect, Quiet
  <2>3. CASE FinalSend
    <3>1. PICK got \in SUBSET Range(items[hand[m]]) :
              /\ ~NetworkFails => got = Range(items[hand[m]])
              /\ SettleBatch(m, got)
      BY <2>3 DEF FinalSend
    <3>2. \E z \in Batches : \E g \in SUBSET Carried(z) : Emptied(z, g)
      BY <2>1, <2>3, <3>1, SettleLoads DEF FinalSend
    <3>3. QED
      BY <2>3, <3>2 DEF FinalSend, Effect
  <2>4. CASE FinalRecycle
    <3>1. "returned" \in Labels \ Holding
      BY DEF Labels, Holding
    <3>2. LoadsKept
      BY <2>1, <2>4, <3>1, RecycleLoads DEF FinalRecycle, chanVars
    <3>3. QED
      BY <2>4, <3>2 DEF FinalRecycle, Effect, Quiet
  <2>5. QED
    BY <1>5, <2>2, <2>3, <2>4 DEF MainStep
<1>6. QED
  BY <1>1, <1>2, <1>3, <1>4, <1>5 DEF Next, Terminated

-----------------------------------------------------------------------------
(* Every effect keeps the samples accounted for and apart.                  *)

LEMMA ConcatIndex ==
    ASSUME NEW S, NEW p \in Seq(S), NEW q \in Seq(S), NEW i \in DOMAIN (p \o q)
    PROVE  \/ i \in DOMAIN p /\ (p \o q)[i] = p[i]
           \/ \E k \in DOMAIN q : i = Len(p) + k /\ (p \o q)[i] = q[k]
<1>1. CASE i <= Len(p)
  BY <1>1
<1>2. CASE i > Len(p)
  <2>1. /\ i - Len(p) \in DOMAIN q
        /\ i = Len(p) + (i - Len(p))
        /\ (p \o q)[i] = q[i - Len(p)]
    BY <1>2
  <2>2. QED
    BY <2>1
<1>3. QED
  BY <1>1, <1>2

LEMMA ConcatRange ==
    ASSUME NEW S, NEW p \in Seq(S), NEW q \in Seq(S)
    PROVE  Range(p \o q) = Range(p) \union Range(q)
<1>1. Range(p \o q) \subseteq Range(p) \union Range(q)
  BY ConcatIndex DEF Range
<1>2. ASSUME NEW i \in DOMAIN p
      PROVE  p[i] \in Range(p \o q)
  <2>1. i \in DOMAIN (p \o q) /\ (p \o q)[i] = p[i]
    OBVIOUS
  <2>2. QED
    BY <2>1 DEF Range
<1>3. ASSUME NEW i \in DOMAIN q
      PROVE  q[i] \in Range(p \o q)
  <2>1. Len(p) + i \in DOMAIN (p \o q) /\ (p \o q)[Len(p) + i] = q[i]
    OBVIOUS
  <2>2. QED
    BY <2>1 DEF Range
<1>4. QED
  BY <1>1, <1>2, <1>3 DEF Range

\* Samples that are carried by nobody else, each once, may join a load.
LEMMA JoinKeepsOnce ==
    ASSUME OwnershipInv, CarriedOnce,
           NEW a \in Batches, NEW q \in Seq(Samples),
           \A i, j \in DOMAIN q : q[i] = q[j] => i = j,
           Load(a)' = Load(a) \o q,
           Range(q) \intersect Carried(a) = {},
           \A b \in Batches \ {a} :
              \/ Load(b)' = <<>>
              \/ Load(b)' = Load(b) /\ Range(q) \intersect Carried(b) = {}
    PROVE  CarriedOnce'
<1>1. \A b \in Batches : Load(b) \in Seq(Samples)
  BY LoadTypes
<1>2. ASSUME NEW b \in Batches, NEW i \in DOMAIN Load(b)'
      PROVE  \/ i \in DOMAIN Load(b) /\ Load(b)'[i] = Load(b)[i]
             \/ b = a /\ \E k \in DOMAIN q : i = Len(Load(a)) + k /\ Load(b)'[i] = q[k]
  <2>1. CASE b = a
    <3>1. Load(b)' = Load(a) \o q /\ i \in DOMAIN (Load(a) \o q)
      BY <2>1, <1>2
    <3>2. \/ i \in DOMAIN Load(a) /\ (Load(a) \o q)[i] = Load(a)[i]
          \/ \E k \in DOMAIN q : i = Len(Load(a)) + k /\ (Load(a) \o q)[i] = q[k]
      BY <3>1, <1>1, ConcatIndex
    <3>3. QED
      BY <2>1, <3>1, <3>2
  <2>2. CASE b # a
    BY <2>2, <1>2
  <2>3. QED
    BY <2>1, <2>2
<1>3. \A b \in Batches : \A i \in DOMAIN Load(b), k \in DOMAIN q :
          Load(b)[i] = q[k] => DOMAIN Load(b)' = {}
  <2>1. \A b \in Batches : \A i \in DOMAIN Load(b), k \in DOMAIN q :
            Load(b)[i] = q[k] => b # a /\ Load(b)' = <<>>
    BY DEF Carried, Range
  <2>2. QED
    BY <2>1
<1>4. ASSUME NEW x \in Batches, NEW y \in Batches,
             NEW i \in DOMAIN Load(x)', NEW j \in DOMAIN Load(y)',
             Load(x)'[i] = Load(y)'[j]
      PROVE  x = y /\ i = j
  <2>1. CASE i \in DOMAIN Load(x) /\ Load(x)'[i] = Load(x)[i]
    <3>1. CASE j \in DOMAIN Load(y) /\ Load(y)'[j] = Load(y)[j]
      <4>1. Load(x)[i] = Load(y)[j]
        BY <2>1, <3>1, <1>4
      <4>2. QED
        BY <2>1, <3>1, <4>1 DEF CarriedOnce
    <3>2. CASE y = a /\ \E k \in DOMAIN q : Load(y)'[j] = q[k]
      <4>1. PICK k \in DOMAIN q : Load(y)'[j] = q[k]
        BY <3>2
      <4>2. Load(x)[i] = q[k]
        BY <2>1, <4>1, <1>4
      <4>3. DOMAIN Load(x)' = {}
        BY <2>1, <4>2, <1>3
      <4>4. QED
        BY <4>3
    <3>3. QED
      BY <3>1, <3>2, <1>2
  <2>2. CASE x = a /\ \E k \in DOMAIN q : i = Len(Load(a)) + k /\ Load(x)'[i] = q[k]
    <3>1. CASE j \in DOMAIN Load(y) /\ Load(y)'[j] = Load(y)[j]
      BY <2>2, <3>1, <1>3, <1>4
    <3>2. CASE y = a /\ \E k \in DOMAIN q : j = Len(Load(a)) + k /\ Load(y)'[j] = q[k]
      BY <2>2, <3>2, <1>4
    <3>3. QED
      BY <3>1, <3>2, <1>2
  <2>3. QED
    BY <2>1, <2>2, <1>2
<1>5. QED
  BY <1>4 DEF CarriedOnce

LEMMA QuietKeeps ==
    ASSUME Accounted, CarriedOnce, PlacesDisjoint, Quiet
    PROVE  (Accounted /\ CarriedOnce /\ PlacesDisjoint)'
<1>1. \A b \in Batches : Load(b)' = Load(b) /\ Carried(b)' = Carried(b)
  BY DEF Quiet, LoadsKept, Carried
<1>2. UNCHANGED <<polls, delivered, dropped, Settled>>
      /\ \A c \in Collectors : Waiting(c)' = Waiting(c)
  BY DEF Quiet, collectVars, outcome, Settled, Waiting
<1>3. Accounted'
  BY <1>1, <1>2 DEF Accounted
<1>4. CarriedOnce'
  BY <1>1 DEF CarriedOnce
<1>5. PlacesDisjoint'
  BY <1>1, <1>2 DEF PlacesDisjoint
<1>6. QED
  BY <1>3, <1>4, <1>5

\* The sample taken is younger than all that are accounted for.
LEMMA TakenKeeps ==
    ASSUME OwnershipInv, Accounted, CarriedOnce, PlacesDisjoint,
           NEW c \in Collectors, Taken(c)
    PROVE  (Accounted /\ CarriedOnce /\ PlacesDisjoint)'
<1> DEFINE new == [src |-> c, n |-> polls[c] + 1]
<1>1. \A b \in Batches : Load(b)' = Load(b) /\ Carried(b)' = Carried(b)
  BY DEF Taken, LoadsKept, Carried
<1>2. /\ UNCHANGED <<delivered, dropped, Settled>>
      /\ Waiting(c) = {} /\ Waiting(c)' = {new}
      /\ \A d \in Collectors \ {c} : Waiting(d)' = Waiting(d)
  BY DEF Taken, outcome, Settled, Waiting, Range, OwnershipInv, TypeOK
<1>3. /\ polls[c] \in Nat /\ new \in Samples
      /\ polls'[c] = polls[c] + 1
      /\ \A d \in Collectors \ {c} : polls'[d] = polls[d]
  BY DEF Taken, OwnershipInv, TypeOK, Samples
<1>4. /\ \A d \in Collectors : new \notin Waiting(d)
      /\ \A b \in Batches : new \notin Carried(b)
      /\ new \notin Settled
  <2>1. ~(new.n <= polls[new.src])
    BY <1>3
  <2>2. QED
    BY <2>1, <1>3 DEF Accounted
<1>5. ASSUME NEW s \in Samples
      PROVE  s.n <= polls'[s.src] <=> s.n <= polls[s.src] \/ s = new
  <2>1. s.src \in Collectors /\ s.n \in Nat /\ polls[s.src] \in Nat
    BY DEF Samples, OwnershipInv, TypeOK
  <2>2. s = new <=> s.src = c /\ s.n = polls[c] + 1
    BY DEF Samples
  <2>3. QED
    BY <2>1, <2>2, <1>3
<1>6. Accounted'
  BY <1>1, <1>2, <1>5 DEF Accounted
<1>7. CarriedOnce'
  BY <1>1 DEF CarriedOnce
<1>8. PlacesDisjoint'
  BY <1>1, <1>2, <1>4 DEF PlacesDisjoint
<1>9. QED
  BY <1>6, <1>7, <1>8

\* A waiting sample is its collector's own.
LEMMA WaitingSource ==
    ASSUME GatheredIsYoungest, NEW c \in Collectors
    PROVE  /\ Waiting(c) = {} \/ Waiting(c) = {[src |-> c, n |-> polls[c]]}
           /\ \A s \in Waiting(c) : s.src = c
<1>1. CASE gathered[c] = <<>>
  BY <1>1 DEF Waiting, Range
<1>2. CASE gathered[c] # <<>>
  <2>1. gathered[c] = <<[src |-> c, n |-> polls[c]]>>
    BY <1>2 DEF GatheredIsYoungest
  <2>2. Waiting(c) = {[src |-> c, n |-> polls[c]]}
    BY <2>1 DEF Waiting, Range
  <2>3. QED
    BY <2>2
<1>3. QED
  BY <1>1, <1>2

\* The samples of a collector go from waiting to carried.
LEMMA AppendedKeeps ==
    ASSUME OwnershipInv, GatheredIsYoungest, Accounted, CarriedOnce, PlacesDisjoint,
           NEW c \in Collectors, NEW a \in Batches, Appended(c, a)
    PROVE  (Accounted /\ CarriedOnce /\ PlacesDisjoint)'
<1>1. gathered[c] \in Seq(Samples) /\ Load(a) \in Seq(Samples)
  BY LoadTypes DEF OwnershipInv, TypeOK
<1>2. /\ UNCHANGED <<polls, delivered, dropped, Settled>>
      /\ Waiting(c)' = {}
      /\ \A d \in Collectors \ {c} : Waiting(d)' = Waiting(d)
      /\ Carried(a)' = Carried(a) \union Waiting(c)
      /\ \A b \in Batches \ {a} : Carried(b)' = Carried(b)
  <2>1. Carried(a)' = Carried(a) \union Waiting(c)
    BY <1>1, ConcatRange DEF Appended, Carried, Waiting
  <2>2. \A b \in Batches \ {a} : Carried(b)' = Carried(b)
    BY DEF Appended, Carried
  <2>3. QED
    BY <2>1, <2>2 DEF Appended, outcome, Settled, Waiting, Range, OwnershipInv, TypeOK
<1>3. Accounted'
  <2>1. ASSUME NEW s \in Samples
        PROVE  (\/ \E d \in Collectors : s \in Waiting(d)'
                \/ \E b \in Batches : s \in Carried(b)')
               <=> (\/ \E d \in Collectors : s \in Waiting(d)
                    \/ \E b \in Batches : s \in Carried(b))
    BY <1>2
  <2>2. QED
    BY <1>2, <2>1 DEF Accounted
<1>4. CarriedOnce'
  <2>1. \A i, j \in DOMAIN gathered[c] : gathered[c][i] = gathered[c][j] => i = j
    <3>1. CASE gathered[c] = <<>>
      BY <3>1
    <3>2. CASE gathered[c] # <<>>
      <4>1. gathered[c] = <<[src |-> c, n |-> polls[c]]>>
        BY <3>2 DEF GatheredIsYoungest
      <4>2. \A i \in DOMAIN gathered[c] : i = 1
        BY <4>1
      <4>3. QED
        BY <4>2
    <3>3. QED
      BY <3>1, <3>2
  <2>2. \A b \in Batches : Range(gathered[c]) \intersect Carried(b) = {}
    BY DEF PlacesDisjoint, Waiting
  <2>3. /\ Load(a)' = Load(a) \o gathered[c]
        /\ \A b \in Batches \ {a} : Load(b)' = Load(b)
    BY DEF Appended
  <2>4. PICK q \in Seq(Samples) : q = gathered[c]
    BY <1>1
  <2>5. /\ \A i, j \in DOMAIN q : q[i] = q[j] => i = j
        /\ \A b \in Batches : Range(q) \intersect Carried(b) = {}
        /\ Load(a)' = Load(a) \o q
    BY <2>1, <2>2, <2>3, <2>4
  <2>6. QED
    BY <2>3, <2>5, JoinKeepsOnce
<1>5. PlacesDisjoint'
  <2>1. \A d \in Collectors \ {c} : Waiting(d) \intersect Waiting(c) = {}
    BY WaitingSource
  <2>2. ASSUME NEW d \in Collectors, NEW b \in Batches
        PROVE  Waiting(d)' \intersect Carried(b)' = {}
    BY <1>2, <2>1 DEF PlacesDisjoint
  <2>3. ASSUME NEW b \in Batches
        PROVE  Carried(b)' \intersect Settled' = {}
    BY <1>2 DEF PlacesDisjoint
  <2>4. QED
    BY <1>2, <2>2, <2>3 DEF PlacesDisjoint
<1>6. QED
  BY <1>3, <1>4, <1>5

\* One load joins another.
LEMMA MovedKeeps ==
    ASSUME OwnershipInv, Accounted, CarriedOnce, PlacesDisjoint,
           NEW z \in Batches, NEW a \in Batches, Moved(z, a)
    PROVE  (Accounted /\ CarriedOnce /\ PlacesDisjoint)'
<1>1. Load(z) \in Seq(Samples) /\ Load(a) \in Seq(Samples) /\ z # a
  BY LoadTypes DEF Moved
<1>2. /\ UNCHANGED <<polls, delivered, dropped, Settled>>
      /\ \A d \in Collectors : Waiting(d)' = Waiting(d)
      /\ Carried(a)' = Carried(a) \union Carried(z)
      /\ Carried(z)' = {}
      /\ \A b \in Batches \ {a, z} : Carried(b)' = Carried(b)
  <2>1. Carried(a)' = Carried(a) \union Carried(z)
    BY <1>1, ConcatRange DEF Moved, Carried
  <2>2. \A b \in Batches \ {a, z} : Carried(b)' = Carried(b)
    BY DEF Moved, Carried
  <2>3. Carried(z)' = {}
    BY DEF Moved, Carried, Range
  <2>4. QED
    BY <2>1, <2>2, <2>3 DEF Moved, collectVars, outcome, Settled, Waiting
<1>3. Accounted'
  <2>1. ASSUME NEW s \in Samples
        PROVE  (\E b \in Batches : s \in Carried(b)')
               <=> (\E b \in Batches : s \in Carried(b))
    BY <1>2
  <2>2. QED
    BY <1>2, <2>1 DEF Accounted
<1>4. CarriedOnce'
  <2>1. \A i, j \in DOMAIN Load(z) : Load(z)[i] = Load(z)[j] => i = j
    BY DEF CarriedOnce
  <2>2. \A b \in Batches \ {z} : Range(Load(z)) \intersect Carried(b) = {}
    BY DEF CarriedOnce, Carried, Range
  <2>3. /\ Load(a)' = Load(a) \o Load(z)
        /\ \A b \in Batches \ {a} : Load(b)' = <<>> \/ (Load(b)' = Load(b) /\ b # z)
    BY DEF Moved
  <2>4. PICK q \in Seq(Samples) : q = Load(z)
    BY <1>1
  <2>5. QED
    BY <1>1, <2>1, <2>2, <2>3, <2>4, JoinKeepsOnce
<1>5. PlacesDisjoint'
  <2>1. ASSUME NEW d \in Collectors, NEW b \in Batches
        PROVE  Waiting(d)' \intersect Carried(b)' = {}
    BY <1>2 DEF PlacesDisjoint
  <2>2. ASSUME NEW b \in Batches
        PROVE  Carried(b)' \intersect Settled' = {}
    BY <1>2 DEF PlacesDisjoint
  <2>3. QED
    BY <1>2, <2>1, <2>2 DEF PlacesDisjoint
<1>6. QED
  BY <1>3, <1>4, <1>5

\* A load is settled.
LEMMA EmptiedKeeps ==
    ASSUME OwnershipInv, Accounted, CarriedOnce, PlacesDisjoint,
           NEW z \in Batches, NEW got \in SUBSET Carried(z), Emptied(z, got)
    PROVE  (Accounted /\ CarriedOnce /\ PlacesDisjoint)'
<1>1. /\ UNCHANGED polls
      /\ Settled' = Settled \union Carried(z)
      /\ \A d \in Collectors : Waiting(d)' = Waiting(d)
      /\ Carried(z)' = {}
      /\ \A b \in Batches \ {z} : Carried(b)' = Carried(b)
  <2>1. \A b \in Batches \ {z} : Carried(b)' = Carried(b)
    BY DEF Emptied, Carried
  <2>2. Carried(z)' = {}
    BY DEF Emptied, Carried, Range
  <2>3. QED
    BY <2>1, <2>2 DEF Emptied, collectVars, Settled, Waiting
<1>2. Accounted'
  <2>1. ASSUME NEW s \in Samples
        PROVE  (s \in Settled' \/ \E b \in Batches : s \in Carried(b)')
               <=> (s \in Settled \/ \E b \in Batches : s \in Carried(b))
    BY <1>1
  <2>2. QED
    BY <1>1, <2>1 DEF Accounted
<1>3. CarriedOnce'
  <2>1. ASSUME NEW b \in Batches
        PROVE  Load(b)' = Load(b) \/ Load(b)' = <<>>
    BY DEF Emptied
  <2>2. QED
    BY <2>1 DEF CarriedOnce
<1>4. PlacesDisjoint'
  <2>1. ASSUME NEW b \in Batches \ {z}
        PROVE  Carried(b) \intersect Carried(z) = {}
    BY DEF CarriedOnce, Carried, Range
  <2>2. \A d \in Collectors, b \in Batches : Waiting(d)' \intersect Carried(b)' = {}
    BY <1>1 DEF PlacesDisjoint
  <2>3. \A d \in Collectors : Waiting(d)' \intersect Settled' = {}
    BY <1>1 DEF PlacesDisjoint
  <2>4. \A b \in Batches : Carried(b)' \intersect Settled' = {}
    BY <1>1, <2>1 DEF PlacesDisjoint
  <2>5. delivered' \intersect dropped' = {}
    BY DEF Emptied, PlacesDisjoint, Settled
  <2>6. QED
    BY <2>2, <2>3, <2>4, <2>5 DEF PlacesDisjoint
<1>5. QED
  BY <1>2, <1>3, <1>4

LEMMA EffectKeeps ==
    ASSUME OwnershipInv, SampleInv, Effect
    PROVE  (Accounted /\ CarriedOnce /\ PlacesDisjoint)'
BY QuietKeeps, TakenKeeps, AppendedKeeps, MovedKeeps, EmptiedKeeps DEF SampleInv, Effect

-----------------------------------------------------------------------------
(* What the program counters tell.                                          *)

\* A goroutine's program counter is moved by its own steps only.
LEMMA OwnSteps ==
    ASSUME OwnershipInv, [Next]_vars, NEW p \in Procs, pc'[p] # pc[p]
    PROVE  \/ p \in Collectors /\ CollectorStep(p)
           \/ p = "dispatcher" /\ DispatcherStep
           \/ p \in Workers /\ WorkerStep(p)
           \/ p = "main" /\ MainStep
<1>1. ASSUME NEW r \in Procs, \E l \in Labels : GoTo(r, l)
      PROVE  r = p
  BY <1>1 DEF GoTo, OwnershipInv, TypeOK
<1>2. ASSUME NEW c \in Collectors, CollectorStep(c)
      PROVE  c = p
  <2>1. c \in Procs /\ \E l \in Labels : GoTo(c, l)
    BY <1>2, ProcSets DEF CollectorStep, CollectTick, CollectAppend, CollectStop, Labels
  <2>2. QED
    BY <2>1, <1>1
<1>3. ASSUME DispatcherStep
      PROVE  p = "dispatcher"
  <2>1. "dispatcher" \in Procs /\ \E l \in Labels : GoTo("dispatcher", l)
    BY <1>3, ProcSets
       DEF DispatcherStep, DispatchTick, DispatchStop, OfferSend, OfferCancelled,
           OfferBusy, Requeue, DispatcherRecycle, Labels
  <2>2. QED
    BY <2>1, <1>1
<1>4. ASSUME NEW w \in Workers, WorkerStep(w)
      PROVE  w = p
  <2>1. w \in Procs /\ \E l \in Labels : GoTo(w, l)
    BY <1>4, ProcSets
       DEF WorkerStep, Receive, WorkerExit, SendFinished, WorkerRecycle, Labels
  <2>2. QED
    BY <2>1, <1>1
<1>5. ASSUME MainStep
      PROVE  p = "main"
  <2>1. "main" \in Procs /\ \E l \in Labels : GoTo("main", l)
    BY <1>5, ProcSets DEF MainStep, WaitDone, FinalSend, FinalRecycle, Labels
  <2>2. QED
    BY <2>1, <1>1
<1>6. ~Cancel /\ ~UNCHANGED vars
  BY DEF Cancel, vars
<1>7. QED
  BY <1>2, <1>3, <1>4, <1>5, <1>6 DEF Next, Terminated

\* Only the collectors take and hold samples that are in no batch.
LEMMA CollectOnly ==
    ASSUME [Next]_vars, ~UNCHANGED collectVars
    PROVE  \E c \in Collectors : CollectorStep(c)
BY DEF Next, Cancel, DispatcherStep, DispatchTick, DispatchStop, OfferSend, OfferCancelled,
       OfferBusy, Requeue, DispatcherRecycle, WorkerStep, Receive, WorkerExit,
       SendFinished, WorkerRecycle, MainStep, WaitDone, FinalSend, FinalRecycle,
       Terminated, vars

\* A collector empties its hand in CollectAppend before it takes another sample.
LEMMA GatheredKeeps ==
    ASSUME OwnershipInv, GatheredIsYoungest, [Next]_vars
    PROVE  GatheredIsYoungest'
<1>1. ASSUME NEW c \in Collectors, CollectorStep(c)
      PROVE  GatheredIsYoungest'
  <2>1. /\ c \in Procs /\ polls[c] \in Nat
        /\ \A d \in Collectors \ {c} :
              gathered'[d] = gathered[d] /\ polls'[d] = polls[d] /\ pc'[d] = pc[d]
    BY <1>1, ProcSets DEF CollectorStep, CollectTick, CollectAppend, CollectStop, GoTo,
                          collectVars, OwnershipInv, TypeOK
  <2>2. gathered'[c] # <<>> =>
            /\ pc'[c] = "append"
            /\ polls'[c] > 0
            /\ gathered'[c] = <<[src |-> c, n |-> polls'[c]]>>
    <3>1. CASE CollectTick(c)
      <4>1. pc'[c] = "append"
        BY <3>1, <2>1 DEF CollectTick, GoTo, OwnershipInv, TypeOK
      <4>2. CASE UNCHANGED <<polls, gathered>>
        BY <3>1, <4>2 DEF CollectTick, GatheredIsYoungest
      <4>3. CASE /\ polls' = [polls EXCEPT ![c] = @ + 1]
                 /\ gathered' = [gathered EXCEPT ![c] = <<[src |-> c, n |-> polls[c] + 1]>>]
        <5>1. /\ polls'[c] = polls[c] + 1
              /\ gathered'[c] = <<[src |-> c, n |-> polls[c] + 1]>>
          BY <4>3 DEF OwnershipInv, TypeOK
        <5>2. QED
          BY <4>1, <5>1, <2>1
      <4>4. QED
        BY <3>1, <4>2, <4>3 DEF CollectTick
    <3>2. CASE CollectAppend(c)
      BY <3>2 DEF CollectAppend, OwnershipInv, TypeOK
    <3>3. CASE CollectStop(c)
      BY <3>3 DEF CollectStop, collectVars, GatheredIsYoungest
    <3>4. QED
      BY <1>1, <3>1, <3>2, <3>3 DEF CollectorStep
  <2>3. QED
    BY <2>1, <2>2 DEF GatheredIsYoungest
<1>2. ASSUME \A c \in Collectors : ~CollectorStep(c)
      PROVE  GatheredIsYoungest'
  <2>1. \A c \in Collectors : pc'[c] = pc[c]
    BY <1>2, OwnSteps, ProcSets
  <2>2. UNCHANGED collectVars
    BY <1>2, CollectOnly
  <2>3. QED
    BY <2>1, <2>2 DEF GatheredIsYoungest, collectVars
<1>3. QED
  BY <1>1, <1>2

\* Only Receive sends a worker to "doomed", and cancelled is never taken back.
LEMMA DoomedKeeps ==
    ASSUME OwnershipInv, DoomedIsCancelled, [Next]_vars,
           UNCHANGED cancelled \/ Cancel
    PROVE  DoomedIsCancelled'
<1>1. cancelled => cancelled'
  BY DEF Cancel
<1>2. ASSUME NEW w \in Workers, pc'[w] = "doomed"
      PROVE  cancelled'
  <2>1. CASE pc'[w] = pc[w]
    BY <1>1, <1>2, <2>1 DEF DoomedIsCancelled
  <2>2. CASE pc'[w] # pc[w]
    <3>1. WorkerStep(w) /\ w \in Procs
      BY <2>2, OwnSteps, ProcSets
    <3>2. QED
      BY <1>2, <3>1 DEF WorkerStep, Receive, WorkerExit, SendFinished, WorkerRecycle,
                        GoTo, OwnershipInv, TypeOK
  <2>3. QED
    BY <2>1, <2>2
<1>3. QED
  BY <1>2 DEF DoomedIsCancelled

LEMMA StepKeepsSamples ==
    ASSUME OwnershipInv, SampleInv, [Next]_vars
    PROVE  SampleInv'
<1>1. Effect /\ (UNCHANGED cancelled \/ Cancel)
  BY StepEffect DEF SampleInv
<1>2. GatheredIsYoungest' /\ DoomedIsCancelled'
  BY <1>1, GatheredKeeps, DoomedKeeps DEF SampleInv
<1>3. QED
  BY <1>1, <1>2, EffectKeeps DEF SampleInv

LEMMA InitSamples == Init => SampleInv
<1> SUFFICES ASSUME Init PROVE SampleInv
  OBVIOUS
<1>1. \A b \in Batches : Load(b) = <<>> /\ Carried(b) = {}
  BY DEF Init, Load, Carried, Range
<1>2. \A c \in Collectors : gathered[c] = <<>> /\ Waiting(c) = {} /\ polls[c] = 0
  BY DEF Init, Waiting, Range
<1>3. Settled = {} /\ delivered = {}
  BY DEF Init, Settled
<1>4. GatheredIsYoungest /\ CarriedOnce /\ PlacesDisjoint
  BY <1>1, <1>2, <1>3 DEF GatheredIsYoungest, CarriedOnce, PlacesDisjoint
<1>5. DoomedIsCancelled
  BY ProcSets DEF Init, DoomedIsCancelled
<1>6. Accounted
  <2>1. \A s \in Samples : s.src \in Collectors /\ s.n \in 1..MaxPolls
    BY DEF Samples
  <2>2. QED
    BY <1>1, <1>2, <1>3, <2>1 DEF Accounted
<1>7. QED
  BY <1>4, <1>5, <1>6 DEF SampleInv

-----------------------------------------------------------------------------
(* What the invariant says of the properties of AgentPipeline.              *)

LEMMA PendingIsCarried ==
    \A s \in Samples :
        s \in Pending <=> \/ \E c \in Collectors : s \in Waiting(c)
                          \/ \E b \in Batches : s \in Carried(b)
<1>1. \A b \in Batches : Carried(b) = IF Live(b) THEN Range(items[b]) ELSE {}
  BY DEF Carried, Load, Range
<1>2. QED
  BY <1>1 DEF Pending, Waiting

LEMMA LostFromInv ==
    ASSUME OwnershipInv, Accounted
    PROVE  NoSampleLost
<1>1. delivered \subseteq Samples /\ dropped \subseteq Samples
  BY DEF OwnershipInv, TypeOK
<1>2. Pending \subseteq Samples
  BY DEF Pending
<1>3. QED
  BY <1>1, <1>2, PendingIsCarried DEF Accounted, NoSampleLost, Collected, Settled

LEMMA TwiceFromInv ==
    ASSUME OwnershipInv, SampleInv
    PROVE  NoSampleTwice
<1> SUFFICES ASSUME NEW s \in Samples
             PROVE  LET inFlight == {b \in Batches : Live(b) /\ s \in Range(items[b])}
                        waiting == {c \in Collectors : s \in Range(gathered[c])}
                    IN /\ Cardinality(inFlight) + Cardinality(waiting) <= 1
                       /\ \A b \in inFlight : Occurrences(s, items[b]) = 1
                       /\ s \in delivered \union dropped =>
                             inFlight = {} /\ waiting = {}
                       /\ s \notin delivered \intersect dropped
  BY DEF NoSampleTwice
<1> DEFINE inFlight == {b \in Batches : Live(b) /\ s \in Range(items[b])}
           waiting == {c \in Collectors : s \in Range(gathered[c])}
<1>1. inFlight = {b \in Batches : s \in Carried(b)}
  <2>1. \A b \in Batches : Carried(b) = IF Live(b) THEN Range(items[b]) ELSE {}
    BY DEF Carried, Load, Range
  <2>2. QED
    BY <2>1
<1>2. waiting = {c \in Collectors : s \in Waiting(c)}
  BY DEF Waiting
<1>3. \A a, b \in inFlight : a = b
  BY <1>1 DEF SampleInv, CarriedOnce, Carried, Range
<1>4. \A c, d \in waiting : c = d
  BY <1>2, WaitingSource DEF SampleInv
<1>5. inFlight = {} \/ waiting = {}
  BY <1>1, <1>2 DEF SampleInv, PlacesDisjoint
<1>6. ASSUME NEW S, \A x, y \in S : x = y
      PROVE  Cardinality(S) \in {0, 1} /\ (S = {} => Cardinality(S) = 0)
  <2>1. CASE S = {}
    BY <2>1, FS_EmptySet
  <2>2. CASE S # {}
    <3>1. PICK x : S = {x}
      BY <1>6, <2>2
    <3>2. QED
      BY <3>1, FS_Singleton
  <2>3. QED
    BY <2>1, <2>2
<1>7. Cardinality(inFlight) + Cardinality(waiting) <= 1
  <2>1. /\ Cardinality(inFlight) \in {0, 1}
        /\ inFlight = {} => Cardinality(inFlight) = 0
    BY <1>3, <1>6
  <2>2. /\ Cardinality(waiting) \in {0, 1}
        /\ waiting = {} => Cardinality(waiting) = 0
    BY <1>4, <1>6
  <2>3. QED
    BY <2>1, <2>2, <1>5
<1>8. ASSUME NEW b \in inFlight
      PROVE  Occurrences(s, items[b]) = 1
  <2>1. Load(b) = items[b] /\ b \in Batches /\ s \in Range(items[b])
    BY DEF Load
  <2>2. PICK i \in DOMAIN items[b] : items[b][i] = s
    BY <2>1 DEF Range
  <2>3. \A j \in DOMAIN items[b] : items[b][j] = s => j = i
    BY <2>1, <2>2 DEF SampleInv, CarriedOnce
  <2>4. {j \in DOMAIN items[b] : items[b][j] = s} = {i}
    BY <2>2, <2>3
  <2>5. QED
    BY <2>4, FS_Singleton DEF Occurrences
<1>9. s \in delivered \union dropped => inFlight = {} /\ waiting = {}
  BY <1>1, <1>2 DEF SampleInv, PlacesDisjoint, Settled
<1>10. s \notin delivered \intersect dropped
  BY DEF SampleInv, PlacesDisjoint
<1>11. QED
  BY <1>7, <1>8, <1>9, <1>10

-----------------------------------------------------------------------------
(* The theorems about samples.                                              *)

LEMMA SpecKeepsSamples == Spec => [](OwnershipInv /\ SampleInv)
<1>1. Init => OwnershipInv /\ SampleInv
  BY InitOwnership, InitSamples
<1>2. OwnershipInv /\ SampleInv /\ [Next]_vars => (OwnershipInv /\ SampleInv)'
  BY StepKeepsOwnership, StepKeepsSamples
<1>3. QED
  BY <1>1, <1>2, PTL DEF Spec

\* A sample is held by somebody who will still send it, or settled: no
\* interleaving of swap, requeue, put and collect loses one (agent.go:49-157).
THEOREM NothingLost == Spec => []NoSampleLost
<1>1. OwnershipInv /\ SampleInv => NoSampleLost
  BY LostFromInv DEF SampleInv
<1>2. QED
  BY <1>1, SpecKeepsSamples, PTL

\* No sample is in two places that will both be sent, and none is on its way
\* again after it was settled (agent.go:103-110, safe_metrics.go).
THEOREM NothingTwice == Spec => []NoSampleTwice
<1>1. OwnershipInv /\ SampleInv => NoSampleTwice
  BY TwiceFromInv
<1>2. QED
  BY <1>1, SpecKeepsSamples, PTL

-----------------------------------------------------------------------------
(* The pipeline implements the ledger.                                      *)

\* What the effects do to the samples that are pending.
LEMMA PendingStep ==
    ASSUME OwnershipInv, OwnershipInv', SampleInv, Effect
    PROVE  \/ UNCHANGED <<Pending, outcome>>
           \/ /\ \E s \in Samples \ (Pending \union delivered \union dropped) :
                    Pending' = Pending \union {s}
              /\ UNCHANGED <<cancelled, outcome>>
           \/ \E batch \in SUBSET Pending : \E got \in SUBSET batch :
                 /\ ~NetworkFails /\ ~cancelled => got = batch
                 /\ Pending' = Pending \ batch
                 /\ delivered' = delivered \union got
                 /\ dropped' = dropped \union (batch \ got)
                 /\ UNCHANGED cancelled
<1>1. /\ Pending \subseteq Samples
      /\ \A s \in Samples :
            s \in Pending <=> \/ \E c \in Collectors : s \in Waiting(c)
                              \/ \E b \in Batches : s \in Carried(b)
  BY PendingIsCarried DEF Pending
<1>2. /\ Pending' \subseteq Samples
      /\ \A s \in Samples :
            s \in Pending' <=> \/ \E c \in Collectors : s \in Waiting(c)'
                               \/ \E b \in Batches : s \in Carried(b)'
  <2>1. \A b \in Batches : Carried(b)' = IF Live(b)' THEN Range(items[b])' ELSE {}
    BY DEF Carried, Load, Range
  <2>2. QED
    BY <2>1 DEF Pending, Waiting
<1>3. \A b \in Batches : Load(b) \in Seq(Samples) /\ Carried(b) \subseteq Samples
  BY LoadTypes
<1>4. CASE Quiet
  <2>1. \A b \in Batches : Carried(b)' = Carried(b)
    BY <1>4 DEF Quiet, LoadsKept, Carried
  <2>2. UNCHANGED outcome /\ \A c \in Collectors : Waiting(c)' = Waiting(c)
    BY <1>4 DEF Quiet, collectVars, Waiting
  <2>3. \A s \in Samples : s \in Pending' <=> s \in Pending
    BY <1>1, <1>2, <2>1, <2>2
  <2>4. Pending' = Pending
    BY <1>1, <1>2, <2>3
  <2>5. QED
    BY <2>2, <2>4
<1>5. ASSUME NEW c \in Collectors, Taken(c)
      PROVE  /\ \E s \in Samples \ (Pending \union delivered \union dropped) :
                   Pending' = Pending \union {s}
             /\ UNCHANGED <<cancelled, outcome>>
  <2>1. PICK s \in Samples : s = [src |-> c, n |-> polls[c] + 1]
    BY <1>5 DEF Taken, Samples, OwnershipInv, TypeOK
  <2>2. \A b \in Batches : Carried(b)' = Carried(b)
    BY <1>5 DEF Taken, LoadsKept, Carried
  <2>3. /\ Waiting(c) = {} /\ Waiting(c)' = {s}
        /\ \A d \in Collectors \ {c} : Waiting(d)' = Waiting(d)
    <3>1. /\ gathered[c] = <<>> /\ gathered'[c] = <<s>>
          /\ \A d \in Collectors \ {c} : gathered'[d] = gathered[d]
      BY <1>5, <2>1 DEF Taken, OwnershipInv, TypeOK
    <3>2. Range(<<s>>) = {s}
      BY DEF Range
    <3>3. QED
      BY <3>1, <3>2 DEF Waiting, Range
  <2>4. Pending' = Pending \union {s}
    <3>1. \A x \in Samples : x \in Pending' <=> x \in Pending \/ x = s
      BY <1>1, <1>2, <2>2, <2>3
    <3>2. QED
      BY <3>1, <1>1, <1>2
  <2>5. s \notin Pending \union delivered \union dropped
    <3>1. polls[c] \in Nat /\ s.src = c /\ s.n = polls[c] + 1
      BY <2>1 DEF OwnershipInv, TypeOK
    <3>2. ~(s.n <= polls[s.src])
      BY <3>1
    <3>3. QED
      BY <3>2, <1>1 DEF SampleInv, Accounted, Settled
  <2>6. QED
    BY <1>5, <2>4, <2>5 DEF Taken
<1>6. ASSUME NEW c \in Collectors, NEW a \in Batches, Appended(c, a)
      PROVE  UNCHANGED <<Pending, outcome>>
  <2>1. Carried(a)' = Carried(a) \union Waiting(c)
    <3>1. gathered[c] \in Seq(Samples)
      BY DEF OwnershipInv, TypeOK
    <3>2. QED
      BY <1>3, <1>6, <3>1, ConcatRange DEF Appended, Carried, Waiting
  <2>2. \A b \in Batches \ {a} : Carried(b)' = Carried(b)
    BY <1>6 DEF Appended, Carried
  <2>3. /\ Waiting(c)' = {}
        /\ \A d \in Collectors \ {c} : Waiting(d)' = Waiting(d)
    <3>1. gathered'[c] = <<>> /\ \A d \in Collectors \ {c} : gathered'[d] = gathered[d]
      BY <1>6 DEF Appended, OwnershipInv, TypeOK
    <3>2. QED
      BY <3>1 DEF Waiting, Range
  <2>4. \A s \in Samples : s \in Pending' <=> s \in Pending
    BY <1>1, <1>2, <2>1, <2>2, <2>3
  <2>5. Pending' = Pending
    BY <1>1, <1>2, <2>4
  <2>6. QED
    BY <1>6, <2>5 DEF Appended
<1>7. ASSUME NEW z \in Batches, NEW a \in Batches, Moved(z, a)
      PROVE  UNCHANGED <<Pending, outcome>>
  <2>1. Carried(a)' = Carried(a) \union Carried(z)
    BY <1>3, <1>7, ConcatRange DEF Moved, Carried
  <2>2. /\ \A b \in Batches \ {a, z} : Carried(b)' = Carried(b)
        /\ Carried(z)' = {}
        /\ \A d \in Collectors : Waiting(d)' = Waiting(d)
    BY <1>7 DEF Moved, Carried, Waiting, Range, collectVars
  <2>3. \A s \in Samples : s \in Pending' <=> s \in Pending
    BY <1>1, <1>2, <2>1, <2>2
  <2>4. Pending' = Pending
    BY <1>1, <1>2, <2>3
  <2>5. QED
    BY <1>7, <2>4 DEF Moved
<1>8. ASSUME NEW z \in Batches, NEW got \in SUBSET Carried(z), Emptied(z, got)
      PROVE  \E batch \in SUBSET Pending : \E g \in SUBSET batch :
                 /\ ~NetworkFails /\ ~cancelled => g = batch
                 /\ Pending' = Pending \ batch
                 /\ delivered' = delivered \union g
                 /\ dropped' = dropped \union (batch \ g)
                 /\ UNCHANGED cancelled
  <2>1. PICK batch \in SUBSET Samples : batch = Carried(z)
    BY <1>3
  <2>2. batch \subseteq Pending
    BY <2>1, <1>1
  <2>3. /\ \A b \in Batches \ {z} : Carried(b)' = Carried(b) /\ Carried(b) \intersect batch = {}
        /\ Carried(z)' = {}
    BY <1>8, <2>1 DEF Emptied, SampleInv, CarriedOnce, Carried, Range
  <2>4. \A c \in Collectors : Waiting(c)' = Waiting(c) /\ Waiting(c) \intersect batch = {}
    BY <1>8, <2>1 DEF Emptied, collectVars, SampleInv, PlacesDisjoint, Waiting
  <2>5. Pending' = Pending \ batch
    BY <1>1, <1>2, <2>1, <2>2, <2>3, <2>4
  <2>6. PICK g \in SUBSET batch : g = got
    BY <2>1
  <2>7. QED
    BY <1>8, <2>1, <2>2, <2>5, <2>6 DEF Emptied
<1>9. QED
  BY <1>4, <1>5, <1>6, <1>7, <1>8 DEF Effect

LEMMA LedgerInit == Init => Ledger!Init
<1> SUFFICES ASSUME Init PROVE Ledger!Init
  OBVIOUS
<1>1. Pending = {}
  BY DEF Init, Pending, Range
<1>2. QED
  BY <1>1 DEF Init, Ledger!Init

LEMMA LedgerStep ==
    ASSUME OwnershipInv, SampleInv, [Next]_vars
    PROVE  [Ledger!Next]_(Ledger!vars)
<1>1. Effect /\ (UNCHANGED cancelled \/ (Quiet /\ Cancel))
  BY StepEffect DEF SampleInv
<1>2. OwnershipInv'
  BY StepKeepsOwnership
<1>3. CASE UNCHANGED cancelled
  BY <1>1, <1>2, <1>3, PendingStep
     DEF Ledger!Next, Ledger!Take, Ledger!Settle, Ledger!vars, outcome
<1>4. CASE Quiet /\ Cancel
  <2>1. \A b \in Batches : Carried(b)' = Carried(b)
    BY <1>4 DEF Quiet, LoadsKept, Carried
  <2>2. UNCHANGED <<Pending, outcome>>
    <3>1. \A b \in Batches : Live(b)' <=> Live(b)
      BY <1>4 DEF Cancel, Live, batchVars, chanVars
    <3>2. QED
      BY <1>4, <3>1 DEF Cancel, Pending, collectVars, batchVars
  <2>3. QED
    BY <1>4, <2>2 DEF Cancel, Ledger!Next, Ledger!Cancel, outcome
<1>5. QED
  BY <1>1, <1>3, <1>4

\* Whatever the goroutines do, every sample is entered once, settled once, with
\* its whole batch, and given up only on a failing network or after the
\* cancellation (agent.go:35-157).
THEOREM ImplementsLedger == Spec => LedgerSpec
<1>1. OwnershipInv /\ SampleInv /\ [Next]_vars => [Ledger!Next]_(Ledger!vars)
  BY LedgerStep
<1>2. QED
  BY <1>1, LedgerInit, SpecKeepsSamples, PTL DEF Spec, LedgerSpec, Ledger!Spec

-----------------------------------------------------------------------------
(* The order of the samples in the current batch.                           *)

\* A put leaves the current batch alone: it is in nobody's hand.
LEMMA PutLeavesCurrent ==
    ASSUME OwnershipInv, NEW h \in Holders, pc[h] = "recycle", PutBatch(h)
    PROVE  items'[cur'] = items[cur]
<1>1. hand[h] \in Batches /\ hand[h] # cur
  BY HeldLoad DEF Holding
<1>2. QED
  BY <1>1 DEF PutBatch, OwnershipInv, TypeOK

\* A collector puts its sample behind older ones of its own only.
LEMMA AppendInOrder ==
    ASSUME OwnershipInv, SampleInv, NEW c \in Collectors, CollectAppend(c),
           InOrder(items[cur])
    PROVE  InOrder(items'[cur'])
<1>1. PICK q \in Seq(Samples), g \in Seq(Samples) : q = items[cur] /\ g = gathered[c]
  BY DEF OwnershipInv, TypeOK
<1>2. items'[cur'] = q \o g
  BY <1>1 DEF CollectAppend, AppendMetrics, OwnershipInv, TypeOK
<1>3. CASE g = <<>>
  BY <1>1, <1>2, <1>3
<1>4. CASE g # <<>>
  <2>1. PICK s \in Samples : g = <<s>>
    <3>1. PICK x : g = <<x>>
      BY <1>1, <1>4 DEF SampleInv, GatheredIsYoungest
    <3>2. x \in Samples
      <4>1. Len(g) = 1 /\ g[1] = x
        BY <3>1
      <4>2. QED
        BY <1>1, <4>1
    <3>3. QED
      BY <3>1, <3>2
  <2>2. s.src = c /\ s.n = polls[c] /\ s.n \in Nat /\ s.src \in Collectors
    <3>1. PICK r : r = [src |-> c, n |-> polls[c]]
      OBVIOUS
    <3>2. g = <<r>>
      BY <1>1, <1>4, <3>1 DEF SampleInv, GatheredIsYoungest
    <3>3. s = r
      BY <2>1, <3>2
    <3>4. s.n \in 1..MaxPolls /\ s.src \in Collectors
      BY DEF Samples
    <3>5. QED
      BY <3>1, <3>3, <3>4
  <2>3. s \in Waiting(c)
    BY <1>1, <2>1 DEF Waiting, Range
  <2>4. \A i \in DOMAIN q : q[i] \in Samples /\ q[i] \in Carried(cur)
    BY <1>1 DEF Carried, Load, Live, Range
  <2>5. \A i \in DOMAIN q : q[i] # s /\ q[i].n <= polls[q[i].src]
    BY <2>3, <2>4 DEF SampleInv, PlacesDisjoint, Accounted, OwnershipInv, TypeOK
  <2>6. \A i \in DOMAIN q : q[i].src = s.src => q[i].n < s.n
    <3>1. \A x \in Samples : x.src = s.src /\ x.n = s.n => x = s
      BY DEF Samples
    <3>2. \A x \in Samples : x.n \in Nat
      BY DEF Samples
    <3>3. QED
      BY <2>2, <2>4, <2>5, <3>1, <3>2
  <2>7. /\ Len(q) \in Nat
        /\ DOMAIN q = 1..Len(q)
        /\ DOMAIN (q \o g) = 1..(Len(q) + 1)
        /\ \A i \in 1..Len(q) : (q \o g)[i] = q[i]
        /\ (q \o g)[Len(q) + 1] = s
    BY <1>1, <2>1
  <2>8. ASSUME NEW i \in 1..(Len(q) + 1), NEW j \in 1..(Len(q) + 1), i < j,
               (q \o g)[i].src = (q \o g)[j].src
        PROVE  (q \o g)[i].n < (q \o g)[j].n
    <3>1. i \in 1..Len(q)
      BY <2>7, <2>8
    <3>2. CASE j = Len(q) + 1
      BY <2>6, <2>7, <2>8, <3>1, <3>2
    <3>3. CASE j # Len(q) + 1
      <4>1. j \in 1..Len(q)
        BY <2>7, <3>3
      <4>2. QED
        BY <1>1, <2>7, <2>8, <3>1, <4>1 DEF InOrder
    <3>4. QED
      BY <3>2, <3>3
  <2>9. QED
    BY <1>2, <2>7, <2>8 DEF InOrder
<1>5. QED
  BY <1>3, <1>4

LEMMA OthersInOrder ==
    ASSUME OwnershipInv, SampleInv, [Next]_vars, InOrder(items[cur])
    PROVE  Requeue \/ InOrder(items'[cur'])
<1>1. InOrder(<<>>)
  BY DEF InOrder
<1>2. CASE UNCHANGED <<cur, items>>
  BY <1>2
<1>3. ASSUME NEW c \in Collectors, CollectAppend(c)
      PROVE  InOrder(items'[cur'])
  BY <1>3, AppendInOrder
<1>4. CASE DispatchTick
  <2>1. /\ "offer" \in Labels \ {"recycle"} /\ pc["dispatcher"] \notin Holding
        /\ "dispatcher" \in Holders
    BY <1>4, ProcSets DEF Labels, Holding, DispatchTick
  <2>2. items'[cur'] = <<>>
    BY <1>4, <2>1, SwapLoads DEF DispatchTick, chanVars
  <2>3. QED
    BY <1>1, <2>2
<1>5. CASE WaitDone
  <2>1. /\ "send" \in Labels \ {"recycle"} /\ pc["main"] \notin Holding
        /\ "main" \in Holders
    BY <1>5, ProcSets DEF Labels, Holding, WaitDone
  <2>2. items'[cur'] = <<>>
    BY <1>5, <2>1, SwapLoads DEF WaitDone, chanVars
  <2>3. QED
    BY <1>1, <2>2
<1>6. ASSUME NEW h \in Holders, pc[h] = "recycle", PutBatch(h)
      PROVE  InOrder(items'[cur'])
  BY <1>6, PutLeavesCurrent
<1>7. CASE DispatcherRecycle \/ FinalRecycle \/ \E w \in Workers : WorkerRecycle(w)
  BY <1>6, <1>7, ProcSets DEF DispatcherRecycle, FinalRecycle, WorkerRecycle
<1>8. QED
  BY <1>2, <1>3, <1>4, <1>5, <1>7
     DEF Next, Cancel, CollectorStep, CollectTick, CollectStop, DispatcherStep, DispatchStop,
         OfferSend, OfferCancelled, OfferBusy, WorkerStep, Receive, WorkerExit,
         SendFinished, MainStep, FinalSend, Terminated, vars, batchVars

\* An older gauge value comes to stand behind a newer one of its collector in
\* the current batch only when a refused batch is put back (agent.go:104, 109).
THEOREM RequeueAlone == Spec => OnlyRequeueReorders
<1>1. OwnershipInv /\ SampleInv /\ [Next]_vars
         => [InOrder(items[cur]) /\ ~InOrder(items'[cur']) => Requeue]_vars
  BY OthersInOrder
<1>2. QED
  BY <1>1, SpecKeepsSamples, PTL DEF Spec, OnlyRequeueReorders

-----------------------------------------------------------------------------
(* The end of Start.                                                        *)

LEMMA InitShutdown == Init => ShutdownInv
BY ProcSets DEF Init, ShutdownInv

\* The dispatcher is the only one that closes the channel, as its last step.
LEMMA ClosedByDispatcher ==
    ASSUME OwnershipInv, ShutdownInv, [Next]_vars
    PROVE  /\ closed' <=> pc'["dispatcher"] = "exited"
           /\ closed => closed'
<1>1. "dispatcher" \in Procs /\ pc["dispatcher"] \in Labels
  BY ProcSets DEF OwnershipInv, TypeOK
<1>2. CASE ~DispatcherStep
  <2>1. pc'["dispatcher"] = pc["dispatcher"]
    BY <1>1, <1>2, OwnSteps, ProcSets
  <2>2. closed' = closed
    BY <1>2 DEF Next, Cancel, CollectorStep, CollectTick, CollectAppend, CollectStop,
           WorkerStep, Receive, WorkerExit, SendFinished, WorkerRecycle,
           MainStep, WaitDone, FinalSend, FinalRecycle, Terminated, vars, chanVars
  <2>3. QED
    BY <2>1, <2>2 DEF ShutdownInv
<1>3. CASE DispatcherStep
  <2>1. pc["dispatcher"] # "exited" /\ ~closed
    BY <1>3 DEF DispatcherStep, DispatchTick, DispatchStop, OfferSend, OfferCancelled,
                OfferBusy, Requeue, DispatcherRecycle, ShutdownInv
  <2>2. CASE DispatchStop \/ DispatcherRecycle
    BY <1>1, <2>1, <2>2 DEF DispatchStop, DispatcherRecycle, GoTo, OwnershipInv, TypeOK
  <2>3. CASE DispatchTick \/ OfferSend \/ OfferCancelled \/ OfferBusy \/ Requeue
    <3>1. closed' = closed
      BY <2>3 DEF DispatchTick, OfferSend, OfferCancelled, OfferBusy, Requeue, chanVars
    <3>2. pc'["dispatcher"] # "exited"
      BY <1>1, <2>3 DEF DispatchTick, OfferSend, OfferCancelled, OfferBusy, Requeue,
                        GoTo, OwnershipInv, TypeOK
    <3>3. QED
      BY <2>1, <3>1, <3>2
  <2>4. QED
    BY <1>3, <2>2, <2>3 DEF DispatcherStep
<1>4. QED
  BY <1>2, <1>3

\* A worker leaves a closed and drained channel, which stays so.
LEMMA DrainedStays ==
    ASSUME OwnershipInv, ShutdownInv, [Next]_vars, NEW w \in Workers,
           pc'[w] = "exited"
    PROVE  closed' /\ channel' = <<>>
<1>1. w \in Procs
  BY ProcSets
<1>2. closed /\ channel = <<>>
  <2>1. CASE pc'[w] = pc[w]
    BY <2>1 DEF ShutdownInv
  <2>2. CASE pc'[w] # pc[w]
    <3>1. WorkerStep(w)
      BY <1>1, <2>2, OwnSteps, ProcSets
    <3>2. WorkerExit(w)
      BY <1>1, <3>1 DEF WorkerStep, Receive, SendFinished, WorkerRecycle, GoTo,
                        OwnershipInv, TypeOK
    <3>3. QED
      BY <3>2 DEF WorkerExit
  <2>3. QED
    BY <2>1, <2>2
<1>3. ~DispatcherStep
  BY <1>2 DEF ShutdownInv, DispatcherStep, DispatchTick, DispatchStop, OfferSend,
              OfferCancelled, OfferBusy, Requeue, DispatcherRecycle
<1>4. channel' = channel
  BY <1>2, <1>3
     DEF Next, Cancel, CollectorStep, CollectTick, CollectAppend, CollectStop,
         WorkerStep, Receive, WorkerExit, SendFinished, WorkerRecycle,
         MainStep, WaitDone, FinalSend, FinalRecycle, Terminated, vars, chanVars
<1>5. QED
  BY <1>2, <1>4, ClosedByDispatcher

\* Start goes on when everybody else has left, and then acts alone.
LEMMA AloneAtTheEnd ==
    ASSUME OwnershipInv, ShutdownInv, [Next]_vars, pc'["main"] # "wait"
    PROVE  /\ \A p \in Procs \ {"main"} : pc'[p] = "exited"
           /\ items'[cur'] = <<>>
<1>1. "main" \in Procs /\ "main" \in Holders /\ pc \in [Procs -> Labels]
  BY ProcSets DEF OwnershipInv, TypeOK
<1>2. CASE pc["main"] = "wait"
  <2>1. MainStep
    BY <1>1, <1>2, OwnSteps, ProcSets
  <2>2. WaitDone
    BY <1>2, <2>1 DEF MainStep, FinalSend, FinalRecycle
  <2>3. "send" \in Labels \ {"recycle"} /\ pc["main"] \notin Holding
    BY <2>2 DEF Labels, Holding, WaitDone
  <2>4. items'[cur'] = <<>>
    BY <1>1, <2>2, <2>3, SwapLoads DEF WaitDone, chanVars
  <2>5. \A p \in Procs \ {"main"} : pc'[p] = pc[p]
    BY <2>2 DEF WaitDone, GoTo, OwnershipInv, TypeOK
  <2>6. QED
    BY <2>2, <2>4, <2>5 DEF WaitDone
<1>3. CASE pc["main"] # "wait"
  <2>1. /\ \A p \in Procs \ {"main"} : pc[p] = "exited"
        /\ items[cur] = <<>>
    BY <1>3 DEF ShutdownInv
  <2>2. /\ ~DispatcherStep
        /\ \A c \in Collectors : ~CollectorStep(c)
        /\ \A w \in Workers : ~WorkerStep(w)
    BY <2>1, ProcSets
       DEF DispatcherStep, DispatchTick, DispatchStop, OfferSend, OfferCancelled,
           OfferBusy, Requeue, DispatcherRecycle, CollectorStep, CollectTick,
           CollectAppend, CollectStop, WorkerStep, Receive, WorkerExit,
           SendFinished, WorkerRecycle
  <2>3. \A p \in Procs \ {"main"} : pc'[p] = pc[p]
    BY <2>2, OwnSteps
  <2>4. items'[cur'] = items[cur]
    <3>1. CASE FinalRecycle
      BY <1>1, <3>1, PutLeavesCurrent DEF FinalRecycle
    <3>2. CASE ~FinalRecycle
      BY <1>3, <2>2, <3>2
         DEF Next, Cancel, MainStep, WaitDone, FinalSend, Terminated, vars, batchVars
    <3>3. QED
      BY <3>1, <3>2
  <2>5. QED
    BY <2>1, <2>3, <2>4
<1>4. QED
  BY <1>2, <1>3

LEMMA StepKeepsShutdown ==
    ASSUME OwnershipInv, ShutdownInv, [Next]_vars
    PROVE  ShutdownInv'
<1>1. pc'["main"] \in {"wait", "send", "recycle", "returned"}
  <2>1. "main" \in Procs
    BY ProcSets
  <2>2. CASE MainStep
    BY <2>1, <2>2 DEF MainStep, WaitDone, FinalSend, FinalRecycle, GoTo, OwnershipInv, TypeOK
  <2>3. CASE ~MainStep
    BY <2>1, <2>3, OwnSteps, ProcSets DEF ShutdownInv
  <2>4. QED
    BY <2>2, <2>3
<1>2. QED
  BY <1>1, ClosedByDispatcher, DrainedStays, AloneAtTheEnd DEF ShutdownInv

\* When Start has returned nobody holds a batch, and there is no sample left to
\* be sent.
LEMMA LeftFromInv ==
    ASSUME OwnershipInv, SampleInv, ShutdownInv
    PROVE  NothingLeftBehind
<1> SUFFICES ASSUME pc["main"] = "returned"
             PROVE  Collected = delivered \union dropped /\ channel = <<>> /\ closed
  BY DEF NothingLeftBehind
<1>1. /\ \A p \in Procs \ {"main"} : pc[p] = "exited"
      /\ items[cur] = <<>>
      /\ closed
  BY ProcSets DEF ShutdownInv
<1>2. channel = <<>>
  <2>1. CASE Workers = {}
    <3>1. channel \in Seq(Batches) /\ Len(channel) = 0
      BY <2>1 DEF OwnershipInv, TypeOK
    <3>2. QED
      BY <3>1
  <2>2. CASE Workers # {}
    BY <2>2, <1>1, ProcSets DEF ShutdownInv
  <2>3. QED
    BY <2>1, <2>2
<1>3. \A h \in Holders : hand[h] = NoBatch
  BY <1>1, ProcSets DEF OwnershipInv, HandsMatchPc, Holding
<1>4. \A c \in Collectors : Waiting(c) = {}
  <2>1. \A c \in Collectors : gathered[c] = <<>>
    BY <1>1, ProcSets DEF SampleInv, GatheredIsYoungest
  <2>2. QED
    BY <2>1 DEF Waiting, Range
<1>5. \A b \in Batches : Carried(b) = {}
  <2>1. \A b \in Batches : Load(b) = <<>>
    BY <1>1, <1>2, <1>3 DEF Load, Live
  <2>2. QED
    BY <2>1 DEF Carried, Range
<1>6. delivered \subseteq Samples /\ dropped \subseteq Samples
  BY DEF OwnershipInv, TypeOK
<1>7. Collected = delivered \union dropped
  BY <1>4, <1>5, <1>6 DEF Collected, SampleInv, Accounted, Settled
<1>8. QED
  BY <1>1, <1>2, <1>7

\* When Start has returned every sample taken was settled, and nothing is left
\* in the channel, the current batch or a goroutine (agent.go:86-123).
THEOREM NothingLeft == Spec => []NothingLeftBehind
<1>1. OwnershipInv /\ ShutdownInv /\ [Next]_vars => ShutdownInv'
  BY StepKeepsShutdown
<1>2. OwnershipInv /\ SampleInv /\ ShutdownInv => NothingLeftBehind
  BY LeftFromInv
<1>3. Spec => []ShutdownInv
  BY <1>1, InitShutdown, SpecKeepsSamples, PTL DEF Spec
<1>4. QED
  BY <1>2, <1>3, SpecKeepsSamples, PTL

=============================================================================
