------------------------- MODULE RequestPathProofs -------------------------
(***************************************************************************)
(* What holds of a request on its way through the server for every set of  *)
(* requests, every number of them at the same time and every setting.      *)
(*                                                                         *)
(* The invariant speaks of one slot at a time: what the store has of a     *)
(* request is settled by where the request is in its chain.  In front of   *)
(* the handler that is nothing, in the handler it is what the loop has     *)
(* applied, behind it what the answer says.  A step of one slot leaves the *)
(* others where they are and only adds to the store.                       *)
(***************************************************************************)
EXTENDS RequestPath, FiniteSetTheorems, TLAPS

USE RequestAssumption

Ids == {"", "m1", "m2"}
Codes == {0, 200, 400, 403, 404, 500}
Bodies ==
    [layers : Seq({"gzip", "rsa", "hybrid"}),
     form : {"empty", "object", "array", "junk", "cut"}, items : Seq(MetricRecords)]
Keys == [id : Ids, type : MetricTypes]
LogEntries == [slot : Slots, n : Nat, id : Ids, type : MetricTypes]

Types ==
    /\ setting \in Settings
    /\ req \in [Slots -> Requests \union {NoRequest}]
    /\ stage \in [Slots -> Nat]
    /\ body \in [Slots -> Bodies]
    /\ status \in [Slots -> Codes]
    /\ cursor \in [Slots -> Nat]
    /\ log \in Seq(LogEntries)
    /\ audited \in SUBSET Slots
    /\ expected \in [Slots -> SUBSET Keys]
    /\ shown \in [Slots -> SUBSET Keys]

\* Where the handler stands in the chain of a request.
HandlerAt(q) == IF q.via = "http" /\ setting.chain = "production" THEN 6 ELSE 2

\* A slot a request has arrived in has one; its body is the one sent, or none.
Arrived(r) ==
    /\ req[r] = NoRequest <=> stage[r] = 0
    /\ req[r] # NoRequest =>
          \/ body[r] = NoBody
          \/ body[r].form = req[r].form /\ body[r].items = req[r].items

\* Nothing has happened in a slot no request has arrived in.
Untouched(r) ==
    stage[r] = 0 =>
        /\ body[r] = NoBody /\ status[r] = 0 /\ cursor[r] = 0
        /\ Applied(r) = {} /\ r \notin audited

\* Up to the answer of its handler a request has none, and the store has the part of
\* it that the loop over a batch has applied.
OnTheWay(r) ==
    stage[r] > 0 /\ stage[r] <= HandlerAt(req[r]) =>
        /\ status[r] = 0
        /\ Applied(r) = 1..cursor[r]
        /\ cursor[r] > 0 =>
              /\ stage[r] = HandlerAt(req[r])
              /\ req[r].via = "http" /\ req[r].path = "/updates/"
              /\ Acceptable(body[r])

\* Behind the handler there is an answer.
Past(r) == req[r] # NoRequest /\ stage[r] > HandlerAt(req[r]) => status[r] # 0

\* The loop stays within its batch.
WithinBatch(r) == cursor[r] <= Len(body[r].items)

\* A request from outside is either not looked at yet or over.
Outside(r) ==
    setting.trustedSubnet /\ req[r] # NoRequest /\ Address(req[r]) # "inside" =>
        /\ Applied(r) = {} /\ r \notin audited
        /\ stage[r] = 1 \/ stage[r] > Len(Chain(req[r]))

\* What the store has of a request is what it asks for from the first metric on.
Prefix(r) ==
    req[r] # NoRequest =>
        /\ Applied(r) \subseteq Wanted(req[r])
        /\ \A n \in Applied(r), m \in Wanted(req[r]) : m < n => m \in Applied(r)

\* The answer of an update says what the store has of it.
Tells(r) ==
    status[r] # 0 /\ IsUpdate(req[r]) =>
        Fits(req[r], status[r], Applied(r))

\* What was acknowledged before a read arrived is in the store, and in its answer.
Found(r) ==
    /\ expected[r] \subseteq KeysOf(log)
    /\ req[r] # NoRequest /\ req[r].via = "http" /\ ~setting.storeFails =>
            \A k \in expected[r] :
                Reliable(k) => Finds(req[r], body[r], k, status[r], shown[r])

SlotInv(r) ==
    /\ Arrived(r)
    /\ Untouched(r)
    /\ OnTheWay(r)
    /\ Past(r)
    /\ WithinBatch(r)
    /\ Outside(r)
    /\ Prefix(r)
    /\ Tells(r)
    /\ Found(r)

\* The metrics of a request are in the store in its order.
Ordered ==
    \A i, j \in DOMAIN log :
        i < j /\ log[i].slot = log[j].slot => log[i].n < log[j].n

RequestInv ==
    /\ Types
    /\ \A r \in Slots : SlotInv(r)
    /\ Ordered
    /\ GrpcBatchIsAtomic

-----------------------------------------------------------------------------
(* The store.                                                               *)

\* A log goes on from another one.
Extends(l, new) == \A i \in DOMAIN l : i \in DOMAIN new /\ new[i] = l[i]

\* Which metrics of a request a log has.
Of(l, r) == {l[i].n : i \in {j \in DOMAIN l : l[j].slot = r}}

\* Where the entries of a log stand once others are added at its end.
LEMMA Joined ==
    ASSUME NEW l \in Seq(LogEntries), NEW batch \in Seq(LogEntries)
    PROVE  /\ l \o batch \in Seq(LogEntries)
           /\ DOMAIN l = 1..Len(l) /\ DOMAIN batch = 1..Len(batch)
           /\ DOMAIN (l \o batch) = 1..(Len(l) + Len(batch))
           /\ Len(l) \in Nat /\ Len(batch) \in Nat
           /\ \A i \in DOMAIN l : i \in DOMAIN (l \o batch) /\ (l \o batch)[i] = l[i]
           /\ \A k \in DOMAIN batch : /\ Len(l) + k \in DOMAIN (l \o batch)
                                      /\ (l \o batch)[Len(l) + k] = batch[k]
           /\ \A i \in DOMAIN (l \o batch) :
                 i \in DOMAIN l \/ \E k \in DOMAIN batch : i = Len(l) + k
  <1> DEFINE new == l \o batch
  <1>1. /\ new \in Seq(LogEntries)
        /\ DOMAIN l = 1..Len(l) /\ DOMAIN batch = 1..Len(batch)
        /\ DOMAIN new = 1..(Len(l) + Len(batch))
        /\ Len(l) \in Nat /\ Len(batch) \in Nat
    OBVIOUS
  <1>2. \A i \in DOMAIN l : i \in DOMAIN new /\ new[i] = l[i]
    OBVIOUS
  <1>3. \A k \in DOMAIN batch : Len(l) + k \in DOMAIN new /\ new[Len(l) + k] = batch[k]
    OBVIOUS
  <1>4. \A i \in DOMAIN new : i \in DOMAIN l \/ \E k \in DOMAIN batch : i = Len(l) + k
    <2> SUFFICES ASSUME NEW i \in DOMAIN new, i \notin DOMAIN l
                 PROVE  \E k \in DOMAIN batch : i = Len(l) + k
      OBVIOUS
    <2>1. i \in Nat /\ i > Len(l) /\ i <= Len(l) + Len(batch)
      BY <1>1
    <2>2. i - Len(l) \in DOMAIN batch /\ i = Len(l) + (i - Len(l))
      BY <2>1, <1>1
    <2> QED BY <2>2
  <1> QED BY <1>1, <1>2, <1>3, <1>4

\* Entries of one request added at the end of the store's log: nothing is lost, the
\* other requests have what they had, and this one has the new ones as well.
LEMMA LogGrows ==
    ASSUME NEW l \in Seq(LogEntries), NEW batch \in Seq(LogEntries), NEW r \in Slots,
           \A k \in DOMAIN batch : batch[k].slot = r
    PROVE  /\ l \o batch \in Seq(LogEntries)
           /\ Extends(l, l \o batch)
           /\ \A u \in Slots \ {r} : Of(l \o batch, u) = Of(l, u)
           /\ Of(l \o batch, r) = Of(l, r) \union {batch[k].n : k \in DOMAIN batch}
  <1> DEFINE new == l \o batch
  <1>1. new \in Seq(LogEntries)
    OBVIOUS
  <1>2. \A i \in DOMAIN l : i \in DOMAIN new /\ new[i] = l[i]
    BY Joined
  <1>3. \A k \in DOMAIN batch : Len(l) + k \in DOMAIN new /\ new[Len(l) + k] = batch[k]
    BY Joined
  <1>4. \A i \in DOMAIN new : i \in DOMAIN l \/ \E k \in DOMAIN batch : i = Len(l) + k
    BY Joined
  <1>5. Extends(l, new)
    BY <1>2 DEF Extends
  <1> HIDE DEF new
  <1>6. ASSUME NEW u \in Slots \ {r} PROVE Of(new, u) = Of(l, u)
    <2>1. \A x : x \in Of(l, u) => x \in Of(new, u)
      BY <1>2 DEF Of
    <2>2. \A x : x \in Of(new, u) => x \in Of(l, u)
      BY <1>2, <1>3, <1>4 DEF Of
    <2> QED BY <2>1, <2>2
  <1>7. Of(new, r) = Of(l, r) \union {batch[k].n : k \in DOMAIN batch}
    <2>1. \A x : x \in Of(l, r) => x \in Of(new, r)
      BY <1>2 DEF Of
    <2>2. \A k \in DOMAIN batch : batch[k].n \in Of(new, r)
      BY <1>3 DEF Of
    <2>3. \A x : x \in Of(new, r) => x \in Of(l, r) \union {batch[k].n : k \in DOMAIN batch}
      BY <1>2, <1>3, <1>4 DEF Of
    <2> QED BY <2>1, <2>2, <2>3
  <1> QED BY <1>1, <1>5, <1>6, <1>7 DEF new

-----------------------------------------------------------------------------
(* The chain.                                                               *)

\* Where each step of a chain stands: in front of the handler, at it or behind it; and
\* who is past the subnet check is admitted.
LEMMA Positions ==
    ASSUME Types, NEW r \in Slots, SlotInv(r), NEW name, At(r, name)
    PROVE  /\ req[r] \in Requests /\ stage[r] > 0 /\ stage[r] <= Len(Chain(req[r]))
           /\ HandlerAt(req[r]) <= Len(Chain(req[r]))
           /\ name \in {"subnet", "gunzip", "decrypt", "audit", "checkhash"}
                => stage[r] < HandlerAt(req[r])
           /\ name = "handler" => stage[r] = HandlerAt(req[r]) /\ req[r].via = "http"
           /\ name = "service" => stage[r] = HandlerAt(req[r]) /\ req[r].via = "grpc"
           /\ name = "addhash" => stage[r] > HandlerAt(req[r])
           /\ name # "subnet" => Admitted(req[r])
           /\ name # "subnet" => stage[r] # 1
  <1> DEFINE q == req[r]
             p == stage[r]
  <1>1. p \in Nat /\ p > 0 /\ p <= Len(Chain(q)) /\ Chain(q)[p] = name
    BY DEF At, Types
  <1>2. q \in Requests /\ q.via \in {"http", "grpc"} /\ setting.chain \in {"production", "handlers"}
    <2>1. q \in Requests
      BY <1>1 DEF Types, SlotInv, Arrived
    <2>2. q \in RequestRecords /\ setting \in SettingRecords
      BY <2>1 DEF Types
    <2> QED BY <2>1, <2>2 DEF RequestRecords, SettingRecords
  <1>6. p # 1 => Admitted(q)
    <2>1. q # NoRequest /\ Outside(r)
      BY <1>2 DEF SlotInv
    <2> QED BY <2>1, <1>1 DEF Outside, Admitted
  <1> HIDE DEF q, p
  <1> SUFFICES
        /\ q \in Requests /\ p > 0 /\ p <= Len(Chain(q)) /\ HandlerAt(q) <= Len(Chain(q))
        /\ name \in {"subnet", "gunzip", "decrypt", "audit", "checkhash"} => p < HandlerAt(q)
        /\ name = "handler" => p = HandlerAt(q) /\ q.via = "http"
        /\ name = "service" => p = HandlerAt(q) /\ q.via = "grpc"
        /\ name = "addhash" => p > HandlerAt(q)
        /\ name # "subnet" => Admitted(q)
        /\ name # "subnet" => p # 1
    BY DEF q, p
  <1>3. CASE q.via = "grpc"
    <2>1. Chain(q) = <<"subnet", "service">> /\ HandlerAt(q) = 2
      BY <1>3 DEF Chain, HandlerAt
    <2>2. p \in {1, 2} /\ Len(Chain(q)) = 2
      BY <2>1, <1>1
    <2>3. \/ p = 1 /\ name = "subnet"
          \/ p = 2 /\ name = "service"
      BY <2>1, <2>2, <1>1
    <2>4. name # "subnet" => p # 1 /\ Admitted(q)
      BY <2>3, <1>6
    <2> QED BY <2>1, <2>2, <2>3, <2>4, <1>1, <1>2, <1>3
  <1>4. CASE q.via = "http" /\ setting.chain = "production"
    <2>1. /\ Chain(q) = <<"subnet", "gunzip", "decrypt", "audit", "checkhash", "handler",
                          "addhash">>
          /\ HandlerAt(q) = 6
      BY <1>4 DEF Chain, HandlerAt
    <2>2. p \in 1..7 /\ Len(Chain(q)) = 7
      BY <2>1, <1>1
    <2>3. \/ p = 1 /\ name = "subnet"
          \/ p = 2 /\ name = "gunzip"
          \/ p = 3 /\ name = "decrypt"
          \/ p = 4 /\ name = "audit"
          \/ p = 5 /\ name = "checkhash"
          \/ p = 6 /\ name = "handler"
          \/ p = 7 /\ name = "addhash"
      BY <2>1, <2>2, <1>1
    <2>4. name # "subnet" => p # 1 /\ Admitted(q)
      BY <2>3, <1>6
    <2> QED BY <2>1, <2>2, <2>3, <2>4, <1>1, <1>2, <1>4
  <1>5. CASE q.via = "http" /\ setting.chain # "production"
    <2>1. Chain(q) = <<"subnet", "handler">> /\ HandlerAt(q) = 2
      BY <1>5 DEF Chain, HandlerAt
    <2>2. p \in {1, 2} /\ Len(Chain(q)) = 2
      BY <2>1, <1>1
    <2>3. \/ p = 1 /\ name = "subnet"
          \/ p = 2 /\ name = "handler"
      BY <2>1, <2>2, <1>1
    <2>4. name # "subnet" => p # 1 /\ Admitted(q)
      BY <2>3, <1>6
    <2> QED BY <2>1, <2>2, <2>3, <2>4, <1>1, <1>2, <1>5
  <1> QED BY <1>2, <1>3, <1>4, <1>5

\* What can be relied on after a step could be before, and is still in the store.
LEMMA ReliableBefore ==
    ASSUME Extends(log, log'), setting' = setting, NEW k
    PROVE  (Reliable(k)' => Reliable(k)) /\ KeysOf(log) \subseteq KeysOf(log)'
  <1>1. \A i \in DOMAIN log : i \in DOMAIN log' /\ log'[i] = log[i]
    BY DEF Extends
  <1>2. Reliable(k)' => Reliable(k)
    BY <1>1 DEF Reliable
  <1>3. KeysOf(log) \subseteq KeysOf(log)'
    BY <1>1 DEF KeysOf
  <1> QED BY <1>2, <1>3

\* A read has found what it must when the answer it has by now does.
LEMMA FoundNow ==
    ASSUME NEW r \in Slots, Found(r), Extends(log, log'), setting' = setting,
           req'[r] = req[r], expected'[r] = expected[r],
           req[r] # NoRequest /\ req[r].via = "http" /\ ~setting.storeFails =>
               \A k \in expected[r] :
                   Reliable(k) => Finds(req[r], body'[r], k, status'[r], shown'[r])
    PROVE  Found(r)'
  <1>1. expected'[r] \subseteq KeysOf(log)'
    BY ReliableBefore DEF Found
  <1>2. req'[r] # NoRequest /\ req'[r].via = "http" /\ ~setting'.storeFails =>
            \A k \in expected'[r] :
                Reliable(k)' => Finds(req'[r], body'[r], k, status'[r], shown'[r])
    BY ReliableBefore
  <1> QED BY <1>1, <1>2 DEF Found

\* Without an answer, or with a refusal, nothing is said of a metric.
LEMMA SilentFinds ==
    ASSUME NEW q, NEW b, NEW k, NEW code, code \notin {200, 404}, NEW page
    PROVE  Finds(q, b, k, code, page)
  BY DEF Finds

LEMMA SameLog == ASSUME log' = log PROVE Extends(log, log') /\ KeysOf(log)' = KeysOf(log)
  BY DEF Extends, KeysOf

\* A slot a step does not touch keeps its invariant, for the store only grows.
LEMMA SlotFrame ==
    ASSUME NEW u \in Slots, SlotInv(u), setting' = setting,
           req'[u] = req[u], stage'[u] = stage[u], body'[u] = body[u],
           status'[u] = status[u], cursor'[u] = cursor[u], expected'[u] = expected[u],
           shown'[u] = shown[u], u \in audited' <=> u \in audited,
           Applied(u)' = Applied(u), Extends(log, log')
    PROVE  SlotInv(u)'
  <1>1. Arrived(u)' /\ Untouched(u)' /\ WithinBatch(u)' /\ Prefix(u)' /\ Past(u)'
    BY DEF SlotInv, Arrived, Untouched, WithinBatch, Prefix, Past, HandlerAt
  <1>2. OnTheWay(u)'
    BY DEF SlotInv, OnTheWay, HandlerAt
  <1>3. Outside(u)'
    BY DEF SlotInv, Outside, Chain
  <1>4. Tells(u)'
    BY DEF SlotInv, Tells, Fits
  <1>5. Found(u)'
    <2>1. Found(u)
      BY DEF SlotInv
    <2>2. req[u] # NoRequest /\ req[u].via = "http" /\ ~setting.storeFails =>
              \A k \in expected[u] :
                  Reliable(k) => Finds(req[u], body'[u], k, status'[u], shown'[u])
      BY <2>1 DEF Found
    <2> QED BY <2>1, <2>2, FoundNow
  <1> QED BY <1>1, <1>2, <1>3, <1>4, <1>5 DEF SlotInv

-----------------------------------------------------------------------------
(* What a step does to its own slot: a request arrives, passes a step of its *)
(* chain, is refused, is answered, or has one more metric of its batch        *)
(* applied.                                                                   *)

\* A request that has just arrived has had no effect.
LEMMA Arriving ==
    ASSUME Types, NEW r \in Slots, SlotInv(r), stage[r] = 0, NEW q \in Requests,
           setting' = setting, req'[r] = q, stage'[r] = 1, status'[r] = status[r],
           body'[r] = [layers |-> q.layers, form |-> q.form, items |-> q.items],
           cursor'[r] = cursor[r], audited' = audited, log' = log,
           expected'[r] \subseteq KeysOf(log)
    PROVE  SlotInv(r)'
  <1>1. /\ q # NoRequest /\ q \in RequestRecords /\ HandlerAt(q) \in {2, 6}
        /\ Len(q.items) \in Nat
    <2>1. q # NoRequest /\ q \in RequestRecords /\ HandlerAt(q) \in {2, 6}
      BY DEF HandlerAt
    <2>2. q.items \in Seq(MetricRecords)
      BY <2>1 DEF RequestRecords
    <2> QED BY <2>1, <2>2
  <1>2. status[r] = 0 /\ cursor[r] = 0 /\ Applied(r) = {} /\ r \notin audited
    BY DEF SlotInv, Untouched
  <1>3. Applied(r)' = Applied(r) /\ KeysOf(log)' = KeysOf(log) /\ HandlerAt(q)' = HandlerAt(q)
    BY DEF Applied, KeysOf, HandlerAt
  <1>4. Arrived(r)' /\ Untouched(r)' /\ WithinBatch(r)' /\ Prefix(r)' /\ Outside(r)'
    BY <1>1, <1>2, <1>3 DEF Arrived, Untouched, WithinBatch, Prefix, Outside
  <1>5. OnTheWay(r)' /\ Past(r)'
    BY <1>1, <1>2, <1>3 DEF OnTheWay, Past
  <1>6. Tells(r)'
    BY <1>2 DEF Tells
  <1>7. Found(r)'
    <2>1. \A k : Finds(q, body'[r], k, 0, shown'[r])
      BY SilentFinds
    <2> QED BY <2>1, <1>2, <1>3 DEF Found
  <1> QED BY <1>4, <1>5, <1>6, <1>7 DEF SlotInv

\* A step of the chain hands a request on: with its body or without one in front of
\* the handler, as it is behind the handler.
LEMMA Passing ==
    ASSUME Types, NEW r \in Slots, SlotInv(r), req[r] \in Requests, stage[r] > 0,
           Admitted(req[r]), NEW b \in Bodies,
           \/ /\ stage[r] < HandlerAt(req[r])
              /\ \/ b \in {NoBody, body[r]}
                 \/ /\ body[r] # NoBody
                    /\ b.form = body[r].form /\ b.items = body[r].items
           \/ /\ stage[r] > HandlerAt(req[r])
              /\ b = body[r],
           setting' = setting, req'[r] = req[r], stage'[r] = stage[r] + 1, body'[r] = b,
           status'[r] = status[r], cursor'[r] = cursor[r], expected'[r] = expected[r],
           shown'[r] = shown[r], log' = log
    PROVE  SlotInv(r)'
  <1>1. /\ stage[r] \in Nat /\ stage'[r] # 0 /\ stage'[r] > 0
        /\ HandlerAt(req[r]) \in {2, 6} /\ req[r] # NoRequest
    BY DEF Types, HandlerAt
  <1>2. Applied(r)' = Applied(r) /\ Extends(log, log')
    BY SameLog DEF Applied
  <1>3. HandlerAt(req[r])' = HandlerAt(req[r])
    BY DEF HandlerAt
  <1>4. Arrived(r)' /\ Untouched(r)' /\ Prefix(r)' /\ Tells(r)'
    <2>1. Arrived(r)' /\ Untouched(r)'
      BY <1>1 DEF SlotInv, Arrived, Untouched, NoBody
    <2>2. Prefix(r)' /\ Tells(r)'
      BY <1>2 DEF SlotInv, Prefix, Tells, Fits
    <2> QED BY <2>1, <2>2
  <1>5. Outside(r)'
    BY DEF Outside, Admitted
  <1>6. CASE stage[r] < HandlerAt(req[r])
    <2>1. status[r] = 0 /\ cursor[r] = 0 /\ Applied(r) = 1..0
      <3>1. /\ status[r] = 0 /\ Applied(r) = 1..cursor[r]
            /\ cursor[r] > 0 => stage[r] = HandlerAt(req[r])
        BY <1>1, <1>6 DEF SlotInv, OnTheWay
      <3>2. cursor[r] \in Nat
        BY DEF Types
      <3>3. cursor[r] = 0
        BY <3>1, <3>2, <1>1, <1>6
      <3> QED BY <3>1, <3>3
    <2>2. Len(b.items) \in Nat
      BY DEF Bodies
    <2>3. WithinBatch(r)'
      BY <2>1, <2>2 DEF WithinBatch
    <2>4. Past(r)'
      BY <1>1, <1>3, <1>6 DEF Past
    <2>5. OnTheWay(r)'
      BY <2>1, <1>1, <1>2, <1>3 DEF OnTheWay
    <2>6. Found(r)'
      <3>1. \A k : Finds(req[r], body'[r], k, status'[r], shown'[r])
        BY <2>1, SilentFinds
      <3> QED BY <3>1, <1>2, FoundNow DEF SlotInv
    <2> QED BY <1>4, <1>5, <2>3, <2>4, <2>5, <2>6 DEF SlotInv
  <1>7. CASE stage[r] > HandlerAt(req[r])
    <2>1. b = body[r]
      BY <1>7, <1>1
    <2>2. WithinBatch(r)'
      BY <2>1 DEF SlotInv, WithinBatch
    <2>3. Past(r)'
      BY <1>1, <1>3, <1>7 DEF SlotInv, Past
    <2>4. OnTheWay(r)'
      BY <1>1, <1>3, <1>7 DEF OnTheWay
    <2>5. Found(r)'
      <3>1. /\ Found(r)
            /\ req[r] # NoRequest /\ req[r].via = "http" /\ ~setting.storeFails =>
                  \A k \in expected[r] :
                      Reliable(k) => Finds(req[r], body'[r], k, status'[r], shown'[r])
        BY <2>1 DEF SlotInv, Found
      <3> QED BY <3>1, <1>2, FoundNow
    <2> QED BY <1>4, <1>5, <2>2, <2>3, <2>4, <2>5 DEF SlotInv
  <1> QED BY <1>6, <1>7

\* A refusal in front of the handler ends a request that has had no effect.
LEMMA Refusing ==
    ASSUME Types, NEW r \in Slots, SlotInv(r), req[r] \in Requests, stage[r] > 0,
           stage[r] < HandlerAt(req[r]), HandlerAt(req[r]) <= Len(Chain(req[r])),
           Len(Chain(req[r])) \in Nat, NEW code \in {400, 403},
           setting' = setting, req'[r] = req[r], stage'[r] = Len(Chain(req[r])) + 1,
           body'[r] = body[r], status'[r] = code, cursor'[r] = cursor[r],
           expected'[r] = expected[r], log' = log, audited' = audited
    PROVE  SlotInv(r)'
  <1>1. /\ stage[r] \in Nat /\ HandlerAt(req[r]) \in {2, 6} /\ req[r] # NoRequest
        /\ cursor[r] \in Nat
    BY DEF Types, HandlerAt
  <1>2. Applied(r)' = Applied(r) /\ Extends(log, log')
    BY SameLog DEF Applied
  <1>3. HandlerAt(req[r])' = HandlerAt(req[r]) /\ Chain(req[r])' = Chain(req[r])
    BY DEF HandlerAt, Chain
  <1>4. Applied(r) = {}
    <2>1. /\ Applied(r) = 1..cursor[r]
          /\ cursor[r] > 0 => stage[r] = HandlerAt(req[r])
      BY <1>1 DEF SlotInv, OnTheWay
    <2>2. cursor[r] = 0
      BY <2>1, <1>1
    <2> QED BY <2>1, <2>2
  <1>5. stage'[r] > HandlerAt(req[r]) /\ stage'[r] > Len(Chain(req[r])) /\ stage'[r] # 0
    BY <1>1
  <1>6. Arrived(r)' /\ Untouched(r)' /\ WithinBatch(r)'
    BY <1>1, <1>5 DEF SlotInv, Arrived, Untouched, WithinBatch
  <1>7. Outside(r)'
    BY <1>2, <1>3, <1>5 DEF SlotInv, Outside
  <1>8. OnTheWay(r)' /\ Past(r)'
    <2>1. ~(stage'[r] <= HandlerAt(req[r]))
      BY <1>1
    <2> QED BY <2>1, <1>3 DEF OnTheWay, Past
  <1>9. Prefix(r)' /\ Tells(r)'
    BY <1>2, <1>4 DEF SlotInv, Prefix, Tells, Fits
  <1>10. Found(r)'
    <2>1. \A k : Finds(req[r], body'[r], k, status'[r], shown'[r])
      BY SilentFinds
    <2> QED BY <2>1, <1>2, FoundNow DEF SlotInv
  <1> QED BY <1>6, <1>7, <1>8, <1>9, <1>10 DEF SlotInv

\* The handler answers: what the store has of the request is a part of it from the
\* first metric on, the answer says how much, and a read has found what it must.
LEMMA Answering ==
    ASSUME Types, NEW r \in Slots, SlotInv(r), req[r] \in Requests, Admitted(req[r]),
           stage[r] = HandlerAt(req[r]), NEW code \in Codes \ {0},
           setting' = setting, req'[r] = req[r], stage'[r] = stage[r] + 1,
           body'[r] = body[r], status'[r] = code, cursor'[r] = cursor[r],
           expected'[r] = expected[r], Extends(log, log'),
           Applied(r)' \subseteq Wanted(req[r]),
           \A n \in Applied(r)', m \in Wanted(req[r]) : m < n => m \in Applied(r)',
           IsUpdate(req[r]) => Fits(req[r], code, Applied(r)'),
           req[r].via = "http" /\ ~setting.storeFails =>
               \A k \in expected[r] :
                   Reliable(k) => Finds(req[r], body[r], k, code, shown'[r])
    PROVE  SlotInv(r)'
  <1>1. /\ stage[r] \in Nat /\ HandlerAt(req[r]) \in {2, 6} /\ req[r] # NoRequest
        /\ HandlerAt(req[r])' = HandlerAt(req[r])
    BY DEF Types, HandlerAt
  <1>2. stage'[r] # 0 /\ stage'[r] > HandlerAt(req[r]) /\ ~(stage'[r] <= HandlerAt(req[r]))
    BY <1>1
  <1>3. Arrived(r)' /\ Untouched(r)' /\ WithinBatch(r)'
    BY <1>1, <1>2 DEF SlotInv, Arrived, Untouched, WithinBatch
  <1>4. OnTheWay(r)' /\ Past(r)'
    BY <1>1, <1>2 DEF OnTheWay, Past
  <1>5. Outside(r)'
    BY DEF Outside, Admitted
  <1>6. Prefix(r)'
    BY DEF Prefix
  <1>7. Tells(r)'
    BY DEF Tells, Fits
  <1>8. Found(r)'
    BY FoundNow DEF SlotInv
  <1> QED BY <1>3, <1>4, <1>5, <1>6, <1>7, <1>8 DEF SlotInv

\* The handler answers without having given the store anything more.
LEMMA AnsweringOnly ==
    ASSUME Types, NEW r \in Slots, SlotInv(r), req[r] \in Requests, Admitted(req[r]),
           stage[r] = HandlerAt(req[r]), NEW code \in Codes \ {0},
           setting' = setting, req'[r] = req[r], stage'[r] = stage[r] + 1,
           body'[r] = body[r], status'[r] = code, cursor'[r] = cursor[r],
           expected'[r] = expected[r], log' = log,
           IsUpdate(req[r]) => Fits(req[r], code, Applied(r)),
           req[r].via = "http" /\ ~setting.storeFails =>
               \A k \in expected[r] :
                   Reliable(k) => Finds(req[r], body[r], k, code, shown'[r])
    PROVE  SlotInv(r)'
  <1>1. Applied(r)' = Applied(r) /\ Extends(log, log')
    BY SameLog DEF Applied
  <1>2. req[r] # NoRequest
    OBVIOUS
  <1>3. /\ Applied(r)' \subseteq Wanted(req[r])
        /\ \A n \in Applied(r)', m \in Wanted(req[r]) : m < n => m \in Applied(r)'
    BY <1>1, <1>2 DEF SlotInv, Prefix
  <1>4. IsUpdate(req[r]) => Fits(req[r], code, Applied(r)')
    BY <1>1
  <1> QED BY <1>1, <1>3, <1>4, Answering

\* What the store has of a batch in the handler's loop, and what it wants.
LEMMA BatchInLoop ==
    ASSUME Types, NEW r \in Slots, SlotInv(r), req[r] \in Requests,
           stage[r] = HandlerAt(req[r]), req[r].via = "http", req[r].path = "/updates/",
           cursor[r] > 0 \/ Acceptable(body[r])
    PROVE  /\ Acceptable(body[r])
           /\ body[r].items \in Seq(MetricRecords)
           /\ Wanted(req[r]) = 1..Len(body[r].items)
           /\ Applied(r) = 1..cursor[r]
           /\ cursor[r] \in Nat /\ cursor[r] <= Len(body[r].items)
           /\ Len(body[r].items) \in Nat /\ Len(body[r].items) > 0
  <1>1. stage[r] > 0 /\ stage[r] <= HandlerAt(req[r]) /\ req[r] # NoRequest
    BY DEF HandlerAt
  <1>2. Applied(r) = 1..cursor[r] /\ Acceptable(body[r])
    BY <1>1 DEF SlotInv, OnTheWay
  <1>3. body[r] # NoBody
    BY <1>2 DEF Acceptable, NoBody
  <1>4. body[r].items = req[r].items
    BY <1>1, <1>3 DEF SlotInv, Arrived
  <1>5. body[r].items \in Seq(MetricRecords) /\ cursor[r] \in Nat
    BY DEF Types, Bodies
  <1>6. body[r].items # <<>>
    BY <1>2 DEF Acceptable
  <1>7. Len(body[r].items) \in Nat /\ Len(body[r].items) > 0
    BY <1>5, <1>6
  <1>8. DOMAIN body[r].items = 1..Len(body[r].items)
    BY <1>5
  <1>9. Wanted(req[r]) = 1..Len(body[r].items)
    BY <1>4, <1>8 DEF Wanted
  <1>10. cursor[r] <= Len(body[r].items)
    BY DEF SlotInv, WithinBatch
  <1> QED BY <1>2, <1>5, <1>7, <1>9, <1>10

\* The store has taken the next metric of a batch, and the loop goes on.
LEMMA Advancing ==
    ASSUME Types, NEW r \in Slots, SlotInv(r), req[r] \in Requests, Admitted(req[r]),
           stage[r] = HandlerAt(req[r]), req[r].via = "http", req[r].path = "/updates/",
           cursor[r] > 0 \/ Acceptable(body[r]), cursor[r] < Len(body[r].items),
           setting' = setting, req'[r] = req[r], stage'[r] = stage[r],
           body'[r] = body[r], status'[r] = status[r], cursor'[r] = cursor[r] + 1,
           expected'[r] = expected[r], shown'[r] = shown[r],
           Extends(log, log'),
           Applied(r)' = Applied(r) \union {cursor[r] + 1}
    PROVE  SlotInv(r)'
  <1>1. /\ Acceptable(body[r])
        /\ Wanted(req[r]) = 1..Len(body[r].items)
        /\ Applied(r) = 1..cursor[r]
        /\ cursor[r] \in Nat /\ Len(body[r].items) \in Nat
    BY BatchInLoop
  <1>2. /\ stage[r] \in Nat /\ stage[r] > 0 /\ req[r] # NoRequest
        /\ HandlerAt(req[r])' = HandlerAt(req[r]) /\ HandlerAt(req[r]) \in {2, 6}
    BY DEF Types, HandlerAt
  <1>3. Applied(r)' = 1..(cursor[r] + 1)
    BY <1>1
  <1>4. status[r] = 0
    BY <1>2 DEF SlotInv, OnTheWay
  <1>5. Arrived(r)' /\ Untouched(r)'
    BY <1>2 DEF SlotInv, Arrived, Untouched
  <1>6. WithinBatch(r)'
    BY <1>1 DEF WithinBatch
  <1>7. OnTheWay(r)'
    BY <1>1, <1>2, <1>3, <1>4 DEF OnTheWay
  <1>8. Past(r)'
    BY <1>2 DEF Past
  <1>9. Outside(r)'
    BY DEF Outside, Admitted
  <1>10. Prefix(r)'
    <2>1. cursor[r] + 1 <= Len(body[r].items)
      BY <1>1
    <2>2. 1..(cursor[r] + 1) \subseteq Wanted(req[r])
      BY <2>1, <1>1
    <2>3. ASSUME NEW n \in 1..(cursor[r] + 1), NEW m \in 1..Len(body[r].items), m < n
          PROVE  m \in 1..(cursor[r] + 1)
      BY <2>3, <1>1
    <2>4. \A n \in 1..(cursor[r] + 1), m \in Wanted(req[r]) :
             m < n => m \in 1..(cursor[r] + 1)
      BY <2>3, <1>1
    <2> QED BY <2>2, <2>4, <1>3 DEF Prefix
  <1>11. Tells(r)'
    BY <1>4 DEF Tells
  <1>12. Found(r)'
    <2>1. \A k : Finds(req[r], body'[r], k, status'[r], shown'[r])
      BY <1>4, SilentFinds
    <2> QED BY <2>1, FoundNow DEF SlotInv
  <1> QED BY <1>5, <1>6, <1>7, <1>8, <1>9, <1>10, <1>11, <1>12 DEF SlotInv

-----------------------------------------------------------------------------
(* What a step leaves alone.                                                *)

\* A step of r's: the other slots keep all they have, and the store what it has.
Own(r) ==
    /\ setting' = setting
    /\ \A u \in Slots \ {r} :
          /\ req'[u] = req[u] /\ stage'[u] = stage[u] /\ body'[u] = body[u]
          /\ status'[u] = status[u] /\ cursor'[u] = cursor[u]
          /\ expected'[u] = expected[u] /\ shown'[u] = shown[u]
          /\ u \in audited' <=> u \in audited

LEMMA OthersKeep ==
    ASSUME NEW r \in Slots, \A u \in Slots : SlotInv(u), Own(r), SlotInv(r)',
           Extends(log, log'),
           \A u \in Slots \ {r} : Applied(u)' = Applied(u)
    PROVE  (\A u \in Slots : SlotInv(u))'
  <1>1. ASSUME NEW u \in Slots, u # r PROVE SlotInv(u)'
    <2>1. SlotInv(u)
      OBVIOUS
    <2>2. /\ req'[u] = req[u] /\ stage'[u] = stage[u] /\ body'[u] = body[u]
          /\ status'[u] = status[u] /\ cursor'[u] = cursor[u]
          /\ expected'[u] = expected[u] /\ shown'[u] = shown[u]
          /\ u \in audited' <=> u \in audited
          /\ setting' = setting
      BY <1>1 DEF Own
    <2>3. Applied(u)' = Applied(u)
      BY <1>1
    <2> QED BY <2>1, <2>2, <2>3, SlotFrame
  <1> QED BY <1>1

\* A step that gives the store nothing leaves its order alone.
LEMMA StoreKept ==
    ASSUME RequestInv, req' = req, log' = log
    PROVE  Ordered' /\ GrpcBatchIsAtomic'
  BY DEF RequestInv, Ordered, GrpcBatchIsAtomic

LEMMA LogKept ==
    ASSUME log' = log
    PROVE  Extends(log, log') /\ \A u \in Slots : Applied(u)' = Applied(u)
  BY SameLog DEF Applied

\* A request is handed on.
LEMMA PassStep ==
    ASSUME RequestInv, NEW r \in Slots, req[r] \in Requests, stage[r] > 0,
           Admitted(req[r]), NEW b \in Bodies,
           \/ /\ stage[r] < HandlerAt(req[r])
              /\ \/ b \in {NoBody, body[r]}
                 \/ /\ body[r] # NoBody
                    /\ b.form = body[r].form /\ b.items = body[r].items
           \/ /\ stage[r] > HandlerAt(req[r])
              /\ b = body[r],
           PassWith(r, b), UNCHANGED <<setting, log, shown>>,
           audited' \in {audited, audited \union {r}}
    PROVE  RequestInv'
  <1>1. Types /\ SlotInv(r) /\ \A u \in Slots : SlotInv(u)
    BY DEF RequestInv
  <1>2. /\ stage' = [stage EXCEPT ![r] = @ + 1] /\ body' = [body EXCEPT ![r] = b]
        /\ req' = req /\ cursor' = cursor /\ expected' = expected /\ status' = status
        /\ setting' = setting /\ log' = log /\ shown' = shown
    BY DEF PassWith
  <1>3. Types'
    BY <1>1, <1>2 DEF Types
  <1>4. /\ req'[r] = req[r] /\ stage'[r] = stage[r] + 1 /\ body'[r] = b
        /\ status'[r] = status[r] /\ cursor'[r] = cursor[r]
        /\ expected'[r] = expected[r] /\ shown'[r] = shown[r]
    BY <1>1, <1>2 DEF Types
  <1>5. SlotInv(r)'
    BY <1>1, <1>2, <1>4, Passing
  <1>6. Own(r)
    BY <1>1, <1>2 DEF Own, Types
  <1>7. (\A u \in Slots : SlotInv(u))'
    BY <1>1, <1>2, <1>5, <1>6, LogKept, OthersKeep
  <1> QED BY <1>2, <1>3, <1>7, StoreKept DEF RequestInv

\* A request is refused in front of the handler.
LEMMA RefuseStep ==
    ASSUME RequestInv, NEW r \in Slots, req[r] \in Requests, stage[r] > 0,
           stage[r] < HandlerAt(req[r]), HandlerAt(req[r]) <= Len(Chain(req[r])),
           NEW code \in {400, 403}, Refuse(r, code),
           UNCHANGED <<setting, log, audited, shown>>
    PROVE  RequestInv'
  <1>1. Types /\ SlotInv(r) /\ \A u \in Slots : SlotInv(u)
    BY DEF RequestInv
  <1>2. Len(Chain(req[r])) \in Nat
    BY DEF Chain
  <1>3. PICK last \in Nat : last = Len(Chain(req[r])) + 1
    BY <1>2
  <1>4. /\ stage' = [stage EXCEPT ![r] = last] /\ status' = [status EXCEPT ![r] = code]
        /\ req' = req /\ body' = body /\ cursor' = cursor /\ expected' = expected
        /\ setting' = setting /\ log' = log /\ audited' = audited /\ shown' = shown
    BY <1>3 DEF Refuse
  <1>5. Types'
    BY <1>1, <1>4 DEF Types, Codes
  <1>6. /\ req'[r] = req[r] /\ stage'[r] = last /\ body'[r] = body[r]
        /\ status'[r] = code /\ cursor'[r] = cursor[r] /\ expected'[r] = expected[r]
    BY <1>1, <1>4 DEF Types
  <1>7. SlotInv(r)'
    BY <1>1, <1>2, <1>3, <1>4, <1>6, Refusing
  <1>8. Own(r)
    BY <1>1, <1>4 DEF Own, Types
  <1>9. (\A u \in Slots : SlotInv(u))'
    BY <1>1, <1>4, <1>7, <1>8, LogKept, OthersKeep
  <1> QED BY <1>4, <1>5, <1>9, StoreKept DEF RequestInv

\* The handler answers and gives the store nothing.
LEMMA AnswerStep ==
    ASSUME RequestInv, NEW r \in Slots, req[r] \in Requests, Admitted(req[r]),
           stage[r] = HandlerAt(req[r]), NEW code \in Codes \ {0}, Answer(r, code),
           UNCHANGED <<setting, log, audited>>,
           shown' \in [Slots -> SUBSET Keys], \A u \in Slots \ {r} : shown'[u] = shown[u],
           IsUpdate(req[r]) => Fits(req[r], code, Applied(r)),
           req[r].via = "http" /\ ~setting.storeFails =>
               \A k \in expected[r] :
                   Reliable(k) => Finds(req[r], body[r], k, code, shown'[r])
    PROVE  RequestInv'
  <1>1. Types /\ SlotInv(r) /\ \A u \in Slots : SlotInv(u)
    BY DEF RequestInv
  <1>2. /\ stage' = [stage EXCEPT ![r] = @ + 1] /\ status' = [status EXCEPT ![r] = code]
        /\ req' = req /\ body' = body /\ cursor' = cursor /\ expected' = expected
        /\ setting' = setting /\ log' = log /\ audited' = audited
    BY DEF Answer
  <1>3. Types'
    BY <1>1, <1>2 DEF Types
  <1>4. /\ req'[r] = req[r] /\ stage'[r] = stage[r] + 1 /\ body'[r] = body[r]
        /\ status'[r] = code /\ cursor'[r] = cursor[r] /\ expected'[r] = expected[r]
    BY <1>1, <1>2 DEF Types
  <1>5. SlotInv(r)'
    BY <1>1, <1>2, <1>4, AnsweringOnly
  <1>6. Own(r)
    BY <1>1, <1>2 DEF Own, Types
  <1>7. (\A u \in Slots : SlotInv(u))'
    BY <1>1, <1>2, <1>5, <1>6, LogKept, OthersKeep
  <1> QED BY <1>2, <1>3, <1>7, StoreKept DEF RequestInv

\* New entries come behind those the request has already, and, when it came over
\* gRPC, it has none: the order of every request and the unity of gRPC batches stay.
LEMMA OrderKept ==
    ASSUME RequestInv, NEW r \in Slots, NEW batch \in Seq(LogEntries),
           \A k \in DOMAIN batch : batch[k].slot = r,
           \A j, k \in DOMAIN batch : j < k => batch[j].n < batch[k].n,
           \A m \in Applied(r), k \in DOMAIN batch : m < batch[k].n,
           req[r].via = "grpc" => Applied(r) = {},
           req' = req, log' = log \o batch
    PROVE  Ordered' /\ GrpcBatchIsAtomic'
  <1> DEFINE new == log \o batch
             end == Len(log)
  <1>1. log \in Seq(LogEntries) /\ Ordered /\ GrpcBatchIsAtomic
    BY DEF RequestInv, Types
  <1>2. /\ DOMAIN log = 1..end /\ DOMAIN batch = 1..Len(batch)
        /\ DOMAIN new = 1..(end + Len(batch))
        /\ end \in Nat /\ Len(batch) \in Nat
        /\ \A i \in DOMAIN log : i \in DOMAIN new /\ new[i] = log[i]
        /\ \A k \in DOMAIN batch : end + k \in DOMAIN new /\ new[end + k] = batch[k]
        /\ \A i \in DOMAIN new : i \in DOMAIN log \/ \E k \in DOMAIN batch : i = end + k
    BY <1>1, Joined
  <1>3. log' = new
    OBVIOUS
  <1> HIDE DEF new, end
  <1>4. ASSUME NEW i \in DOMAIN log, log[i].slot = r PROVE log[i].n \in Applied(r)
    BY <1>4 DEF Applied
  <1>5. ASSUME NEW i \in DOMAIN new, NEW j \in DOMAIN new, i < j,
               new[i].slot = new[j].slot
        PROVE  new[i].n < new[j].n
    <2>1. CASE j \in DOMAIN log
      <3>1. i \in DOMAIN log
        BY <1>2, <1>5, <2>1
      <3> QED BY <3>1, <2>1, <1>1, <1>2, <1>5 DEF Ordered
    <2>2. ASSUME NEW k \in DOMAIN batch, j = end + k PROVE new[i].n < new[j].n
      <3>1. new[j] = batch[k] /\ new[i].slot = r
        BY <2>2, <1>2, <1>5
      <3>2. CASE i \in DOMAIN log
        <4>1. new[i] = log[i] /\ log[i].n \in Applied(r)
          BY <3>1, <3>2, <1>2, <1>4
        <4> QED BY <4>1, <3>1
      <3>3. ASSUME NEW h \in DOMAIN batch, i = end + h PROVE new[i].n < new[j].n
        <4>1. new[i] = batch[h]
          BY <3>3, <1>2
        <4>2. h \in Nat /\ k \in Nat /\ h < k
          BY <3>3, <2>2, <1>2, <1>5
        <4> QED BY <4>1, <4>2, <3>1
      <3> QED BY <3>2, <3>3, <1>2
    <2> QED BY <2>1, <2>2, <1>2
  <1>6. Ordered'
    BY <1>3, <1>5 DEF Ordered
  <1>7. ASSUME NEW i \in DOMAIN new, NEW j \in DOMAIN new, i < j,
               new[i].slot = new[j].slot, req[new[i].slot].via = "grpc", NEW k \in i..j
        PROVE  new[k].slot = new[i].slot
    <2>1. CASE j \in DOMAIN log
      <3>1. i \in DOMAIN log /\ k \in DOMAIN log
        BY <1>2, <1>7, <2>1
      <3> QED BY <3>1, <2>1, <1>1, <1>2, <1>7 DEF GrpcBatchIsAtomic
    <2>2. ASSUME NEW h \in DOMAIN batch, j = end + h PROVE new[k].slot = new[i].slot
      <3>1. new[i].slot = r /\ Applied(r) = {}
        BY <2>2, <1>2, <1>7
      <3>2. i \notin DOMAIN log
        BY <3>1, <1>2, <1>4
      <3>3. k \in DOMAIN new /\ k \notin DOMAIN log
        BY <3>2, <1>2, <1>7
      <3> QED BY <3>1, <3>3, <1>2
    <2> QED BY <2>1, <2>2, <1>2
  <1>8. GrpcBatchIsAtomic'
    <2>1. \A i, j \in DOMAIN new :
             i < j /\ new[i].slot = new[j].slot /\ req[new[i].slot].via = "grpc"
             => \A k \in i..j : new[k].slot = new[i].slot
      BY <1>7
    <2> QED BY <2>1, <1>3 DEF GrpcBatchIsAtomic
  <1> QED BY <1>6, <1>8

\* In the handler, and not in the loop over a batch, the store has nothing yet.
LEMMA NothingYet ==
    ASSUME RequestInv, NEW r \in Slots, req[r] \in Requests,
           stage[r] = HandlerAt(req[r]),
           req[r].via = "grpc" \/ req[r].path # "/updates/" \/ cursor[r] = 0
    PROVE  Applied(r) = {}
  <1>1. stage[r] > 0 /\ stage[r] <= HandlerAt(req[r])
    BY DEF HandlerAt
  <1>2. /\ Applied(r) = 1..cursor[r]
        /\ cursor[r] > 0 => req[r].via = "http" /\ req[r].path = "/updates/"
    BY <1>1 DEF RequestInv, SlotInv, OnTheWay
  <1>3. cursor[r] \in Nat
    BY DEF RequestInv, Types
  <1>4. cursor[r] = 0
    BY <1>2, <1>3
  <1> QED BY <1>2, <1>4

\* The store takes more of a request, and the handler answers.
LEMMA StoreStep ==
    ASSUME RequestInv, NEW r \in Slots, req[r] \in Requests, Admitted(req[r]),
           stage[r] = HandlerAt(req[r]), IsUpdate(req[r]),
           NEW batch \in Seq(LogEntries), NEW effect, NEW code \in Codes \ {0},
           \A k \in DOMAIN batch : batch[k].slot = r,
           \A j, k \in DOMAIN batch : j < k => batch[j].n < batch[k].n,
           \A m \in Applied(r), k \in DOMAIN batch : m < batch[k].n,
           req[r].via = "grpc" => Applied(r) = {},
           effect = Applied(r) \union {batch[k].n : k \in DOMAIN batch},
           effect \subseteq Wanted(req[r]),
           \A n \in effect, m \in Wanted(req[r]) : m < n => m \in effect,
           Fits(req[r], code, effect),
           log' = log \o batch, Answer(r, code), UNCHANGED <<setting, audited, shown>>
    PROVE  RequestInv'
  <1>1. Types /\ SlotInv(r) /\ \A u \in Slots : SlotInv(u)
    BY DEF RequestInv
  <1>2. /\ stage' = [stage EXCEPT ![r] = @ + 1] /\ status' = [status EXCEPT ![r] = code]
        /\ req' = req /\ body' = body /\ cursor' = cursor /\ expected' = expected
        /\ setting' = setting /\ audited' = audited /\ shown' = shown
    BY DEF Answer
  <1>3. log \in Seq(LogEntries)
    BY <1>1 DEF Types
  <1>4. /\ log' \in Seq(LogEntries)
        /\ Extends(log, log')
        /\ \A u \in Slots \ {r} : Applied(u)' = Applied(u)
        /\ Applied(r)' = effect
    <2>1. /\ log' \in Seq(LogEntries) /\ Extends(log, log')
          /\ \A u \in Slots \ {r} : Of(log', u) = Of(log, u)
          /\ Of(log', r) = Of(log, r) \union {batch[k].n : k \in DOMAIN batch}
      BY <1>3, LogGrows
    <2>2. \A u \in Slots : Of(log, u) = Applied(u) /\ Of(log', u) = Applied(u)'
      BY DEF Of, Applied
    <2>3. Applied(r)' = effect
      BY <2>1, <2>2
    <2> QED BY <2>1, <2>2, <2>3
  <1>5. Types'
    BY <1>1, <1>2, <1>4 DEF Types
  <1>6. /\ req'[r] = req[r] /\ stage'[r] = stage[r] + 1 /\ body'[r] = body[r]
        /\ status'[r] = code /\ cursor'[r] = cursor[r] /\ expected'[r] = expected[r]
    BY <1>1, <1>2 DEF Types
  <1>7. SlotInv(r)'
    <2>1. req[r].via = "http" => req[r].path # "/" /\ req[r].path \notin ReadPaths
      BY DEF IsUpdate, SingleUpdate, ReadPaths
    <2>2. /\ Applied(r)' \subseteq Wanted(req[r])
          /\ \A n \in Applied(r)', m \in Wanted(req[r]) : m < n => m \in Applied(r)'
          /\ Fits(req[r], code, Applied(r)')
      BY <1>4
    <2>3. req[r].via = "http" /\ ~setting.storeFails =>
            \A k \in expected[r] :
                Reliable(k) => Finds(req[r], body[r], k, code, shown'[r])
      BY <2>1 DEF Finds
    <2> QED BY <1>1, <1>2, <1>4, <1>6, <2>2, <2>3, Answering
  <1>8. Own(r)
    BY <1>1, <1>2 DEF Own, Types
  <1>9. (\A u \in Slots : SlotInv(u))'
    BY <1>1, <1>4, <1>7, <1>8, OthersKeep
  <1>10. Ordered' /\ GrpcBatchIsAtomic'
    BY <1>2, OrderKept
  <1> QED BY <1>5, <1>9, <1>10 DEF RequestInv

\* One entry added at the end.
LEMMA OneMore ==
    ASSUME NEW l \in Seq(LogEntries), NEW e \in LogEntries
    PROVE  /\ <<e>> \in Seq(LogEntries) /\ Append(l, e) = l \o <<e>>
           /\ DOMAIN <<e>> = {1} /\ <<e>>[1] = e
  OBVIOUS

\* The store takes the next metric of a batch, and the loop goes on.
LEMMA AdvanceStep ==
    ASSUME RequestInv, NEW r \in Slots, req[r] \in Requests, Admitted(req[r]),
           stage[r] = HandlerAt(req[r]), req[r].via = "http", req[r].path = "/updates/",
           cursor[r] > 0 \/ Acceptable(body[r]), cursor[r] < Len(body[r].items),
           NEW e \in LogEntries, e.slot = r, e.n = cursor[r] + 1,
           log' = Append(log, e), Advances(r), UNCHANGED <<setting, audited, shown>>
    PROVE  RequestInv'
  <1>1. Types /\ SlotInv(r) /\ \A u \in Slots : SlotInv(u)
    BY DEF RequestInv
  <1>2. /\ cursor' = [cursor EXCEPT ![r] = @ + 1] /\ status' = status
        /\ req' = req /\ body' = body /\ stage' = stage /\ expected' = expected
        /\ setting' = setting /\ audited' = audited /\ shown' = shown
    BY DEF Advances
  <1>3. log \in Seq(LogEntries)
    BY <1>1 DEF Types
  <1> DEFINE batch == <<e>>
  <1>4. /\ batch \in Seq(LogEntries) /\ log' = log \o batch
        /\ DOMAIN batch = {1} /\ batch[1] = e
    BY <1>3, OneMore
  <1> HIDE DEF batch
  <1>5. /\ \A k \in DOMAIN batch : batch[k].slot = r
        /\ \A j, k \in DOMAIN batch : j < k => batch[j].n < batch[k].n
        /\ {batch[k].n : k \in DOMAIN batch} = {cursor[r] + 1}
    BY <1>4
  <1>6. /\ log' \in Seq(LogEntries)
        /\ Extends(log, log')
        /\ \A u \in Slots \ {r} : Applied(u)' = Applied(u)
        /\ Applied(r)' = Applied(r) \union {cursor[r] + 1}
    <2>1. /\ log' \in Seq(LogEntries) /\ Extends(log, log')
          /\ \A u \in Slots \ {r} : Of(log', u) = Of(log, u)
          /\ Of(log', r) = Of(log, r) \union {batch[k].n : k \in DOMAIN batch}
      BY <1>3, <1>4, <1>5, LogGrows
    <2>2. \A u \in Slots : Of(log, u) = Applied(u) /\ Of(log', u) = Applied(u)'
      BY DEF Of, Applied
    <2> QED BY <2>1, <2>2, <1>5
  <1>7. Types'
    BY <1>1, <1>2, <1>6 DEF Types
  <1>8. /\ req'[r] = req[r] /\ stage'[r] = stage[r] /\ body'[r] = body[r]
        /\ status'[r] = status[r] /\ cursor'[r] = cursor[r] + 1
        /\ expected'[r] = expected[r] /\ shown'[r] = shown[r]
    BY <1>1, <1>2 DEF Types
  <1>9. SlotInv(r)'
    BY <1>1, <1>2, <1>6, <1>8, Advancing
  <1>10. Own(r)
    BY <1>1, <1>2 DEF Own, Types
  <1>11. (\A u \in Slots : SlotInv(u))'
    BY <1>1, <1>6, <1>9, <1>10, OthersKeep
  <1>12. Ordered' /\ GrpcBatchIsAtomic'
    <2>1. Applied(r) = 1..cursor[r] /\ cursor[r] \in Nat
      BY <1>1, BatchInLoop
    <2>2. \A m \in Applied(r), k \in DOMAIN batch : m < batch[k].n
      BY <2>1, <1>4
    <2>3. ~(req[r].via = "grpc")
      OBVIOUS
    <2> QED BY <2>2, <2>3, <1>2, <1>4, <1>5, OrderKept
  <1> QED BY <1>7, <1>11, <1>12 DEF RequestInv

\* The keys a log has.
LEMMA LogKeys == ASSUME NEW l \in Seq(LogEntries) PROVE KeysOf(l) \subseteq Keys
  <1>1. \A i \in DOMAIN l : l[i] \in LogEntries
    OBVIOUS
  <1>2. \A i \in DOMAIN l : l[i].id \in Ids /\ l[i].type \in MetricTypes
    BY <1>1 DEF LogEntries
  <1> QED BY <1>2 DEF KeysOf, Key, Keys

\* A request arrives: what was acknowledged before is in the store.
LEMMA ArriveStep ==
    ASSUME RequestInv, NEW r \in Slots, Arrive(r)
    PROVE  RequestInv'
  <1>1. Types /\ SlotInv(r) /\ \A u \in Slots : SlotInv(u)
    BY DEF RequestInv
  <1>2. PICK q \in Requests :
           /\ req' = [req EXCEPT ![r] = q]
           /\ body' = [body EXCEPT ![r] = [layers |-> q.layers, form |-> q.form,
                                           items |-> q.items]]
    BY DEF Arrive
  <1>3. /\ stage[r] = 0 /\ stage' = [stage EXCEPT ![r] = 1]
        /\ expected' = [expected EXCEPT ![r] = Acknowledged]
        /\ setting' = setting /\ cursor' = cursor /\ status' = status /\ log' = log
        /\ audited' = audited /\ shown' = shown
    BY DEF Arrive
  <1>4. Acknowledged \subseteq KeysOf(log) /\ KeysOf(log) \subseteq Keys
    <2>1. log \in Seq(LogEntries)
      BY <1>1 DEF Types
    <2> QED BY <2>1, LogKeys DEF Acknowledged, KeysOf
  <1>5. [layers |-> q.layers, form |-> q.form, items |-> q.items] \in Bodies
    <2>1. q \in RequestRecords
      OBVIOUS
    <2> QED BY <2>1 DEF RequestRecords, Bodies
  <1>6. Types'
    BY <1>1, <1>2, <1>3, <1>4, <1>5 DEF Types
  <1>7. /\ req'[r] = q /\ stage'[r] = 1 /\ status'[r] = status[r]
        /\ body'[r] = [layers |-> q.layers, form |-> q.form, items |-> q.items]
        /\ cursor'[r] = cursor[r] /\ expected'[r] = Acknowledged
    BY <1>1, <1>2, <1>3 DEF Types
  <1>8. SlotInv(r)'
    BY <1>1, <1>3, <1>4, <1>7, Arriving
  <1>9. Own(r)
    BY <1>1, <1>2, <1>3 DEF Own, Types
  <1>10. (\A u \in Slots : SlotInv(u))'
    BY <1>1, <1>3, <1>8, <1>9, LogKept, OthersKeep
  <1>11. Ordered'
    BY <1>3 DEF RequestInv, Ordered
  <1>12. GrpcBatchIsAtomic'
    <2>1. \A i \in DOMAIN log : log[i].slot # r
      <3>1. Applied(r) = {}
        BY <1>1, <1>3 DEF SlotInv, Untouched
      <3> QED BY <3>1 DEF Applied
    <2>2. \A i \in DOMAIN log : log[i].slot \in Slots
      <3>1. \A i \in DOMAIN log : log[i] \in LogEntries
        BY <1>1 DEF Types
      <3> QED BY <3>1 DEF LogEntries
    <2>3. \A i \in DOMAIN log : req'[log[i].slot] = req[log[i].slot]
      BY <2>1, <2>2, <1>9 DEF Own
    <2> QED BY <2>3, <1>3 DEF RequestInv, GrpcBatchIsAtomic
  <1> QED BY <1>6, <1>10, <1>11, <1>12 DEF RequestInv

-----------------------------------------------------------------------------
(* The steps of the chain.                                                  *)

LEMMA Peeled ==
    ASSUME NEW b \in Bodies, NEW layer, Opens(b, layer)
    PROVE  Peel(b) \in Bodies /\ Peel(b).form = b.form /\ Peel(b).items = b.items
  <1>1. b.layers \in Seq({"gzip", "rsa", "hybrid"}) /\ b.layers # <<>>
    BY DEF Bodies, Opens
  <1>2. Tail(b.layers) \in Seq({"gzip", "rsa", "hybrid"})
    BY <1>1
  <1> QED BY <1>2 DEF Bodies, Peel

LEMMA SubnetStep ==
    ASSUME RequestInv, NEW r \in Slots, Subnet(r), setting' = setting, shown' = shown
    PROVE  RequestInv'
  <1>1. Types /\ SlotInv(r) /\ body[r] \in Bodies
    BY DEF RequestInv, Types
  <1>2. At(r, "subnet") /\ log' = log /\ audited' = audited
    BY DEF Subnet
  <1>3. /\ req[r] \in Requests /\ stage[r] > 0 /\ HandlerAt(req[r]) <= Len(Chain(req[r]))
        /\ stage[r] < HandlerAt(req[r])
    BY <1>1, <1>2, Positions
  <1>4. CASE Admitted(req[r])
    <2>1. PassWith(r, body[r])
      BY <1>4 DEF Subnet, Admitted, Pass
    <2> QED BY <1>1, <1>2, <1>3, <1>4, <2>1, PassStep
  <1>5. CASE ~Admitted(req[r])
    <2>1. Refuse(r, 403)
      BY <1>5 DEF Subnet, Admitted
    <2> QED BY <1>2, <1>3, <2>1, RefuseStep
  <1> QED BY <1>4, <1>5

\* The four steps between the subnet check and the handler.
LEMMA BetweenStep ==
    ASSUME RequestInv, NEW r \in Slots, Gunzip(r) \/ Decrypt(r) \/ Audit(r) \/ CheckHash(r),
           setting' = setting, shown' = shown
    PROVE  RequestInv'
  <1>1. Types /\ SlotInv(r) /\ body[r] \in Bodies /\ NoBody \in Bodies
    BY DEF RequestInv, Types, Bodies, NoBody
  <1>2. PICK name \in {"gunzip", "decrypt", "audit", "checkhash"} : At(r, name)
    BY DEF Gunzip, Decrypt, Audit, CheckHash
  <1>3. /\ req[r] \in Requests /\ stage[r] > 0 /\ HandlerAt(req[r]) <= Len(Chain(req[r]))
        /\ stage[r] < HandlerAt(req[r]) /\ Admitted(req[r])
    BY <1>1, <1>2, Positions
  <1>4. /\ log' = log
        /\ audited' \in {audited, audited \union {r}}
    BY DEF Gunzip, Decrypt, Audit, CheckHash
  <1>5. \/ Refuse(r, 400) /\ audited' = audited
        \/ \E b \in Bodies :
              /\ PassWith(r, b)
              /\ \/ b \in {NoBody, body[r]}
                 \/ /\ body[r] # NoBody
                    /\ b.form = body[r].form /\ b.items = body[r].items
    <2>1. CASE Gunzip(r)
      <3>1. \/ PassWith(r, body[r])
            \/ Refuse(r, 400) /\ audited' = audited
            \/ /\ body[r] # NoBody /\ Opens(body[r], "gzip")
               /\ PassWith(r, Peel(body[r]))
        <4>1. Opens(body[r], "gzip") => body[r] # NoBody
          BY DEF Opens, NoBody
        <4> QED BY <2>1, <4>1 DEF Gunzip, Pass
      <3> QED BY <3>1, <1>1, Peeled
    <2>2. CASE Decrypt(r)
      <3>1. \/ PassWith(r, body[r])
            \/ Refuse(r, 400) /\ audited' = audited
            \/ /\ body[r] # NoBody /\ Opens(body[r], req[r].encrypted)
               /\ PassWith(r, Peel(body[r]))
        BY <2>2 DEF Decrypt, Pass
      <3> QED BY <3>1, <1>1, Peeled
    <2>3. CASE Audit(r)
      <3>1. \/ PassWith(r, body[r])
            \/ PassWith(r, NoBody)
            \/ Refuse(r, 400) /\ audited' = audited
        BY <2>3 DEF Audit, Pass
      <3> QED BY <3>1, <1>1
    <2>4. CASE CheckHash(r)
      <3>1. PassWith(r, body[r]) \/ (Refuse(r, 400) /\ audited' = audited)
        BY <2>4 DEF CheckHash, Pass
      <3> QED BY <3>1, <1>1
    <2> QED BY <2>1, <2>2, <2>3, <2>4
  <1>6. CASE Refuse(r, 400) /\ audited' = audited
    BY <1>3, <1>4, <1>6, RefuseStep
  <1>7. ASSUME NEW b \in Bodies, PassWith(r, b),
               \/ b \in {NoBody, body[r]}
               \/ /\ body[r] # NoBody
                  /\ b.form = body[r].form /\ b.items = body[r].items
        PROVE  RequestInv'
    BY <1>3, <1>4, <1>7, PassStep
  <1> QED BY <1>5, <1>6, <1>7

LEMMA AddHashStep ==
    ASSUME RequestInv, NEW r \in Slots, AddHash(r), setting' = setting, shown' = shown
    PROVE  RequestInv'
  <1>1. Types /\ SlotInv(r) /\ body[r] \in Bodies
    BY DEF RequestInv, Types
  <1>2. /\ At(r, "addhash") /\ log' = log /\ audited' = audited
        /\ PassWith(r, body[r])
    BY DEF AddHash, Pass
  <1>3. /\ req[r] \in Requests /\ stage[r] > 0 /\ stage[r] > HandlerAt(req[r])
        /\ Admitted(req[r])
    BY <1>1, <1>2, Positions
  <1> QED BY <1>1, <1>2, <1>3, PassStep

-----------------------------------------------------------------------------
(* The handlers.                                                            *)

\* What the position of a handler says of its request.
LEMMA InHandler ==
    ASSUME RequestInv, NEW r \in Slots, At(r, "handler")
    PROVE  /\ req[r] \in Requests /\ Admitted(req[r]) /\ stage[r] = HandlerAt(req[r])
           /\ req[r].via = "http" /\ Types /\ SlotInv(r)
  <1>1. Types /\ SlotInv(r)
    BY DEF RequestInv
  <1> QED BY <1>1, Positions

\* A read's concern is none of an update's.
LEMMA NoRead ==
    ASSUME NEW r \in Slots, IsUpdate(req[r]), req[r].via = "http", NEW code, NEW page
    PROVE  \A k : Finds(req[r], body[r], k, code, page)
  BY DEF IsUpdate, SingleUpdate, ReadPaths, Finds

\* What the store is given is an entry of its log.
LEMMA EntryType ==
    ASSUME NEW r \in Slots, NEW n \in Nat, NEW m \in MetricRecords, m.type \in MetricTypes
    PROVE  /\ Entry(r, n, m) \in LogEntries
           /\ Entry(r, n, m).slot = r /\ Entry(r, n, m).n = n
  <1>1. m.id \in Ids
    BY DEF MetricRecords, Ids
  <1> QED BY <1>1 DEF Entry, LogEntries

LEMMA UpdateMetricStep ==
    ASSUME RequestInv, NEW r \in Slots, UpdateMetric(r), setting' = setting, shown' = shown
    PROVE  RequestInv'
  <1> DEFINE json == Sized(r) /\ Decodes(body[r], "object")
             given == IF json THEN Head(body[r].items) ELSE req[r].url
             entry == Entry(r, 1, given)
  <1>1. /\ At(r, "handler") /\ req[r].path \in SingleUpdate
        /\ audited' = audited
    BY DEF UpdateMetric
  <1>2. /\ req[r] \in Requests /\ Admitted(req[r]) /\ stage[r] = HandlerAt(req[r])
        /\ req[r].via = "http" /\ Types /\ SlotInv(r)
    BY <1>1, InHandler
  <1>3. Applied(r) = {}
    BY <1>1, <1>2, NothingYet DEF SingleUpdate
  <1>4. Wanted(req[r]) = {1} /\ IsUpdate(req[r])
    BY <1>1, <1>2 DEF Wanted, IsUpdate, SingleUpdate
  <1>5. \E code \in {200, 400, 404, 500} :
            /\ Answer(r, code)
            /\ \/ log' = log /\ code # 200 /\ (code = 500 => setting.storeFails)
               \/ /\ ValidUpdate(given) /\ log' = Append(log, entry)
                  /\ code # 200 => code # 404 /\ setting.storeFails
    <2>1. \/ \E code \in {400, 404} : Answer(r, code) /\ log' = log
          \/ \E code \in {400, 500} :
                ValidUpdate(given) /\ Stores(r, 1, given, Answer(r, 200), Answer(r, code))
      <3> DEFINE nameless == ~json /\ given.id = ""
      <3>1. \/ Answer(r, IF nameless THEN 404 ELSE 400) /\ log' = log
            \/ /\ ValidUpdate(given)
               /\ Stores(r, 1, given, Answer(r, 200), Answer(r, IF json THEN 400 ELSE 500))
        BY DEF UpdateMetric
      <3> HIDE DEF nameless, given, json
      <3> QED BY <3>1
    <2>2. \A code \in {400, 500} :
             Stores(r, 1, given, Answer(r, 200), Answer(r, code)) =>
                 \/ log' = Append(log, entry) /\ Answer(r, 200)
                 \/ setting.storeFails /\ log' \in {log, Append(log, entry)} /\ Answer(r, code)
      BY DEF Stores
    <2> HIDE DEF given, entry
    <2>3. CASE \E code \in {400, 404} : Answer(r, code) /\ log' = log
      BY <2>3
    <2>4. ASSUME NEW code \in {400, 500}, ValidUpdate(given),
                 Stores(r, 1, given, Answer(r, 200), Answer(r, code))
          PROVE  \E c \in {200, 400, 404, 500} :
                     /\ Answer(r, c)
                     /\ \/ log' = log /\ c # 200 /\ (c = 500 => setting.storeFails)
                        \/ /\ ValidUpdate(given) /\ log' = Append(log, entry)
                           /\ c # 200 => c # 404 /\ setting.storeFails
      <3>1. CASE log' = Append(log, entry) /\ Answer(r, 200)
        BY <3>1, <2>4
      <3>2. CASE setting.storeFails /\ log' \in {log, Append(log, entry)} /\ Answer(r, code)
        BY <3>2, <2>4
      <3> QED BY <3>1, <3>2, <2>2, <2>4
    <2> QED BY <2>1, <2>3, <2>4
  <1>6. PICK code \in Codes \ {0} :
            /\ code = 200 \/ code = 400 \/ code = 404 \/ code = 500
            /\ Answer(r, code)
            /\ \/ log' = log /\ code # 200 /\ (code = 500 => setting.storeFails)
               \/ /\ ValidUpdate(given) /\ log' = Append(log, entry)
                  /\ code # 200 => code # 404 /\ setting.storeFails
    <2>1. {200, 400, 404, 500} \subseteq Codes \ {0}
      BY DEF Codes
    <2> HIDE DEF given, entry, json
    <2> QED BY <1>5, <2>1
  <1>8. CASE log' = log /\ code # 200 /\ (code = 500 => setting.storeFails)
    <2>1. Fits(req[r], code, Applied(r))
      BY <1>2, <1>3, <1>8 DEF Fits
    <2>2. shown' \in [Slots -> SUBSET Keys] /\ \A u \in Slots \ {r} : shown'[u] = shown[u]
      BY <1>2 DEF Types
    <2>3. \A k : Finds(req[r], body[r], k, code, shown'[r])
      BY <1>2, <1>4, NoRead
    <2>4. Answer(r, code)
      BY <1>6
    <2> HIDE DEF given, entry, json
    <2> QED BY <1>1, <1>2, <1>8, <2>1, <2>2, <2>3, <2>4, AnswerStep
  <1>9. CASE /\ ValidUpdate(given) /\ log' = Append(log, entry)
             /\ code # 200 => code # 404 /\ setting.storeFails
    <2>1. given \in MetricRecords
      <3>1. req[r] \in RequestRecords /\ req[r] # NoRequest /\ body[r] \in Bodies
        BY <1>2 DEF Types
      <3>2. CASE json
        <4>1. body[r].form = "object"
          BY <3>2 DEF Decodes
        <4>2. body[r] # NoBody
          BY <4>1 DEF NoBody
        <4>3. body[r].items = req[r].items /\ req[r].form = "object"
          BY <3>1, <4>1, <4>2, <1>2 DEF SlotInv, Arrived
        <4>4. Len(body[r].items) = 1 /\ body[r].items \in Seq(MetricRecords)
          BY <4>3, <3>1, <1>2 DEF Bodies
        <4>5. PICK s \in Seq(MetricRecords) : s = body[r].items /\ Len(s) = 1
          BY <4>4
        <4>6. Head(s) \in MetricRecords
          BY <4>5
        <4> QED BY <4>5, <4>6, <3>2
      <3>3. CASE ~json
        BY <3>1, <3>3 DEF RequestRecords
      <3> QED BY <3>2, <3>3
    <2>2. given.type \in MetricTypes
      BY <1>9 DEF ValidUpdate
    <2> HIDE DEF given
    <2>3. entry \in LogEntries /\ entry.slot = r /\ entry.n = 1
      BY <2>1, <2>2, EntryType
    <2> HIDE DEF entry
    <2> DEFINE batch == <<entry>>
    <2>4. /\ batch \in Seq(LogEntries) /\ log' = log \o batch
          /\ DOMAIN batch = {1} /\ batch[1] = entry
      BY <2>3, <1>2, <1>9, OneMore DEF Types
    <2> HIDE DEF batch
    <2>5. /\ \A k \in DOMAIN batch : batch[k].slot = r
          /\ \A j, k \in DOMAIN batch : j < k => batch[j].n < batch[k].n
          /\ \A n \in Applied(r), k \in DOMAIN batch : n < batch[k].n
      BY <2>3, <2>4, <1>3
    <2>6. Fits(req[r], code, Wanted(req[r]))
      BY <1>1, <1>2, <1>6, <1>9 DEF Fits
    <2> DEFINE effect == Wanted(req[r])
    <2>8. /\ effect = Applied(r) \union {batch[k].n : k \in DOMAIN batch}
          /\ effect \subseteq Wanted(req[r])
          /\ \A n \in effect, o \in Wanted(req[r]) : o < n => o \in effect
          /\ Fits(req[r], code, effect)
      BY <2>3, <2>4, <2>6, <1>3, <1>4
    <2>9. /\ Answer(r, code) /\ UNCHANGED <<setting, audited, shown>>
          /\ IsUpdate(req[r]) /\ ~(req[r].via = "grpc")
      BY <1>1, <1>2, <1>4, <1>6
    <2>10. batch \in Seq(LogEntries) /\ log' = log \o batch
      BY <2>4
    <2>11. req[r].via = "grpc" => Applied(r) = {}
      BY <2>9
    <2>12. req[r] \in Requests /\ Admitted(req[r]) /\ stage[r] = HandlerAt(req[r])
      BY <1>2
    <2> HIDE DEF json, effect
    <2> QED BY <2>5, <2>8, <2>9, <2>10, <2>11, <2>12, StoreStep
  <1> QED BY <1>6, <1>8, <1>9

\* A batch over HTTP: the checks, the loop and the end of it.
LEMMA RefuseBatchStep ==
    ASSUME RequestInv, NEW r \in Slots, RefuseBatch(r), setting' = setting, shown' = shown
    PROVE  RequestInv'
  <1>1. /\ At(r, "handler") /\ req[r].path = "/updates/" /\ cursor[r] = 0
        /\ Answer(r, 400) /\ log' = log /\ audited' = audited
    BY DEF RefuseBatch
  <1>2. /\ req[r] \in Requests /\ Admitted(req[r]) /\ stage[r] = HandlerAt(req[r])
        /\ req[r].via = "http" /\ Types
    BY <1>1, InHandler
  <1>3. Applied(r) = {}
    BY <1>1, <1>2, NothingYet
  <1>4. PICK code \in Codes \ {0} : code = 400
    BY DEF Codes
  <1>5. \A k : Finds(req[r], body[r], k, code, shown'[r])
    BY <1>1, <1>2, NoRead DEF IsUpdate
  <1>6. shown' \in [Slots -> SUBSET Keys] /\ \A u \in Slots \ {r} : shown'[u] = shown[u]
    BY <1>2 DEF Types
  <1>7. Fits(req[r], code, Applied(r))
    BY <1>2, <1>3, <1>4 DEF Fits
  <1>8. Answer(r, code)
    BY <1>1, <1>4
  <1> QED BY <1>1, <1>2, <1>5, <1>6, <1>7, <1>8, AnswerStep

LEMMA ApplyNextStep ==
    ASSUME RequestInv, NEW r \in Slots, ApplyNext(r), setting' = setting, shown' = shown
    PROVE  RequestInv'
  <1> DEFINE n == cursor[r] + 1
             e == Entry(r, n, body[r].items[n])
  <1>1. /\ At(r, "handler") /\ req[r].path = "/updates/"
        /\ cursor[r] > 0 \/ Acceptable(body[r])
        /\ cursor[r] < Len(body[r].items)
        /\ audited' = audited
    BY DEF ApplyNext, InBatch
  <1>2. /\ req[r] \in Requests /\ Admitted(req[r]) /\ stage[r] = HandlerAt(req[r])
        /\ req[r].via = "http" /\ Types /\ SlotInv(r)
    BY <1>1, InHandler
  <1>3. /\ body[r].items \in Seq(MetricRecords) /\ Wanted(req[r]) = 1..Len(body[r].items)
        /\ Applied(r) = 1..cursor[r] /\ cursor[r] \in Nat /\ Len(body[r].items) \in Nat
    BY <1>1, <1>2, BatchInLoop
  <1>4. \/ log' = Append(log, e) /\ Advances(r)
        \/ log' = log /\ Answer(r, 500) /\ setting.storeFails
        \/ log' = Append(log, e) /\ Answer(r, 500) /\ setting.storeFails
    BY DEF ApplyNext, Stores
  <1>5. e \in LogEntries /\ e.slot = r /\ e.n = cursor[r] + 1
    <2>1. n \in 1..Len(body[r].items) /\ n \in Nat
      BY <1>1, <1>3
    <2>2. body[r].items[n] \in MetricRecords
      BY <2>1, <1>3
    <2>3. body[r].items[n].type \in MetricTypes
      <3>1. Acceptable(body[r])
        BY <1>1, <1>2, BatchInLoop
      <3>2. DOMAIN body[r].items = 1..Len(body[r].items)
        BY <1>3
      <3> QED BY <2>1, <3>1, <3>2 DEF Acceptable, ValidUpdate
    <2> HIDE DEF n
    <2>4. e \in LogEntries /\ e.slot = r /\ e.n = n
      BY <2>1, <2>2, <2>3, EntryType
    <2> QED BY <2>4 DEF n
  <1> HIDE DEF e
  <1>6. PICK code \in Codes \ {0} : code = 500
    BY DEF Codes
  <1>7. IsUpdate(req[r])
    BY <1>1 DEF IsUpdate
  <1>8. \A effect : setting.storeFails => Fits(req[r], code, effect)
    BY <1>2, <1>6 DEF Fits
  <1>9. CASE log' = Append(log, e) /\ Advances(r)
    BY <1>1, <1>2, <1>5, <1>9, AdvanceStep
  <1>10. CASE log' = log /\ Answer(r, 500) /\ setting.storeFails
    <2>1. shown' \in [Slots -> SUBSET Keys] /\ \A u \in Slots \ {r} : shown'[u] = shown[u]
      BY <1>2 DEF Types
    <2>2. \A k : Finds(req[r], body[r], k, code, shown'[r])
      BY <1>2, <1>7, NoRead
    <2>3. Answer(r, code)
      BY <1>10, <1>6
    <2> QED BY <1>1, <1>2, <1>8, <1>10, <2>1, <2>2, <2>3, AnswerStep
  <1>11. CASE log' = Append(log, e) /\ Answer(r, 500) /\ setting.storeFails
    <2> DEFINE batch == <<e>>
               effect == 1..(cursor[r] + 1)
    <2>1. /\ batch \in Seq(LogEntries) /\ log' = log \o batch
          /\ DOMAIN batch = {1} /\ batch[1] = e
      BY <1>2, <1>5, <1>11, OneMore DEF Types
    <2>2. Answer(r, code)
      BY <1>11, <1>6
    <2> HIDE DEF batch
    <2>3. /\ \A k \in DOMAIN batch : batch[k].slot = r
          /\ \A j, k \in DOMAIN batch : j < k => batch[j].n < batch[k].n
          /\ {batch[k].n : k \in DOMAIN batch} = {cursor[r] + 1}
          /\ \A k \in DOMAIN batch : batch[k].n = cursor[r] + 1
      BY <2>1, <1>5
    <2>4. \A m \in Applied(r), k \in DOMAIN batch : m < batch[k].n
      <3>1. \A m \in 1..cursor[r] : m < cursor[r] + 1
        BY <1>3
      <3> QED BY <3>1, <2>3, <1>3
    <2>5. effect = Applied(r) \union {batch[k].n : k \in DOMAIN batch}
      <3>1. effect = (1..cursor[r]) \union {cursor[r] + 1}
        BY <1>3
      <3> QED BY <3>1, <2>3, <1>3
    <2>6. effect \subseteq Wanted(req[r])
      BY <1>1, <1>3
    <2>7. \A k \in effect, m \in Wanted(req[r]) : m < k => m \in effect
      <3>1. ASSUME NEW k \in 1..(cursor[r] + 1), NEW m \in 1..Len(body[r].items), m < k
            PROVE  m \in 1..(cursor[r] + 1)
        BY <3>1, <1>3
      <3> QED BY <3>1, <1>3
    <2> HIDE DEF effect
    <2>8. Fits(req[r], code, effect)
      BY <1>8, <1>11
    <2>9. ~(req[r].via = "grpc")
      BY <1>2
    <2> QED BY <1>1, <1>2, <1>7, <2>1, <2>2, <2>3, <2>4, <2>5, <2>6, <2>7, <2>8, <2>9,
               StoreStep
  <1> QED BY <1>4, <1>9, <1>10, <1>11

LEMMA FinishBatchStep ==
    ASSUME RequestInv, NEW r \in Slots, FinishBatch(r), setting' = setting, shown' = shown
    PROVE  RequestInv'
  <1>1. /\ At(r, "handler") /\ req[r].path = "/updates/"
        /\ cursor[r] > 0 /\ cursor[r] = Len(body[r].items)
        /\ Answer(r, 200) /\ log' = log /\ audited' = audited
    BY DEF FinishBatch
  <1>2. /\ req[r] \in Requests /\ Admitted(req[r]) /\ stage[r] = HandlerAt(req[r])
        /\ req[r].via = "http" /\ Types /\ SlotInv(r)
    BY <1>1, InHandler
  <1>3. Applied(r) = Wanted(req[r])
    BY <1>1, <1>2, BatchInLoop
  <1>4. PICK code \in Codes \ {0} : code = 200
    BY DEF Codes
  <1>5. \A k : Finds(req[r], body[r], k, code, shown'[r])
    BY <1>1, <1>2, NoRead DEF IsUpdate
  <1>6. shown' \in [Slots -> SUBSET Keys] /\ \A u \in Slots \ {r} : shown'[u] = shown[u]
    BY <1>2 DEF Types
  <1>7. Fits(req[r], code, Applied(r))
    BY <1>2, <1>3, <1>4 DEF Fits
  <1>8. Answer(r, code)
    BY <1>1, <1>4
  <1> QED BY <1>1, <1>2, <1>5, <1>6, <1>7, <1>8, AnswerStep

\* What is in the store and can be relied on is what a reader finds.
LEMMA ReliableVisible ==
    ASSUME NEW k \in KeysOf(log), Reliable(k)
    PROVE  k \in Visible(log)
  BY DEF Reliable, Visible, KeysOf

\* A lookup of what was acknowledged does not answer "not found".
LEMMA ReadStep ==
    ASSUME RequestInv, NEW r \in Slots, Read(r), setting' = setting, shown' = shown
    PROVE  RequestInv'
  <1> DEFINE m == Asked(req[r], body[r])
  <1>1. /\ At(r, "handler") /\ req[r].path \in ReadPaths
        /\ log' = log /\ audited' = audited
    BY DEF Read
  <1>2. /\ req[r] \in Requests /\ Admitted(req[r]) /\ stage[r] = HandlerAt(req[r])
        /\ req[r].via = "http" /\ Types /\ SlotInv(r)
    BY <1>1, InHandler
  <1>3. ~IsUpdate(req[r]) /\ req[r].path # "/"
    BY <1>1, <1>2 DEF IsUpdate, SingleUpdate, ReadPaths
  <1>4. expected[r] \subseteq KeysOf(log)
    BY <1>2 DEF SlotInv, Found
  <1>5. PICK code \in Codes \ {0} :
           /\ Answer(r, code)
           /\ Findable(m) => code = Lookup(m) \/ setting.storeFails
    <2> DEFINE nameless == req[r].path = "/value/{}" /\ m.id = ""
    <2>1. \/ Findable(m) /\ Answer(r, Lookup(m))
          \/ setting.storeFails /\ Answer(r, 404)
          \/ ~Findable(m) /\ Answer(r, IF nameless THEN 404 ELSE 400)
      BY DEF Read
    <2>2. Lookup(m) \in Codes \ {0} /\ 404 \in Codes \ {0}
          /\ (IF nameless THEN 404 ELSE 400) \in Codes \ {0}
      BY DEF Lookup, Codes
    <2> HIDE DEF nameless, m
    <2> QED BY <2>1, <2>2
  <1>6. \A k \in expected[r] :
            ~setting.storeFails /\ Reliable(k)
                => Finds(req[r], body[r], k, code, shown'[r])
    <2> SUFFICES ASSUME NEW k \in expected[r], ~setting.storeFails, Reliable(k),
                        Findable(m), Key(m) = k
                 PROVE  code # 404
      BY <1>3 DEF Finds
    <2>1. k \in Visible(log)
      BY <1>4, ReliableVisible
    <2> QED BY <2>1, <1>5 DEF Lookup
  <1>7. shown' \in [Slots -> SUBSET Keys] /\ \A u \in Slots \ {r} : shown'[u] = shown[u]
    BY <1>2 DEF Types
  <1> HIDE DEF m
  <1> QED BY <1>1, <1>2, <1>3, <1>5, <1>6, <1>7, AnswerStep

\* The page of all metrics has what was acknowledged.
LEMMA ListStep ==
    ASSUME RequestInv, NEW r \in Slots, List(r), setting' = setting
    PROVE  RequestInv'
  <1>1. /\ At(r, "handler") /\ req[r].path = "/"
        /\ Answer(r, 200) /\ log' = log /\ audited' = audited
    BY DEF List
  <1>2. /\ req[r] \in Requests /\ Admitted(req[r]) /\ stage[r] = HandlerAt(req[r])
        /\ req[r].via = "http" /\ Types /\ SlotInv(r)
    BY <1>1, InHandler
  <1>3. ~IsUpdate(req[r]) /\ req[r].path \notin ReadPaths
    BY <1>1, <1>2 DEF IsUpdate, SingleUpdate, ReadPaths
  <1>4. expected[r] \subseteq KeysOf(log)
    BY <1>2 DEF SlotInv, Found
  <1>5. PICK page \in SUBSET Visible(log) :
           /\ setting.storeFails \/ page = Visible(log)
           /\ shown' = [shown EXCEPT ![r] = page]
    BY DEF List
  <1>6. Visible(log) \subseteq Keys
    <2>1. log \in Seq(LogEntries)
      BY <1>2 DEF Types
    <2>2. Visible(log) \subseteq KeysOf(log)
      BY DEF Visible
    <2> QED BY <2>1, <2>2, LogKeys
  <1>7. /\ shown' \in [Slots -> SUBSET Keys] /\ \A u \in Slots \ {r} : shown'[u] = shown[u]
        /\ shown'[r] = page
    BY <1>2, <1>5, <1>6 DEF Types
  <1>8. PICK code \in Codes \ {0} : code = 200
    BY DEF Codes
  <1>9. Answer(r, code)
    BY <1>1, <1>8
  <1>10. ~setting.storeFails =>
             \A k \in expected[r] :
                 Reliable(k) => Finds(req[r], body[r], k, code, shown'[r])
    BY <1>3, <1>4, <1>5, <1>7, ReliableVisible DEF Finds
  <1> QED BY <1>1, <1>2, <1>3, <1>7, <1>9, <1>10, AnswerStep

\* A ping, and a path of no route, have no effect.
LEMMA OtherStep ==
    ASSUME RequestInv, NEW r \in Slots, Ping(r) \/ NotRouted(r),
           setting' = setting, shown' = shown
    PROVE  RequestInv'
  <1>1. /\ At(r, "handler") /\ req[r].path \in {"/ping", "/updates"}
        /\ log' = log /\ audited' = audited
    BY DEF Ping, NotRouted
  <1>2. /\ req[r] \in Requests /\ Admitted(req[r]) /\ stage[r] = HandlerAt(req[r])
        /\ req[r].via = "http" /\ Types
    BY <1>1, InHandler
  <1>3. ~IsUpdate(req[r]) /\ req[r].path \notin ReadPaths /\ req[r].path # "/"
    BY <1>1, <1>2 DEF IsUpdate, SingleUpdate, ReadPaths
  <1>4. PICK code \in Codes \ {0} : Answer(r, code)
    BY DEF Ping, NotRouted, Codes
  <1>5. shown' \in [Slots -> SUBSET Keys] /\ \A u \in Slots \ {r} : shown'[u] = shown[u]
    BY <1>2 DEF Types
  <1>6. \A k : Finds(req[r], body[r], k, code, shown'[r])
    BY <1>3 DEF Finds
  <1> QED BY <1>1, <1>2, <1>3, <1>4, <1>5, <1>6, AnswerStep

\* A batch over gRPC goes to the store in one call, or not at all.
LEMMA UpdateMetricsStep ==
    ASSUME RequestInv, NEW r \in Slots, UpdateMetrics(r),
           setting' = setting, shown' = shown
    PROVE  RequestInv'
  <1> DEFINE items == req[r].items
  <1>1. At(r, "service") /\ audited' = audited
    BY DEF UpdateMetrics
  <1>2. Types /\ SlotInv(r)
    BY DEF RequestInv
  <1>3. /\ req[r] \in Requests /\ Admitted(req[r]) /\ stage[r] = HandlerAt(req[r])
        /\ req[r].via = "grpc"
    BY <1>1, <1>2, Positions
  <1>4. Applied(r) = {}
    BY <1>3, NothingYet
  <1>5. Wanted(req[r]) = Taken(items) /\ IsUpdate(req[r]) /\ ~(req[r].via = "http")
    BY <1>3 DEF Wanted, IsUpdate
  <1>6. items \in Seq(MetricRecords)
    <2>1. req[r] \in RequestRecords
      BY <1>3
    <2> QED BY <2>1 DEF RequestRecords
  <1>7. PICK code \in Codes \ {0} :
           /\ Answer(r, code)
           /\ Fits(req[r], code, Wanted(req[r]))
           /\ \/ \E batch \in Entries(r, items) : log' = log \o batch
              \/ log' = log /\ Fits(req[r], code, {})
    <2>1. PICK batch \in Entries(r, items) :
             \/ log' = log \o batch /\ Answer(r, 200)
             \/ setting.storeFails /\ log' \in {log, log \o batch} /\ Answer(r, 500)
      BY DEF UpdateMetrics
    <2>2. 200 \in Codes \ {0} /\ 500 \in Codes \ {0}
      BY DEF Codes
    <2>3. /\ Fits(req[r], 200, Wanted(req[r]))
          /\ setting.storeFails =>
                Fits(req[r], 500, Wanted(req[r])) /\ Fits(req[r], 500, {})
      BY DEF Fits
    <2> HIDE DEF items
    <2>4. CASE log' = log \o batch /\ Answer(r, 200)
      BY <2>2, <2>3, <2>4
    <2>5. CASE setting.storeFails /\ log' = log /\ Answer(r, 500)
      BY <2>2, <2>3, <2>5
    <2>6. CASE setting.storeFails /\ log' = log \o batch /\ Answer(r, 500)
      BY <2>2, <2>3, <2>6
    <2> QED BY <2>1, <2>4, <2>5, <2>6
  <1>8. CASE log' = log /\ Fits(req[r], code, {})
    <2>1. shown' \in [Slots -> SUBSET Keys] /\ \A u \in Slots \ {r} : shown'[u] = shown[u]
      BY <1>2 DEF Types
    <2>2. IsUpdate(req[r]) => Fits(req[r], code, Applied(r))
      BY <1>4, <1>8
    <2>3. req[r].via = "http" /\ ~setting.storeFails =>
            \A k \in expected[r] :
                Reliable(k) => Finds(req[r], body[r], k, code, shown'[r])
      BY <1>5
    <2>4. Answer(r, code) /\ UNCHANGED <<setting, log, audited>>
      BY <1>1, <1>7, <1>8
    <2> QED BY <1>3, <2>1, <2>2, <2>3, <2>4, AnswerStep
  <1>9. ASSUME NEW batch \in Entries(r, items), log' = log \o batch
        PROVE  RequestInv'
    <2>1. PICK taken \in InOrder(Taken(items)) :
             batch = [k \in DOMAIN taken |-> Entry(r, taken[k], items[taken[k]])]
      BY <1>9 DEF Entries
    <2>2. /\ taken \in [1..Cardinality(Taken(items)) -> Taken(items)]
          /\ \A n \in Taken(items) : \E k \in DOMAIN taken : taken[k] = n
          /\ \A j, k \in DOMAIN taken : j < k => taken[j] < taken[k]
      BY <2>1 DEF InOrder
    <2>3. /\ Taken(items) \subseteq 1..Len(items) /\ Len(items) \in Nat
          /\ Cardinality(Taken(items)) \in Nat
      <3>1. Taken(items) \subseteq DOMAIN items /\ DOMAIN items = 1..Len(items)
            /\ Len(items) \in Nat
        BY <1>6 DEF Taken
      <3>2. IsFiniteSet(1..Len(items))
        <4>1. \A k \in Int : IsFiniteSet(1..k)
          BY FS_Interval
        <4> QED BY <4>1, <3>1
      <3>3. IsFiniteSet(Taken(items))
        BY <3>1, <3>2, FS_Subset
      <3>4. Cardinality(Taken(items)) \in Nat
        BY <3>3, FS_CardinalityType
      <3> QED BY <3>1, <3>4
    <2>4. \A k \in DOMAIN taken :
             batch[k] \in LogEntries /\ batch[k].slot = r /\ batch[k].n = taken[k]
      <3> SUFFICES ASSUME NEW k \in DOMAIN taken
                   PROVE  /\ batch[k] \in LogEntries
                          /\ batch[k].slot = r /\ batch[k].n = taken[k]
        OBVIOUS
      <3>1. taken[k] \in Taken(items) /\ taken[k] \in 1..Len(items)
        BY <2>2, <2>3
      <3>2. items[taken[k]] \in MetricRecords /\ taken[k] \in Nat
        BY <3>1, <1>6
      <3>3. items[taken[k]].type \in MetricTypes
        BY <3>1 DEF Taken
      <3>4. batch[k] = Entry(r, taken[k], items[taken[k]])
        BY <2>1
      <3> QED BY <3>2, <3>3, <3>4, EntryType
    <2>5. /\ batch \in Seq(LogEntries) /\ DOMAIN batch = DOMAIN taken
          /\ \A k \in DOMAIN batch : batch[k].slot = r /\ batch[k].n = taken[k]
      <3>1. DOMAIN batch = 1..Cardinality(Taken(items)) /\ DOMAIN batch = DOMAIN taken
        BY <2>1, <2>2
      <3>2. PICK size \in Nat : size = Cardinality(Taken(items))
        BY <2>3
      <3>3. batch = [k \in 1..size |-> batch[k]]
        BY <2>1, <2>2, <3>2
      <3>4. \A k \in 1..size : batch[k] \in LogEntries
        BY <3>1, <3>2, <2>4
      <3>5. batch \in Seq(LogEntries)
        BY <3>3, <3>4
      <3>6. \A k \in DOMAIN batch : batch[k].slot = r /\ batch[k].n = taken[k]
        BY <3>1, <2>4
      <3> QED BY <3>1, <3>5, <3>6
    <2>6. /\ \A k \in DOMAIN batch : batch[k].slot = r
          /\ \A j, k \in DOMAIN batch : j < k => batch[j].n < batch[k].n
      BY <2>2, <2>5
    <2>7. {batch[k].n : k \in DOMAIN batch} = Wanted(req[r])
      <3>1. ASSUME NEW n
            PROVE  n \in {batch[k].n : k \in DOMAIN batch} <=> n \in Taken(items)
        BY <2>2, <2>5
      <3> QED BY <3>1, <1>5
    <2>8. /\ \A m \in Applied(r), k \in DOMAIN batch : m < batch[k].n
          /\ Wanted(req[r]) = Applied(r) \union {batch[k].n : k \in DOMAIN batch}
      BY <2>7, <1>4
    <2> QED BY <1>1, <1>3, <1>4, <1>5, <1>7, <1>9, <2>5, <2>6, <2>8, StoreStep
  <1> QED BY <1>7, <1>8, <1>9

-----------------------------------------------------------------------------
(* The specification.                                                       *)

LEMMA RequestInvInit == Init => RequestInv
  <1> SUFFICES ASSUME Init PROVE RequestInv
    OBVIOUS
  <1>1. DOMAIN log = {} /\ \A r \in Slots : Applied(r) = {}
    BY DEF Init, Applied
  <1>2. Types
    BY DEF Init, Types, NoBody, Bodies, Codes
  <1>3. ASSUME NEW r \in Slots PROVE SlotInv(r)
    <2>1. /\ req[r] = NoRequest /\ stage[r] = 0 /\ body[r] = NoBody /\ status[r] = 0
          /\ cursor[r] = 0 /\ audited = {} /\ expected[r] = {}
      BY DEF Init
    <2>2. Len(body[r].items) = 0
      BY <2>1 DEF NoBody
    <2>3. Arrived(r) /\ Untouched(r) /\ WithinBatch(r) /\ Prefix(r) /\ Past(r)
      BY <1>1, <2>1, <2>2 DEF Arrived, Untouched, WithinBatch, Prefix, Past
    <2>4. OnTheWay(r) /\ Outside(r) /\ Tells(r) /\ Found(r)
      BY <1>1, <2>1 DEF OnTheWay, Outside, Tells, Found
    <2> QED BY <2>3, <2>4 DEF SlotInv
  <1>4. Ordered /\ GrpcBatchIsAtomic
    BY <1>1 DEF Ordered, GrpcBatchIsAtomic
  <1> QED BY <1>2, <1>3, <1>4 DEF RequestInv

LEMMA RequestInvNext == RequestInv /\ [Next]_vars => RequestInv'
  <1> SUFFICES ASSUME RequestInv, [Next]_vars PROVE RequestInv'
    OBVIOUS
  <1>1. CASE UNCHANGED vars
    <2>1. /\ setting' = setting /\ req' = req /\ stage' = stage /\ body' = body
          /\ status' = status /\ cursor' = cursor /\ log' = log /\ audited' = audited
          /\ expected' = expected /\ shown' = shown
      BY <1>1 DEF vars, local
    <2>2. Types' /\ Ordered' /\ GrpcBatchIsAtomic'
      BY <2>1, StoreKept DEF RequestInv, Types
    <2>3. ASSUME NEW u \in Slots PROVE SlotInv(u)'
      <3>1. SlotInv(u) /\ Extends(log, log') /\ Applied(u)' = Applied(u)
        BY <2>1, LogKept DEF RequestInv
      <3>2. /\ req'[u] = req[u] /\ stage'[u] = stage[u] /\ body'[u] = body[u]
            /\ status'[u] = status[u] /\ cursor'[u] = cursor[u]
            /\ expected'[u] = expected[u] /\ shown'[u] = shown[u]
            /\ u \in audited' <=> u \in audited
        BY <2>1
      <3> QED BY <3>1, <3>2, <2>1, SlotFrame
    <2> QED BY <2>2, <2>3 DEF RequestInv
  <1>2. ASSUME NEW r \in Slots, Arrive(r) PROVE RequestInv'
    BY <1>2, ArriveStep
  <1>3. ASSUME NEW r \in Slots, Serve(r) PROVE RequestInv'
    <2>1. setting' = setting
      BY <1>3 DEF Serve
    <2>2. CASE List(r)
      BY <2>1, <2>2, ListStep
    <2>3. ASSUME ~List(r) PROVE shown' = shown
      BY <1>3, <2>3 DEF Serve
    <2>4. CASE ~List(r) /\ Subnet(r)
      BY <2>1, <2>3, <2>4, SubnetStep
    <2>5. CASE ~List(r) /\ (Gunzip(r) \/ Decrypt(r) \/ Audit(r) \/ CheckHash(r))
      BY <2>1, <2>3, <2>5, BetweenStep
    <2>6. CASE ~List(r) /\ UpdateMetric(r)
      BY <2>1, <2>3, <2>6, UpdateMetricStep
    <2>7. CASE ~List(r) /\ RefuseBatch(r)
      BY <2>1, <2>3, <2>7, RefuseBatchStep
    <2>8. CASE ~List(r) /\ ApplyNext(r)
      BY <2>1, <2>3, <2>8, ApplyNextStep
    <2>9. CASE ~List(r) /\ FinishBatch(r)
      BY <2>1, <2>3, <2>9, FinishBatchStep
    <2>10. CASE ~List(r) /\ Read(r)
      BY <2>1, <2>3, <2>10, ReadStep
    <2>11. CASE ~List(r) /\ (Ping(r) \/ NotRouted(r))
      BY <2>1, <2>3, <2>11, OtherStep
    <2>12. CASE ~List(r) /\ UpdateMetrics(r)
      BY <2>1, <2>3, <2>12, UpdateMetricsStep
    <2>13. CASE ~List(r) /\ AddHash(r)
      BY <2>1, <2>3, <2>13, AddHashStep
    <2> QED BY <1>3, <2>2, <2>4, <2>5, <2>6, <2>7, <2>8, <2>9, <2>10, <2>11, <2>12, <2>13
            DEF Serve
  <1> QED BY <1>1, <1>2, <1>3 DEF Next

LEMMA AlwaysRequestInv == Spec => []RequestInv
  BY RequestInvInit, RequestInvNext, PTL DEF Spec

\* Every variable keeps its type, and a request that is over has an answer.
THEOREM RequestTypes == Spec => []TypeOK
  <1>1. RequestInv => TypeOK
    <2> SUFFICES ASSUME RequestInv PROVE TypeOK
      OBVIOUS
    <2>1. Types
      BY DEF RequestInv
    <2>2. /\ setting \in Settings /\ status \in [Slots -> {0, 200, 400, 403, 404, 500}]
          /\ audited \subseteq Slots
          /\ shown \in [Slots -> SUBSET [id : {"", "m1", "m2"}, type : MetricTypes]]
      BY <2>1 DEF Types, Codes, Ids, Keys
    <2>3. ASSUME NEW r \in Slots
          PROVE  /\ req[r] \in Requests \union {NoRequest}
                 /\ req[r] = NoRequest <=> stage[r] = 0
                 /\ Over(r) => status[r] # 0
                 /\ body[r].items = <<>> \/ body[r].items = req[r].items
                 /\ cursor[r] <= Len(body[r].items)
      <3>1. SlotInv(r)
        BY DEF RequestInv
      <3>2. /\ req[r] \in Requests \union {NoRequest} /\ stage[r] \in Nat
            /\ req[r] = NoRequest <=> stage[r] = 0
            /\ cursor[r] <= Len(body[r].items)
        BY <2>1, <3>1 DEF Types, SlotInv, Arrived, WithinBatch
      <3>3. body[r].items = <<>> \/ body[r].items = req[r].items
        <4>1. body[r] = NoBody \/ body[r].items = req[r].items
          BY <3>1, <3>2 DEF SlotInv, Arrived, Untouched
        <4> QED BY <4>1 DEF NoBody
      <3>4. ASSUME Over(r) PROVE status[r] # 0
        <4>1. stage[r] > 0 /\ stage[r] > Len(Chain(req[r]))
          BY <3>4 DEF Over
        <4>2. /\ HandlerAt(req[r]) <= Len(Chain(req[r]))
              /\ HandlerAt(req[r]) \in Nat /\ Len(Chain(req[r])) \in Nat
          <5>1. CASE req[r].via = "grpc"
            BY <5>1 DEF HandlerAt, Chain
          <5>2. CASE req[r].via = "http"
            BY <5>2 DEF HandlerAt, Chain
          <5>3. req[r] \in Requests
            BY <3>2, <4>1
          <5>4. req[r] \in RequestRecords
            BY <5>3
          <5> QED BY <5>1, <5>2, <5>4 DEF RequestRecords
        <4>3. stage[r] > HandlerAt(req[r]) /\ req[r] # NoRequest
          BY <3>2, <4>1, <4>2
        <4> QED BY <4>3, <3>1 DEF SlotInv, Past
      <3> QED BY <3>2, <3>3, <3>4
    <2> QED BY <2>2, <2>3 DEF TypeOK
  <1> QED BY <1>1, AlwaysRequestInv, PTL

\* At every moment the store has a prefix of each request, each metric once and in
\* the request's order: UpdateMetricsBatch stops at its first error.
THEOREM PrefixAlways == Spec => []EffectIsAPrefix
  <1>1. RequestInv => EffectIsAPrefix
    <2> SUFFICES ASSUME RequestInv, NEW r \in Slots, req[r] # NoRequest
                 PROVE  /\ Applied(r) \subseteq Wanted(req[r])
                        /\ \A n \in Applied(r), m \in Wanted(req[r]) :
                              m < n => m \in Applied(r)
                        /\ \A i, j \in DOMAIN log :
                              i < j /\ log[i].slot = r /\ log[j].slot = r
                              => log[i].n < log[j].n
      BY DEF EffectIsAPrefix
    <2>1. Prefix(r) /\ Ordered
      BY DEF RequestInv, SlotInv
    <2>2. \A i, j \in DOMAIN log :
             i < j /\ log[i].slot = r /\ log[j].slot = r => log[i].n < log[j].n
      BY <2>1 DEF Ordered
    <2> QED BY <2>1, <2>2 DEF Prefix
  <1> QED BY <1>1, AlwaysRequestInv, PTL

\* The client can rely on the answer to an update: 200 when the store has all of it,
\* a refusal when it has nothing; only a failure of the store leaves it in the dark.
THEOREM AnswersTell == Spec => []AnswerTellsTheEffect
  <1>1. RequestInv => AnswerTellsTheEffect
    BY DEF RequestInv, SlotInv, Tells, AnswerTellsTheEffect
  <1> QED BY <1>1, AlwaysRequestInv, PTL

\* A request from outside the trusted subnet leaves no trace, whatever it asks for.
THEOREM OutsidersInvisible == Spec => []OutsiderIsInvisible
  <1>1. RequestInv => OutsiderIsInvisible
    BY DEF RequestInv, SlotInv, Outside, OutsiderIsInvisible
  <1> QED BY <1>1, AlwaysRequestInv, PTL

\* No metric of another request gets into the middle of a gRPC batch.
THEOREM BatchesAtomic == Spec => []GrpcBatchIsAtomic
  BY AlwaysRequestInv, PTL DEF RequestInv

\* A read that arrives after an update was acknowledged finds it, in a database as
\* long as the name has been written with this type only.
THEOREM ReadsFind == Spec => []AcknowledgedIsFound
  <1>1. RequestInv => AcknowledgedIsFound
    BY DEF RequestInv, SlotInv, Found, AcknowledgedIsFound
  <1> QED BY <1>1, AlwaysRequestInv, PTL

=============================================================================
