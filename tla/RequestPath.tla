---------------------------- MODULE RequestPath ----------------------------
(***************************************************************************)
(* What happens to a request between the wire and the store: the chain of  *)
(* middleware of internal/handler/router.go, the handlers of http.go, and  *)
(* the interceptor and handler of internal/grpc.  Several requests are     *)
(* served at the same time; a batch over HTTP reaches the store metric by  *)
(* metric, a gRPC batch in one call.                                       *)
(*                                                                         *)
(* A body is its layers of encoding, outermost first, around a form and    *)
(* the metrics in it; of a metric only the value is left out.  The store   *)
(* is the log of what was applied since the server started with nothing in *)
(* it; what a read finds there depends on whether it is a database.        *)
(***************************************************************************)
EXTENDS Naturals, Sequences, SequencesExt, FiniteSets

CONSTANTS
    Slots,          \* requests served at the same time
    Requests,       \* what clients may send
    NoRequest,      \* a slot nothing has arrived in
    Settings        \* how the server may be set up

Paths == {"/update", "/update/{}", "/updates/", "/updates",
          "/value", "/value/", "/value/{}", "/", "/ping"}

MetricTypes == {"gauge", "counter"}

\* type "" is any other; valued: the field that goes with the type is there.
MetricRecords == [id : {"", "m1", "m2"}, type : MetricTypes \union {""}, valued : BOOLEAN]

\* A path without parameters, or a body without a metric.
NoMetric == [id |-> "", type |-> "", valued |-> FALSE]

Key(m) == [id |-> m.id, type |-> m.type]

\* chunked: no Content-Length.  form "cut": reading the body fails midway.
RequestRecords ==
    [via : {"http", "grpc"}, path : Paths,
     header : {"", "inside", "outside", "garbled"}, remote : {"inside", "outside"},
     layers : Seq({"gzip", "rsa", "hybrid"}),
     gzip : BOOLEAN, encrypted : {"", "rsa", "hybrid", "other"}, chunked : BOOLEAN,
     form : {"empty", "object", "array", "junk", "cut"}, items : Seq(MetricRecords),
     url : MetricRecords]

\* chain: NewRouter, or the handlers behind the address checks only, as the tests
\* of the handlers route them.  The rest: trusted_subnet and crypto_key are
\* configured; the store is Postgres or the memory; a call of it may fail.
SettingRecords ==
    [chain : {"production", "handlers"}, trustedSubnet : BOOLEAN,
     privateKey : BOOLEAN, database : BOOLEAN, storeFails : BOOLEAN]

ASSUME RequestAssumption ==
    /\ NoRequest \notin Requests
    /\ Requests \subseteq RequestRecords
    /\ \A q \in Requests : q.form = "object" => Len(q.items) = 1
    /\ Settings \subseteq SettingRecords

\* Which paths have parameters, that a GET has no body, and that the memory cannot
\* fail.
ASSUME CatalogueAssumption ==
    /\ \A q \in Requests :
          /\ q.url # NoMetric => q.path \in {"/update/{}", "/value/{}"}
          /\ q.path \in {"/value/{}", "/", "/ping"} => q.form = "empty"
    /\ \A s \in Settings : s.storeFails => s.database

VARIABLES
    setting,    \* fixed when the server starts
    req,        \* [Slots -> the request being served]
    stage,      \* [Slots -> Nat], position in the chain; 0 before arrival
    body,       \* [Slots -> [layers, form, items]], what is left of r.Body
    status,     \* [Slots -> Nat], the answer, 0 while there is none
    cursor,     \* [Slots -> Nat], metrics of a batch already applied
    log,        \* what the store has applied: [slot, n, id, type], n-th of its request
    audited,    \* slots an audit event was sent for
    expected,   \* [Slots -> keys acknowledged before the request arrived]
    shown       \* [Slots -> keys on the page it was answered with]

local == <<req, stage, body, cursor, expected>>
vars == <<setting, local, status, log, audited, shown>>

NoBody == [layers |-> <<>>, form |-> "empty", items |-> <<>>]

\* The audit sees the request before the address has been checked.
BugChain(q) ==
    IF q.via = "grpc" THEN <<"subnet", "service">>
    ELSE IF setting.chain = "production"
    THEN <<"gunzip", "decrypt", "audit", "subnet", "checkhash", "handler",
           "addhash">>
    ELSE <<"subnet", "handler">>

\* r.Use in the order of NewRouter, around the handler; and gRPC's interceptor.
Chain(q) ==
    IF q.via = "grpc" THEN <<"subnet", "service">>
    ELSE IF setting.chain = "production"
    THEN <<"subnet", "gunzip", "decrypt", "audit", "checkhash", "handler",
           "addhash">>
    ELSE <<"subnet", "handler">>

At(r, name) ==
    /\ stage[r] > 0
    /\ stage[r] <= Len(Chain(req[r]))
    /\ Chain(req[r])[stage[r]] = name

Over(r) == stage[r] > 0 /\ stage[r] > Len(Chain(req[r]))

Init ==
    /\ setting \in Settings
    /\ req = [r \in Slots |-> NoRequest]
    /\ stage = [r \in Slots |-> 0]
    /\ body = [r \in Slots |-> NoBody]
    /\ status = [r \in Slots |-> 0]
    /\ cursor = [r \in Slots |-> 0]
    /\ log = <<>>
    /\ audited = {}
    /\ expected = [r \in Slots |-> {}]
    /\ shown = [r \in Slots |-> {}]

KeysOf(entries) == {Key(entries[i]) : i \in DOMAIN entries}

\* The keys of updates that have been answered with success.
Acknowledged ==
    {Key(log[i]) : i \in {j \in DOMAIN log : status[log[j].slot] = 200}}

Arrive(r) ==
    /\ stage[r] = 0
    /\ \E q \in Requests :
          /\ req' = [req EXCEPT ![r] = q]
          /\ body' = [body EXCEPT ![r] = [layers |-> q.layers, form |-> q.form,
                                          items |-> q.items]]
    /\ stage' = [stage EXCEPT ![r] = 1]
    /\ expected' = [expected EXCEPT ![r] = Acknowledged]
    /\ UNCHANGED <<setting, cursor, status, log, audited, shown>>

-----------------------------------------------------------------------------
(* The steps of a chain.                                                    *)

\* next.ServeHTTP with this body.
PassWith(r, b) ==
    /\ stage' = [stage EXCEPT ![r] = @ + 1]
    /\ body' = [body EXCEPT ![r] = b]
    /\ UNCHANGED <<req, cursor, expected, status>>

Pass(r) == PassWith(r, body[r])

\* A middleware answers itself: what is behind it does not run.
Refuse(r, code) ==
    /\ status' = [status EXCEPT ![r] = code]
    /\ stage' = [stage EXCEPT ![r] = Len(Chain(req[r])) + 1]
    /\ UNCHANGED <<req, body, cursor, expected>>

\* The handler writes the header and the body, then its callers go on.
Answer(r, code) ==
    /\ status' = [status EXCEPT ![r] = code]
    /\ stage' = [stage EXCEPT ![r] = @ + 1]
    /\ UNCHANGED <<req, body, cursor, expected>>

\* GetRealIPMiddleware: the header, or else the peer.  gRPC has the header only.
Address(q) == IF q.header = "" /\ q.via = "http" THEN q.remote ELSE q.header

\* TrustedSubnetMiddleware and SubnetInterceptor.
Subnet(r) ==
    /\ At(r, "subnet")
    /\ IF setting.trustedSubnet /\ Address(req[r]) # "inside" THEN Refuse(r, 403) ELSE Pass(r)
    /\ UNCHANGED <<log, audited>>

\* What is left of b without its outermost layer.
Peel(b) == [b EXCEPT !.layers = Tail(@)]

\* The body can be read to its end, and this is its outermost layer.
Opens(b, layer) == b.form # "cut" /\ b.layers # <<>> /\ Head(b.layers) = layer

\* GzipDecompression: an empty body is left alone only if it is known to be.
Gunzip(r) ==
    /\ At(r, "gunzip")
    /\ LET nothing == body[r] = NoBody /\ ~req[r].chunked IN
       \/ /\ ~req[r].gzip \/ nothing
          /\ Pass(r)
       \/ /\ req[r].gzip /\ ~nothing
          /\ IF Opens(body[r], "gzip")
             THEN PassWith(r, Peel(body[r]))
             ELSE Refuse(r, 400)
    /\ UNCHANGED <<log, audited>>

\* DecryptMiddleware, in the chain only with a private key.
Decrypt(r) ==
    /\ At(r, "decrypt")
    /\ LET label == req[r].encrypted IN
       \/ /\ ~setting.privateKey \/ label = "" \/ body[r] = NoBody
          /\ Pass(r)
       \/ /\ setting.privateKey /\ label # "" /\ body[r] # NoBody
          /\ IF Opens(body[r], label)
             THEN PassWith(r, Peel(body[r]))
             ELSE Refuse(r, 400)
    /\ UNCHANGED <<log, audited>>

\* What json.Decode makes of a body that should hold this form.
Decodes(b, form) == b.layers = <<>> /\ b.form = form

AuditedPaths == {"/update", "/updates", "/updates/", "/value"}

\* AuditMiddleware: the body is decoded as an array, and what the decoder has
\* read is gone for the handler; a body that cannot be read is the handler's
\* matter.  A receiver that fails is only logged.
Audit(r) ==
    /\ At(r, "audit")
    /\ \/ /\ req[r].path \notin AuditedPaths \/ body[r].form = "cut"
          /\ Pass(r)
          /\ UNCHANGED audited
       \/ /\ req[r].path \in AuditedPaths
          /\ Decodes(body[r], "array")
          /\ PassWith(r, NoBody)
          /\ audited' = IF body[r].items = <<>> THEN audited ELSE audited \union {r}
       \/ /\ req[r].path \in AuditedPaths
          /\ ~Decodes(body[r], "array") /\ body[r].form # "cut"
          /\ Refuse(r, 400)
          /\ UNCHANGED audited
    /\ UNCHANGED log

\* CheckHash: a hash that does not match is only logged, and the body put back.
\* Only a request with a hash has its body read, which may fail.
CheckHash(r) ==
    /\ At(r, "checkhash")
    /\ Pass(r) \/ (body[r].form = "cut" /\ Refuse(r, 400))
    /\ UNCHANGED <<log, audited>>

\* AddHash, after the handler: it sets a header of a response that has been
\* written, which changes nothing any more.
AddHash(r) ==
    /\ At(r, "addhash")
    /\ Pass(r)
    /\ UNCHANGED <<log, audited>>

-----------------------------------------------------------------------------
(* The handlers.                                                            *)

ValidUpdate(m) == m.id # "" /\ m.type \in MetricTypes /\ m.valued

Entry(r, n, m) == [slot |-> r, n |-> n, id |-> m.id, type |-> m.type]

\* One call of UpdateGauge or UpdateCounter with the n-th metric of r: the store
\* takes it and then holds; or it fails, which says nothing of the metric: the
\* statement may not have got there, or only its answer was lost.
Stores(r, n, m, holds, fails) ==
    \/ /\ log' = Append(log, Entry(r, n, m))
       /\ holds
    \/ /\ setting.storeFails
       /\ log' \in {log, Append(log, Entry(r, n, m))}
       /\ fails

\* r.ContentLength > 0, which decompression sets, for a body that is not empty.
Sized(r) == ~req[r].chunked \/ (req[r].gzip /\ setting.chain = "production")

SingleUpdate == {"/update", "/update/{}"}

\* UpdateMetric: a JSON object in the body, or else the parameters of the path.
UpdateMetric(r) ==
    /\ At(r, "handler")
    /\ req[r].path \in SingleUpdate
    /\ LET json == Sized(r) /\ Decodes(body[r], "object")
           m == IF json THEN Head(body[r].items) ELSE req[r].url
           nameless == ~json /\ m.id = ""
       IN \/ /\ ~ValidUpdate(m)
             /\ Answer(r, IF nameless THEN 404 ELSE 400)
             /\ UNCHANGED log
          \/ /\ ValidUpdate(m)
             /\ Stores(r, 1, m, Answer(r, 200), Answer(r, IF json THEN 400 ELSE 500))
    /\ UNCHANGED audited

\* UpdateMetricsBatch, the checks: the whole batch before its first metric.
Acceptable(b) ==
    /\ Decodes(b, "array")
    /\ b.items # <<>>
    /\ \A i \in DOMAIN b.items : ValidUpdate(b.items[i])

RefuseBatch(r) ==
    /\ At(r, "handler")
    /\ req[r].path = "/updates/"
    /\ cursor[r] = 0
    /\ ~Acceptable(body[r])
    /\ Answer(r, 400)
    /\ UNCHANGED <<log, audited>>

InBatch(r) ==
    /\ At(r, "handler")
    /\ req[r].path = "/updates/"
    /\ cursor[r] > 0 \/ Acceptable(body[r])
    /\ cursor[r] < Len(body[r].items)

\* One metric of the batch done, as the loop goes on.
Advances(r) ==
    /\ cursor' = [cursor EXCEPT ![r] = @ + 1]
    /\ UNCHANGED <<req, stage, body, expected, status>>

\* A metric that cannot be applied is skipped.
BugApplyNext(r) ==
    /\ InBatch(r)
    /\ LET n == cursor[r] + 1
           m == body[r].items[n]
       IN Stores(r, n, m, Advances(r), Advances(r))
    /\ UNCHANGED audited

\* UpdateMetricsBatch, the loop: processMetric applies the metric (Acceptable
\* has checked it); the first error ends the request.
ApplyNext(r) ==
    /\ InBatch(r)
    /\ LET n == cursor[r] + 1
           m == body[r].items[n]
       IN Stores(r, n, m, Advances(r), Answer(r, 500))
    /\ UNCHANGED audited

\* The loop waits for one metric too many.
BugFinishBatch(r) ==
    /\ At(r, "handler")
    /\ req[r].path = "/updates/"
    /\ cursor[r] > Len(body[r].items)
    /\ Answer(r, 200)
    /\ UNCHANGED <<log, audited>>

FinishBatch(r) ==
    /\ At(r, "handler")
    /\ req[r].path = "/updates/"
    /\ cursor[r] > 0 /\ cursor[r] = Len(body[r].items)
    /\ Answer(r, 200)
    /\ UNCHANGED <<log, audited>>

\* A write of the same name with the other type.
Opposes(e, k) == e.id = k.id /\ e.type # k.type

\* What a reader finds in the store.  The memory has a map for each type.  A row
\* of the database keeps the type it was inserted with, each write clears the
\* other type's column, and a reader asks for its type and its column.
Visible(l) ==
    IF ~setting.database THEN KeysOf(l)
    ELSE {k \in KeysOf(l) :
            /\ \E i \in DOMAIN l :
                  Key(l[i]) = k /\ \A j \in DOMAIN l : j < i => ~Opposes(l[j], k)
            /\ \E i \in DOMAIN l :
                  Key(l[i]) = k /\ \A j \in DOMAIN l : j > i => ~Opposes(l[j], k)}

\* The answer comes from what the store had before its last write.
BugLookup(m) == IF log # <<>> /\ Key(m) \in Visible(Front(log)) THEN 200 ELSE 404

\* A lookup: the status for a metric of a known type.
Lookup(m) == IF Key(m) \in Visible(log) THEN 200 ELSE 404

ReadPaths == {"/value", "/value/", "/value/{}"}

\* The metric a read asks for: in the body (GetValueJSON) or in the path.
Asked(q, b) ==
    CASE q.path = "/value/{}"  -> q.url
      [] Decodes(b, "object")  -> Head(b.items)
      [] OTHER                 -> NoMetric

Findable(m) == m.id # "" /\ m.type \in MetricTypes

\* GetValueJSON and GetValue; an error of the store looks like "not found".
Read(r) ==
    /\ At(r, "handler")
    /\ req[r].path \in ReadPaths
    /\ LET m == Asked(req[r], body[r])
           nameless == req[r].path = "/value/{}" /\ m.id = ""
       IN \/ Findable(m) /\ Answer(r, Lookup(m))
          \/ Findable(m) /\ setting.storeFails /\ Answer(r, 404)
          \/ ~Findable(m) /\ Answer(r, IF nameless THEN 404 ELSE 400)
    /\ UNCHANGED <<log, audited>>

\* GetAll: the page of all metrics.  A store that fails loses some of them, and
\* the answer is the same.
List(r) ==
    /\ At(r, "handler")
    /\ req[r].path = "/"
    /\ \E page \in SUBSET Visible(log) :
          /\ setting.storeFails \/ page = Visible(log)
          /\ shown' = [shown EXCEPT ![r] = page]
    /\ Answer(r, 200)
    /\ UNCHANGED <<log, audited>>

\* PingDB, for a server with a database or without.
Ping(r) ==
    /\ At(r, "handler")
    /\ req[r].path = "/ping"
    /\ \E code \in {200, 500} : Answer(r, code)
    /\ UNCHANGED <<log, audited>>

\* A path of no route; the middleware has run all the same.
NotRouted(r) ==
    /\ At(r, "handler")
    /\ req[r].path = "/updates"
    /\ Answer(r, 404)
    /\ UNCHANGED <<log, audited>>

\* MetricsGRPCHandler.UpdateMetrics: no validation, and one call of the store,
\* which leaves out a metric without a known type.
Taken(items) == {n \in DOMAIN items : items[n].type \in MetricTypes}

\* The numbers of S from the lowest to the highest: one sequence.
InOrder(S) ==
    {s \in [1..Cardinality(S) -> S] :
        /\ \A n \in S : \E k \in DOMAIN s : s[k] = n
        /\ \A j, k \in DOMAIN s : j < k => s[j] < s[k]}

Entries(r, items) ==
    {[k \in DOMAIN taken |-> Entry(r, taken[k], items[taken[k]])] :
        taken \in InOrder(Taken(items))}

\* The gRPC handler takes the HTTP way, metric by metric.
BugUpdateMetrics(r) ==
    /\ At(r, "service")
    /\ LET n == cursor[r] + 1 IN
       IF n > Len(req[r].items)
       THEN Answer(r, 200) /\ UNCHANGED log
       ELSE /\ Advances(r)
            /\ log' = IF n \in Taken(req[r].items)
                      THEN Append(log, Entry(r, n, req[r].items[n])) ELSE log
    /\ UNCHANGED audited

\* The error of the service is dropped.
BugUpdateMetricsError(r) ==
    /\ At(r, "service")
    /\ \/ \E batch \in Entries(r, req[r].items) : log' = log \o batch
       \/ setting.storeFails /\ UNCHANGED log
    /\ Answer(r, 200)
    /\ UNCHANGED audited

\* When the call fails the transaction is rolled back, or its commit is what had
\* no answer.
UpdateMetrics(r) ==
    /\ At(r, "service")
    /\ \E batch \in Entries(r, req[r].items) :
          \/ /\ log' = log \o batch
             /\ Answer(r, 200)
          \/ /\ setting.storeFails
             /\ log' \in {log, log \o batch}
             /\ Answer(r, 500)
    /\ UNCHANGED audited

Serve(r) ==
    /\ \/ /\ \/ Subnet(r) \/ Gunzip(r) \/ Decrypt(r) \/ Audit(r) \/ CheckHash(r)
             \/ UpdateMetric(r) \/ RefuseBatch(r) \/ ApplyNext(r) \/ FinishBatch(r)
             \/ Read(r) \/ Ping(r) \/ NotRouted(r) \/ UpdateMetrics(r) \/ AddHash(r)
          /\ UNCHANGED shown
       \/ List(r)
    /\ UNCHANGED setting

Next == \E r \in Slots : Arrive(r) \/ Serve(r)

Spec == Init /\ [][Next]_vars

\* A request that has arrived is served.
FairSpec == Spec /\ \A r \in Slots : WF_vars(Serve(r))

-----------------------------------------------------------------------------
(* Properties.                                                              *)

\* Every variable keeps its type; a request that is over has an answer, and its
\* body is the one that was sent or none.
TypeOK ==
    /\ setting \in Settings
    /\ \A r \in Slots :
          /\ req[r] \in Requests \union {NoRequest}
          /\ req[r] = NoRequest <=> stage[r] = 0
          /\ Over(r) => status[r] # 0
          /\ body[r].items = <<>> \/ body[r].items = req[r].items
          /\ cursor[r] <= Len(body[r].items)
    /\ status \in [Slots -> {0, 200, 400, 403, 404, 500}]
    /\ audited \subseteq Slots
    /\ shown \in [Slots -> SUBSET [id : {"", "m1", "m2"}, type : MetricTypes]]

\* Which metrics of a request the store has.
Applied(r) == {log[i].n : i \in {j \in DOMAIN log : log[j].slot = r}}

\* What a request asks to have applied.
Wanted(q) ==
    IF q.via = "grpc" THEN Taken(q.items)
    ELSE IF q.path = "/updates/" THEN DOMAIN q.items
    ELSE IF q.path \in SingleUpdate THEN {1}
    ELSE {}

IsUpdate(q) == q.via = "grpc" \/ q.path \in SingleUpdate \union {"/updates/"}

\* At every moment the store has a prefix of the request, each metric once and
\* in the request's order: a failure leaves no hole behind it.
EffectIsAPrefix ==
    \A r \in Slots : req[r] # NoRequest =>
        /\ Applied(r) \subseteq Wanted(req[r])
        /\ \A n \in Applied(r), m \in Wanted(req[r]) : m < n => m \in Applied(r)
        /\ \A i, j \in DOMAIN log :
              i < j /\ log[i].slot = r /\ log[j].slot = r => log[i].n < log[j].n

\* What the store may have of a request that gets this answer.
Fits(q, code, effect) ==
    CASE code = 200 -> effect = Wanted(q)
      [] code = 500 -> setting.storeFails /\ (q.via = "grpc" => effect \in {{}, Wanted(q)})
      [] code = 400 -> effect = {} \/ (setting.storeFails /\ q.path \in SingleUpdate)
      [] OTHER      -> effect = {}

\* The client can rely on the answer: after 200 everything is applied, after a
\* refusal (400, 403, 404) nothing.  Only a store that failed leaves it in the
\* dark: 500, or 400 for a metric in JSON, where the statement may have run; and
\* of a gRPC batch the store then has all or nothing.
AnswerTellsTheEffect ==
    \A r \in Slots : status[r] # 0 /\ IsUpdate(req[r]) =>
        Fits(req[r], status[r], Applied(r))

\* A request from outside the trusted subnet leaves no trace: nothing applied,
\* no audit event.
OutsiderIsInvisible ==
    \A r \in Slots :
        setting.trustedSubnet /\ req[r] # NoRequest /\ Address(req[r]) # "inside"
            => Applied(r) = {} /\ r \notin audited

\* A gRPC batch is one transaction: no metric of another request gets between.
GrpcBatchIsAtomic ==
    \A i, j \in DOMAIN log : i < j /\ log[i].slot = log[j].slot
                             /\ req[log[i].slot].via = "grpc"
        => \A k \in i..j : log[k].slot = log[i].slot

\* A read of k is not answered "not found", and the page of all metrics has it.
Finds(q, b, k, code, page) ==
    /\ q.path \in ReadPaths /\ Findable(Asked(q, b)) /\ Key(Asked(q, b)) = k => code # 404
    /\ q.path = "/" /\ code = 200 => k \in page

\* In a database a name can be relied on while it is written with one type only.
Reliable(k) ==
    setting.database => \A i \in DOMAIN log : ~Opposes(log[i], k)

\* A read that arrives after an update was acknowledged, over HTTP or gRPC and as
\* whichever of its metrics, finds it, and so does the page of all metrics.
AcknowledgedIsFound ==
    \A r \in Slots :
        req[r] # NoRequest /\ req[r].via = "http" /\ ~setting.storeFails =>
            \A k \in expected[r] :
                Reliable(k) => Finds(req[r], body[r], k, status[r], shown[r])

\* Every request that arrives is answered.
Answered == \A r \in Slots : stage[r] > 0 ~> status[r] # 0

-----------------------------------------------------------------------------
(* What the documentation and the tests say of the server.                  *)

Admitted(q) == ~setting.trustedSubnet \/ Address(q) = "inside"

\* An update in one of the documented forms: a JSON object on /update, an array
\* on /updates/, or parameters in the path.
Documented(q) ==
    CASE q.path = "/update"    -> q.form = "object" /\ ValidUpdate(Head(q.items))
      [] q.path = "/updates/"  -> q.form = "array" /\ q.items # <<>>
                                  /\ \A i \in DOMAIN q.items : ValidUpdate(q.items[i])
      [] q.path = "/update/{}" -> ValidUpdate(q.url)
      [] OTHER                 -> FALSE

\* An admitted client that sends a documented update, not encoded and with its
\* length, to a store that does not fail reads 200 (http.go:34, http.go:305).
DocumentedUpdateIsAccepted ==
    \A r \in Slots :
        status[r] # 0 /\ req[r].via = "http" /\ Admitted(req[r])
            /\ Documented(req[r]) /\ ~setting.storeFails
            /\ req[r].layers = <<>> /\ ~req[r].gzip /\ req[r].encrypted = ""
            /\ ~req[r].chunked
            => status[r] = 200

=============================================================================
