----------------------------- MODULE HttpSender -----------------------------
(***************************************************************************)
(* One call of HTTPSender.SendMetrics (internal/agent/http_sender.go): the *)
(* batch is sent with up to MaxAttempts tries and, when that fails, every  *)
(* metric is sent on its own by concurrent goroutines, each with its own   *)
(* tries and each try with a JSON request and a text request.  The server  *)
(* may answer an error, apply a part of a batch, lose the answer of what   *)
(* it applied, or not answer at all, and the connection may break in a way *)
(* the classifier takes for permanent; each of these is a fault here.  A   *)
(* request may also have no body: JSON has no form for a NaN or infinite   *)
(* gauge, and the public key may be too short for what it is to encrypt.   *)
(*                                                                         *)
(* The other sender, GRPCSender.SendMetrics (sender_grpc.go), makes one     *)
(* call with the whole slice, whatever validateMetric would say of it, and *)
(* returns its error; agent main chooses between the two.                  *)
(*                                                                         *)
(* Time is in whole seconds and advances only when every goroutine waits.  *)
(* The operators named Bug... are plausible mistakes in the operator that  *)
(* follows them.                                                           *)
(***************************************************************************)
EXTENDS Naturals, FiniteSets, Sequences

CONSTANTS
    Size,           \* number of metrics in the slice
    Invalid,        \* the positions validateMetric refuses
    NoForms,        \* the possible sets of valid positions JSON has no form for
    TooLongs,       \* the possible sets of requests the public key cannot encrypt
    MaxConc,        \* maxConc, the capacity of the semaphore
    Deadlines,      \* seconds at which a caller's context may expire
    Cancellable,    \* BOOLEAN: may the caller cancel its context earlier?
    Senders,        \* the senders agent main may choose: "http", "grpc"
    Servers,        \* sets of the requests "batch", "json", "text", "grpc" that a
                    \* server answers with 200 or codes.OK
    MaxFaults       \* bound: failures on the way to the server and back

ASSUME SenderAssumption ==
    /\ Size \in Nat
    /\ Invalid \subseteq 1..Size
    /\ \A s \in NoForms : s \subseteq (1..Size) \ Invalid
    /\ \A s \in TooLongs : s \subseteq 0..Size
    /\ MaxConc \in Nat \ {0}
    /\ Deadlines \subseteq Nat \ {0}
    /\ Cancellable \in BOOLEAN
    /\ Senders \subseteq {"http", "grpc"}
    /\ \A s \in Servers : s \subseteq {"batch", "json", "text", "grpc"}
    /\ MaxFaults \in Nat

Metrics == 1..Size
Valid == Metrics \ Invalid
Batch == 0                          \* the task that sends the batch
Tasks == {Batch} \union Valid       \* the Retry loops

MaxAttempts == 3                    \* DefaultRetryConfig
Delays == <<1, 3, 5>>
ClientTimeout == 10                 \* client.SetTimeout
RequestTimeout == 5                 \* of an individual request, and of a gRPC call

VARIABLES
    sender,     \* which sender this agent has
    deadline,   \* of the caller's context
    takes,      \* what this server answers with 200
    noForm,     \* the metrics json.Marshal fails on
    tooLong,    \* the tasks whose JSON body EncryptWithRSA fails on
    now,        \* seconds since the call
    cancelled,  \* the caller cancelled its context
    caller,     \* where SendMetrics is: "batch", "spawn", "join", "returned"
    result,     \* what SendMetrics returned: "none" before, "nil", "error"
    next,       \* the loop over validMetrics has come to this position
    pc,         \* [Tasks -> "idle", "send", "text", "hung", "sleep", "ended"]
    attempt,    \* [Tasks -> Nat], the counter of Retry
    wake,       \* [Tasks -> Nat], end of the sleep or of the request's time
    sent,       \* tasks whose Retry returned nil
    applied,    \* [Metrics -> Nat], how often the server applied the metric
    faults,     \* failures so far
    permanents  \* those among them that leave the loop no other attempt

call == <<sender, deadline, takes, noForm, tooLong>>     \* fixed from the start
clock == <<now, cancelled>>
tasks == <<pc, attempt, wake, sent>>
server == <<applied, faults, permanents>>
vars == <<call, clock, caller, result, next, tasks, server>>

CtxDone == cancelled \/ now >= deadline

Init ==
    /\ sender \in Senders
    /\ deadline \in Deadlines
    /\ takes \in Servers
    /\ noForm \in NoForms
    /\ tooLong \in TooLongs
    /\ now = 0
    /\ cancelled = FALSE
    /\ caller = "batch"
    /\ result = "none"
    /\ next = 1
    /\ pc = [t \in Tasks |-> IF t = Batch THEN "send" ELSE "idle"]
    /\ attempt = [t \in Tasks |-> 0]
    /\ wake = [t \in Tasks |-> 0]
    /\ sent = {}
    /\ applied = [m \in Metrics |-> 0]
    /\ faults = 0
    /\ permanents = 0

-----------------------------------------------------------------------------
(* The server, as a sender can meet it.                                     *)

\* What a request carries, in the order the server applies it.  The gRPC sender
\* does not validate: what is nil is sent as 0, an unknown type as a gauge.
Content(t) == IF t # Batch THEN {t} ELSE IF sender = "grpc" THEN Metrics ELSE Valid

\* The parts of a request an error can leave applied: an HTTP batch is applied
\* metric by metric, so an error leaves a prefix; a gRPC batch is one call.
Parts(t, form) ==
    IF form \notin takes THEN {{}}
    ELSE IF form = "grpc" THEN {{}, Content(t)}
    ELSE {{m \in Content(t) : m <= n} : n \in 0..Size}

\* Everything that can happen to a request: [answer, done].
Outcomes(t, form) ==
    {[answer |-> IF form \in takes THEN "200" ELSE "400",
      done |-> IF form \in takes THEN Content(t) ELSE {}]}
    \union (IF faults < MaxFaults
            THEN [answer : {"500", "EOF", "broken", "silence"}, done : Parts(t, form)]
            ELSE {})

\* ClassifyHTTPError: 408, 429, 5xx (all "500" here) and a connection that is
\* cut off are worth another try.  Any other error is permanent ("broken"): one
\* isRetriableNetworkError has no word for, as a broken pipe or no route to the
\* host, and an unexpected status such as a proxy's 403.  The text of an expired
\* deadline has none of its words either.
Retriable(answer) == answer \in {"500", "EOF"}

\* An error after which the loop makes no other attempt; behind the JSON request
\* there is still the text request, unless the attempt's time is over.
Permanent(answer, form) ==
    answer = "silence" \/ (answer = "broken" /\ form # "json")

Exchange(form, o) ==
    /\ applied' = [m \in Metrics |-> applied[m] + IF m \in o.done THEN 1 ELSE 0]
    /\ faults' = faults + IF o.answer \in {"200", "400"} THEN 0 ELSE 1
    /\ permanents' = permanents + IF Permanent(o.answer, form) THEN 1 ELSE 0

-----------------------------------------------------------------------------
(* Retry.                                                                   *)

Ends(t, outcome) ==
    /\ pc' = [pc EXCEPT ![t] = "ended"]
    /\ sent' = IF outcome = "ok" THEN sent \union {t} ELSE sent
    /\ UNCHANGED <<attempt, wake>>

Earlier(a, b) == IF a < b THEN a ELSE b

\* The request has no answer yet; its context or the client gives up at limit.
Hangs(t) ==
    LET limit == IF t = Batch /\ sender = "http" THEN ClientTimeout ELSE RequestTimeout
    IN /\ pc' = [pc EXCEPT ![t] = "hung"]
       /\ wake' = [wake EXCEPT ![t] = Earlier(now + limit, deadline)]
       /\ UNCHANGED <<attempt, sent>>

\* The sleep after attempt n, counted from 0.
Delay(n) == IF n < Len(Delays) THEN Delays[n + 1] ELSE 0

\* A retriable error: sleep, also after the last attempt.
Sleeps(t) ==
    /\ pc' = [pc EXCEPT ![t] = "sleep"]
    /\ wake' = [wake EXCEPT ![t] = now + Delay(attempt[t])]
    /\ UNCHANGED <<attempt, sent>>

\* The operation has ended with this answer.
Settles(t, answer) ==
    \/ /\ answer = "200"
       /\ Ends(t, "ok")
    \/ /\ answer = "silence"
       /\ Hangs(t)
    \/ /\ Retriable(answer)
       /\ Sleeps(t)
    \/ /\ answer \notin {"200", "silence"}
       /\ ~Retriable(answer)
       /\ Ends(t, "error")

\* A metric JSON has no form for spoils the body of the whole batch.
HasForm(t) == IF t = Batch THEN Valid \intersect noForm = {} ELSE t \notin noForm

\* sendBatch.
SendBatch ==
    /\ sender = "http"
    /\ pc[Batch] = "send"
    /\ HasForm(Batch) /\ Batch \notin tooLong
    /\ ~CtxDone
    /\ \E o \in Outcomes(Batch, "batch") :
          /\ Exchange("batch", o)
          /\ Settles(Batch, o.answer)
    /\ UNCHANGED <<clock, caller, result, next>>

\* sendBatch without a body: a permanent error, and no request.
BatchHasNoBody ==
    /\ sender = "http"
    /\ pc[Batch] = "send"
    /\ ~HasForm(Batch) \/ Batch \in tooLong
    /\ Ends(Batch, "error")
    /\ UNCHANGED <<clock, caller, result, next, server>>

\* GRPCSender.SendMetrics: one call, and no other attempt whatever comes of it.
SendGRPC ==
    /\ sender = "grpc"
    /\ pc[Batch] = "send"
    /\ ~CtxDone
    /\ \E o \in Outcomes(Batch, "grpc") :
          /\ Exchange("grpc", o)
          /\ CASE o.answer = "200" -> Ends(Batch, "ok")
               [] o.answer = "silence" -> Hangs(Batch)
               [] OTHER -> Ends(Batch, "error")
    /\ UNCHANGED <<clock, caller, result, next>>

\* The text request goes out whatever the JSON request has come to.
BugSendJSON(m) ==
    /\ pc[m] = "send"
    /\ HasForm(m) /\ m \notin tooLong
    /\ ~CtxDone
    /\ \E o \in Outcomes(m, "json") :
          /\ Exchange("json", o)
          /\ pc' = [pc EXCEPT ![m] = "text"]
          /\ UNCHANGED <<attempt, wake, sent>>
    /\ UNCHANGED <<clock, caller, result, next>>

\* A permanent error ends the metric without the old format.
BugSendJSONOnly(m) ==
    /\ pc[m] = "send"
    /\ HasForm(m) /\ m \notin tooLong
    /\ ~CtxDone
    /\ \E o \in Outcomes(m, "json") :
          /\ Exchange("json", o)
          /\ Settles(m, o.answer)
    /\ UNCHANGED <<clock, caller, result, next>>

\* sendOne, the JSON request: a permanent error leads to the text request.
SendJSON(m) ==
    /\ pc[m] = "send"
    /\ HasForm(m) /\ m \notin tooLong
    /\ ~CtxDone
    /\ \E o \in Outcomes(m, "json") :
          /\ Exchange("json", o)
          /\ \/ /\ o.answer \in {"400", "broken"}
                /\ pc' = [pc EXCEPT ![m] = "text"]
                /\ UNCHANGED <<attempt, wake, sent>>
             \/ /\ o.answer \notin {"400", "broken"}
                /\ Settles(m, o.answer)
    /\ UNCHANGED <<clock, caller, result, next>>

\* sendOne on a metric JSON has no form for: the text request, which has one, is
\* not tried.
MetricHasNoForm(m) ==
    /\ pc[m] = "send"
    /\ ~HasForm(m)
    /\ Ends(m, "error")
    /\ UNCHANGED <<clock, caller, result, next, server>>

\* sendJSON without a request: what the key cannot encrypt goes out as text.
MetricIsTooLong(m) ==
    /\ pc[m] = "send"
    /\ HasForm(m) /\ m \in tooLong
    /\ pc' = [pc EXCEPT ![m] = "text"]
    /\ UNCHANGED <<clock, caller, result, next, attempt, wake, sent, server>>

\* sendOne, the text request.
SendText(m) ==
    /\ pc[m] = "text"
    /\ ~CtxDone
    /\ \E o \in Outcomes(m, "text") :
          /\ Exchange("text", o)
          /\ Settles(m, o.answer)
    /\ UNCHANGED <<clock, caller, result, next>>

\* A request on a context that is done fails before it leaves, and so does one
\* whose time is over; neither error is retriable.  After a JSON request the
\* text request is tried on the same context, and fails at once.
GivesUp(t) ==
    /\ \/ pc[t] \in {"send", "text"} /\ CtxDone
       \/ pc[t] = "hung" /\ (CtxDone \/ now >= wake[t])
    /\ Ends(t, "error")
    /\ UNCHANGED <<clock, caller, result, next, server>>

\* One attempt too few.
BugWakes(t) ==
    /\ pc[t] = "sleep"
    /\ now >= wake[t]
    /\ attempt' = [attempt EXCEPT ![t] = @ + 1]
    /\ pc' = [pc EXCEPT ![t] =
                 IF attempt[t] + 2 < MaxAttempts THEN "send" ELSE "ended"]
    /\ UNCHANGED <<clock, caller, result, next, wake, sent, server>>

\* case <-time.After(delay): the next attempt, if there is one left.
Wakes(t) ==
    /\ pc[t] = "sleep"
    /\ now >= wake[t]
    /\ attempt' = [attempt EXCEPT ![t] = @ + 1]
    /\ pc' = [pc EXCEPT ![t] =
                 IF attempt[t] + 1 < MaxAttempts THEN "send" ELSE "ended"]
    /\ UNCHANGED <<clock, caller, result, next, wake, sent, server>>

\* time.Sleep instead of the select.
BugInterrupted(t) == FALSE

\* case <-ctx.Done().
Interrupted(t) == pc[t] = "sleep" /\ CtxDone

Aborts(t) ==
    /\ Interrupted(t)
    /\ Ends(t, "error")
    /\ UNCHANGED <<clock, caller, result, next, server>>

-----------------------------------------------------------------------------
(* SendMetrics.                                                             *)

Running == {m \in Valid : pc[m] \notin {"idle", "ended"}}

\* An error of the first request is logged and nil returned, by either sender.
BugBatchReturns ==
    /\ caller = "batch"
    /\ pc[Batch] = "ended"
    /\ IF Batch \in sent \/ sender = "grpc"
       THEN caller' = "returned" /\ result' = "nil"
       ELSE caller' = "spawn" /\ UNCHANGED result
    /\ UNCHANGED <<clock, next, tasks, server>>

\* The batch got through, or the HTTP sender falls back, or the gRPC sender hands
\* its error on.
BatchReturns ==
    /\ caller = "batch"
    /\ pc[Batch] = "ended"
    /\ IF Batch \in sent THEN caller' = "returned" /\ result' = "nil"
       ELSE IF sender = "grpc" THEN caller' = "returned" /\ result' = "error"
       ELSE caller' = "spawn" /\ UNCHANGED result
    /\ UNCHANGED <<clock, next, tasks, server>>

\* A goroutine that has failed keeps its place in the semaphore.
BugFreePlace ==
    Cardinality(Running)
        + Cardinality({m \in Valid : pc[m] = "ended"} \ sent) < MaxConc

\* A goroutine holds its place in the semaphore until it ends, asleep or not.
FreePlace == Cardinality(Running) < MaxConc

Spawn ==
    /\ caller = "spawn"
    /\ \/ next \in Invalid
       \/ next \in Valid /\ FreePlace
    /\ next' = next + 1
    /\ pc' = IF next \in Valid THEN [pc EXCEPT ![next] = "send"] ELSE pc
    /\ UNCHANGED <<clock, caller, result, attempt, wake, sent, server>>

AllSpawned ==
    /\ caller = "spawn"
    /\ next > Size
    /\ caller' = "join"
    /\ UNCHANGED <<clock, result, next, tasks, server>>

\* The call does not wait for the goroutines.
BugJoin ==
    /\ caller = "join"
    /\ caller' = "returned"
    /\ result' = "nil"
    /\ UNCHANGED <<clock, next, tasks, server>>

\* g.Wait(): nil, whatever the goroutines have come to.
Join ==
    /\ caller = "join"
    /\ Running = {}
    /\ caller' = "returned"
    /\ result' = "nil"
    /\ UNCHANGED <<clock, next, tasks, server>>

-----------------------------------------------------------------------------
(* The environment.                                                         *)

Cancel ==
    /\ Cancellable
    /\ ~CtxDone
    /\ caller # "returned"
    /\ cancelled' = TRUE
    /\ UNCHANGED <<call, now, caller, result, next, tasks, server>>

Waits(t) ==
    \/ pc[t] \in {"idle", "ended"}
    \/ pc[t] = "sleep" /\ now < wake[t] /\ ~Interrupted(t)
    \/ pc[t] = "hung" /\ now < wake[t] /\ ~CtxDone

CallerWaits ==
    \/ caller = "batch" /\ pc[Batch] # "ended"
    \/ caller = "spawn" /\ next \in Valid /\ ~FreePlace
    \/ caller = "join" /\ Running # {}

Tick ==
    /\ CallerWaits
    /\ \A t \in Tasks : Waits(t)
    /\ \E t \in Tasks : pc[t] \in {"sleep", "hung"}
    /\ now' = now + 1
    /\ UNCHANGED <<cancelled, caller, result, next, tasks, server>>

Progress ==
    /\ \/ SendBatch \/ BatchHasNoBody \/ SendGRPC
       \/ \E m \in Valid : \/ SendJSON(m) \/ MetricHasNoForm(m) \/ MetricIsTooLong(m)
                          \/ SendText(m)
       \/ \E t \in Tasks : GivesUp(t) \/ Wakes(t) \/ Aborts(t)
       \/ BatchReturns \/ Spawn \/ AllSpawned \/ Join
       \/ Tick
    /\ UNCHANGED call

Next == Progress \/ Cancel

Spec == Init /\ [][Next]_vars

\* The scheduler runs a goroutine that can run, and time goes on.
FairSpec == Spec /\ WF_vars(Progress)

-----------------------------------------------------------------------------
(* Properties.                                                              *)

\* Every variable keeps its type, a task never exceeds the attempts of Retry, and
\* the loop over the metrics stops behind the last one.
TypeOK ==
    /\ sender \in Senders /\ deadline \in Deadlines /\ takes \in Servers
    /\ noForm \in NoForms /\ tooLong \in TooLongs
    /\ now \in Nat
    /\ cancelled \in BOOLEAN
    /\ caller \in {"batch", "spawn", "join", "returned"}
    /\ result \in {"none", "nil", "error"}
    /\ next \in 1..(Size + 1)
    /\ pc \in [Tasks -> {"idle", "send", "text", "hung", "sleep", "ended"}]
    /\ attempt \in [Tasks -> 0..MaxAttempts]
    /\ wake \in [Tasks -> Nat]
    /\ sent \subseteq Tasks
    /\ applied \in [Metrics -> Nat]
    /\ faults \in 0..MaxFaults
    /\ permanents \in 0..faults

\* A metric reaches the server a second time only because an earlier answer of
\* the HTTP server failed to arrive: each application beyond the first is paid by
\* a fault.  What validateMetric refuses is never applied over HTTP, and gRPC
\* makes one attempt (http_sender.go:245-281).
DuplicatesAreExplained ==
    \A m \in Metrics :
        applied[m] <= IF sender = "grpc" THEN 1
                      ELSE IF m \in Valid THEN 1 + faults ELSE 0

\* A request that gets through when nothing fails on the way: the batch, or the
\* requests of a metric, the last of which is the text request.
Sendable(t) ==
    /\ HasForm(t)
    /\ IF t = Batch THEN sender = "http" /\ "batch" \in takes /\ Batch \notin tooLong
                    ELSE "text" \in takes

\* Without faults, and with its context alive, the call leaves every valid
\* metric applied exactly once, even on a server that refuses the batch and the
\* JSON form, as the router of the server does, and even when another metric of
\* the slice spoils the body of the batch.  Over HTTP this needs a value JSON has a
\* form for; a gRPC server that refuses the call has no other form to fall back to.
ExactlyOnceWithoutFaults ==
    caller = "returned" /\ faults = 0 /\ ~CtxDone
        => \A m \in Valid :
              (IF sender = "grpc" THEN "grpc" \in takes ELSE Sendable(m))
                  => applied[m] = 1

\* The attempts the faults can have spoilt: one each, and all of a loop when the
\* fault was permanent, for then Retry stops at the first attempt
\* (http_sender.go:194-195).
SpoiltAttempts == faults + (MaxAttempts - 1) * permanents

\* With time enough, the HTTP sender loses a metric it can send only when the
\* faults have spoilt every attempt of its own and, unless the batch could not be
\* sent anyway, every attempt of the batch.
LossNeedsEveryAttemptToFail ==
    caller = "returned" /\ sender = "http" /\ ~CtxDone
            /\ (\E m \in Valid : applied[m] = 0 /\ Sendable(m))
        => SpoiltAttempts >= IF Sendable(Batch) THEN 2 * MaxAttempts ELSE MaxAttempts

\* What the worker logs as sent is applied: nil means that the server has every
\* metric of the request, except after the fallback, whose goroutines return nil
\* whatever they have come to (http_sender.go:277-281).  An error, which only the
\* gRPC sender returns, leaves the whole slice applied or nothing of it.
ResultIsHonest ==
    /\ result = "nil" /\ next = 1 => \A m \in Content(Batch) : applied[m] >= 1
    /\ result = "error" => \A m, n \in Metrics : applied[m] = applied[n]

\* The worker recycles the batch as soon as the call returns, so from then on
\* nothing of the call may reach the server (agent.go:148-154).
NothingSentAfterReturn == [][caller = "returned" => applied' = applied]_vars

\* The call never outlives its context: every wait in it ends with the context.
OverAtTheDeadline ==
    caller # "returned" => now <= deadline

\* The call returns.
Returns == <>(caller = "returned")

=============================================================================
