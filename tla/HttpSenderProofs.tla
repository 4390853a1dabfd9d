-------------------------- MODULE HttpSenderProofs --------------------------
(***************************************************************************)
(* What one call of SendMetrics does, for any slice, semaphore, deadline,  *)
(* server and number of faults: type correctness, the safety properties of *)
(* HttpSender, and that nothing is sent once the call has returned.        *)
(***************************************************************************)
EXTENDS HttpSender, TLAPS

\* A Retry loop that has not ended has an attempt left, and the goroutines are
\* where the caller's loop and join have left them.
TasksFollowCaller ==
    /\ \A t \in Tasks : pc[t] # "ended" => attempt[t] < MaxAttempts
    /\ \A t \in sent : pc[t] = "ended"
    /\ pc[Batch] \notin {"idle", "text"}
    /\ caller # "batch" => pc[Batch] = "ended"
    /\ \A m \in Valid : pc[m] = "idle" <=> m >= next
    /\ caller = "returned" => \A m \in Valid : pc[m] \in {"idle", "ended"}

\* The branches of the caller: the fallback is for the HTTP sender whose batch
\* did not get through.
CallerFollowsBatch ==
    /\ caller = "batch" => next = 1
    /\ caller = "join" => next = Size + 1
    /\ caller \in {"spawn", "join"} => Batch \notin sent /\ sender = "http"
    /\ sender = "grpc" => next = 1 /\ pc[Batch] # "sleep"
    /\ Batch \in sent => next = 1
    /\ result = "none" <=> caller # "returned"
    /\ result = "nil" => Batch \in sent \/ (sender = "http" /\ next = Size + 1)
    /\ result = "error" => sender = "grpc"

\* Every application is paid by a fault or is the success that ended its loop.
ApplicationsPaid ==
    /\ \A m \in Metrics :
          applied[m] <= IF sender = "grpc" THEN (IF pc[Batch] = "send" THEN 0 ELSE 1)
                        ELSE IF m \notin Valid THEN 0
                        ELSE IF Batch \in sent \/ m \in sent THEN faults + 1
                        ELSE faults
    /\ Batch \in sent => \A m \in Content(Batch) : applied[m] >= 1
    /\ \A m \in Valid : m \in sent => applied[m] >= 1
    /\ sender = "grpc" => \A m, n \in Metrics : applied[m] = applied[n]

\* The attempts of a loop that have failed; all of them, once a loop that could
\* have got through has ended without success or waits for an answer that will not
\* come.
Failed(t) ==
    IF pc[t] = "hung" \/ (pc[t] = "ended" /\ t \notin sent /\ Sendable(t))
    THEN MaxAttempts
    ELSE attempt[t] + IF pc[t] = "sleep" THEN 1 ELSE 0

\* As long as the context is alive, the failed attempts of the batch and of each
\* metric are spoilt by faults of their own.
FailuresPaid ==
    /\ ~CtxDone =>
          /\ SpoiltAttempts >= Failed(Batch)
          /\ \A m \in Valid : SpoiltAttempts >= Failed(Batch) + Failed(m)
    /\ ~CtxDone /\ faults = 0 /\ sender = "grpc" /\ "grpc" \in takes /\ pc[Batch] = "ended"
          => Batch \in sent

CallInv ==
    /\ TypeOK
    /\ TasksFollowCaller
    /\ CallerFollowsBatch
    /\ ApplicationsPaid
    /\ FailuresPaid
    /\ OverAtTheDeadline

-----------------------------------------------------------------------------
(* Sets and numbers.                                                        *)

USE SenderAssumption

Answers == {"200", "400", "500", "EOF", "broken", "silence"}
Places == {"idle", "send", "text", "hung", "sleep", "ended"}

LEMMA TaskSets ==
    /\ Valid \subseteq Metrics
    /\ Valid \subseteq Tasks
    /\ Batch \in Tasks /\ Batch \notin Valid
    /\ \A t \in Tasks : t = Batch \/ t \in Valid
    /\ \A t \in Tasks : Content(t) \subseteq Metrics
    /\ \A m \in Valid : m \in Nat /\ Content(m) = {m}
    /\ sender # "grpc" => Content(Batch) = Valid
    /\ sender = "grpc" => Content(Batch) = Metrics
BY DEF Tasks, Valid, Metrics, Batch, Content

LEMMA DelayType == \A n \in Nat : Delay(n) \in Nat
BY DEF Delay, Delays

\* Once the context is done it stays so.
LEMMA CtxStaysDone ==
    ASSUME TypeOK, Next, CtxDone
    PROVE  CtxDone'
<1>1. /\ cancelled => cancelled'
      /\ now' \in {now, now + 1}
      /\ deadline' = deadline
  BY DEF Next, Progress, SendBatch, BatchHasNoBody, SendGRPC, SendJSON, MetricHasNoForm,
         MetricIsTooLong, SendText, GivesUp, Wakes, Aborts, BatchReturns, Spawn, AllSpawned, Join, Tick, Cancel, clock, call
<1>2. now \in Nat /\ deadline \in Nat
  BY DEF TypeOK
<1>3. QED
  BY <1>1, <1>2 DEF CtxDone

-----------------------------------------------------------------------------
(* A request and what its answer makes of its Retry loop.                   *)

\* The form a loop sends next.
Form(t) == IF t = Batch THEN (IF sender = "grpc" THEN "grpc" ELSE "batch")
           ELSE IF pc[t] = "send" THEN "json" ELSE "text"

\* Loop t has sent a request, and o came of it.
Requested(t, o) ==
    /\ pc[t] \in {"send", "text"} /\ ~CtxDone
    /\ o \in Outcomes(t, Form(t))
    /\ Exchange(Form(t), o)
    /\ UNCHANGED <<call, clock, caller, result, next>>

Concluded(t, o) ==
    \/ o.answer = "200" /\ Ends(t, "ok")
    \/ o.answer = "silence" /\ Hangs(t)
    \/ o.answer \in {"500", "EOF"} /\ Form(t) # "grpc" /\ Sleeps(t)
    \/ /\ o.answer \in {"400", "broken"} /\ Form(t) = "json"
       /\ pc' = [pc EXCEPT ![t] = "text"]
       /\ UNCHANGED <<attempt, wake, sent>>
    \/ /\ \/ o.answer \in {"400", "broken"} /\ Form(t) # "json"
          \/ o.answer \in {"500", "EOF"} /\ Form(t) = "grpc"
       /\ Ends(t, "error")

LEMMA OutcomeFacts ==
    ASSUME TypeOK, NEW t \in Tasks, NEW form, NEW o \in Outcomes(t, form)
    PROVE  /\ o.answer \in Answers
           /\ o.done \subseteq Content(t)
           /\ o.answer = "200" => form \in takes /\ o.done = Content(t)
           /\ o.answer = "400" => form \notin takes /\ o.done = {}
           /\ o.answer \notin {"200", "400"} => faults < MaxFaults
           /\ form = "grpc" => o.done = {} \/ o.done = Content(t)
<1>1. CASE o = [answer |-> IF form \in takes THEN "200" ELSE "400",
                done |-> IF form \in takes THEN Content(t) ELSE {}]
  BY <1>1 DEF Answers
<1>2. CASE o \in [answer : {"500", "EOF", "broken", "silence"}, done : Parts(t, form)]
           /\ faults < MaxFaults
  <2>1. o.answer \in {"500", "EOF", "broken", "silence"} /\ o.done \in Parts(t, form)
    BY <1>2
  <2>2. QED
    BY <1>2, <2>1 DEF Answers, Parts
<1>3. QED
  BY <1>1, <1>2 DEF Outcomes

LEMMA RequestSteps ==
    ASSUME TypeOK, TasksFollowCaller, UNCHANGED call,
           SendBatch \/ SendGRPC \/ \E m \in Valid : SendJSON(m) \/ SendText(m)
    PROVE  \E t \in Tasks : \E o \in Outcomes(t, Form(t)) : Requested(t, o) /\ Concluded(t, o)
<1>1. CASE SendBatch
  <2>1. Form(Batch) = "batch" /\ Batch \in Tasks
    BY <1>1, TaskSets DEF SendBatch, Form
  <2>2. PICK o \in Outcomes(Batch, "batch") : Exchange("batch", o) /\ Settles(Batch, o.answer)
    BY <1>1 DEF SendBatch
  <2>3. o.answer \in Answers
    BY <2>1, <2>2, OutcomeFacts
  <2>4. Concluded(Batch, o)
    BY <2>1, <2>2, <2>3 DEF Concluded, Settles, Retriable, Answers
  <2>5. QED
    BY <1>1, <2>1, <2>2, <2>4 DEF SendBatch, Requested
<1>2. CASE SendGRPC
  <2>1. Form(Batch) = "grpc" /\ Batch \in Tasks
    BY <1>2, TaskSets DEF SendGRPC, Form
  <2>2. PICK o \in Outcomes(Batch, "grpc") :
          /\ Exchange("grpc", o)
          /\ CASE o.answer = "200" -> Ends(Batch, "ok")
               [] o.answer = "silence" -> Hangs(Batch)
               [] OTHER -> Ends(Batch, "error")
    BY <1>2 DEF SendGRPC
  <2>3. o.answer \in Answers
    BY <2>1, <2>2, OutcomeFacts
  <2>4. Concluded(Batch, o)
    BY <2>1, <2>2, <2>3 DEF Concluded, Answers
  <2>5. QED
    BY <1>2, <2>1, <2>2, <2>4 DEF SendGRPC, Requested
<1>3. ASSUME NEW m \in Valid, SendJSON(m)
      PROVE  \E o \in Outcomes(m, Form(m)) : Requested(m, o) /\ Concluded(m, o)
  <2>1. Form(m) = "json" /\ m \in Tasks
    BY <1>3, TaskSets DEF SendJSON, Form
  <2>2. PICK o \in Outcomes(m, "json") :
          /\ Exchange("json", o)
          /\ \/ /\ o.answer \in {"400", "broken"}
                /\ pc' = [pc EXCEPT ![m] = "text"]
                /\ UNCHANGED <<attempt, wake, sent>>
             \/ /\ o.answer \notin {"400", "broken"}
                /\ Settles(m, o.answer)
    BY <1>3 DEF SendJSON
  <2>3. o.answer \in Answers
    BY <2>1, <2>2, OutcomeFacts
  <2>4. Concluded(m, o)
    BY <2>1, <2>2, <2>3 DEF Concluded, Settles, Retriable, Answers
  <2>5. QED
    BY <1>3, <2>1, <2>2, <2>4 DEF SendJSON, Requested
<1>4. ASSUME NEW m \in Valid, SendText(m)
      PROVE  \E o \in Outcomes(m, Form(m)) : Requested(m, o) /\ Concluded(m, o)
  <2>1. Form(m) = "text" /\ m \in Tasks
    BY <1>4, TaskSets DEF SendText, Form
  <2>2. PICK o \in Outcomes(m, "text") : Exchange("text", o) /\ Settles(m, o.answer)
    BY <1>4 DEF SendText
  <2>3. o.answer \in Answers
    BY <2>1, <2>2, OutcomeFacts
  <2>4. Concluded(m, o)
    BY <2>1, <2>2, <2>3 DEF Concluded, Settles, Retriable, Answers
  <2>5. QED
    BY <1>4, <2>1, <2>2, <2>4 DEF SendText, Requested
<1>5. QED
  BY <1>1, <1>2, <1>3, <1>4, TaskSets

\* What a request and its conclusion leave behind: one of seven endings.
LEMMA RequestFacts ==
    ASSUME CallInv, NEW t \in Tasks, NEW o \in Outcomes(t, Form(t)),
           Requested(t, o), Concluded(t, o)
    PROVE  /\ UNCHANGED <<call, clock, caller, result, next, attempt>>
           /\ pc[t] \in {"send", "text"} /\ t \notin sent /\ ~CtxDone /\ ~CtxDone'
           /\ wake' \in [Tasks -> Nat]
           /\ pc' \in [Tasks -> Places]
           /\ \A u \in Tasks \ {t} : pc'[u] = pc[u]
           /\ applied' \in [Metrics -> Nat]
           /\ \A m \in Metrics :
                 /\ applied[m] \in Nat
                 /\ applied'[m] = IF m \in o.done THEN applied[m] + 1 ELSE applied[m]
           /\ o.done \subseteq Content(t)
           /\ \/ /\ pc'[t] = "ended" /\ sent' = sent \union {t}
                 /\ faults' = faults /\ permanents' = permanents
                 /\ o.done = Content(t)
              \/ /\ pc'[t] = "hung" /\ sent' = sent
                 /\ faults' = faults + 1 /\ permanents' = permanents + 1
                 /\ faults < MaxFaults
                 /\ sender = "grpc" => o.done = {} \/ o.done = Content(t)
              \/ /\ pc'[t] = "sleep" /\ sent' = sent
                 /\ faults' = faults + 1 /\ permanents' = permanents
                 /\ faults < MaxFaults
                 /\ sender # "grpc" \/ t # Batch
              \/ /\ pc'[t] = "text" /\ pc[t] = "send" /\ sent' = sent /\ t # Batch
                 /\ permanents' = permanents
                 /\ \/ faults' = faults /\ o.done = {}
                    \/ faults' = faults + 1 /\ faults < MaxFaults
              \/ /\ pc'[t] = "ended" /\ sent' = sent
                 /\ faults' = faults /\ permanents' = permanents
                 /\ o.done = {}
                 /\ IF t = Batch THEN (IF sender = "grpc" THEN "grpc" ELSE "batch") \notin takes
                                 ELSE "text" \notin takes
              \/ /\ pc'[t] = "ended" /\ sent' = sent
                 /\ faults' = faults + 1 /\ permanents' = permanents + 1
                 /\ faults < MaxFaults
                 /\ sender # "grpc" \/ t # Batch
              \/ /\ pc'[t] = "ended" /\ sent' = sent
                 /\ faults' = faults + 1 /\ permanents' \in {permanents, permanents + 1}
                 /\ faults < MaxFaults
                 /\ sender = "grpc" /\ t = Batch
                 /\ o.done = {} \/ o.done = Content(t)
<1>1. TypeOK /\ pc \in [Tasks -> Places] /\ wake \in [Tasks -> Nat]
  BY DEF CallInv, TypeOK, Places
<1>2. /\ o.answer \in Answers
      /\ o.done \subseteq Content(t)
      /\ o.answer = "200" => o.done = Content(t)
      /\ o.answer = "400" => Form(t) \notin takes /\ o.done = {}
      /\ o.answer \notin {"200", "400"} => faults < MaxFaults
      /\ Form(t) = "grpc" => o.done = {} \/ o.done = Content(t)
  BY <1>1, OutcomeFacts
<1>3. /\ UNCHANGED <<call, clock, caller, result, next>>
      /\ pc[t] \in {"send", "text"} /\ ~CtxDone /\ ~CtxDone'
      /\ t \notin sent
  BY DEF Requested, CtxDone, call, clock, CallInv, TasksFollowCaller
<1>4. /\ applied \in [Metrics -> Nat] /\ faults \in Nat /\ permanents \in Nat
      /\ applied' = [m \in Metrics |-> applied[m] + IF m \in o.done THEN 1 ELSE 0]
      /\ faults' = faults + IF o.answer \in {"200", "400"} THEN 0 ELSE 1
      /\ permanents' = permanents + IF Permanent(o.answer, Form(t)) THEN 1 ELSE 0
  BY <1>1 DEF Requested, Exchange, TypeOK
<1>5. \A m \in Metrics :
         /\ applied[m] \in Nat
         /\ applied'[m] = IF m \in o.done THEN applied[m] + 1 ELSE applied[m]
         /\ applied'[m] \in Nat
  BY <1>4
<1>6. applied' \in [Metrics -> Nat]
  BY <1>4, <1>5
<1>7. /\ wake' \in [Tasks -> Nat]
      /\ attempt' = attempt
  <2>1. CASE Sleeps(t)
    <3>1. now + Delay(attempt[t]) \in Nat
      BY <1>1, DelayType DEF TypeOK
    <3>2. QED
      BY <1>1, <2>1, <3>1 DEF Sleeps
  <2>2. CASE Hangs(t)
    <3>1. \A l \in Nat : Earlier(now + l, deadline) \in Nat
      BY <1>1 DEF TypeOK, Earlier
    <3>2. PICK x \in Nat : wake' = [wake EXCEPT ![t] = x] /\ UNCHANGED attempt
      BY <2>2, <3>1 DEF Hangs, ClientTimeout, RequestTimeout
    <3>3. QED
      BY <1>1, <3>2
  <2>3. CASE UNCHANGED <<attempt, wake>>
    BY <1>1, <2>3
  <2>4. QED
    BY <2>1, <2>2, <2>3 DEF Concluded, Ends
<1>8. PICK l \in Places : pc' = [pc EXCEPT ![t] = l]
  BY DEF Concluded, Ends, Hangs, Sleeps, Places
<1>9. /\ pc' \in [Tasks -> Places] /\ pc'[t] = l
      /\ \A u \in Tasks \ {t} : pc'[u] = pc[u]
  BY <1>1, <1>8
<1>10. CASE o.answer = "200" /\ Ends(t, "ok")
  <2>1. pc'[t] = "ended" /\ sent' = sent \union {t}
    BY <1>1, <1>10 DEF Ends
  <2>2. faults' = faults /\ permanents' = permanents
    BY <1>4, <1>10 DEF Permanent
  <2>3. QED
    BY <1>2, <1>3, <1>5, <1>6, <1>7, <1>9, <1>10, <2>1, <2>2
<1>11. CASE o.answer = "silence" /\ Hangs(t)
  <2>1. pc'[t] = "hung" /\ sent' = sent
    BY <1>1, <1>11 DEF Hangs
  <2>2. faults' = faults + 1 /\ permanents' = permanents + 1
    BY <1>4, <1>11 DEF Permanent
  <2>3. sender = "grpc" => o.done = {} \/ o.done = Content(t)
    <3>1. CASE t = Batch
      BY <1>2, <3>1 DEF Form
    <3>2. CASE t # Batch
      <4>1. Content(t) = {t}
        BY <3>2 DEF Content
      <4>2. QED
        BY <1>2, <4>1
    <3>3. QED
      BY <3>1, <3>2
  <2>4. QED
    BY <1>2, <1>3, <1>5, <1>6, <1>7, <1>9, <1>11, <2>1, <2>2, <2>3
<1>12. CASE o.answer \in {"500", "EOF"} /\ Form(t) # "grpc" /\ Sleeps(t)
  <2>1. pc'[t] = "sleep" /\ sent' = sent
    BY <1>1, <1>12 DEF Sleeps
  <2>2. faults' = faults + 1 /\ permanents' = permanents
    BY <1>4, <1>12 DEF Permanent
  <2>3. QED
    BY <1>2, <1>3, <1>5, <1>6, <1>7, <1>9, <1>12, <2>1, <2>2 DEF Form
<1>13. CASE /\ o.answer \in {"400", "broken"} /\ Form(t) = "json"
            /\ pc' = [pc EXCEPT ![t] = "text"]
            /\ UNCHANGED <<attempt, wake, sent>>
  <2>1. pc'[t] = "text" /\ pc[t] = "send" /\ t # Batch
    BY <1>1, <1>3, <1>13 DEF Form
  <2>2. /\ permanents' = permanents
        /\ \/ faults' = faults /\ o.done = {}
           \/ faults' = faults + 1 /\ faults < MaxFaults
    <3>1. CASE o.answer = "400"
      BY <1>2, <1>4, <3>1 DEF Permanent
    <3>2. CASE o.answer = "broken"
      BY <1>2, <1>4, <1>13, <3>2 DEF Permanent
    <3>3. QED
      BY <1>13, <3>1, <3>2
  <2>3. QED
    BY <1>2, <1>3, <1>5, <1>6, <1>7, <1>9, <1>13, <2>1, <2>2
<1>14. CASE /\ o.answer = "400" /\ Form(t) # "json"
            /\ Ends(t, "error")
  <2>1. pc'[t] = "ended" /\ sent' = sent
    BY <1>1, <1>14 DEF Ends
  <2>2. faults' = faults /\ permanents' = permanents
    BY <1>4, <1>14 DEF Permanent
  <2>3. IF t = Batch THEN (IF sender = "grpc" THEN "grpc" ELSE "batch") \notin takes
                     ELSE "text" \notin takes
    BY <1>2, <1>14 DEF Form
  <2>4. QED
    BY <1>2, <1>3, <1>5, <1>6, <1>7, <1>9, <1>14, <2>1, <2>2, <2>3
<1>15. CASE /\ o.answer \in {"500", "EOF", "broken"} /\ Form(t) = "grpc"
            /\ Ends(t, "error")
  <2>1. pc'[t] = "ended" /\ sent' = sent
    BY <1>1, <1>15 DEF Ends
  <2>2. faults' = faults + 1 /\ permanents' \in {permanents, permanents + 1}
    <3>1. faults' = faults + 1
      BY <1>4, <1>15
    <3>2. permanents' \in {permanents, permanents + 1}
      BY <1>4
    <3>3. QED
      BY <3>1, <3>2
  <2>3. sender = "grpc" /\ t = Batch
    BY <1>15 DEF Form
  <2>4. QED
    BY <1>2, <1>3, <1>5, <1>6, <1>7, <1>9, <1>15, <2>1, <2>2, <2>3
<1>16. CASE /\ o.answer = "broken" /\ Form(t) \notin {"json", "grpc"}
            /\ Ends(t, "error")
  <2>1. pc'[t] = "ended" /\ sent' = sent
    BY <1>1, <1>16 DEF Ends
  <2>2. faults' = faults + 1 /\ permanents' = permanents + 1
    BY <1>4, <1>16 DEF Permanent
  <2>3. sender # "grpc" \/ t # Batch
    BY <1>16 DEF Form
  <2>4. QED
    BY <1>2, <1>3, <1>5, <1>6, <1>7, <1>9, <1>16, <2>1, <2>2, <2>3
<1>17. QED
  BY <1>10, <1>11, <1>12, <1>13, <1>14, <1>15, <1>16 DEF Concluded

\* A request by the batch's loop comes before any other, and one by a metric's
\* loop belongs to the fallback of the HTTP sender.
LEMMA WhoRequests ==
    ASSUME CallInv, NEW t \in Tasks, pc[t] \in {"send", "text"}
    PROVE  /\ t = Batch => caller = "batch" /\ next = 1 /\ pc[t] = "send"
           /\ t # Batch => /\ t \in Valid /\ t < next
                           /\ Batch \notin sent /\ sender # "grpc"
                           /\ caller \in {"spawn", "join"}
                           /\ pc[Batch] = "ended"
<1>1. CASE t = Batch
  BY <1>1 DEF CallInv, TasksFollowCaller, CallerFollowsBatch
<1>2. CASE t # Batch
  <2>1. t \in Valid /\ t \in Nat /\ t >= 1 /\ next \in Nat
    BY <1>2, TaskSets DEF CallInv, TypeOK, Valid, Metrics
  <2>2. ~(t >= next)
    BY <2>1 DEF CallInv, TasksFollowCaller
  <2>3. t < next /\ next # 1
    BY <2>1, <2>2
  <2>4. caller \in {"spawn", "join"}
    BY <2>1, <2>3 DEF CallInv, TypeOK, TasksFollowCaller, CallerFollowsBatch
  <2>5. QED
    BY <1>2, <2>1, <2>3, <2>4 DEF CallInv, TasksFollowCaller, CallerFollowsBatch
<1>3. QED
  BY <1>1, <1>2

LEMMA RequestKeeps ==
    ASSUME CallInv, NEW t \in Tasks, NEW o \in Outcomes(t, Form(t)),
           Requested(t, o), Concluded(t, o)
    PROVE  CallInv'
<1>0. /\ UNCHANGED <<call, clock, caller, result, next, attempt>>
      /\ pc[t] \in {"send", "text"} /\ t \notin sent /\ ~CtxDone /\ ~CtxDone'
      /\ wake' \in [Tasks -> Nat]
      /\ pc' \in [Tasks -> Places]
      /\ \A u \in Tasks \ {t} : pc'[u] = pc[u]
      /\ applied' \in [Metrics -> Nat]
      /\ \A m \in Metrics :
            /\ applied[m] \in Nat
            /\ applied'[m] = IF m \in o.done THEN applied[m] + 1 ELSE applied[m]
      /\ o.done \subseteq Content(t)
  BY RequestFacts
<1> DEFINE
      Success == /\ pc'[t] = "ended" /\ sent' = sent \union {t}
                 /\ faults' = faults /\ permanents' = permanents
                 /\ o.done = Content(t)
      Silence == /\ pc'[t] = "hung" /\ sent' = sent
                 /\ faults' = faults + 1 /\ permanents' = permanents + 1
                 /\ faults < MaxFaults
                 /\ sender = "grpc" => o.done = {} \/ o.done = Content(t)
      Retried == /\ pc'[t] = "sleep" /\ sent' = sent
                 /\ faults' = faults + 1 /\ permanents' = permanents
                 /\ faults < MaxFaults
                 /\ sender # "grpc" \/ t # Batch
      OldForm == /\ pc'[t] = "text" /\ pc[t] = "send" /\ sent' = sent /\ t # Batch
                 /\ permanents' = permanents
                 /\ \/ faults' = faults /\ o.done = {}
                    \/ faults' = faults + 1 /\ faults < MaxFaults
      Refused == /\ pc'[t] = "ended" /\ sent' = sent
                 /\ faults' = faults /\ permanents' = permanents
                 /\ o.done = {}
                 /\ IF t = Batch THEN (IF sender = "grpc" THEN "grpc" ELSE "batch") \notin takes
                                 ELSE "text" \notin takes
      Broken == /\ pc'[t] = "ended" /\ sent' = sent
                /\ faults' = faults + 1 /\ permanents' = permanents + 1
                /\ faults < MaxFaults
                /\ sender # "grpc" \/ t # Batch
      GaveUp == /\ pc'[t] = "ended" /\ sent' = sent
                /\ faults' = faults + 1 /\ permanents' \in {permanents, permanents + 1}
                /\ faults < MaxFaults
                /\ sender = "grpc" /\ t = Batch
                /\ o.done = {} \/ o.done = Content(t)
<1>1. Success \/ Silence \/ Retried \/ OldForm \/ Refused \/ Broken \/ GaveUp
  BY RequestFacts
<1>2. /\ t = Batch => caller = "batch" /\ next = 1 /\ pc[t] = "send"
      /\ t # Batch => /\ t \in Valid /\ t < next
                      /\ Batch \notin sent /\ sender # "grpc"
                      /\ caller \in {"spawn", "join"}
                      /\ pc[Batch] = "ended"
  BY <1>0, WhoRequests
<1>3. /\ sender' = sender /\ deadline' = deadline /\ takes' = takes
      /\ noForm' = noForm /\ tooLong' = tooLong
      /\ now' = now /\ cancelled' = cancelled
      /\ caller' = caller /\ result' = result /\ next' = next /\ attempt' = attempt
  BY <1>0 DEF call, clock
<1>4. /\ faults \in Nat /\ permanents \in Nat /\ permanents <= faults /\ faults <= MaxFaults
      /\ MaxFaults \in Nat
  BY DEF CallInv, TypeOK
<1>5. /\ faults' \in Nat /\ permanents' \in Nat /\ permanents' <= faults' /\ faults' <= MaxFaults
      /\ faults <= faults' /\ permanents <= permanents'
  BY <1>1, <1>4
<1>13. sent \subseteq Tasks /\ sent \subseteq sent' /\ sent' \subseteq sent \union {t}
  BY <1>1 DEF CallInv, TypeOK
<1>6. TypeOK'
  BY <1>0, <1>3, <1>4, <1>5, <1>13 DEF CallInv, TypeOK, Places
<1>7. TasksFollowCaller'
  <2>1. pc'[t] # "idle" /\ (t = Batch => pc'[t] # "text") /\ (t \in sent' => pc'[t] = "ended")
    BY <1>0, <1>1
  <2>2. caller # "returned" /\ (caller # "batch" => t # Batch)
    BY <1>2
  <2>3. \A m \in Valid : m = t \/ pc'[m] = pc[m]
    BY <1>0, TaskSets
  <2>4. \A m \in Valid : pc'[m] = "idle" <=> m >= next'
    <3>1. t \in Valid => ~(t >= next) /\ pc'[t] # "idle"
      BY <1>0, <2>1 DEF CallInv, TasksFollowCaller
    <3>2. QED
      BY <2>3, <3>1, <1>3 DEF CallInv, TasksFollowCaller
  <2>5. \A u \in Tasks : pc'[u] # "ended" => attempt'[u] < MaxAttempts
    BY <1>0, <1>3 DEF CallInv, TasksFollowCaller
  <2>6. \A u \in sent' : pc'[u] = "ended"
    BY <1>0, <1>13, <2>1 DEF CallInv, TasksFollowCaller
  <2>7. QED
    BY <2>1, <2>2, <2>4, <2>5, <2>6, <1>0, <1>3, TaskSets DEF CallInv, TasksFollowCaller
<1>8. CallerFollowsBatch'
  BY <1>0, <1>1, <1>2, <1>3, TaskSets DEF CallInv, CallerFollowsBatch
<1>9. ApplicationsPaid'
  <2> DEFINE Bound(m) == IF sender = "grpc" THEN (IF pc[Batch] = "send" THEN 0 ELSE 1)
                         ELSE IF m \notin Valid THEN 0
                         ELSE IF Batch \in sent \/ m \in sent THEN faults + 1
                         ELSE faults
  <2>1. ASSUME NEW m \in Metrics
        PROVE  applied'[m] <= Bound(m)'
    <3>1. applied[m] <= Bound(m) /\ applied[m] \in Nat
      BY <1>0 DEF CallInv, ApplicationsPaid
    <3>2. CASE sender = "grpc"
      <4>1. t = Batch /\ pc[Batch] = "send" /\ pc'[Batch] # "send"
        BY <1>1, <1>2, <3>2
      <4>2. QED
        BY <1>0, <1>3, <3>1, <3>2, <4>1
    <3>3. CASE sender # "grpc" /\ m \notin Valid
      <4>1. m \notin o.done
        BY <1>0, <1>2, <3>3, TaskSets
      <4>2. QED
        BY <1>0, <1>3, <3>1, <3>3, <4>1
    <3>4. CASE sender # "grpc" /\ m \in Valid
      <4>1. PICK hi \in Nat :
                /\ hi = Bound(m)'
                /\ Batch \in sent' \/ m \in sent' => hi = faults' + 1
                /\ ~(Batch \in sent' \/ m \in sent') => hi = faults'
        <5>1. PICK x : x = Bound(m)'
          OBVIOUS
        <5>2. x = IF Batch \in sent' \/ m \in sent' THEN faults' + 1 ELSE faults'
          BY <1>3, <3>4, <5>1
        <5>3. x \in Nat
          <6>1. PICK k \in Nat : k = faults'
            BY <1>5
          <6>2. x = k \/ x = k + 1
            BY <5>2, <6>1
          <6>3. QED
            BY <6>2
        <5> HIDE DEF Bound
        <5>4. QED
          BY <5>1, <5>2, <5>3
      <4>2. PICK lo \in Nat :
                /\ lo = Bound(m)
                /\ Batch \in sent \/ m \in sent => lo = faults + 1
                /\ ~(Batch \in sent \/ m \in sent) => lo = faults
        BY <1>4, <3>4
      <4> HIDE DEF Bound
      <4>3. CASE m \notin o.done
        <5>1. applied'[m] = applied[m]
          BY <1>0, <4>3
        <5>2. Batch \in sent \/ m \in sent => Batch \in sent' \/ m \in sent'
          BY <1>13
        <5>3. faults' \in Nat /\ faults \in Nat /\ faults <= faults'
          BY <1>4, <1>5
        <5>4. lo <= hi
          BY <4>1, <4>2, <5>2, <5>3
        <5>5. QED
          BY <3>1, <4>1, <4>2, <5>1, <5>4
      <4>4. CASE m \in o.done
        <5>1. Batch \notin sent /\ m \notin sent
          <6>1. CASE t = Batch
            <7>1. m >= 1 /\ next = 1 /\ m \in Valid
              BY <1>2, <3>4, <6>1 DEF Metrics
            <7>2. pc[m] = "idle" /\ pc[Batch] # "ended"
              BY <7>1, <1>0, <6>1 DEF CallInv, TasksFollowCaller
            <7>3. QED
              BY <7>2 DEF CallInv, TasksFollowCaller
          <6>2. CASE t # Batch
            <7>1. m = t
              BY <1>0, <4>4, <6>2 DEF Content
            <7>2. QED
              BY <7>1, <1>0, <1>2, <6>2
          <6>3. QED
            BY <6>1, <6>2
        <5>2. \/ faults' = faults + 1
              \/ faults' = faults /\ sent' = sent \union {t} /\ (t = Batch \/ m = t)
          <6>1. t # Batch => m = t
            BY <1>0, <4>4 DEF Content
          <6>2. QED
            BY <1>1, <4>4, <6>1
        <5>3. lo = faults /\ hi >= faults + 1
          <6>1. \/ faults' = faults + 1
                \/ faults' = faults /\ (Batch \in sent' \/ m \in sent')
            BY <5>2
          <6>2. faults' \in Nat /\ faults \in Nat
            BY <1>4, <1>5
          <6>3. QED
            BY <4>1, <4>2, <5>1, <6>1, <6>2
        <5>4. applied'[m] = applied[m] + 1
          BY <1>0, <4>4
        <5>5. QED
          BY <3>1, <4>1, <4>2, <1>4, <5>3, <5>4
      <4>5. QED
        BY <4>3, <4>4
    <3>5. QED
      BY <3>2, <3>3, <3>4
  <2>2. \A m \in Metrics : applied'[m] >= applied[m] /\ (m \in o.done => applied'[m] >= 1)
    BY <1>0
  <2>3. Content(Batch)' = Content(Batch)
    BY <1>3 DEF Content
  <2>4. Batch \in sent' => \A m \in Content(Batch) : applied'[m] >= 1
    <3>1. CASE Batch \in sent
      <4>1. \A m \in Content(Batch) : m \in Metrics /\ applied[m] >= 1
        BY <3>1, TaskSets DEF CallInv, ApplicationsPaid
      <4>2. QED
        BY <4>1, <2>2, <1>0
    <3>2. CASE Batch \notin sent /\ Batch \in sent'
      <4>1. t = Batch /\ o.done = Content(Batch)
        BY <1>1, <3>2
      <4>2. QED
        BY <4>1, <2>2, TaskSets
    <3>3. QED
      BY <3>1, <3>2
  <2>5. \A m \in Valid : m \in sent' => applied'[m] >= 1
    <3> SUFFICES ASSUME NEW m \in Valid, m \in sent' PROVE applied'[m] >= 1
      OBVIOUS
    <3>1. CASE m \in sent
      <4>1. m \in Metrics /\ applied[m] >= 1
        BY <3>1, TaskSets DEF CallInv, ApplicationsPaid
      <4>2. QED
        BY <4>1, <2>2, <1>0
    <3>2. CASE m \notin sent
      <4>1. t = m /\ o.done = Content(m)
        BY <1>1, <3>2
      <4>2. QED
        BY <4>1, <2>2, TaskSets
    <3>3. QED
      BY <3>1, <3>2
  <2>6. sender' = "grpc" => \A m, n \in Metrics : applied'[m] = applied'[n]
    <3> SUFFICES ASSUME sender = "grpc", NEW m \in Metrics, NEW n \in Metrics
                 PROVE  applied'[m] = applied'[n]
      BY <1>3
    <3>1. t = Batch /\ Content(t) = Metrics
      BY <1>2, TaskSets
    <3>2. o.done = {} \/ o.done = Metrics
      BY <1>1, <3>1
    <3>3. applied[m] = applied[n]
      BY DEF CallInv, ApplicationsPaid
    <3>4. QED
      BY <1>0, <3>2, <3>3
  <2>7. QED
    BY <2>1, <2>3, <2>4, <2>5, <2>6 DEF ApplicationsPaid
<1>10. FailuresPaid'
  <2>1. /\ SpoiltAttempts' >= Failed(Batch)'
        /\ \A m \in Valid : SpoiltAttempts' >= Failed(Batch)' + Failed(m)'
    <3>1. /\ SpoiltAttempts >= Failed(Batch)
          /\ \A m \in Valid : SpoiltAttempts >= Failed(Batch) + Failed(m)
      BY <1>0 DEF CallInv, FailuresPaid
    <3>2. \A u \in Tasks : Failed(u) \in Nat /\ Failed(u)' \in Nat
      BY <1>3 DEF Failed, CallInv, TypeOK, MaxAttempts
    <3>3. /\ SpoiltAttempts \in Nat /\ SpoiltAttempts' \in Nat
          /\ SpoiltAttempts = faults + 2 * permanents
          /\ SpoiltAttempts' = faults' + 2 * permanents'
      <4>1. SpoiltAttempts = faults + 2 * permanents /\ SpoiltAttempts \in Nat
        BY <1>4 DEF SpoiltAttempts, MaxAttempts
      <4>2. PICK f : f = faults'
        OBVIOUS
      <4>3. PICK q : q = permanents'
        OBVIOUS
      <4>4. SpoiltAttempts' = f + (MaxAttempts - 1) * q
        BY <4>2, <4>3 DEF SpoiltAttempts, MaxAttempts
      <4>5. f \in Nat /\ q \in Nat
        BY <1>5, <4>2, <4>3
      <4>6. f + (MaxAttempts - 1) * q = f + 2 * q /\ f + 2 * q \in Nat
        BY <4>5 DEF MaxAttempts
      <4>7. SpoiltAttempts' = f + 2 * q /\ SpoiltAttempts' \in Nat
        BY <4>4, <4>6
      <4>8. f + 2 * q = faults' + 2 * permanents'
        BY <4>2, <4>3
      <4>9. QED
        BY <4>1, <4>7, <4>8
    <3>4. \A u \in Tasks \ {t} : Failed(u)' = Failed(u)
      BY <1>0, <1>1, <1>3, <1>13 DEF Failed, Sendable, HasForm
    <3>5. Failed(t)' - Failed(t) <= SpoiltAttempts' - SpoiltAttempts
      <4>1. /\ Failed(t) = attempt[t] /\ attempt[t] \in Nat /\ attempt[t] < 3
        BY <1>0, <1>3 DEF Failed, CallInv, TypeOK, TasksFollowCaller, MaxAttempts
      <4>2. /\ pc'[t] = "hung" => Failed(t)' = 3
            /\ pc'[t] = "sleep" => Failed(t)' = attempt[t] + 1
            /\ pc'[t] = "text" => Failed(t)' = attempt[t]
            /\ pc'[t] = "ended" /\ t \in sent' => Failed(t)' = attempt[t]
            /\ pc'[t] = "ended" /\ ~Sendable(t) => Failed(t)' = attempt[t]
            /\ pc'[t] = "ended" => Failed(t)' \in {attempt[t], 3}
        BY <1>3, <4>1 DEF Failed, Sendable, HasForm, MaxAttempts
      <4>3. CASE Success
        BY <4>1, <4>2, <4>3, <3>3, <1>4
      <4>4. CASE Silence
        BY <4>1, <4>2, <4>4, <3>3, <1>4
      <4>5. CASE Retried
        BY <4>1, <4>2, <4>5, <3>3, <1>4
      <4>6. CASE OldForm
        BY <4>1, <4>2, <4>6, <3>3, <1>4
      <4>7. CASE Refused \/ GaveUp
        <5>1. ~Sendable(t) /\ pc'[t] = "ended"
          BY <4>7, TaskSets DEF Sendable
        <5>2. Failed(t)' = attempt[t]
          BY <4>2, <5>1
        <5>3. SpoiltAttempts' - SpoiltAttempts >= 0
          BY <4>7, <3>3, <1>4
        <5>4. QED
          BY <4>1, <5>2, <5>3, <3>3
      <4>8. CASE Broken
        <5>1. Failed(t)' \in {attempt[t], 3}
          BY <4>2, <4>8
        <5>2. SpoiltAttempts' - SpoiltAttempts = 3
          BY <4>8, <3>3, <1>4
        <5>3. QED
          BY <4>1, <5>1, <5>2, <3>3
      <4> HIDE DEF Success, Silence, Retried, OldForm, Refused, Broken, GaveUp
      <4>9. QED
        BY <1>1, <4>3, <4>4, <4>5, <4>6, <4>7, <4>8
    <3>6. SpoiltAttempts' >= SpoiltAttempts
      <4>1. PICK f : f = faults'
        OBVIOUS
      <4>2. PICK q : q = permanents'
        OBVIOUS
      <4>3. f \in Nat /\ q \in Nat /\ faults <= f /\ permanents <= q
        BY <1>5, <4>1, <4>2
      <4>4. f + 2 * q >= faults + 2 * permanents
        BY <1>4, <4>3
      <4>5. QED
        BY <3>3, <4>1, <4>2, <4>4
    <3>7. SpoiltAttempts' >= Failed(Batch)'
      <4>1. CASE t = Batch
        BY <3>1, <3>2, <3>3, <3>5, <4>1, TaskSets
      <4>2. CASE t # Batch
        <5>1. Failed(Batch)' = Failed(Batch)
          BY <3>4, <4>2, TaskSets
        <5>2. QED
          BY <3>1, <3>2, <3>3, <3>6, <5>1, TaskSets
      <4>3. QED
        BY <4>1, <4>2
    <3>8. ASSUME NEW m \in Valid
          PROVE  SpoiltAttempts' >= Failed(Batch)' + Failed(m)'
      <4>1. m \in Tasks /\ Batch \in Tasks /\ m # Batch
        BY TaskSets
      <4>2. SpoiltAttempts >= Failed(Batch) + Failed(m)
        BY <3>1
      <4>3. CASE t = Batch
        <5>1. Failed(m)' = Failed(m)
          BY <4>1, <4>3, <3>4
        <5>2. QED
          BY <4>1, <4>2, <4>3, <5>1, <3>2, <3>3, <3>5
      <4>4. CASE t = m
        <5>1. Failed(Batch)' = Failed(Batch)
          BY <4>1, <4>4, <3>4
        <5>2. QED
          BY <4>1, <4>2, <4>4, <5>1, <3>2, <3>3, <3>5
      <4>5. CASE t # Batch /\ t # m
        <5>1. Failed(m)' = Failed(m) /\ Failed(Batch)' = Failed(Batch)
          BY <4>1, <4>5, <3>4
        <5>2. QED
          BY <4>1, <4>2, <5>1, <3>2, <3>3, <3>6
      <4>6. QED
        BY <4>3, <4>4, <4>5
    <3>9. QED
      BY <3>7, <3>8
  <2>2. ASSUME faults' = 0, sender' = "grpc", "grpc" \in takes', pc'[Batch] = "ended"
        PROVE  Batch \in sent'
    <3>1. t = Batch
      BY <1>2, <1>3, <2>2
    <3>2. faults' # faults + 1
      BY <1>4, <2>2
    <3>3. QED
      BY <1>1, <1>3, <2>2, <3>1, <3>2
  <2>3. QED
    BY <2>1, <2>2 DEF FailuresPaid
<1>11. OverAtTheDeadline'
  BY <1>3 DEF CallInv, OverAtTheDeadline
<1>12. QED
  BY <1>6, <1>7, <1>8, <1>9, <1>10, <1>11 DEF CallInv

-----------------------------------------------------------------------------
(* The other steps.                                                         *)

\* A loop wakes up, or turns to the text request, or ends without success: because
\* it has no attempt left, because its context is done, because its request was not
\* answered, or because it has no body to send.
LEMMA LoopKeeps ==
    ASSUME CallInv, NEW t \in Tasks, UNCHANGED call,
           \/ GivesUp(t) \/ Wakes(t) \/ Aborts(t)
           \/ t = Batch /\ BatchHasNoBody
           \/ t \in Valid /\ (MetricHasNoForm(t) \/ MetricIsTooLong(t))
    PROVE  CallInv'
<1>1. /\ sender' = sender /\ deadline' = deadline /\ takes' = takes
      /\ noForm' = noForm /\ tooLong' = tooLong
      /\ now' = now /\ cancelled' = cancelled
      /\ caller' = caller /\ result' = result /\ next' = next
      /\ wake' = wake /\ sent' = sent
      /\ applied' = applied /\ faults' = faults /\ permanents' = permanents
  BY DEF GivesUp, Wakes, Aborts, BatchHasNoBody, MetricHasNoForm, MetricIsTooLong, Ends,
         clock, call, server
<1>2. pc \in [Tasks -> Places] /\ attempt \in [Tasks -> 0..MaxAttempts]
  BY DEF CallInv, TypeOK, Places
<1>3. \/ /\ pc' = [pc EXCEPT ![t] = "ended"] /\ attempt' = attempt
         /\ CtxDone \/ pc[t] = "hung" \/ (~Sendable(t) /\ ~(t = Batch /\ sender = "grpc"))
         /\ pc[t] \in {"send", "text", "hung", "sleep"}
      \/ /\ pc' = [pc EXCEPT ![t] = "text"] /\ attempt' = attempt
         /\ pc[t] = "send" /\ t # Batch
      \/ /\ pc[t] = "sleep" /\ attempt' = [attempt EXCEPT ![t] = @ + 1]
         /\ pc' = [pc EXCEPT ![t] = IF attempt[t] + 1 < MaxAttempts THEN "send" ELSE "ended"]
  <2>1. CASE GivesUp(t) \/ Wakes(t) \/ Aborts(t)
    BY <2>1 DEF GivesUp, Wakes, Aborts, Ends, Interrupted
  <2>2. CASE t = Batch /\ BatchHasNoBody
    BY <2>2 DEF BatchHasNoBody, Ends, Sendable
  <2>3. CASE t \in Valid /\ (MetricHasNoForm(t) \/ MetricIsTooLong(t))
    BY <2>3, TaskSets DEF MetricHasNoForm, MetricIsTooLong, Ends, Sendable
  <2>4. QED
    BY <2>1, <2>2, <2>3
<1>4. /\ pc[t] \notin {"idle", "ended"} /\ t \notin sent
      /\ attempt[t] \in Nat /\ attempt[t] < MaxAttempts
  BY <1>2, <1>3 DEF CallInv, TasksFollowCaller, MaxAttempts
<1>5. /\ pc' \in [Tasks -> Places] /\ attempt' \in [Tasks -> 0..MaxAttempts]
      /\ \A u \in Tasks \ {t} : pc'[u] = pc[u] /\ attempt'[u] = attempt[u]
      /\ \/ /\ pc'[t] = "ended" /\ attempt'[t] = attempt[t]
            /\ CtxDone \/ pc[t] = "hung" \/ (~Sendable(t) /\ ~(t = Batch /\ sender = "grpc"))
         \/ /\ pc'[t] = "text" /\ attempt'[t] = attempt[t]
            /\ pc[t] = "send" /\ t # Batch
         \/ /\ pc[t] = "sleep" /\ attempt'[t] = attempt[t] + 1
            /\ \/ pc'[t] = "send" /\ attempt'[t] < MaxAttempts
               \/ pc'[t] = "ended" /\ attempt'[t] = MaxAttempts
  <2>1. CASE /\ pc' = [pc EXCEPT ![t] = "ended"] /\ attempt' = attempt
             /\ CtxDone \/ pc[t] = "hung" \/ (~Sendable(t) /\ ~(t = Batch /\ sender = "grpc"))
    BY <1>2, <2>1 DEF Places
  <2>2. CASE /\ pc[t] = "sleep" /\ attempt' = [attempt EXCEPT ![t] = @ + 1]
             /\ pc' = [pc EXCEPT ![t] = IF attempt[t] + 1 < MaxAttempts THEN "send" ELSE "ended"]
    <3>1. attempt[t] + 1 \in 0..MaxAttempts
      BY <1>4 DEF MaxAttempts
    <3>2. attempt'[t] = attempt[t] + 1 /\ attempt' \in [Tasks -> 0..MaxAttempts]
      BY <1>2, <2>2, <3>1
    <3>3. pc'[t] = IF attempt[t] + 1 < MaxAttempts THEN "send" ELSE "ended"
      BY <1>2, <2>2
    <3>4. pc' \in [Tasks -> Places]
      BY <1>2, <2>2 DEF Places
    <3>5. \A u \in Tasks \ {t} : pc'[u] = pc[u] /\ attempt'[u] = attempt[u]
      BY <1>2, <2>2
    <3>6. \/ pc'[t] = "send" /\ attempt'[t] < MaxAttempts
          \/ pc'[t] = "ended" /\ attempt'[t] = MaxAttempts
      BY <3>1, <3>2, <3>3 DEF MaxAttempts
    <3>7. QED
      BY <2>2, <3>2, <3>4, <3>5, <3>6
  <2>3. CASE /\ pc' = [pc EXCEPT ![t] = "text"] /\ attempt' = attempt
             /\ pc[t] = "send" /\ t # Batch
    BY <1>2, <2>3 DEF Places
  <2>4. QED
    BY <1>3, <2>1, <2>2, <2>3
<1>6. /\ t = Batch => caller = "batch" /\ (sender = "grpc" => pc[t] # "sleep")
      /\ caller # "returned"
      /\ t \in Valid => ~(t >= next)
  <2>1. CASE t = Batch
    BY <1>4, <2>1, TaskSets DEF CallInv, TasksFollowCaller, CallerFollowsBatch
  <2>2. CASE t \in Valid
    BY <1>4, <2>2, TaskSets DEF CallInv, TasksFollowCaller
  <2>3. QED
    BY <2>1, <2>2, TaskSets
<1>7. TypeOK'
  BY <1>1, <1>5 DEF CallInv, TypeOK, Places
<1>8. TasksFollowCaller'
  <2>1. /\ pc'[t] \in {"send", "text", "ended"} /\ (t = Batch => pc'[t] # "text")
        /\ pc'[t] # "ended" => attempt'[t] < MaxAttempts
    BY <1>4, <1>5
  <2>2. \A m \in Valid : pc'[m] = "idle" <=> m >= next'
    BY <1>1, <1>5, <1>6, <2>1, TaskSets DEF CallInv, TasksFollowCaller
  <2>3. \A u \in Tasks : pc'[u] # "ended" => attempt'[u] < MaxAttempts
    BY <1>5, <2>1 DEF CallInv, TasksFollowCaller
  <2>4. \A u \in sent' : pc'[u] = "ended"
    BY <1>1, <1>4, <1>5 DEF CallInv, TypeOK, TasksFollowCaller
  <2>5. QED
    BY <2>1, <2>2, <2>3, <2>4, <1>1, <1>5, <1>6, TaskSets DEF CallInv, TasksFollowCaller
<1>9. CallerFollowsBatch'
  BY <1>1, <1>5, <1>6, TaskSets DEF CallInv, CallerFollowsBatch
<1>10. ApplicationsPaid'
  <2>1. Content(Batch)' = Content(Batch)
    BY <1>1 DEF Content
  <2>2. sender = "grpc" /\ pc'[Batch] = "send" => pc[Batch] = "send"
    BY <1>5, <1>6, TaskSets
  <2>3. ASSUME NEW m \in Metrics
        PROVE  applied'[m] <= IF sender' = "grpc" THEN (IF pc'[Batch] = "send" THEN 0 ELSE 1)
                              ELSE IF m \notin Valid THEN 0
                              ELSE IF Batch \in sent' \/ m \in sent' THEN faults' + 1
                              ELSE faults'
    <3>1. CASE sender = "grpc"
      <4>1. applied[m] \in Nat /\ applied[m] <= (IF pc[Batch] = "send" THEN 0 ELSE 1)
        BY <3>1 DEF CallInv, ApplicationsPaid, TypeOK
      <4>2. QED
        BY <1>1, <2>2, <3>1, <4>1
    <3>2. CASE sender # "grpc"
      BY <1>1, <3>2 DEF CallInv, ApplicationsPaid
    <3>3. QED
      BY <3>1, <3>2
  <2>4. QED
    BY <1>1, <2>1, <2>3 DEF CallInv, ApplicationsPaid
<1>11. FailuresPaid'
  <2>1. CtxDone' <=> CtxDone
    BY <1>1 DEF CtxDone
  <2>2. ASSUME ~CtxDone
        PROVE  /\ SpoiltAttempts' >= Failed(Batch)'
               /\ \A m \in Valid : SpoiltAttempts' >= Failed(Batch)' + Failed(m)'
    <3>1. /\ SpoiltAttempts >= Failed(Batch)
          /\ \A m \in Valid : SpoiltAttempts >= Failed(Batch) + Failed(m)
      BY <2>2 DEF CallInv, FailuresPaid
    <3>2. /\ SpoiltAttempts' = SpoiltAttempts /\ SpoiltAttempts \in Nat
          /\ \A u \in Tasks : Failed(u) \in Nat /\ Failed(u)' \in Nat
      <4>1. faults \in Nat /\ permanents \in Nat
        BY DEF CallInv, TypeOK
      <4>2. SpoiltAttempts' = SpoiltAttempts /\ SpoiltAttempts \in Nat
        BY <1>1, <4>1 DEF SpoiltAttempts, MaxAttempts
      <4>3. \A u \in Tasks : Failed(u) \in Nat
        BY DEF Failed, CallInv, TypeOK, MaxAttempts
      <4>4. \A u \in Tasks : Failed(u)' \in Nat
        BY <1>5 DEF Failed, MaxAttempts
      <4>5. QED
        BY <4>2, <4>3, <4>4
    <3>3. \A u \in Tasks : Failed(u)' <= Failed(u)
      <4>1. Failed(t)' <= Failed(t)
        <5>1. pc'[t] = "ended" /\ attempt'[t] = attempt[t] /\ pc[t] = "hung" => Failed(t) = 3
          BY DEF Failed, MaxAttempts
        <5>2. Sendable(t)' = Sendable(t)
          BY <1>1 DEF Sendable, HasForm
        <5>3. CASE pc'[t] = "ended" /\ attempt'[t] = attempt[t] /\ pc[t] = "hung"
          BY <1>4, <5>1, <5>3 DEF Failed, MaxAttempts
        <5>4. CASE pc'[t] = "ended" /\ attempt'[t] = attempt[t] /\ ~Sendable(t)
          BY <1>4, <5>2, <5>4 DEF Failed, MaxAttempts
        <5>5. CASE pc'[t] = "text" /\ attempt'[t] = attempt[t]
          BY <1>4, <5>5 DEF Failed, MaxAttempts
        <5>6. CASE pc[t] = "sleep" /\ attempt'[t] = attempt[t] + 1 /\ pc'[t] = "send"
          BY <1>4, <5>6 DEF Failed
        <5>7. CASE /\ pc[t] = "sleep" /\ attempt'[t] = attempt[t] + 1
                   /\ pc'[t] = "ended" /\ attempt'[t] = MaxAttempts
          BY <1>4, <5>7 DEF Failed, MaxAttempts
        <5>8. QED
          BY <1>5, <2>2, <5>3, <5>4, <5>5, <5>6, <5>7
      <4>2. \A u \in Tasks \ {t} : Failed(u)' = Failed(u)
        BY <1>1, <1>5 DEF Failed, Sendable, HasForm
      <4>3. QED
        BY <3>2, <4>1, <4>2
    <3>4. QED
      BY <3>1, <3>2, <3>3, TaskSets
  <2>3. ASSUME ~CtxDone, faults = 0, sender = "grpc", "grpc" \in takes, pc'[Batch] = "ended"
        PROVE  Batch \in sent
    <3>1. SpoiltAttempts = 0
      BY <2>3 DEF CallInv, TypeOK, SpoiltAttempts, MaxAttempts
    <3>2. pc[Batch] # "hung"
      BY <2>3, <3>1 DEF CallInv, FailuresPaid, Failed, MaxAttempts
    <3>3. t # Batch
      BY <1>5, <1>6, <2>3, <3>2
    <3>4. pc[Batch] = "ended"
      BY <1>5, <2>3, <3>3, TaskSets
    <3>5. QED
      BY <2>3, <3>4 DEF CallInv, FailuresPaid
  <2>4. QED
    BY <1>1, <2>1, <2>2, <2>3 DEF FailuresPaid
<1>12. OverAtTheDeadline'
  BY <1>1 DEF CallInv, OverAtTheDeadline
<1>13. QED
  BY <1>7, <1>8, <1>9, <1>10, <1>11, <1>12 DEF CallInv

\* SendMetrics goes on, or starts the goroutine of one more metric.
LEMMA CallerKeeps ==
    ASSUME CallInv, BatchReturns \/ Spawn \/ AllSpawned \/ Join, UNCHANGED call
    PROVE  CallInv'
<1>1. /\ sender' = sender /\ deadline' = deadline /\ takes' = takes
      /\ noForm' = noForm /\ tooLong' = tooLong
      /\ now' = now /\ cancelled' = cancelled
      /\ attempt' = attempt /\ wake' = wake /\ sent' = sent
      /\ applied' = applied /\ faults' = faults /\ permanents' = permanents
  BY DEF BatchReturns, Spawn, AllSpawned, Join, tasks, clock, call, server
<1>2. /\ pc \in [Tasks -> Places] /\ Size \in Nat
      /\ next \in Nat /\ next >= 1 /\ next <= Size + 1
      /\ \A m \in Valid : m \in Nat /\ m >= 1 /\ m <= Size
  BY DEF CallInv, TypeOK, Places, Valid, Metrics
<1>3. /\ Content(Batch)' = Content(Batch)
      /\ CtxDone' <=> CtxDone
  BY <1>1 DEF Content, CtxDone
<1>4. CASE Spawn /\ next \in Valid
  <2>1. /\ next' = next + 1 /\ caller' = caller /\ result' = result
        /\ caller = "spawn" /\ next \in Tasks /\ next # Batch
        /\ pc' \in [Tasks -> Places] /\ pc'[next] = "send"
        /\ \A u \in Tasks \ {next} : pc'[u] = pc[u]
    BY <1>2, <1>4, TaskSets DEF Spawn, Places
  <2>2. pc[next] = "idle" /\ attempt[next] < MaxAttempts /\ next \notin sent
    BY <1>2, <1>4, <2>1 DEF CallInv, TasksFollowCaller
  <2>3. TypeOK'
    BY <1>1, <1>2, <1>4, <2>1 DEF CallInv, TypeOK, Places, Valid, Metrics
  <2>4. TasksFollowCaller'
    <3>1. \A m \in Valid : pc'[m] = "idle" <=> m >= next'
      <4> SUFFICES ASSUME NEW m \in Valid PROVE pc'[m] = "idle" <=> m >= next + 1
        BY <2>1
      <4>1. m \in Tasks /\ (pc[m] = "idle" <=> m >= next)
        BY TaskSets DEF CallInv, TasksFollowCaller
      <4>2. QED
        BY <1>2, <2>1, <4>1
    <3>2. QED
      BY <3>1, <1>1, <2>1, <2>2, TaskSets DEF CallInv, TypeOK, TasksFollowCaller
  <2>5. CallerFollowsBatch'
    BY <1>1, <2>1, TaskSets DEF CallInv, CallerFollowsBatch
  <2>6. ApplicationsPaid'
    BY <1>1, <1>3, <2>1, TaskSets DEF CallInv, ApplicationsPaid
  <2>7. FailuresPaid'
    <3>1. \A u \in Tasks : Failed(u)' = Failed(u)
      BY <1>1, <2>1, <2>2 DEF Failed, Sendable, HasForm
    <3>2. \A m \in Valid : Failed(m)' = Failed(m) /\ Failed(Batch)' = Failed(Batch)
      BY <3>1, TaskSets
    <3>3. QED
      BY <1>1, <1>3, <2>1, <3>2, TaskSets DEF CallInv, FailuresPaid, SpoiltAttempts
  <2>8. OverAtTheDeadline'
    BY <1>1, <2>1 DEF CallInv, OverAtTheDeadline
  <2>9. QED
    BY <2>3, <2>4, <2>5, <2>6, <2>7, <2>8 DEF CallInv
<1>5. CASE ~(Spawn /\ next \in Valid)
  <2>1. pc' = pc
    BY <1>5 DEF BatchReturns, Spawn, AllSpawned, Join, tasks
  <2>2. \/ /\ next' = next + 1 /\ caller' = caller /\ result' = result
           /\ caller = "spawn" /\ next \in Invalid
        \/ /\ next' = next /\ caller = "spawn" /\ caller' = "join" /\ result' = result
           /\ next > Size
        \/ /\ next' = next /\ caller = "join" /\ caller' = "returned" /\ result' = "nil"
           /\ Running = {}
        \/ /\ next' = next /\ caller = "batch" /\ pc[Batch] = "ended"
           /\ IF Batch \in sent THEN caller' = "returned" /\ result' = "nil"
              ELSE IF sender = "grpc" THEN caller' = "returned" /\ result' = "error"
              ELSE caller' = "spawn" /\ result' = result
    BY <1>5 DEF BatchReturns, Spawn, AllSpawned, Join
  <2>3. next \in Invalid => next <= Size /\ next \notin Valid
    BY <1>2 DEF Valid
  <2>4. TypeOK'
    BY <1>1, <1>2, <2>1, <2>2, <2>3 DEF CallInv, TypeOK
  <2>5. TasksFollowCaller'
    <3>1. \A m \in Valid : pc'[m] = "idle" <=> m >= next'
      <4> SUFFICES ASSUME NEW m \in Valid PROVE pc[m] = "idle" <=> m >= next'
        BY <2>1
      <4>1. pc[m] = "idle" <=> m >= next
        BY DEF CallInv, TasksFollowCaller
      <4>2. next' = next \/ (next' = next + 1 /\ m # next)
        BY <2>2, <2>3
      <4>3. QED
        BY <1>2, <4>1, <4>2
    <3>2. caller' = "returned" => \A m \in Valid : pc'[m] \in {"idle", "ended"}
      <4>1. CASE caller = "join"
        <5>1. Running = {}
          BY <2>2, <4>1
        <5>2. QED
          BY <2>1, <5>1 DEF Running
      <4>2. CASE caller = "batch"
        <5>1. \A m \in Valid : m >= next
          BY <1>2, <4>2 DEF CallInv, CallerFollowsBatch
        <5>2. QED
          BY <2>1, <5>1 DEF CallInv, TasksFollowCaller
      <4>3. QED
        BY <2>2, <4>1, <4>2 DEF CallInv, TypeOK
    <3>3. caller' # "batch" => pc'[Batch] = "ended"
      BY <2>1, <2>2 DEF CallInv, TasksFollowCaller
    <3>4. QED
      BY <3>1, <3>2, <3>3, <1>1, <2>1 DEF CallInv, TasksFollowCaller
  <2>6. CallerFollowsBatch'
    <3>1. caller = "spawn" /\ next > Size => next = Size + 1
      BY <1>2
    <3>2. QED
      BY <1>1, <2>1, <2>2, <3>1 DEF CallInv, TypeOK, CallerFollowsBatch
  <2>7. ApplicationsPaid'
    BY <1>1, <1>3, <2>1 DEF CallInv, ApplicationsPaid
  <2>8. FailuresPaid'
    BY <1>1, <1>3, <2>1 DEF CallInv, FailuresPaid, Failed, Sendable, HasForm, SpoiltAttempts
  <2>9. OverAtTheDeadline'
    BY <1>1, <2>2 DEF CallInv, OverAtTheDeadline
  <2>10. QED
    BY <2>4, <2>5, <2>6, <2>7, <2>8, <2>9 DEF CallInv
<1>6. QED
  BY <1>4, <1>5

\* Time goes on only while some loop waits, and none waits on a context that is
\* done.
LEMMA TickIsBeforeTheDeadline ==
    ASSUME TypeOK, Tick
    PROVE  ~CtxDone /\ now + 1 <= deadline
<1>1. PICK t \in Tasks : pc[t] \in {"sleep", "hung"} /\ Waits(t)
  BY DEF Tick
<1>2. ~CtxDone
  BY <1>1 DEF Waits, Interrupted
<1>3. QED
  BY <1>2 DEF CtxDone, TypeOK

LEMMA ClockKeeps ==
    ASSUME CallInv, (Tick /\ UNCHANGED call) \/ Cancel
    PROVE  CallInv'
<1>1. /\ UNCHANGED <<call, caller, result, next, tasks, server>>
      /\ TypeOK
  BY DEF Tick, Cancel, CallInv
<1>2. TypeOK'
  <2>1. now' \in {now, now + 1} /\ cancelled' \in {cancelled, TRUE}
    BY DEF Tick, Cancel
  <2>2. now \in Nat /\ cancelled \in BOOLEAN
    BY <1>1 DEF TypeOK
  <2>3. now' \in Nat
    BY <2>1, <2>2
  <2>4. cancelled' \in BOOLEAN
    BY <2>1, <2>2
  <2>5. QED
    BY <1>1, <2>3, <2>4 DEF TypeOK, call, tasks, server
<1>3. OverAtTheDeadline' /\ (~CtxDone' => ~CtxDone)
  <2>1. CASE Tick /\ UNCHANGED call
    <3>1. ~CtxDone /\ now + 1 <= deadline
      BY <1>1, <2>1, TickIsBeforeTheDeadline
    <3>2. now' = now + 1 /\ deadline' = deadline
      BY <2>1 DEF Tick, call
    <3>3. QED
      BY <3>1, <3>2 DEF OverAtTheDeadline
  <2>2. CASE Cancel
    BY <2>2 DEF Cancel, OverAtTheDeadline, CallInv, CtxDone, call
  <2>3. QED
    BY <2>1, <2>2
<1>4. TasksFollowCaller' /\ CallerFollowsBatch'
  BY <1>1 DEF CallInv, TasksFollowCaller, CallerFollowsBatch, call, tasks
<1>5. ApplicationsPaid'
  BY <1>1 DEF CallInv, ApplicationsPaid, Content, call, tasks, server
<1>6. FailuresPaid'
  BY <1>1, <1>3
     DEF CallInv, FailuresPaid, Failed, Sendable, HasForm, SpoiltAttempts, call, tasks, server
<1>7. QED
  BY <1>2, <1>3, <1>4, <1>5, <1>6 DEF CallInv

LEMMA InitCall == Init => CallInv
<1> SUFFICES ASSUME Init PROVE CallInv
  OBVIOUS
<1>1. TypeOK
  <2>1. next \in 1..(Size + 1) /\ faults \in 0..MaxFaults /\ permanents \in 0..faults
    BY DEF Init
  <2>2. attempt \in [Tasks -> 0..MaxAttempts]
    BY DEF Init, MaxAttempts
  <2>3. QED
    BY <2>1, <2>2 DEF Init, TypeOK
<1>2. \A m \in Valid : m \in Nat /\ m >= 1 /\ m # Batch /\ m \in Tasks
  BY TaskSets DEF Valid, Metrics, Batch
<1>3. TasksFollowCaller /\ CallerFollowsBatch
  BY <1>2, TaskSets DEF Init, TasksFollowCaller, CallerFollowsBatch, MaxAttempts
<1>4. ApplicationsPaid
  BY TaskSets DEF Init, ApplicationsPaid
<1>5. FailuresPaid
  BY <1>2, TaskSets DEF Init, FailuresPaid, Failed, SpoiltAttempts, MaxAttempts
<1>6. OverAtTheDeadline
  BY <1>1 DEF Init, OverAtTheDeadline, TypeOK
<1>7. QED
  BY <1>1, <1>3, <1>4, <1>5, <1>6 DEF CallInv

LEMMA StepKeepsCall == CallInv /\ [Next]_vars => CallInv'
<1> SUFFICES ASSUME CallInv, [Next]_vars PROVE CallInv'
  OBVIOUS
<1>1. CASE UNCHANGED vars
  BY <1>1 DEF vars, call, clock, tasks, server, CallInv, TypeOK, TasksFollowCaller,
              CallerFollowsBatch, ApplicationsPaid, Content, FailuresPaid, Failed, Sendable, HasForm,
              SpoiltAttempts, CtxDone, OverAtTheDeadline
<1>2. ASSUME SendBatch \/ SendGRPC \/ \E m \in Valid : SendJSON(m) \/ SendText(m),
             UNCHANGED call
      PROVE  CallInv'
  <2>1. TypeOK /\ TasksFollowCaller
    BY DEF CallInv
  <2>2. QED
    BY <1>2, <2>1, RequestSteps, RequestKeeps
<1>3. ASSUME BatchHasNoBody \/ (\E m \in Valid : MetricHasNoForm(m) \/ MetricIsTooLong(m)),
             UNCHANGED call
      PROVE  CallInv'
  BY <1>3, LoopKeeps, TaskSets
<1>4. QED
  BY <1>1, <1>2, <1>3, LoopKeeps, CallerKeeps, ClockKeeps DEF Next, Progress

LEMMA SpecKeepsCall == Spec => []CallInv
BY InitCall, StepKeepsCall, PTL DEF Spec

-----------------------------------------------------------------------------
(* The theorems.                                                            *)

\* Every variable keeps its type: no loop makes more attempts than Retry allows,
\* and the loop over the metrics stops behind the last (http_sender.go:86-281).
THEOREM CallTypes == Spec => []TypeOK
<1>1. CallInv => TypeOK
  BY DEF CallInv
<1>2. QED
  BY <1>1, SpecKeepsCall, PTL

\* A second application of a metric is paid by a fault; what validateMetric
\* refuses is never applied over HTTP, and gRPC applies once at most
\* (http_sender.go:245-281).
THEOREM DuplicatesPaid == Spec => []DuplicatesAreExplained
<1>1. CallInv => DuplicatesAreExplained
  <2> SUFFICES ASSUME CallInv, NEW m \in Metrics
               PROVE  applied[m] <= IF sender = "grpc" THEN 1
                                    ELSE IF m \in Valid THEN 1 + faults ELSE 0
    BY DEF DuplicatesAreExplained
  <2>1. applied[m] \in Nat /\ faults \in Nat
    BY DEF CallInv, TypeOK
  <2>2. applied[m] <= IF sender = "grpc" THEN (IF pc[Batch] = "send" THEN 0 ELSE 1)
                      ELSE IF m \notin Valid THEN 0
                      ELSE IF Batch \in sent \/ m \in sent THEN faults + 1
                      ELSE faults
    BY DEF CallInv, ApplicationsPaid
  <2>3. QED
    BY <2>1, <2>2
<1>2. QED
  BY <1>1, SpecKeepsCall, PTL

\* The call is over at the deadline of its context, however many goroutines are
\* asleep between two attempts or wait for an answer (http_sender.go:187-209).
THEOREM OverInTime == Spec => []OverAtTheDeadline
<1>1. CallInv => OverAtTheDeadline
  BY DEF CallInv
<1>2. QED
  BY <1>1, SpecKeepsCall, PTL

\* Without the fallback, nil means that the server has every metric of the
\* request; an error means all of the slice or nothing (http_sender.go:277-281).
THEOREM HonestResult == Spec => []ResultIsHonest
<1>1. CallInv => ResultIsHonest
  <2> SUFFICES ASSUME CallInv PROVE ResultIsHonest
    OBVIOUS
  <2>1. ASSUME result = "nil", next = 1
        PROVE  \A m \in Content(Batch) : applied[m] >= 1
    <3>1. CASE Batch \in sent
      BY <3>1 DEF CallInv, ApplicationsPaid
    <3>2. CASE Batch \notin sent
      <4>1. Size = 0
        BY <2>1, <3>2 DEF CallInv, CallerFollowsBatch
      <4>2. Content(Batch) = {}
        BY <4>1, TaskSets DEF Metrics
      <4>3. QED
        BY <4>2
    <3>3. QED
      BY <3>1, <3>2
  <2>2. result = "error" => \A m, n \in Metrics : applied[m] = applied[n]
    BY DEF CallInv, CallerFollowsBatch, ApplicationsPaid
  <2>3. QED
    BY <2>1, <2>2 DEF ResultIsHonest
<1>2. QED
  BY <1>1, SpecKeepsCall, PTL

\* Once the call has returned, nothing of it reaches the server: the worker may
\* recycle the batch (agent.go:148-154).
THEOREM SilentAfterReturn == Spec => NothingSentAfterReturn
<1>1. CallInv /\ [Next]_vars => [caller = "returned" => applied' = applied]_vars
  <2> SUFFICES ASSUME CallInv, Next, caller = "returned" PROVE applied' = applied
    OBVIOUS
  <2>1. \A t \in Tasks : pc[t] \in {"idle", "ended"}
    BY TaskSets DEF CallInv, TasksFollowCaller
  <2>2. QED
    BY <2>1, TaskSets
       DEF Next, Progress, SendBatch, BatchHasNoBody, SendGRPC, SendJSON, MetricHasNoForm,
           MetricIsTooLong, SendText, GivesUp, Wakes, Aborts, BatchReturns, Spawn, AllSpawned, Join, Tick, Cancel, server
<1>2. QED
  BY <1>1, SpecKeepsCall, PTL DEF Spec, NothingSentAfterReturn

\* The Retry loop of a valid metric, in a call of the HTTP sender that returned
\* before its context was done without this metric, is over.
LEMMA LoopOfALostMetric ==
    ASSUME CallInv, caller = "returned", sender = "http", NEW m \in Valid, applied[m] = 0
    PROVE  Batch \notin sent /\ m \notin sent /\ pc[Batch] = "ended" /\ pc[m] = "ended"
<1>1. m \in Tasks /\ m \in Metrics /\ Batch \in Tasks /\ m \in Content(Batch)
  BY TaskSets
<1>2. Batch \notin sent /\ m \notin sent
  <2>1. ~(applied[m] >= 1)
    OBVIOUS
  <2>2. QED
    BY <1>1, <2>1 DEF CallInv, ApplicationsPaid
<1>3. result \in {"nil", "error"} /\ pc[Batch] = "ended"
  BY DEF CallInv, TypeOK, CallerFollowsBatch, TasksFollowCaller
<1>4. next = Size + 1
  BY <1>2, <1>3 DEF CallInv, CallerFollowsBatch
<1>5. ~(m >= next)
  BY <1>1, <1>4 DEF Metrics
<1>6. QED
  BY <1>2, <1>3, <1>5 DEF CallInv, TasksFollowCaller

\* A call that meets no fault leaves every valid metric it can send applied exactly
\* once, whatever the forms the server refuses and whatever another metric does to
\* the body of the batch (http_sender.go:86-281).
THEOREM ExactlyOnce == Spec => []ExactlyOnceWithoutFaults
<1>1. CallInv => ExactlyOnceWithoutFaults
  <2> SUFFICES ASSUME CallInv, caller = "returned", faults = 0, ~CtxDone, NEW m \in Valid,
                      IF sender = "grpc" THEN "grpc" \in takes ELSE Sendable(m)
               PROVE  applied[m] = 1
    BY DEF ExactlyOnceWithoutFaults
  <2>1. /\ m \in Tasks /\ m \in Metrics /\ Batch \in Tasks /\ m \in Content(Batch)
        /\ applied[m] \in Nat /\ permanents = 0
        /\ sender = "http" \/ sender = "grpc"
    BY TaskSets DEF CallInv, TypeOK
  <2>2. applied[m] <= 1
    <3>1. applied[m] <= IF sender = "grpc" THEN (IF pc[Batch] = "send" THEN 0 ELSE 1)
                        ELSE IF m \notin Valid THEN 0
                        ELSE IF Batch \in sent \/ m \in sent THEN faults + 1
                        ELSE faults
      BY <2>1 DEF CallInv, ApplicationsPaid
    <3>2. QED
      BY <2>1, <3>1
  <2>3. applied[m] # 0
    <3>1. CASE sender = "grpc"
      <4>1. pc[Batch] = "ended"
        BY DEF CallInv, TasksFollowCaller
      <4>2. Batch \in sent
        BY <3>1, <4>1 DEF CallInv, FailuresPaid
      <4>3. applied[m] >= 1
        BY <2>1, <4>2 DEF CallInv, ApplicationsPaid
      <4>4. QED
        BY <4>3
    <3>2. CASE sender = "http"
      <4> SUFFICES ASSUME applied[m] = 0 PROVE FALSE
        OBVIOUS
      <4>1. m \notin sent /\ pc[m] = "ended" /\ Sendable(m)
        BY <3>2, LoopOfALostMetric
      <4>2. Failed(m) = 3 /\ SpoiltAttempts = 0
        BY <2>1, <4>1 DEF Failed, SpoiltAttempts, MaxAttempts
      <4>3. Failed(Batch) \in Nat /\ SpoiltAttempts >= Failed(Batch) + Failed(m)
        BY <2>1 DEF CallInv, TypeOK, FailuresPaid, Failed, MaxAttempts
      <4>4. QED
        BY <4>2, <4>3
    <3>3. QED
      BY <2>1, <3>1, <3>2
  <2>4. QED
    BY <2>1, <2>2, <2>3
<1>2. QED
  BY <1>1, SpecKeepsCall, PTL

\* With time enough, a metric that can be sent is lost only when faults have spoilt
\* every attempt of its own and, unless the batch could not be sent anyway, every
\* attempt of the batch; a permanent fault counts for all attempts of its loop, as
\* Retry stops at it (http_sender.go:187-196).
THEOREM LossIsPaid == Spec => []LossNeedsEveryAttemptToFail
<1>1. CallInv => LossNeedsEveryAttemptToFail
  <2> SUFFICES ASSUME CallInv, caller = "returned", sender = "http", ~CtxDone,
                      NEW m \in Valid, applied[m] = 0, Sendable(m)
               PROVE  SpoiltAttempts >= IF Sendable(Batch) THEN 2 * MaxAttempts
                                                          ELSE MaxAttempts
    BY DEF LossNeedsEveryAttemptToFail
  <2>1. Batch \notin sent /\ m \notin sent /\ pc[Batch] = "ended" /\ pc[m] = "ended"
    BY LoopOfALostMetric
  <2>2. Failed(m) = 3 /\ (Sendable(Batch) => Failed(Batch) = 3) /\ Failed(Batch) \in Nat
    <3>1. Batch \in Tasks /\ attempt[Batch] \in Nat
      BY TaskSets DEF CallInv, TypeOK
    <3>2. QED
      BY <2>1, <3>1 DEF Failed, MaxAttempts
  <2>3. SpoiltAttempts >= Failed(Batch) + Failed(m) /\ SpoiltAttempts \in Nat
    BY DEF CallInv, TypeOK, FailuresPaid, SpoiltAttempts, MaxAttempts
  <2>4. QED
    BY <2>2, <2>3 DEF MaxAttempts
<1>2. QED
  BY <1>1, SpecKeepsCall, PTL

=============================================================================
