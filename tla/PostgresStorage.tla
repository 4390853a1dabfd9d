-------------------------- MODULE PostgresStorage --------------------------
(***************************************************************************)
(* Concurrent updates through internal/repository/postgres: every call is  *)
(* one transaction of upserts (a single upsert is its own), retried by     *)
(* Retry according to the classifier of errors.go.  The database is        *)
(* PostgreSQL at its default isolation: an upsert locks its row until the  *)
(* transaction ends, waits for a row another transaction has locked, and   *)
(* a cycle of waits is broken by an error in one of them.  GetAll reads    *)
(* meanwhile: it takes no locks, and each of its two queries sees what is  *)
(* committed when it runs.                                                 *)
(***************************************************************************)
EXTENDS Naturals, Sequences, SequencesExt

CONSTANTS
    Ids,            \* names of metrics, the primary key of the table
    Null,           \* SQL NULL, and no row, and no owner of a lock
    Ops,            \* calls of UpsertGauge, UpsertCounter, UpdateMetricsBatch
    Batch,          \* [Ops -> Seq([id, type, v])], the metrics of each call
    Drivers,        \* versions of pgx whose errors the calls may get
    Cancellable,    \* BOOLEAN: may a caller's context end during a pause?
    MaxFaults       \* bound: errors other than deadlocks

RowRecords == [mtype : {"gauge", "counter"}, value : Nat \union {Null},
               delta : Nat \union {Null}]

ASSUME StorageAssumption ==
    /\ Null \notin Ids \union Ops \union Nat
    /\ Null \notin RowRecords
    /\ Drivers \subseteq {"v4", "v5"}
    /\ Cancellable \in BOOLEAN
    /\ MaxFaults \in Nat
    /\ Batch \in [Ops -> Seq([id : Ids, type : {"gauge", "counter"}, v : Nat])]

MaxAttempts == 3    \* DefaultRetryConfig

\* Codes classifyPostgresError takes for temporary: class 08, 40001, 40P01; those
\* of a server that stops or starts are met like one of class 08.
TemporaryCodes == {"connection", "serialization", "deadlock"}

\* "lost" is no answer of the server: the connection broke, or the context ended.
Errors == {"lost", "permanent"} \union TemporaryCodes

VARIABLES
    rows,       \* [Ids -> Null or [mtype, value, delta]], the committed table
    lock,       \* [Ids -> the call whose transaction has locked the row, or Null]
    draft,      \* [Ops -> [Ids -> row]], what the transaction has written
    pc,         \* [Ops -> "begin", "exec", "commit", "sleep", "ended"]
    index,      \* [Ops -> Nat], the loop over the batch
    attempt,    \* [Ops -> Nat], the counter of Retry
    result,     \* [Ops -> "", "ok" or the last error]
    applied,    \* [Ops -> Nat], committed transactions of the call
    faults,     \* errors so far
    driver,     \* the version of pgx that the program is built with
    list,       \* [phase, gauges, counters, whole], a call of GetAll and what it has read
    known       \* the calls that were committed at its first query

table == <<rows, lock, draft, applied>>
progress == <<pc, index, attempt, result>>
reader == <<list, known>>
vars == <<table, progress, faults, driver, reader>>

Init ==
    /\ rows = [i \in Ids |-> Null]
    /\ lock = [i \in Ids |-> Null]
    /\ draft = [o \in Ops |-> rows]
    /\ pc = [o \in Ops |-> "begin"]
    /\ index = [o \in Ops |-> 1]
    /\ attempt = [o \in Ops |-> 0]
    /\ result = [o \in Ops |-> ""]
    /\ applied = [o \in Ops |-> 0]
    /\ faults = 0
    /\ driver \in Drivers
    /\ list = [phase |-> "first", gauges |-> rows, counters |-> rows, whole |-> TRUE]
    /\ known = {}

-----------------------------------------------------------------------------
(* The statements.                                                          *)

\* INSERT ... ON CONFLICT (id) DO UPDATE: a row that exists keeps its mtype.
Upsert(row, e) ==
    IF row = Null
    THEN [mtype |-> e.type,
          value |-> IF e.type = "gauge" THEN e.v ELSE Null,
          delta |-> IF e.type = "gauge" THEN Null ELSE e.v]
    ELSE IF e.type = "gauge"
    THEN [row EXCEPT !.value = e.v, !.delta = Null]
    ELSE [row EXCEPT !.value = Null, !.delta = IF @ = Null THEN e.v ELSE @ + e.v]

\* GetGauge and GetCounter, and each query of GetAll.
GetGauge(i) == IF rows[i] # Null /\ rows[i].mtype = "gauge" THEN rows[i].value ELSE Null
GetCounter(i) == IF rows[i] # Null /\ rows[i].mtype = "counter" THEN rows[i].delta ELSE Null

Locked(o) == {i \in Ids : lock[i] = o}

Unlock(o) == lock' = [i \in Ids |-> IF lock[i] = o THEN Null ELSE lock[i]]

-----------------------------------------------------------------------------
(* Retry.                                                                   *)

\* A broken connection counts as temporary too.
BugRetriable(err) == driver = "v5" /\ err \in TemporaryCodes \union {"lost"}

\* Classify: errors.As finds the code only in an error of the type of pgx v5.
Retriable(err) == driver = "v5" /\ err \in TemporaryCodes

LastAttempt(o) == attempt[o] >= MaxAttempts - 1

\* The operation has ended with an error.
Fail(o, err) ==
    /\ pc' = [pc EXCEPT ![o] =
                 IF Retriable(err) /\ ~LastAttempt(o) THEN "sleep" ELSE "ended"]
    /\ result' = [result EXCEPT ![o] = err]
    /\ UNCHANGED <<index, attempt>>

Wake(o) ==
    /\ pc[o] = "sleep"
    /\ pc' = [pc EXCEPT ![o] = "begin"]
    /\ attempt' = [attempt EXCEPT ![o] = @ + 1]
    /\ UNCHANGED <<index, result, table, faults>>

\* case <-ctx.Done() in the pause.
Abort(o) ==
    /\ Cancellable
    /\ pc[o] = "sleep"
    /\ pc' = [pc EXCEPT ![o] = "ended"]
    /\ result' = [result EXCEPT ![o] = "lost"]
    /\ UNCHANGED <<index, attempt, table, faults>>

-----------------------------------------------------------------------------
(* The transaction of a call.                                               *)

Begin(o) ==
    /\ pc[o] = "begin"
    /\ pc' = [pc EXCEPT ![o] = IF Batch[o] = <<>> THEN "commit" ELSE "exec"]
    /\ index' = [index EXCEPT ![o] = 1]
    /\ UNCHANGED <<attempt, result, table, faults>>

Entry(o) == Batch[o][index[o]]

Waits(o) == pc[o] = "exec" /\ lock[Entry(o).id] \notin {Null, o}

\* tx.ExecContext: the row is locked, then read as it is committed now.
Exec(o) ==
    /\ pc[o] = "exec" /\ ~Waits(o)
    /\ LET i == Entry(o).id
           row == IF lock[i] = o THEN draft[o][i] ELSE rows[i]
       IN /\ draft' = [draft EXCEPT ![o][i] = Upsert(row, Entry(o))]
          /\ lock' = [lock EXCEPT ![i] = o]
    /\ index' = [index EXCEPT ![o] = @ + 1]
    /\ pc' = [pc EXCEPT ![o] = IF index[o] = Len(Batch[o]) THEN "commit" ELSE "exec"]
    /\ UNCHANGED <<attempt, result, rows, applied, faults>>

\* The transaction of o takes effect.
Publish(o) ==
    /\ rows' = [i \in Ids |-> IF lock[i] = o THEN draft[o][i] ELSE rows[i]]
    /\ Unlock(o)
    /\ applied' = [applied EXCEPT ![o] = @ + 1]
    /\ UNCHANGED draft

Commit(o) ==
    /\ pc[o] = "commit"
    /\ Publish(o)
    /\ pc' = [pc EXCEPT ![o] = "ended"]
    /\ result' = [result EXCEPT ![o] = "ok"]
    /\ UNCHANGED <<index, attempt, faults>>

\* The transaction is left open.
BugRollback(o) == UNCHANGED table

\* defer tx.Rollback(), or the end of the session.
Rollback(o) == Unlock(o) /\ UNCHANGED <<rows, draft, applied>>

\* BeginTx, a statement or the commit fails.
Fault(o) ==
    /\ pc[o] \in {"begin", "exec", "commit"}
    /\ faults < MaxFaults
    /\ faults' = faults + 1
    /\ \E err \in Errors \ {"deadlock"} : Fail(o, err)
    /\ Rollback(o)

\* The error of the commit is not looked at.
BugCommitLost(o) ==
    /\ pc[o] = "commit"
    /\ faults < MaxFaults
    /\ faults' = faults + 1
    /\ pc' = [pc EXCEPT ![o] = "ended"]
    /\ result' = [result EXCEPT ![o] = "ok"]
    /\ UNCHANGED <<index, attempt>>
    /\ Rollback(o)

\* The server has committed, and the connection breaks before the answer.
CommitLost(o) ==
    /\ pc[o] = "commit"
    /\ faults < MaxFaults
    /\ faults' = faults + 1
    /\ Fail(o, "lost")
    /\ Publish(o)

\* Transactions that wait for each other.
Cycle(ops) ==
    /\ ops # {}
    /\ \A o \in ops : Waits(o) /\ lock[Entry(o).id] \in ops

Deadlock(o) ==
    /\ \E ops \in SUBSET Ops : o \in ops /\ Cycle(ops)
    /\ Fail(o, "deadlock")
    /\ Rollback(o)
    /\ UNCHANGED faults

-----------------------------------------------------------------------------
(* GetAll, two queries outside a transaction.                               *)

Committed == {o \in Ops : applied[o] > 0}

Visible == [gauges |-> [i \in Ids |-> GetGauge(i)],
            counters |-> [i \in Ids |-> GetCounter(i)]]

\* The counters are read before the gauges.
BugQueryOf(phase) == IF phase = "first" THEN "counters" ELSE "gauges"

QueryOf(phase) == IF phase = "first" THEN "gauges" ELSE "counters"

\* The calls whose commits the first query sees.
Snapshot == known' = IF list.phase = "first" THEN Committed ELSE known

ListQuery ==
    /\ list.phase \in {"first", "second"}
    /\ LET kind == QueryOf(list.phase)
       IN list' = [list EXCEPT ![kind] = Visible[kind],
                               !.phase = IF @ = "first" THEN "second" ELSE "done"]
    /\ Snapshot
    /\ UNCHANGED faults

\* A row that cannot be scanned is skipped, an iteration that fails ends the
\* query, and the function goes on: both are only logged.
ListLosesRows ==
    /\ list.phase \in {"first", "second"}
    /\ faults < MaxFaults
    /\ faults' = faults + 1
    /\ LET kind == QueryOf(list.phase)
       IN \E kept \in (SUBSET Ids) \ {Ids} :
             list' = [list EXCEPT
                         ![kind] = [i \in Ids |-> IF i \in kept THEN Visible[kind][i]
                                                  ELSE Null],
                         !.phase = IF @ = "first" THEN "second" ELSE "done",
                         !.whole = FALSE]
    /\ Snapshot

\* QueryContext fails: what has been read so far is returned.
ListCutShort ==
    /\ list.phase \in {"first", "second"}
    /\ faults < MaxFaults
    /\ faults' = faults + 1
    /\ list' = [list EXCEPT !.phase = "done", !.whole = FALSE]
    /\ UNCHANGED known

GetAll == ListQuery \/ ListLosesRows \/ ListCutShort

-----------------------------------------------------------------------------

Step(o) ==
    \/ Begin(o) \/ Exec(o) \/ Commit(o) \/ Fault(o) \/ CommitLost(o)
    \/ Deadlock(o) \/ Wake(o) \/ Abort(o)

Next ==
    \/ (\E o \in Ops : Step(o)) /\ UNCHANGED <<driver, reader>>
    \/ GetAll /\ UNCHANGED <<table, progress, driver>>

Spec == Init /\ [][Next]_vars

\* A call that can go on does; the server ends every deadlock.
FairSpec == Spec /\ \A o \in Ops : WF_vars(Step(o) /\ UNCHANGED <<driver, reader>>)

-----------------------------------------------------------------------------
(* Properties.                                                              *)

Rows == {Null} \union RowRecords

\* Every variable keeps its type, and a call never exceeds the attempts of Retry.
TypeOK ==
    /\ rows \in [Ids -> Rows]
    /\ lock \in [Ids -> Ops \union {Null}]
    /\ \A i \in Ids : lock[i] # Null => pc[lock[i]] \in {"exec", "commit"}
    /\ draft \in [Ops -> [Ids -> Rows]]
    /\ pc \in [Ops -> {"begin", "exec", "commit", "sleep", "ended"}]
    /\ index \in [Ops -> Nat]
    /\ attempt \in [Ops -> 0..(MaxAttempts - 1)]
    /\ result \in [Ops -> {"", "ok"} \union Errors]
    /\ applied \in [Ops -> Nat]
    /\ faults \in 0..MaxFaults
    /\ driver \in Drivers
    /\ list \in [phase : {"first", "second", "done"},
                  gauges : [Ids -> Nat \union {Null}],
                  counters : [Ids -> Nat \union {Null}], whole : BOOLEAN]
    /\ known \subseteq Ops

\* A caller that gets no error has its batch committed, one that gets an error
\* from the server has not, and no call is committed twice: only after a broken
\* connection the caller cannot tell.
AnswerTellsTheCommit ==
    \A o \in Ops :
        /\ applied[o] <= 1
        /\ pc[o] = "ended" /\ result[o] = "ok" => applied[o] = 1
        /\ result[o] \in Errors \ {"lost"} => applied[o] = 0

\* Every call comes to an end, whatever the order in which the batches lock
\* their rows.
Finishes == \A o \in Ops : <>(pc[o] = "ended")

\* An error that passes is not reported before all attempts are made.
TemporaryErrorsAreRetried ==
    \A o \in Ops : pc[o] = "ended" /\ result[o] \in TemporaryCodes
        => attempt[o] = MaxAttempts - 1

\* No name is used as a gauge and as a counter.
NamesKeepTheirType ==
    \A o, p \in Ops : \A m \in DOMAIN Batch[o], n \in DOMAIN Batch[p] :
        Batch[o][m].id = Batch[p][n].id => Batch[o][m].type = Batch[p][n].type

\* The calls the table shows as done, for names that keep their type.
Store == INSTANCE MetricStore WITH
    store <- Visible,
    applied <- Committed

\* The table behaves as the repository promises: every commit applies one whole
\* batch to what the readers see, once, and nothing else changes it.
StoreSpec == Store!Spec

\* list[kind] is what a store shows after the calls in S, one after another.
Shows(kind, S) ==
    \E order \in SetToSeqs(S) : list[kind] = Store!AfterCalls(order)[kind]

\* GetAll without an error is two views of the committed table, none older than
\* the call, and the counters never older than the gauges: a list that shows the
\* gauge of a batch shows its counters, though commits fall between the queries.
CountersKeepUpWithGauges ==
    list.phase = "done" /\ list.whole =>
        \E later \in SUBSET Committed : \E earlier \in SUBSET later :
            known \subseteq earlier /\ Shows("gauges", earlier) /\ Shows("counters", later)

=============================================================================
