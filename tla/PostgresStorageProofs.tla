----------------------- MODULE PostgresStorageProofs -----------------------
(***************************************************************************)
(* Of PostgresStorage, for any calls, batches and number of faults: its    *)
(* types, what the answer of a call tells of its transaction, and, for     *)
(* names that keep their type, that it implements MetricStore and that the *)
(* counters of a list are never behind its gauges.                         *)
(***************************************************************************)
EXTENDS PostgresStorage, FiniteSetTheorems, WellFoundedInduction, TLAPS

\* The loop over the batch, and the pause that only a call with an attempt left
\* makes.
Progressing ==
    \A o \in Ops :
        /\ pc[o] = "exec" => index[o] \in 1..Len(Batch[o])
        /\ pc[o] = "sleep" => attempt[o] < MaxAttempts - 1

\* A call that has not ended has committed nothing, however often it was tried;
\* a call that has ended has its answer.
CommitTold ==
    \A o \in Ops :
        /\ applied[o] \in {0, 1}
        /\ pc[o] # "ended" => applied[o] = 0 /\ result[o] # "ok"
        /\ pc[o] = "ended" => result[o] # ""
        /\ result[o] = "ok" => applied[o] = 1
        /\ result[o] \in Errors \ {"lost"} => applied[o] = 0

CallsInv == TypeOK /\ Progressing /\ CommitTold

USE StorageAssumption

-----------------------------------------------------------------------------
(* Types.                                                                   *)

Places == {"begin", "exec", "commit", "sleep", "ended"}
Results == {"", "ok"} \union Errors

TableTypes ==
    /\ rows \in [Ids -> Rows]
    /\ draft \in [Ops -> [Ids -> Rows]]
    /\ applied \in [Ops -> Nat]

\* A lock is held by a transaction that is under way.
LockTypes ==
    /\ lock \in [Ids -> Ops \union {Null}]
    /\ \A i \in Ids : lock[i] # Null => pc[lock[i]] \in {"exec", "commit"}

CallTypes ==
    /\ pc \in [Ops -> Places]
    /\ index \in [Ops -> Nat]
    /\ attempt \in [Ops -> 0..(MaxAttempts - 1)]
    /\ result \in [Ops -> Results]
    /\ faults \in 0..MaxFaults
    /\ driver \in Drivers

ListTypes ==
    /\ list \in [phase : {"first", "second", "done"},
                  gauges : [Ids -> Nat \union {Null}],
                  counters : [Ids -> Nat \union {Null}], whole : BOOLEAN]
    /\ known \subseteq Ops

LEMMA TypesTogether == TypeOK <=> TableTypes /\ LockTypes /\ CallTypes /\ ListTypes
BY DEF TypeOK, TableTypes, LockTypes, CallTypes, ListTypes, Places, Results

Entries == [id : Ids, type : {"gauge", "counter"}, v : Nat]

LEMMA EntryType ==
    ASSUME NEW o \in Ops, index[o] \in 1..Len(Batch[o])
    PROVE  Entry(o) \in Entries
<1>1. Batch[o] \in Seq(Entries)
  BY DEF Entries
<1>2. QED
  BY <1>1 DEF Entry

LEMMA UpsertType ==
    ASSUME NEW row \in Rows, NEW e \in Entries
    PROVE  Upsert(row, e) \in Rows
<1>1. e.type \in {"gauge", "counter"} /\ e.v \in Nat
  BY DEF Entries
<1>2. CASE row = Null
  BY <1>1, <1>2 DEF Upsert, Rows, RowRecords
<1>3. CASE row # Null
  <2>1. /\ row \in [mtype : {"gauge", "counter"}, value : Nat \union {Null},
                    delta : Nat \union {Null}]
        /\ row.delta = Null \/ row.delta \in Nat
    BY <1>3 DEF Rows, RowRecords
  <2>2. CASE e.type = "gauge"
    BY <1>1, <1>3, <2>1, <2>2 DEF Upsert, Rows, RowRecords
  <2>3. CASE e.type # "gauge"
    <3>1. PICK d \in Nat : d = IF row.delta = Null THEN e.v ELSE row.delta + e.v
      BY <1>1, <2>1
    <3>2. Upsert(row, e) = [row EXCEPT !.value = Null, !.delta = d]
      BY <1>3, <2>1, <2>3, <3>1 DEF Upsert
    <3>3. QED
      BY <2>1, <3>2 DEF Rows, RowRecords
  <2>4. QED
    BY <2>2, <2>3
<1>4. QED
  BY <1>2, <1>3

-----------------------------------------------------------------------------
(* What the parts of a step do.                                             *)

\* Rollback and Publish give back the locks of their call only.
LEMMA UnlockKeeps ==
    ASSUME TypeOK, NEW o \in Ops, Unlock(o), \A p \in Ops \ {o} : pc'[p] = pc[p]
    PROVE  LockTypes'
<1>1. lock' = [i \in Ids |-> IF lock[i] = o THEN Null ELSE lock[i]]
  BY DEF Unlock
<1>2. lock \in [Ids -> Ops \union {Null}]
  BY DEF TypeOK
<1>3. lock' \in [Ids -> Ops \union {Null}]
  BY <1>1, <1>2
<1>4. ASSUME NEW i \in Ids, lock'[i] # Null
      PROVE  pc'[lock'[i]] \in {"exec", "commit"}
  <2>1. lock'[i] = lock[i] /\ lock[i] \in Ops \ {o}
    BY <1>1, <1>2, <1>4
  <2>2. pc[lock[i]] \in {"exec", "commit"}
    BY <1>4, <2>1 DEF TypeOK
  <2>3. QED
    BY <2>1, <2>2
<1>5. QED
  BY <1>3, <1>4 DEF LockTypes

\* An operation that fails is tried again only after an error that passes, and
\* with an attempt left.
LEMMA FailFacts ==
    ASSUME CallsInv, NEW o \in Ops, NEW err \in Errors, Fail(o, err),
           pc[o] \in {"begin", "exec", "commit"}
    PROVE  /\ pc' \in [Ops -> Places] /\ result' \in [Ops -> Results]
           /\ \A p \in Ops \ {o} : pc'[p] = pc[p] /\ result'[p] = result[p]
           /\ index' = index /\ attempt' = attempt
           /\ result'[o] = err
           /\ \/ /\ pc'[o] = "sleep" /\ attempt[o] < MaxAttempts - 1
                 /\ err \in TemporaryCodes
              \/ pc'[o] = "ended"
<1>1. CallTypes
  BY TypesTogether DEF CallsInv
<1>2. /\ pc' = [pc EXCEPT ![o] = IF Retriable(err) /\ ~LastAttempt(o) THEN "sleep" ELSE "ended"]
      /\ result' = [result EXCEPT ![o] = err]
      /\ index' = index /\ attempt' = attempt
  BY DEF Fail
<1>3. attempt[o] \in 0..2
  BY <1>1 DEF CallTypes, MaxAttempts
<1>4. LastAttempt(o) <=> attempt[o] = MaxAttempts - 1
  BY <1>3 DEF LastAttempt, MaxAttempts
<1>5. ~LastAttempt(o) => attempt[o] < MaxAttempts - 1
  BY <1>3 DEF LastAttempt, MaxAttempts
<1>6. /\ pc' \in [Ops -> Places] /\ result' \in [Ops -> Results]
      /\ \A p \in Ops \ {o} : pc'[p] = pc[p] /\ result'[p] = result[p]
      /\ result'[o] = err
  BY <1>1, <1>2 DEF CallTypes, Places, Results
<1>7. pc'[o] = IF Retriable(err) /\ ~LastAttempt(o) THEN "sleep" ELSE "ended"
  BY <1>1, <1>2 DEF CallTypes
<1>8. QED
  BY <1>2, <1>4, <1>5, <1>6, <1>7 DEF Retriable

\* Publish keeps the types of the table and counts the commit.
LEMMA PublishFacts ==
    ASSUME TypeOK, NEW o \in Ops, Publish(o)
    PROVE  /\ TableTypes'
           /\ applied'[o] = applied[o] + 1
           /\ \A p \in Ops \ {o} : applied'[p] = applied[p]
<1>1. TableTypes
  BY TypesTogether
<1>2. rows' = [i \in Ids |-> IF lock[i] = o THEN draft[o][i] ELSE rows[i]]
      /\ draft' = draft /\ applied' = [applied EXCEPT ![o] = @ + 1]
  BY DEF Publish
<1>3. rows' \in [Ids -> Rows]
  BY <1>1, <1>2 DEF TableTypes
<1>4. applied' \in [Ops -> Nat]
  BY <1>1, <1>2 DEF TableTypes
<1>5. QED
  BY <1>1, <1>2, <1>3, <1>4 DEF TableTypes

-----------------------------------------------------------------------------
(* The steps of a call.                                                     *)

\* Fault and Deadlock: what the transaction wrote is taken back.
LEMMA FailingKeeps ==
    ASSUME CallsInv, NEW o \in Ops, NEW err \in Errors, Fail(o, err), Rollback(o),
           faults' \in 0..MaxFaults, pc[o] \in {"begin", "exec", "commit"},
           UNCHANGED <<driver, reader>>
    PROVE  CallsInv'
<1>1. /\ pc' \in [Ops -> Places] /\ result' \in [Ops -> Results]
      /\ \A p \in Ops \ {o} : pc'[p] = pc[p] /\ result'[p] = result[p]
      /\ index' = index /\ attempt' = attempt
      /\ result'[o] = err
      /\ pc'[o] \in {"sleep", "ended"}
      /\ pc'[o] = "sleep" => attempt[o] < MaxAttempts - 1
  BY FailFacts
<1>2. UNCHANGED <<rows, draft, applied>> /\ Unlock(o)
  BY DEF Rollback
<1>3. TypeOK /\ TableTypes /\ CallTypes /\ ListTypes
  BY TypesTogether DEF CallsInv
<1>4. TypeOK'
  <2>1. LockTypes'
    BY <1>1, <1>2, <1>3, UnlockKeeps
  <2>2. TableTypes' /\ ListTypes'
    BY <1>2, <1>3 DEF TableTypes, ListTypes, reader
  <2>3. CallTypes'
    BY <1>1, <1>3 DEF CallTypes
  <2>4. QED
    BY <2>1, <2>2, <2>3 DEF TypeOK, TableTypes, LockTypes, CallTypes, ListTypes, Places, Results
<1>5. Progressing'
  BY <1>1 DEF CallsInv, Progressing
<1>6. CommitTold'
  <2>1. applied[o] = 0
    BY DEF CallsInv, CommitTold
  <2>2. err \notin {"", "ok"}
    BY DEF Errors, TemporaryCodes
  <2>3. QED
    BY <1>1, <1>2, <2>1, <2>2 DEF CallsInv, CommitTold
<1>7. QED
  BY <1>4, <1>5, <1>6 DEF CallsInv

LEMMA CommitKeeps ==
    ASSUME CallsInv, NEW o \in Ops, Commit(o), UNCHANGED <<driver, reader>>
    PROVE  CallsInv'
<1>1. TypeOK /\ TableTypes /\ CallTypes /\ ListTypes
  BY TypesTogether DEF CallsInv
<1>2. /\ TableTypes' /\ applied'[o] = applied[o] + 1
      /\ \A p \in Ops \ {o} : applied'[p] = applied[p]
  BY <1>1, PublishFacts DEF Commit
<1>3. /\ pc[o] = "commit" /\ pc' = [pc EXCEPT ![o] = "ended"]
      /\ result' = [result EXCEPT ![o] = "ok"]
      /\ index' = index /\ attempt' = attempt /\ faults' = faults
      /\ Unlock(o)
  BY DEF Commit, Publish
<1>4. /\ pc' \in [Ops -> Places] /\ result' \in [Ops -> Results]
      /\ pc'[o] = "ended" /\ result'[o] = "ok"
      /\ \A p \in Ops \ {o} : pc'[p] = pc[p] /\ result'[p] = result[p]
  BY <1>1, <1>3 DEF CallTypes, Places, Results
<1>5. TypeOK'
  <2>1. LockTypes'
    BY <1>1, <1>3, <1>4, UnlockKeeps
  <2>2. ListTypes'
    BY <1>1 DEF ListTypes, reader
  <2>3. CallTypes'
    BY <1>1, <1>3, <1>4 DEF CallTypes
  <2>4. QED
    BY <1>2, <2>1, <2>2, <2>3 DEF TypeOK, TableTypes, LockTypes, CallTypes, ListTypes, Places, Results
<1>6. Progressing'
  BY <1>3, <1>4 DEF CallsInv, Progressing
<1>7. CommitTold'
  <2>1. applied[o] = 0
    BY <1>3 DEF CallsInv, CommitTold
  <2>2. "ok" \notin Errors
    BY DEF Errors, TemporaryCodes
  <2>3. applied'[o] = 1
    BY <1>2, <2>1
  <2> SUFFICES ASSUME NEW p \in Ops
               PROVE  /\ applied'[p] \in {0, 1}
                      /\ pc'[p] # "ended" => applied'[p] = 0 /\ result'[p] # "ok"
                      /\ pc'[p] = "ended" => result'[p] # ""
                      /\ result'[p] = "ok" => applied'[p] = 1
                      /\ result'[p] \in Errors \ {"lost"} => applied'[p] = 0
    BY DEF CommitTold
  <2>4. CASE p = o
    BY <2>4, <1>4, <2>2, <2>3
  <2>5. CASE p # o
    <3>1. applied'[p] = applied[p] /\ pc'[p] = pc[p] /\ result'[p] = result[p]
      BY <2>5, <1>2, <1>4
    <3>2. QED
      BY <3>1 DEF CallsInv, CommitTold
  <2>6. QED
    BY <2>4, <2>5
<1>8. QED
  BY <1>5, <1>6, <1>7 DEF CallsInv

\* The answer is lost: the call is not tried again, so it is committed once.
LEMMA CommitLostKeeps ==
    ASSUME CallsInv, NEW o \in Ops, CommitLost(o), UNCHANGED <<driver, reader>>
    PROVE  CallsInv'
<1>1. TypeOK /\ TableTypes /\ CallTypes /\ ListTypes
  BY TypesTogether DEF CallsInv
<1>2. /\ TableTypes' /\ applied'[o] = applied[o] + 1
      /\ \A p \in Ops \ {o} : applied'[p] = applied[p]
  BY <1>1, PublishFacts DEF CommitLost
<1>3. /\ pc' \in [Ops -> Places] /\ result' \in [Ops -> Results]
      /\ \A p \in Ops \ {o} : pc'[p] = pc[p] /\ result'[p] = result[p]
      /\ index' = index /\ attempt' = attempt
      /\ result'[o] = "lost" /\ pc'[o] = "ended"
  <2>1. Fail(o, "lost") /\ pc[o] = "commit"
    BY DEF CommitLost
  <2>2. "lost" \in Errors /\ "lost" \notin TemporaryCodes
    BY DEF Errors, TemporaryCodes
  <2>3. QED
    BY <2>1, <2>2, FailFacts
<1>4. faults' \in 0..MaxFaults /\ Unlock(o) /\ pc[o] = "commit"
  BY <1>1 DEF CommitLost, Publish, CallTypes
<1>5. TypeOK'
  <2>1. LockTypes'
    BY <1>1, <1>3, <1>4, UnlockKeeps
  <2>2. ListTypes'
    BY <1>1 DEF ListTypes, reader
  <2>3. CallTypes'
    BY <1>1, <1>3, <1>4 DEF CallTypes
  <2>4. QED
    BY <1>2, <2>1, <2>2, <2>3 DEF TypeOK, TableTypes, LockTypes, CallTypes, ListTypes, Places, Results
<1>6. Progressing'
  BY <1>3 DEF CallsInv, Progressing
<1>7. CommitTold'
  <2>1. applied[o] = 0
    BY <1>4 DEF CallsInv, CommitTold
  <2>2. applied'[o] = 1
    BY <1>2, <2>1
  <2>3. QED
    BY <1>2, <1>3, <2>2 DEF CallsInv, CommitTold
<1>8. QED
  BY <1>5, <1>6, <1>7 DEF CallsInv

LEMMA ExecKeeps ==
    ASSUME CallsInv, NEW o \in Ops, Exec(o), UNCHANGED <<driver, reader>>
    PROVE  CallsInv'
<1> DEFINE i == Entry(o).id
           row == IF lock[i] = o THEN draft[o][i] ELSE rows[i]
           new == Upsert(row, Entry(o))
<1>1. TypeOK /\ TableTypes /\ CallTypes /\ ListTypes /\ LockTypes
  BY TypesTogether DEF CallsInv
<1>2. /\ pc[o] = "exec" /\ index[o] \in 1..Len(Batch[o]) /\ Entry(o) \in Entries /\ i \in Ids
      /\ Len(Batch[o]) \in Nat
  <2>1. pc[o] = "exec" /\ index[o] \in 1..Len(Batch[o])
    BY DEF Exec, CallsInv, Progressing
  <2>2. Entry(o) \in Entries
    BY <2>1, EntryType
  <2>3. Batch[o] \in Seq(Entries)
    BY DEF Entries
  <2>4. QED
    BY <2>1, <2>2, <2>3 DEF Entries
<1>3. new \in Rows
  <2>1. row \in Rows
    BY <1>1, <1>2 DEF TableTypes
  <2>2. QED
    BY <1>2, <2>1, UpsertType
<1>4. /\ draft' = [draft EXCEPT ![o][i] = new]
      /\ lock' = [lock EXCEPT ![i] = o]
      /\ index' = [index EXCEPT ![o] = @ + 1]
      /\ pc' = [pc EXCEPT ![o] = IF index[o] = Len(Batch[o]) THEN "commit" ELSE "exec"]
      /\ UNCHANGED <<attempt, result, rows, applied, faults>>
  BY DEF Exec
<1> HIDE DEF i, row, new
<1>5. TableTypes'
  <2>1. draft[o] \in [Ids -> Rows]
    BY <1>1 DEF TableTypes
  <2>2. [draft[o] EXCEPT ![i] = new] \in [Ids -> Rows]
    BY <1>2, <1>3, <2>1
  <2>3. draft' = [draft EXCEPT ![o] = [draft[o] EXCEPT ![i] = new]]
    BY <1>1, <1>4 DEF TableTypes
  <2>4. draft' \in [Ops -> [Ids -> Rows]]
    BY <1>1, <2>2, <2>3 DEF TableTypes
  <2>5. QED
    BY <1>1, <1>4, <2>4 DEF TableTypes
<1>6. /\ pc' \in [Ops -> Places] /\ index' \in [Ops -> Nat]
      /\ pc'[o] = IF index[o] = Len(Batch[o]) THEN "commit" ELSE "exec"
      /\ index'[o] = index[o] + 1
      /\ \A p \in Ops \ {o} : pc'[p] = pc[p] /\ index'[p] = index[p]
  BY <1>1, <1>2, <1>4 DEF CallTypes, Places
<1>7. TypeOK'
  <2>1. LockTypes'
    <3>1. lock \in [Ids -> Ops \union {Null}]
      BY <1>1 DEF LockTypes
    <3>2. lock' \in [Ids -> Ops \union {Null}] /\ pc'[o] \in {"exec", "commit"}
      BY <1>4, <1>6, <3>1
    <3>3. ASSUME NEW j \in Ids, lock'[j] # Null
          PROVE  pc'[lock'[j]] \in {"exec", "commit"}
      <4>1. lock'[j] = o \/ (lock'[j] = lock[j] /\ lock[j] \in Ops \ {o})
        BY <1>4, <3>1, <3>3
      <4>2. lock[j] # Null => pc[lock[j]] \in {"exec", "commit"}
        BY <1>1 DEF LockTypes
      <4>3. QED
        BY <1>6, <3>2, <3>3, <4>1, <4>2
    <3>4. QED
      BY <3>2, <3>3 DEF LockTypes
  <2>2. CallTypes' /\ ListTypes'
    BY <1>1, <1>4, <1>6 DEF CallTypes, ListTypes, reader
  <2>3. QED
    BY <1>5, <2>1, <2>2 DEF TypeOK, TableTypes, LockTypes, CallTypes, ListTypes, Places, Results
<1>8. Progressing'
  <2>1. pc'[o] = "exec" => index'[o] \in 1..Len(Batch[o])
    BY <1>2, <1>6
  <2>2. pc'[o] # "sleep"
    BY <1>6
  <2>3. QED
    BY <1>4, <1>6, <2>1, <2>2 DEF CallsInv, Progressing
<1>9. CommitTold'
  <2>1. pc[o] # "ended" /\ pc'[o] # "ended"
    BY <1>2, <1>6
  <2>2. QED
    BY <1>4, <1>6, <2>1 DEF CallsInv, CommitTold
<1>10. QED
  BY <1>7, <1>8, <1>9 DEF CallsInv

\* Begin, and the end of a pause: nothing is written.
LEMMA PausesKeep ==
    ASSUME CallsInv, NEW o \in Ops, Begin(o) \/ Wake(o) \/ Abort(o), UNCHANGED <<driver, reader>>
    PROVE  CallsInv'
<1>1. TypeOK /\ TableTypes /\ CallTypes /\ ListTypes /\ LockTypes
  BY TypesTogether DEF CallsInv
<1>2. UNCHANGED <<rows, lock, draft, applied, faults>>
  BY DEF Begin, Wake, Abort, table
<1>3. /\ pc' \in [Ops -> Places] /\ \A p \in Ops \ {o} : pc'[p] = pc[p]
      /\ pc[o] \in {"begin", "sleep"}
      /\ pc'[o] \in {"begin", "exec", "commit", "ended"}
      /\ pc'[o] = "exec" => Batch[o] # <<>>
  <2>1. PICK place \in Places :
           /\ pc' = [pc EXCEPT ![o] = place]
           /\ place \in {"begin", "exec", "commit", "ended"}
           /\ place = "exec" => Batch[o] # <<>>
    BY DEF Begin, Wake, Abort, Places
  <2>2. pc[o] \in {"begin", "sleep"}
    BY DEF Begin, Wake, Abort
  <2>3. pc \in [Ops -> Places]
    BY <1>1 DEF CallTypes
  <2>4. QED
    BY <2>1, <2>2, <2>3
<1>4. /\ index' \in [Ops -> Nat]
      /\ \A p \in Ops \ {o} : index'[p] = index[p]
      /\ pc'[o] = "exec" => index'[o] = 1
  <2>1. index \in [Ops -> Nat]
    BY <1>1 DEF CallTypes
  <2>2. CASE index' = [index EXCEPT ![o] = 1]
    BY <2>1, <2>2
  <2>3. CASE index' = index /\ pc'[o] # "exec"
    BY <2>1, <2>3
  <2>4. QED
    BY <1>1, <2>2, <2>3 DEF Begin, Wake, Abort, CallTypes
<1>5. /\ attempt' \in [Ops -> 0..(MaxAttempts - 1)]
      /\ \A p \in Ops \ {o} : attempt'[p] = attempt[p]
  <2>1. CASE Wake(o)
    <3>1. attempt[o] + 1 \in 0..(MaxAttempts - 1)
      <4>1. attempt[o] \in 0..2 /\ attempt[o] < 2
        BY <1>1, <2>1 DEF Wake, CallsInv, Progressing, CallTypes, MaxAttempts
      <4>2. QED
        BY <4>1 DEF MaxAttempts
    <3>2. QED
      BY <1>1, <2>1, <3>1 DEF Wake, CallTypes
  <2>2. CASE Begin(o) \/ Abort(o)
    BY <1>1, <2>2 DEF Begin, Abort, CallTypes
  <2>3. QED
    BY <2>1, <2>2
<1>6. /\ result' \in [Ops -> Results]
      /\ \A p \in Ops \ {o} : result'[p] = result[p]
      /\ result'[o] = result[o] \/ result'[o] = "lost"
      /\ pc'[o] = "ended" => result'[o] = "lost"
  BY <1>1 DEF Begin, Wake, Abort, CallTypes, Results, Errors
<1>7. TypeOK'
  <2>1. LockTypes'
    <3>1. \A i \in Ids : lock[i] # o
      BY <1>1, <1>3 DEF LockTypes
    <3>2. QED
      BY <3>1, <1>1, <1>2, <1>3 DEF LockTypes
  <2>2. TableTypes' /\ CallTypes' /\ ListTypes'
    BY <1>1, <1>2, <1>3, <1>4, <1>5, <1>6 DEF TableTypes, CallTypes, ListTypes, reader
  <2>3. QED
    BY <2>1, <2>2 DEF TypeOK, TableTypes, LockTypes, CallTypes, ListTypes, Places, Results
<1>8. Progressing'
  <2>1. pc'[o] = "exec" => 1 \in 1..Len(Batch[o])
    <3>1. Batch[o] \in Seq(Entries)
      BY DEF Entries
    <3>2. QED
      BY <1>3, <3>1
  <2>2. QED
    BY <1>3, <1>4, <1>5, <2>1 DEF CallsInv, Progressing
<1>9. CommitTold'
  <2>1. applied[o] = 0 /\ result[o] # "ok"
    BY <1>3 DEF CallsInv, CommitTold
  <2> SUFFICES ASSUME NEW p \in Ops
               PROVE  /\ applied'[p] \in {0, 1}
                      /\ pc'[p] # "ended" => applied'[p] = 0 /\ result'[p] # "ok"
                      /\ pc'[p] = "ended" => result'[p] # ""
                      /\ result'[p] = "ok" => applied'[p] = 1
                      /\ result'[p] \in Errors \ {"lost"} => applied'[p] = 0
    BY DEF CommitTold
  <2>2. applied'[p] = applied[p]
    BY <1>2
  <2>3. CASE p = o
    <3>1. result'[o] # "ok" /\ (pc'[o] = "ended" => result'[o] # "")
      BY <1>6, <2>1
    <3>2. QED
      BY <2>1, <2>2, <2>3, <3>1
  <2>4. CASE p # o
    <3>1. pc'[p] = pc[p] /\ result'[p] = result[p]
      BY <2>4, <1>3, <1>6
    <3>2. QED
      BY <2>2, <3>1 DEF CallsInv, CommitTold
  <2>5. QED
    BY <2>3, <2>4
<1>10. QED
  BY <1>7, <1>8, <1>9 DEF CallsInv

-----------------------------------------------------------------------------
(* GetAll.                                                                  *)

LEMMA VisibleTypes ==
    ASSUME TableTypes
    PROVE  /\ Visible.gauges \in [Ids -> Nat \union {Null}]
           /\ Visible.counters \in [Ids -> Nat \union {Null}]
<1>1. \A i \in Ids : GetGauge(i) \in Nat \union {Null} /\ GetCounter(i) \in Nat \union {Null}
  <2> SUFFICES ASSUME NEW i \in Ids
               PROVE  GetGauge(i) \in Nat \union {Null} /\ GetCounter(i) \in Nat \union {Null}
    OBVIOUS
  <2>1. rows[i] \in Rows
    BY DEF TableTypes
  <2>2. QED
    BY <2>1 DEF GetGauge, GetCounter, Rows, RowRecords
<1>2. QED
  BY <1>1 DEF Visible

\* A query fills one half of the list and touches nothing of the calls.
LEMMA GetAllKeeps ==
    ASSUME CallsInv, GetAll, UNCHANGED <<table, progress, driver>>
    PROVE  CallsInv'
<1>1. TypeOK /\ TableTypes /\ CallTypes /\ ListTypes /\ LockTypes
  BY TypesTogether DEF CallsInv
<1>2. UNCHANGED <<rows, lock, draft, applied, pc, index, attempt, result>>
  BY DEF table, progress
<1>3. list.phase \in {"first", "second"}
  BY DEF GetAll, ListQuery, ListLosesRows, ListCutShort
<1>4. known' \subseteq Ops
  <2>1. known' = Committed \/ known' = known
    BY DEF GetAll, ListQuery, ListLosesRows, ListCutShort, Snapshot
  <2>2. QED
    BY <1>1, <2>1 DEF Committed, ListTypes
<1>5. faults' \in 0..MaxFaults
  <2>1. faults \in 0..MaxFaults
    BY <1>1 DEF CallTypes
  <2>2. faults' = faults \/ (faults < MaxFaults /\ faults' = faults + 1)
    BY DEF GetAll, ListQuery, ListLosesRows, ListCutShort
  <2>3. QED
    BY <2>1, <2>2
<1> DEFINE Lists == [phase : {"first", "second", "done"},
                     gauges : [Ids -> Nat \union {Null}],
                     counters : [Ids -> Nat \union {Null}], whole : BOOLEAN]
<1>6. list' \in Lists
  <2>1. list \in Lists /\ list.whole \in BOOLEAN
    BY <1>1 DEF ListTypes
  <2>2. CASE ListCutShort
    BY <2>1, <2>2 DEF ListCutShort
  <2>3. ASSUME NEW g \in [Ids -> Nat \union {Null}], NEW w \in BOOLEAN,
               list' = [list EXCEPT ![QueryOf(list.phase)] = g,
                                    !.phase = IF @ = "first" THEN "second" ELSE "done",
                                    !.whole = w]
        PROVE  list' \in Lists
    <3>1. CASE list.phase = "first"
      <4>1. list' = [list EXCEPT !["gauges"] = g, !["phase"] = "second", !["whole"] = w]
        BY <2>1, <2>3, <3>1 DEF QueryOf
      <4>2. QED
        BY <2>1, <4>1
    <3>2. CASE list.phase = "second"
      <4>1. list' = [list EXCEPT !["counters"] = g, !["phase"] = "done", !["whole"] = w]
        BY <2>1, <2>3, <3>2 DEF QueryOf
      <4>2. QED
        BY <2>1, <4>1
    <3>3. QED
      BY <1>3, <3>1, <3>2
  <2>4. QueryOf(list.phase) \in {"gauges", "counters"}
    BY DEF QueryOf
  <2>5. Visible[QueryOf(list.phase)] \in [Ids -> Nat \union {Null}]
    BY <1>1, <2>4, VisibleTypes
  <2>6. CASE ListQuery
    <3>1. list' = [list EXCEPT ![QueryOf(list.phase)] = Visible[QueryOf(list.phase)],
                               !.phase = IF @ = "first" THEN "second" ELSE "done"]
      BY <2>6 DEF ListQuery
    <3>2. list' = [list EXCEPT ![QueryOf(list.phase)] = Visible[QueryOf(list.phase)],
                               !.phase = IF @ = "first" THEN "second" ELSE "done",
                               !.whole = list.whole]
      BY <2>1, <2>4, <3>1
    <3>3. QED
      BY <2>1, <2>3, <2>5, <3>2
  <2>7. CASE ListLosesRows
    <3>1. PICK kept \in SUBSET Ids :
              list' = [list EXCEPT
                         ![QueryOf(list.phase)] =
                             [i \in Ids |-> IF i \in kept THEN Visible[QueryOf(list.phase)][i]
                                            ELSE Null],
                         !.phase = IF @ = "first" THEN "second" ELSE "done",
                         !.whole = FALSE]
      BY <2>7 DEF ListLosesRows
    <3>2. [i \in Ids |-> IF i \in kept THEN Visible[QueryOf(list.phase)][i] ELSE Null]
              \in [Ids -> Nat \union {Null}]
      BY <2>5
    <3>3. QED
      BY <2>3, <3>1, <3>2
  <2>8. QED
    BY <2>2, <2>6, <2>7 DEF GetAll
<1>7. TypeOK'
  <2>1. LockTypes' /\ TableTypes' /\ CallTypes' /\ ListTypes'
    BY <1>1, <1>2, <1>4, <1>5, <1>6 DEF LockTypes, TableTypes, CallTypes, ListTypes
  <2>2. QED
    BY <2>1 DEF TypeOK, TableTypes, LockTypes, CallTypes, ListTypes, Places, Results
<1>8. Progressing' /\ CommitTold'
  BY <1>2 DEF CallsInv, Progressing, CommitTold
<1>9. QED
  BY <1>7, <1>8 DEF CallsInv

-----------------------------------------------------------------------------
(* The specification.                                                       *)

LEMMA InitCalls == Init => CallsInv
<1> SUFFICES ASSUME Init
             PROVE  CallsInv
  OBVIOUS
<1>1. TableTypes /\ LockTypes /\ ListTypes
  BY DEF Init, TableTypes, LockTypes, ListTypes, Rows
<1>2. CallTypes
  <2>1. 0 \in 0..(MaxAttempts - 1) /\ 0 \in 0..MaxFaults
    BY DEF MaxAttempts
  <2>2. QED
    BY <2>1 DEF Init, CallTypes, Places, Results
<1>3. Progressing /\ CommitTold
  BY DEF Init, Progressing, CommitTold, Errors, TemporaryCodes
<1>4. QED
  BY <1>1, <1>2, <1>3, TypesTogether DEF CallsInv

LEMMA StepKeepsCalls ==
    ASSUME CallsInv, [Next]_vars
    PROVE  CallsInv'
<1>1. CASE (\E o \in Ops : Step(o)) /\ UNCHANGED <<driver, reader>>
  <2>1. PICK o \in Ops : Step(o)
    BY <1>1
  <2>2. UNCHANGED <<driver, reader>>
    BY <1>1
  <2>3. faults \in 0..MaxFaults
    BY DEF CallsInv, TypeOK
  <2>4. CASE Fault(o)
    <3>1. PICK err \in Errors : Fail(o, err)
      BY <2>4 DEF Fault
    <3>2. Rollback(o) /\ pc[o] \in {"begin", "exec", "commit"} /\ faults' \in 0..MaxFaults
      BY <2>3, <2>4 DEF Fault
    <3>3. QED
      BY <2>2, <3>1, <3>2, FailingKeeps
  <2>5. CASE Deadlock(o)
    <3>1. "deadlock" \in Errors
      BY DEF Errors, TemporaryCodes
    <3>2. pc[o] = "exec"
      BY <2>5 DEF Deadlock, Cycle, Waits
    <3>3. Fail(o, "deadlock") /\ Rollback(o) /\ faults' \in 0..MaxFaults
      BY <2>3, <2>5 DEF Deadlock
    <3>4. QED
      BY <2>2, <3>1, <3>2, <3>3, FailingKeeps
  <2>6. CASE Begin(o) \/ Wake(o) \/ Abort(o)
    BY <2>2, <2>6, PausesKeep
  <2>7. CASE Exec(o)
    BY <2>2, <2>7, ExecKeeps
  <2>8. CASE Commit(o)
    BY <2>2, <2>8, CommitKeeps
  <2>9. CASE CommitLost(o)
    BY <2>2, <2>9, CommitLostKeeps
  <2>10. QED
    BY <2>1, <2>4, <2>5, <2>6, <2>7, <2>8, <2>9 DEF Step
<1>2. CASE GetAll /\ UNCHANGED <<table, progress, driver>>
  BY <1>2, GetAllKeeps
<1>3. CASE UNCHANGED vars
  BY <1>3 DEF vars, table, progress, reader, CallsInv, TypeOK, Progressing, CommitTold
<1>4. QED
  BY <1>1, <1>2, <1>3 DEF Next

LEMMA SpecKeepsCalls == Spec => []CallsInv
<1>1. Init => CallsInv
  BY InitCalls
<1>2. CallsInv /\ [Next]_vars => CallsInv'
  BY StepKeepsCalls
<1>3. QED
  BY <1>1, <1>2, PTL DEF Spec

\* Every variable keeps its type, no call is tried more often than the three
\* times of Retry, and a lock is only held by a transaction that is under way.
THEOREM StorageTypes == Spec => []TypeOK
<1>1. CallsInv => TypeOK
  BY DEF CallsInv
<1>2. QED
  BY <1>1, SpecKeepsCalls, PTL

\* Retry never commits a batch twice, a call without an error is committed, and
\* a call that reports an error of the server is not.
THEOREM AnswersAreTrue == Spec => []AnswerTellsTheCommit
<1>1. CallsInv => AnswerTellsTheCommit
  <2>1. \A n : n \in {0, 1} => n <= 1
    OBVIOUS
  <2>2. QED
    BY <2>1 DEF CallsInv, CommitTold, AnswerTellsTheCommit
<1>2. QED
  BY <1>1, SpecKeepsCalls, PTL

-----------------------------------------------------------------------------
(* Values after a number of steps.                                          *)

LEMMA LeastNumber ==
    ASSUME NEW S, S \subseteq Nat, S # {}
    PROVE  \E m \in S : \A k \in S : m <= k
<1> DEFINE Less == OpToRel(<, Nat)
<1>1. IsWellFoundedOn(Less, Nat)
  BY NatLessThanWellFounded
<1>2. \E m \in S : \A k \in S : <<k, m>> \notin Less
  <2> HIDE DEF Less
  <2>1. QED
    BY <1>1, WFMin
<1>3. \A m, k \in S : <<k, m>> \notin Less => m <= k
  BY DEF OpToRel
<1>4. QED
  BY <1>2, <1>3

\* Two sequences of values that start alike and go on alike agree.
LEMMA AgreeUpTo ==
    ASSUME NEW n \in Nat, NEW f, NEW g, f[0] = g[0],
           \A i \in 1..n : f[i - 1] = g[i - 1] => f[i] = g[i]
    PROVE  f[n] = g[n]
<1> DEFINE S == {i \in 0..n : f[i] # g[i]}
<1> SUFFICES ASSUME S # {} PROVE FALSE
  BY n \in 0..n
<1>1. S \subseteq Nat
  OBVIOUS
<1> HIDE DEF S
<1>2. PICK m \in S : \A k \in S : m <= k
  BY <1>1, LeastNumber
<1>3. m \in 0..n /\ f[m] # g[m]
  BY DEF S
<1>4. m # 0
  BY <1>3
<1>5. m \in 1..n /\ m - 1 \in 0..n /\ ~(m <= m - 1)
  BY <1>3, <1>4
<1>6. m - 1 \notin S
  BY <1>2, <1>5
<1>7. f[m - 1] = g[m - 1]
  BY <1>5, <1>6 DEF S
<1>8. QED
  BY <1>3, <1>5, <1>7

\* After is where the upserts of a batch lead.
LEMMA AfterIsLast ==
    ASSUME NEW s, NEW entries \in Seq(Entries), NEW v, v[0] = s,
           \A n \in 1..Len(entries) : v[n] = Store!Upsert(v[n - 1], entries[n])
    PROVE  Store!After(s, entries) = v[Len(entries)]
<1> DEFINE last == Len(entries)
           upto == CHOOSE upto :
               upto = [n \in 0..last |-> IF n = 0 THEN s
                                         ELSE Store!Upsert(upto[n - 1], entries[n])]
           u == [n \in 0..last |-> v[n]]
<1>1. Store!After(s, entries) = upto[last]
  BY DEF Store!After
<1>2. last \in Nat
  OBVIOUS
<1>3. u = [n \in 0..last |-> IF n = 0 THEN s ELSE Store!Upsert(u[n - 1], entries[n])]
  <2>1. \A n \in 0..last : n # 0 => n \in 1..last /\ n - 1 \in 0..last
    BY <1>2
  <2>2. QED
    BY <2>1
<1>4. upto = [n \in 0..last |-> IF n = 0 THEN s ELSE Store!Upsert(upto[n - 1], entries[n])]
  <2> HIDE DEF u
  <2>1. QED
    BY <1>3
<1> HIDE DEF upto
<1>5. upto[0] = v[0]
  BY <1>2, <1>4
<1>6. \A n \in 1..last : upto[n] = Store!Upsert(upto[n - 1], entries[n])
  <2>1. \A n \in 1..last : n \in 0..last /\ n # 0
    BY <1>2
  <2>2. QED
    BY <1>4, <2>1
<1>7. \A n \in 1..last : upto[n - 1] = v[n - 1] => upto[n] = v[n]
  BY <1>6
<1>8. upto[last] = v[last]
  <2> HIDE DEF last
  <2>1. QED
    BY <1>2, <1>5, <1>7, AgreeUpTo
<1>9. QED
  BY <1>1, <1>8

\* AfterCalls is where the calls lead.
LEMMA AfterCallsIsLast ==
    ASSUME NEW calls \in Seq(Ops), NEW v, v[0] = Store!Empty,
           \A n \in 1..Len(calls) : v[n] = Store!After(v[n - 1], Batch[calls[n]])
    PROVE  Store!AfterCalls(calls) = v[Len(calls)]
<1> DEFINE last == Len(calls)
           upto == CHOOSE upto :
               upto = [n \in 0..last |-> IF n = 0 THEN Store!Empty
                                         ELSE Store!After(upto[n - 1], Batch[calls[n]])]
           u == [n \in 0..last |-> v[n]]
<1>1. Store!AfterCalls(calls) = upto[last]
  BY DEF Store!AfterCalls
<1>2. last \in Nat
  OBVIOUS
<1>3. u = [n \in 0..last |-> IF n = 0 THEN Store!Empty
                             ELSE Store!After(u[n - 1], Batch[calls[n]])]
  <2>1. \A n \in 0..last : n # 0 => n \in 1..last /\ n - 1 \in 0..last
    BY <1>2
  <2>2. QED
    BY <2>1
<1>4. upto = [n \in 0..last |-> IF n = 0 THEN Store!Empty
                                ELSE Store!After(upto[n - 1], Batch[calls[n]])]
  <2> HIDE DEF u
  <2>1. QED
    BY <1>3
<1> HIDE DEF upto
<1>5. upto[0] = v[0]
  BY <1>2, <1>4
<1>6. \A n \in 1..last : upto[n] = Store!After(upto[n - 1], Batch[calls[n]])
  <2>1. \A n \in 1..last : n \in 0..last /\ n # 0
    BY <1>2
  <2>2. QED
    BY <1>4, <2>1
<1>7. \A n \in 1..last : upto[n - 1] = v[n - 1] => upto[n] = v[n]
  BY <1>6
<1>8. upto[last] = v[last]
  <2> HIDE DEF last
  <2>1. QED
    BY <1>2, <1>5, <1>7, AgreeUpTo
<1>9. QED
  BY <1>1, <1>8

-----------------------------------------------------------------------------
(* The table, and what a reader sees of it.                                 *)

\* A row is of the type its name is used with, and has the value of that type only.
Fits(row, i) ==
    row # Null =>
        /\ \E o \in Ops : \E n \in DOMAIN Batch[o] :
              Batch[o][n].id = i /\ Batch[o][n].type = row.mtype
        /\ row.mtype = "gauge" => row.value \in Nat /\ row.delta = Null
        /\ row.mtype = "counter" => row.value = Null /\ row.delta \in Nat

\* What GetGauge and GetCounter make of a table.
View(t) ==
    [gauges |-> [i \in Ids |->
                    IF t[i] # Null /\ t[i].mtype = "gauge" THEN t[i].value ELSE Null],
     counters |-> [i \in Ids |->
                    IF t[i] # Null /\ t[i].mtype = "counter" THEN t[i].delta ELSE Null]]

LEMMA VisibleIsView == Visible = View(rows)
BY DEF Visible, View, GetGauge, GetCounter

Written(t, e) == [t EXCEPT ![e.id] = Upsert(@, e)]

LEMMA EntryOf ==
    ASSUME NEW o \in Ops, NEW n \in DOMAIN Batch[o]
    PROVE  /\ Batch[o][n] \in Entries /\ Batch[o][n].id \in Ids
           /\ Batch[o][n].type \in {"gauge", "counter"} /\ Batch[o][n].v \in Nat
<1>1. Batch[o] \in Seq(Entries)
  BY DEF Entries
<1>2. Batch[o][n] \in Entries
  BY <1>1
<1>3. QED
  BY <1>2 DEF Entries

\* A row that fits is one of its name's type, and stays so.
LEMMA UpsertFits ==
    ASSUME NamesKeepTheirType, NEW o \in Ops, NEW n \in DOMAIN Batch[o],
           NEW e, e = Batch[o][n],
           NEW row \in Rows, Fits(row, e.id),
           NEW new, new = Upsert(row, e)
    PROVE  /\ new \in Rows /\ new # Null /\ Fits(new, e.id)
           /\ new.mtype = e.type
           /\ e.type = "gauge" => new.value = e.v
           /\ e.type = "counter" =>
                  new.delta = IF row = Null THEN e.v ELSE row.delta + e.v
           /\ row # Null => row.mtype = e.type
<1>1. e \in Entries /\ e.id \in Ids /\ e.type \in {"gauge", "counter"} /\ e.v \in Nat
  BY EntryOf
<1>2. new \in Rows
  BY <1>1, UpsertType
<1>3. row # Null => row.mtype = e.type
  <2> SUFFICES ASSUME row # Null
               PROVE  row.mtype = e.type
    OBVIOUS
  <2>1. PICK p \in Ops : \E m \in DOMAIN Batch[p] :
            Batch[p][m].id = e.id /\ Batch[p][m].type = row.mtype
    BY DEF Fits
  <2>2. PICK m \in DOMAIN Batch[p] :
            Batch[p][m].id = e.id /\ Batch[p][m].type = row.mtype
    BY <2>1
  <2>3. Batch[p][m].type = Batch[o][n].type
    BY <2>2 DEF NamesKeepTheirType
  <2>4. QED
    BY <2>2, <2>3
<1>4. \E p \in Ops : \E m \in DOMAIN Batch[p] : Batch[p][m].id = e.id /\ Batch[p][m].type = e.type
  OBVIOUS
<1>5. row # Null => row \in RowRecords
  BY DEF Rows
<1> SUFFICES /\ new # Null /\ new.mtype = e.type
             /\ e.type = "gauge" => new.value = e.v /\ new.delta = Null
             /\ e.type = "counter" =>
                    /\ new.value = Null /\ new.delta \in Nat
                    /\ new.delta = IF row = Null THEN e.v ELSE row.delta + e.v
  <2>1. Fits(new, e.id)
    BY <1>1, <1>4 DEF Fits
  <2>2. QED
    BY <1>2, <1>3, <2>1
<1>6. CASE row = Null
  <2>1. new = [mtype |-> e.type,
               value |-> IF e.type = "gauge" THEN e.v ELSE Null,
               delta |-> IF e.type = "gauge" THEN Null ELSE e.v]
    BY <1>6 DEF Upsert
  <2>2. new \in RowRecords
    BY <1>1, <2>1 DEF RowRecords
  <2>3. QED
    BY <1>1, <1>6, <2>1, <2>2
<1>7. CASE row # Null /\ e.type = "gauge"
  <2>1. new = [row EXCEPT !.value = e.v, !.delta = Null]
    BY <1>7 DEF Upsert
  <2>2. /\ new \in RowRecords /\ new.mtype = row.mtype
        /\ new.value = e.v /\ new.delta = Null
    BY <1>1, <1>5, <1>7, <2>1 DEF RowRecords
  <2>3. QED
    BY <1>3, <1>7, <2>2
<1>8. CASE row # Null /\ e.type = "counter"
  <2>1. row.mtype = "counter"
    BY <1>3, <1>8
  <2>2. row.delta \in Nat /\ row.delta # Null
    BY <1>8, <2>1 DEF Fits
  <2>3. new = [row EXCEPT !.value = Null, !.delta = row.delta + e.v]
    BY <1>5, <1>8, <2>2 DEF Upsert, RowRecords
  <2>4. row.delta + e.v \in Nat
    BY <1>1, <2>2
  <2>5. /\ new \in RowRecords /\ new.mtype = row.mtype
        /\ new.value = Null /\ new.delta = row.delta + e.v
    BY <1>5, <1>8, <2>3, <2>4 DEF RowRecords
  <2>6. QED
    BY <1>8, <2>1, <2>4, <2>5
<1>9. QED
  BY <1>1, <1>6, <1>7, <1>8

\* The statement does to the table what the repository promises to its readers.
LEMMA UpsertShown ==
    ASSUME NamesKeepTheirType, NEW o \in Ops, NEW n \in DOMAIN Batch[o],
           NEW t \in [Ids -> Rows], \A i \in Ids : Fits(t[i], i)
    PROVE  /\ Written(t, Batch[o][n]) \in [Ids -> Rows]
           /\ \A i \in Ids : Fits(Written(t, Batch[o][n])[i], i)
           /\ View(Written(t, Batch[o][n])) = Store!Upsert(View(t), Batch[o][n])
<1> DEFINE e == Batch[o][n]
           u == Written(t, e)
<1>1. e.id \in Ids /\ e.type \in {"gauge", "counter"} /\ e.v \in Nat
  BY EntryOf
<1>2. PICK new : new = Upsert(t[e.id], e)
  OBVIOUS
<1>3. /\ new \in Rows /\ new # Null /\ Fits(new, e.id)
      /\ new.mtype = e.type
      /\ e.type = "gauge" => new.value = e.v
      /\ e.type = "counter" =>
             new.delta = IF t[e.id] = Null THEN e.v ELSE t[e.id].delta + e.v
      /\ t[e.id] # Null => t[e.id].mtype = e.type
  <2>1. t[e.id] \in Rows /\ Fits(t[e.id], e.id)
    BY <1>1
  <2>2. QED
    BY <1>2, <2>1, UpsertFits DEF e
<1>4. u = [t EXCEPT ![e.id] = new]
  BY <1>2 DEF Written
<1> HIDE DEF u, e
<1>5. u \in [Ids -> Rows] /\ \A i \in Ids : Fits(u[i], i)
  BY <1>1, <1>3, <1>4
<1>6. u[e.id] = new /\ \A i \in Ids \ {e.id} : u[i] = t[i]
  BY <1>1, <1>4
<1>7. t[e.id] # Null /\ e.type = "counter" => t[e.id].delta \in Nat /\ t[e.id].delta # Null
  <2>1. Fits(t[e.id], e.id)
    BY <1>1
  <2>2. QED
    BY <1>3, <2>1 DEF Fits
<1>8. CASE e.type = "gauge"
  <2>1. Store!Upsert(View(t), e) = [View(t) EXCEPT !.gauges[e.id] = e.v]
    BY <1>8 DEF Store!Upsert
  <2>2. View(u).gauges = [View(t).gauges EXCEPT ![e.id] = e.v]
    BY <1>1, <1>3, <1>6, <1>8 DEF View
  <2>3. View(u).counters = View(t).counters
    BY <1>1, <1>3, <1>6, <1>8 DEF View
  <2>4. QED
    BY <1>5, <2>1, <2>2, <2>3 DEF View, u, e
<1>9. CASE e.type = "counter"
  <2>1. Store!Upsert(View(t), e) =
            [View(t) EXCEPT !.counters[e.id] = IF @ = Null THEN e.v ELSE @ + e.v]
    BY <1>9 DEF Store!Upsert
  <2>2. new.delta = IF View(t).counters[e.id] = Null THEN e.v
                    ELSE View(t).counters[e.id] + e.v
    BY <1>1, <1>3, <1>7, <1>9 DEF View
  <2>3. View(u).counters = [View(t).counters EXCEPT ![e.id] = new.delta]
    BY <1>1, <1>3, <1>6, <1>9 DEF View
  <2>4. View(u).gauges = View(t).gauges
    BY <1>1, <1>3, <1>6, <1>9 DEF View
  <2>5. Store!Upsert(View(t), e) = [View(t) EXCEPT !.counters[e.id] = new.delta]
    BY <2>1, <2>2
  <2>6. View(u) = [View(t) EXCEPT !.counters[e.id] = new.delta]
    BY <2>3, <2>4 DEF View
  <2>7. QED
    BY <1>5, <2>5, <2>6 DEF u, e
<1>10. QED
  BY <1>1, <1>8, <1>9

-----------------------------------------------------------------------------
(* What a transaction has written is a chain of upserts.                    *)

Running(o) == pc[o] \in {"exec", "commit"}

\* The tables of a transaction, each one upsert after the one before.
Upserts(h, o, last) ==
    /\ h \in [0..last -> [Ids -> Rows]]
    /\ \A k \in 0..last, i \in Ids : Fits(h[k][i], i)
    /\ \A k \in 1..last : h[k] = Written(h[k - 1], Batch[o][k])

\* The rows it has written are locked, and start from what is committed.
Built(o) ==
    /\ \A k \in 1..(index[o] - 1) : k \in DOMAIN Batch[o] /\ lock[Batch[o][k].id] = o
    /\ \E h : /\ Upserts(h, o, index[o] - 1)
              /\ \A i \in Ids : lock[i] = o =>
                    h[0][i] = rows[i] /\ h[index[o] - 1][i] = draft[o][i]

TransactionsInv ==
    /\ \A i \in Ids : Fits(rows[i], i)
    /\ \A o \in Ops : Running(o) => index[o] \in Nat \ {0} /\ Built(o)
    /\ \A o \in Ops : pc[o] = "commit" => index[o] = Len(Batch[o]) + 1

\* The same chain over the whole table: the other rows are as they are committed.
LEMMA WholeTable ==
    ASSUME CallsInv, TransactionsInv, NEW o \in Ops, Running(o)
    PROVE  \E g : /\ Upserts(g, o, index[o] - 1)
                  /\ g[0] = rows
                  /\ g[index[o] - 1] =
                        [i \in Ids |-> IF lock[i] = o THEN draft[o][i] ELSE rows[i]]
<1> DEFINE last == index[o] - 1
<1>1. last \in Nat /\ Built(o) /\ rows \in [Ids -> Rows]
  BY TypesTogether DEF TransactionsInv, CallsInv, TableTypes
<1>2. /\ \A k \in 1..last : k \in DOMAIN Batch[o] /\ lock[Batch[o][k].id] = o
      /\ \A i \in Ids : Fits(rows[i], i)
  BY <1>1 DEF Built, TransactionsInv
<1>3. PICK h : /\ Upserts(h, o, last)
               /\ \A i \in Ids : lock[i] = o => h[0][i] = rows[i] /\ h[last][i] = draft[o][i]
  BY <1>1 DEF Built
<1> HIDE DEF last
<1> DEFINE g == [k \in 0..last |-> [i \in Ids |-> IF lock[i] = o THEN h[k][i] ELSE rows[i]]]
<1>4. /\ h \in [0..last -> [Ids -> Rows]]
      /\ \A k \in 0..last, i \in Ids : Fits(h[k][i], i)
      /\ \A k \in 1..last : h[k] = Written(h[k - 1], Batch[o][k])
  BY <1>3 DEF Upserts
<1>5. 0 \in 0..last /\ last \in 0..last
  BY <1>1
<1>6. g \in [0..last -> [Ids -> Rows]] /\ \A k \in 0..last, i \in Ids : Fits(g[k][i], i)
  BY <1>1, <1>2, <1>4
<1>7. ASSUME NEW k \in 1..last
      PROVE  g[k] = Written(g[k - 1], Batch[o][k])
  <2>1. k \in 0..last /\ k - 1 \in 0..last
    BY <1>1
  <2>2. PICK e : e = Batch[o][k]
    OBVIOUS
  <2>3. lock[e.id] = o /\ e.id \in Ids
    BY <1>2, <2>2, EntryOf
  <2>4. h[k] = [h[k - 1] EXCEPT ![e.id] = Upsert(@, e)]
    BY <1>4, <2>2 DEF Written
  <2>5. h[k - 1] \in [Ids -> Rows]
    BY <1>4, <2>1
  <2>6. h[k][e.id] = Upsert(h[k - 1][e.id], e) /\ \A i \in Ids \ {e.id} : h[k][i] = h[k - 1][i]
    BY <2>3, <2>4, <2>5
  <2>7. /\ g[k] = [i \in Ids |-> IF lock[i] = o THEN h[k][i] ELSE rows[i]]
        /\ g[k - 1] = [i \in Ids |-> IF lock[i] = o THEN h[k - 1][i] ELSE rows[i]]
    BY <2>1
  <2> HIDE DEF g
  <2>8. g[k] = [g[k - 1] EXCEPT ![e.id] = Upsert(@, e)]
    BY <2>3, <2>6, <2>7
  <2>9. QED
    BY <2>2, <2>8 DEF Written
<1>8. g[0] = rows
  BY <1>1, <1>3, <1>5
<1>9. g[last] = [i \in Ids |-> IF lock[i] = o THEN draft[o][i] ELSE rows[i]]
  BY <1>3, <1>5
<1>10. QED
  <2> HIDE DEF g
  <2>1. Upserts(g, o, last)
    BY <1>6, <1>7 DEF Upserts
  <2>2. QED
    BY <1>8, <1>9, <2>1 DEF last

\* A commit applies the batch to what the readers see.
LEMMA PublishShown ==
    ASSUME NamesKeepTheirType, CallsInv, TransactionsInv,
           NEW o \in Ops, pc[o] = "commit", Publish(o)
    PROVE  /\ \A i \in Ids : Fits(rows'[i], i)
           /\ Visible' = Store!After(Visible, Batch[o])
<1> DEFINE last == Len(Batch[o])
<1>1. Batch[o] \in Seq(Entries)
  BY DEF Entries
<1>2. last \in Nat /\ index[o] - 1 = last /\ Running(o) /\ DOMAIN Batch[o] = 1..last
  BY <1>1 DEF TransactionsInv, Running
<1>3. PICK g : /\ Upserts(g, o, last)
               /\ g[0] = rows
               /\ g[last] = [i \in Ids |-> IF lock[i] = o THEN draft[o][i] ELSE rows[i]]
  BY <1>2, WholeTable
<1>4. rows' = g[last]
  BY <1>3 DEF Publish
<1> HIDE DEF last
<1>5. /\ \A k \in 0..last : g[k] \in [Ids -> Rows] /\ \A i \in Ids : Fits(g[k][i], i)
      /\ \A k \in 1..last : g[k] = Written(g[k - 1], Batch[o][k])
  BY <1>3 DEF Upserts
<1>6. \A i \in Ids : Fits(rows'[i], i)
  BY <1>2, <1>4, <1>5
<1> DEFINE v == [k \in 0..last |-> View(g[k])]
<1>7. v[0] = Visible /\ v[last] = Visible'
  <2>1. v[0] = View(rows) /\ v[last] = View(rows')
    BY <1>2, <1>3, <1>4
  <2>2. Visible' = View(rows')
    BY VisibleIsView DEF View, Visible, GetGauge, GetCounter
  <2>3. QED
    BY <2>1, <2>2, VisibleIsView
<1>8. ASSUME NEW k \in 1..last
      PROVE  v[k] = Store!Upsert(v[k - 1], Batch[o][k])
  <2>1. k \in 0..last /\ k - 1 \in 0..last /\ k \in DOMAIN Batch[o]
    BY <1>2
  <2>2. g[k - 1] \in [Ids -> Rows] /\ \A i \in Ids : Fits(g[k - 1][i], i)
    BY <1>5, <2>1
  <2>3. View(Written(g[k - 1], Batch[o][k])) = Store!Upsert(View(g[k - 1]), Batch[o][k])
    BY <2>1, <2>2, UpsertShown
  <2>4. g[k] = Written(g[k - 1], Batch[o][k])
    BY <1>5
  <2>5. QED
    BY <2>1, <2>3, <2>4
<1>9. QED
  <2> HIDE DEF v
  <2>1. Store!After(Visible, Batch[o]) = v[last]
    BY <1>1, <1>7, <1>8, AfterIsLast DEF last
  <2>2. QED
    BY <1>6, <1>7, <2>1

\* A step of o leaves the other transactions their locks, and the rows they have
\* locked.
LEMMA OthersBuilt ==
    ASSUME TransactionsInv, NEW o \in Ops, NEW p \in Ops \ {o},
           pc'[p] = pc[p], index'[p] = index[p], draft'[p] = draft[p],
           \A i \in Ids : lock'[i] = p <=> lock[i] = p,
           \A i \in Ids : lock[i] = p => rows'[i] = rows[i]
    PROVE  /\ Running(p)' => index'[p] \in Nat \ {0} /\ Built(p)'
           /\ pc'[p] = "commit" => index'[p] = Len(Batch[p]) + 1
<1>1. pc'[p] = "commit" => index'[p] = Len(Batch[p]) + 1
  BY DEF TransactionsInv
<1>2. ASSUME Running(p)'
      PROVE  index'[p] \in Nat \ {0} /\ Built(p)'
  <2>1. Running(p) /\ index[p] \in Nat \ {0} /\ Built(p)
    BY <1>2 DEF Running, TransactionsInv
  <2>2. \A k \in 1..(index[p] - 1) : k \in DOMAIN Batch[p] /\ lock[Batch[p][k].id] = p
    BY <2>1 DEF Built
  <2>3. \A k \in 1..(index'[p] - 1) : k \in DOMAIN Batch[p] /\ lock'[Batch[p][k].id] = p
    BY <2>2, EntryOf
  <2>4. PICK h : /\ Upserts(h, p, index[p] - 1)
                 /\ \A i \in Ids : lock[i] = p =>
                       h[0][i] = rows[i] /\ h[index[p] - 1][i] = draft[p][i]
    BY <2>1 DEF Built
  <2>5. \A i \in Ids : lock'[i] = p =>
           h[0][i] = rows'[i] /\ h[index'[p] - 1][i] = draft'[p][i]
    BY <2>4
  <2>6. \E g : /\ Upserts(g, p, index'[p] - 1)
               /\ \A i \in Ids : lock'[i] = p =>
                     g[0][i] = rows'[i] /\ g[index'[p] - 1][i] = draft'[p][i]
    BY <2>4, <2>5
  <2>7. QED
    BY <2>1, <2>3, <2>6 DEF Built
<1>3. QED
  BY <1>1, <1>2

\* A transaction begins with no row locked.
LEMMA BeginBuilds ==
    ASSUME CallsInv, TransactionsInv, NEW o \in Ops, Begin(o)
    PROVE  TransactionsInv'
<1>1. /\ pc[o] = "begin"
      /\ pc' = [pc EXCEPT ![o] = IF Batch[o] = <<>> THEN "commit" ELSE "exec"]
      /\ index' = [index EXCEPT ![o] = 1]
      /\ rows' = rows /\ lock' = lock /\ draft' = draft
  BY DEF Begin, table
<1>2. /\ pc \in [Ops -> Places] /\ index \in [Ops -> Nat] /\ rows \in [Ids -> Rows]
      /\ LockTypes
  BY TypesTogether DEF CallsInv, CallTypes, TableTypes
<1>3. /\ index'[o] = 1
      /\ pc'[o] = "commit" => index'[o] = Len(Batch[o]) + 1
  BY <1>1, <1>2
<1>4. Built(o)'
  <2>1. \A i \in Ids : lock'[i] # o
    BY <1>1, <1>2 DEF LockTypes
  <2>2. \A k : k \notin 1..(index'[o] - 1)
    BY <1>3
  <2> DEFINE h == [k \in 0..0 |-> rows]
  <2>3. Upserts(h, o, 0)
    BY <1>2 DEF Upserts, TransactionsInv
  <2>4. Upserts(h, o, index'[o] - 1)
    BY <1>3, <2>3
  <2> HIDE DEF h
  <2>5. QED
    BY <2>1, <2>2, <2>4 DEF Built
<1>5. ASSUME NEW p \in Ops \ {o}
      PROVE  /\ Running(p)' => index'[p] \in Nat \ {0} /\ Built(p)'
             /\ pc'[p] = "commit" => index'[p] = Len(Batch[p]) + 1
  <2>1. pc'[p] = pc[p] /\ index'[p] = index[p]
    BY <1>1, <1>2
  <2>2. QED
    BY <1>1, <2>1, OthersBuilt
<1>6. \A i \in Ids : Fits(rows'[i], i)
  BY <1>1 DEF TransactionsInv
<1>7. QED
  BY <1>3, <1>4, <1>5, <1>6 DEF TransactionsInv

\* A statement adds one table to the chain, from the row as it is committed if the
\* transaction has not written it yet.
LEMMA ExecBuilds ==
    ASSUME NamesKeepTheirType, CallsInv, TransactionsInv, NEW o \in Ops, Exec(o)
    PROVE  TransactionsInv'
<1>1. /\ pc \in [Ops -> Places] /\ index \in [Ops -> Nat] /\ rows \in [Ids -> Rows]
      /\ draft \in [Ops -> [Ids -> Rows]] /\ LockTypes
  BY TypesTogether DEF CallsInv, CallTypes, TableTypes
<1>2. pc[o] = "exec" /\ index[o] \in 1..Len(Batch[o]) /\ Running(o)
  BY DEF Exec, CallsInv, Progressing, Running
<1>3. Batch[o] \in Seq(Entries)
  BY DEF Entries
<1>4. PICK n, e, i : /\ n = index[o] /\ e = Entry(o) /\ i = e.id
  OBVIOUS
<1>5. /\ n \in Nat \ {0} /\ n \in DOMAIN Batch[o] /\ e = Batch[o][n] /\ i \in Ids
      /\ n <= Len(Batch[o])
  <2>1. n \in DOMAIN Batch[o] /\ e = Batch[o][n]
    BY <1>2, <1>3, <1>4 DEF Entry
  <2>2. QED
    BY <1>2, <1>3, <1>4, <2>1, EntryOf
<1>6. PICK row : row = IF lock[i] = o THEN draft[o][i] ELSE rows[i]
  OBVIOUS
<1>7. /\ draft' = [draft EXCEPT ![o][i] = Upsert(row, e)]
      /\ lock' = [lock EXCEPT ![i] = o]
      /\ index' = [index EXCEPT ![o] = @ + 1]
      /\ pc' = [pc EXCEPT ![o] = IF index[o] = Len(Batch[o]) THEN "commit" ELSE "exec"]
      /\ rows' = rows
      /\ lock[i] \in {Null, o}
  BY <1>4, <1>6 DEF Exec, Waits
<1>8. PICK g : /\ Upserts(g, o, n - 1)
               /\ g[0] = rows
               /\ g[n - 1] = [j \in Ids |-> IF lock[j] = o THEN draft[o][j] ELSE rows[j]]
  BY <1>2, <1>4, WholeTable
<1>9. /\ index'[o] = n + 1
      /\ pc'[o] = IF n = Len(Batch[o]) THEN "commit" ELSE "exec"
  BY <1>1, <1>4, <1>7
<1>10. \A j \in Ids : lock'[j] = IF j = i THEN o ELSE lock[j]
  BY <1>1, <1>7 DEF LockTypes
<1>11. draft'[o] = [draft[o] EXCEPT ![i] = Upsert(row, e)] /\ draft[o] \in [Ids -> Rows]
  BY <1>1, <1>7
<1>12. /\ g \in [0..(n - 1) -> [Ids -> Rows]]
       /\ \A k \in 0..(n - 1), j \in Ids : Fits(g[k][j], j)
       /\ \A k \in 1..(n - 1) : g[k] = Written(g[k - 1], Batch[o][k])
  BY <1>8 DEF Upserts
<1>13. PICK t : t = Written(g[n - 1], e)
  OBVIOUS
<1>14. t \in [Ids -> Rows] /\ \A j \in Ids : Fits(t[j], j)
  <2>1. n - 1 \in 0..(n - 1)
    BY <1>5
  <2>2. g[n - 1] \in [Ids -> Rows] /\ \A j \in Ids : Fits(g[n - 1][j], j)
    BY <1>12, <2>1
  <2>3. QED
    BY <1>5, <1>13, <2>2, UpsertShown
<1>15. \A j \in Ids : lock'[j] = o => t[j] = draft'[o][j]
  <2>1. g[n - 1][i] = row
    BY <1>5, <1>6, <1>8
  <2>2. t = [g[n - 1] EXCEPT ![i] = Upsert(row, e)]
    BY <1>4, <1>13, <2>1 DEF Written
  <2>3. \A j \in Ids \ {i} : lock[j] = o => g[n - 1][j] = draft[o][j]
    BY <1>8
  <2>4. DOMAIN g[n - 1] = Ids
    BY <1>8
  <2>5. QED
    BY <1>10, <1>11, <2>2, <2>3, <2>4
<1> DEFINE h == [k \in 0..n |-> IF k = n THEN t ELSE g[k]]
<1>16. Upserts(h, o, n)
  <2>1. \A k \in 0..n : k # n => k \in 0..(n - 1)
    BY <1>5
  <2>2. h \in [0..n -> [Ids -> Rows]]
    BY <1>12, <1>14, <2>1
  <2>3. \A k \in 0..n, j \in Ids : Fits(h[k][j], j)
    BY <1>12, <1>14, <2>1
  <2>4. ASSUME NEW k \in 1..n
        PROVE  h[k] = Written(h[k - 1], Batch[o][k])
    <3>1. k \in 0..n /\ k - 1 \in 0..n /\ k - 1 # n
      BY <1>5
    <3>2. h[k - 1] = g[k - 1]
      BY <3>1
    <3>3. CASE k = n
      BY <1>5, <1>13, <3>1, <3>2, <3>3
    <3>4. CASE k # n
      <4>1. k \in 1..(n - 1)
        BY <1>5, <3>4
      <4>2. h[k] = g[k]
        BY <3>1, <3>4
      <4>3. QED
        BY <1>12, <3>2, <4>1, <4>2
    <3>5. QED
      BY <3>3, <3>4
  <2> HIDE DEF h
  <2>5. QED
    BY <2>2, <2>3, <2>4 DEF Upserts
<1>17. h[0] = rows /\ h[n] = t
  BY <1>5, <1>8
<1> HIDE DEF h
<1>18. Built(o)'
  <2>1. index'[o] - 1 = n
    BY <1>5, <1>9
  <2>2. ASSUME NEW k \in 1..n
        PROVE  k \in DOMAIN Batch[o] /\ lock'[Batch[o][k].id] = o
    <3>1. CASE k = n
      BY <1>4, <1>5, <1>10, <3>1
    <3>2. CASE k # n
      <4>1. k \in 1..(index[o] - 1)
        BY <1>4, <1>5, <3>2
      <4>2. k \in DOMAIN Batch[o] /\ lock[Batch[o][k].id] = o
        BY <1>2, <4>1 DEF TransactionsInv, Built
      <4>3. QED
        BY <1>10, <4>2, EntryOf
    <3>3. QED
      BY <3>1, <3>2
  <2>3. \A j \in Ids : lock'[j] = o => h[0][j] = rows'[j] /\ h[n][j] = draft'[o][j]
    BY <1>7, <1>15, <1>17
  <2>4. QED
    BY <1>16, <2>1, <2>2, <2>3 DEF Built
<1>19. ASSUME NEW p \in Ops \ {o}
       PROVE  /\ Running(p)' => index'[p] \in Nat \ {0} /\ Built(p)'
              /\ pc'[p] = "commit" => index'[p] = Len(Batch[p]) + 1
  <2>1. pc'[p] = pc[p] /\ index'[p] = index[p] /\ draft'[p] = draft[p]
    BY <1>1, <1>7
  <2>2. \A j \in Ids : lock'[j] = p <=> lock[j] = p
    BY <1>7, <1>10
  <2>3. QED
    BY <1>7, <2>1, <2>2, OthersBuilt
<1>20. \A j \in Ids : Fits(rows'[j], j)
  BY <1>7 DEF TransactionsInv
<1>21. index'[o] \in Nat \ {0} /\ (pc'[o] = "commit" => index'[o] = Len(Batch[o]) + 1)
  BY <1>5, <1>9
<1>22. QED
  BY <1>18, <1>19, <1>20, <1>21 DEF TransactionsInv

\* A transaction that ends gives its locks back; the table stays as it is or is the
\* one its commit leaves.
LEMMA EndBuilds ==
    ASSUME TypeOK, TransactionsInv, NEW o \in Ops, pc'[o] \notin {"exec", "commit"},
           \A p \in Ops \ {o} : pc'[p] = pc[p], index' = index, draft' = draft,
           \/ lock' = lock /\ \A i \in Ids : lock[i] # o
           \/ Unlock(o),
           \A i \in Ids : Fits(rows'[i], i) /\ (lock[i] # o => rows'[i] = rows[i])
    PROVE  TransactionsInv'
<1>1. ~Running(o)' /\ pc'[o] # "commit"
  BY DEF Running
<1>2. ASSUME NEW p \in Ops \ {o}
      PROVE  /\ Running(p)' => index'[p] \in Nat \ {0} /\ Built(p)'
             /\ pc'[p] = "commit" => index'[p] = Len(Batch[p]) + 1
  <2>1. \A i \in Ids : lock'[i] = p <=> lock[i] = p
    BY DEF Unlock
  <2>2. \A i \in Ids : lock[i] = p => rows'[i] = rows[i]
    OBVIOUS
  <2>3. QED
    BY <2>1, <2>2, OthersBuilt
<1>3. QED
  BY <1>1, <1>2 DEF TransactionsInv

LEMMA StepKeepsTransactions ==
    ASSUME NamesKeepTheirType, CallsInv, TransactionsInv, [Next]_vars
    PROVE  TransactionsInv'
<1>1. ASSUME UNCHANGED <<table, progress, driver>>
      PROVE  TransactionsInv'
  <2>1. UNCHANGED <<rows, lock, draft, pc, index>>
    BY <1>1 DEF table, progress
  <2>2. \A o \in Ops : Running(o)' = Running(o) /\ Built(o)' = Built(o)
    BY <2>1 DEF Running, Built
  <2>3. QED
    BY <2>1, <2>2 DEF TransactionsInv
<1>2. ASSUME NEW o \in Ops, Step(o)
      PROVE  TransactionsInv'
  <2>1. TypeOK /\ CallTypes /\ LockTypes
    BY TypesTogether DEF CallsInv
  <2>2. \A i \in Ids : Fits(rows[i], i)
    BY DEF TransactionsInv
  <2>3. CASE Begin(o)
    BY <2>3, BeginBuilds
  <2>4. CASE Exec(o)
    BY <2>4, ExecBuilds
  <2>5. CASE Commit(o)
    <3>1. /\ pc[o] = "commit" /\ Publish(o) /\ index' = index
          /\ pc' = [pc EXCEPT ![o] = "ended"]
      BY <2>5 DEF Commit
    <3>2. \A i \in Ids : Fits(rows'[i], i)
      BY <3>1, PublishShown
    <3>3. Unlock(o) /\ draft' = draft /\ \A i \in Ids : lock[i] # o => rows'[i] = rows[i]
      BY <3>1 DEF Publish
    <3>4. pc'[o] = "ended" /\ \A p \in Ops \ {o} : pc'[p] = pc[p]
      BY <2>1, <3>1 DEF CallTypes
    <3>5. QED
      BY <2>1, <3>1, <3>2, <3>3, <3>4, EndBuilds
  <2>6. CASE CommitLost(o)
    <3>1. /\ pc[o] = "commit" /\ Publish(o) /\ Fail(o, "lost")
      BY <2>6 DEF CommitLost
    <3>2. \A i \in Ids : Fits(rows'[i], i)
      BY <3>1, PublishShown
    <3>3. Unlock(o) /\ draft' = draft /\ \A i \in Ids : lock[i] # o => rows'[i] = rows[i]
      BY <3>1 DEF Publish
    <3>4. "lost" \in Errors
      BY DEF Errors
    <3>5. /\ index' = index /\ pc'[o] \notin {"exec", "commit"}
          /\ \A p \in Ops \ {o} : pc'[p] = pc[p]
      BY <3>1, <3>4, FailFacts
    <3>6. QED
      BY <2>1, <3>2, <3>3, <3>5, EndBuilds
  <2>7. CASE Fault(o) \/ Deadlock(o)
    <3>1. PICK err \in Errors : Fail(o, err) /\ Rollback(o)
      BY <2>7 DEF Fault, Deadlock, Errors, TemporaryCodes
    <3>2. pc[o] \in {"begin", "exec", "commit"}
      BY <2>7 DEF Fault, Deadlock, Cycle, Waits
    <3>3. Unlock(o) /\ rows' = rows /\ draft' = draft
      BY <3>1 DEF Rollback
    <3>4. /\ index' = index /\ pc'[o] \notin {"exec", "commit"}
          /\ \A p \in Ops \ {o} : pc'[p] = pc[p]
      BY <3>1, <3>2, FailFacts
    <3>5. QED
      BY <2>1, <2>2, <3>3, <3>4, EndBuilds
  <2>8. CASE Wake(o) \/ Abort(o)
    <3>1. /\ pc[o] = "sleep" /\ index' = index
          /\ rows' = rows /\ lock' = lock /\ draft' = draft
          /\ pc' = [pc EXCEPT ![o] = "begin"] \/ pc' = [pc EXCEPT ![o] = "ended"]
      BY <2>8 DEF Wake, Abort, table
    <3>2. pc'[o] \in {"begin", "ended"} /\ \A p \in Ops \ {o} : pc'[p] = pc[p]
      BY <2>1, <3>1 DEF CallTypes
    <3>3. \A i \in Ids : lock[i] # o
      BY <2>1, <3>1 DEF LockTypes
    <3>4. QED
      BY <2>1, <2>2, <3>1, <3>2, <3>3, EndBuilds
  <2>9. QED
    BY <1>2, <2>3, <2>4, <2>5, <2>6, <2>7, <2>8 DEF Step
<1>3. QED
  BY <1>1, <1>2 DEF Next, vars

LEMMA InitTransactions == Init => TransactionsInv
<1> SUFFICES ASSUME Init PROVE TransactionsInv
  OBVIOUS
<1>1. \A i \in Ids : Fits(rows[i], i)
  BY DEF Init, Fits
<1>2. \A o \in Ops : pc[o] = "begin"
  BY DEF Init
<1>3. QED
  BY <1>1, <1>2 DEF TransactionsInv, Running

-----------------------------------------------------------------------------
(* The promise of the repository.                                           *)

\* A step of a call commits its batch for the first and only time, or changes
\* nothing a reader sees.
LEMMA TableStep ==
    ASSUME NamesKeepTheirType, CallsInv, TransactionsInv, [Next]_vars
    PROVE  \/ \E o \in Ops \ Committed :
                 /\ Visible' = Store!After(Visible, Batch[o])
                 /\ Committed' = Committed \union {o}
                 /\ UNCHANGED <<driver, reader>>
           \/ UNCHANGED <<Visible, Committed>>
<1>1. ASSUME rows' = rows, applied' = applied
      PROVE  UNCHANGED <<Visible, Committed>>
  BY <1>1 DEF Visible, GetGauge, GetCounter, Committed
<1>2. ASSUME NEW o \in Ops, pc[o] = "commit", Publish(o)
      PROVE  /\ o \notin Committed
             /\ Visible' = Store!After(Visible, Batch[o])
             /\ Committed' = Committed \union {o}
  <2>1. Visible' = Store!After(Visible, Batch[o])
    BY <1>2, PublishShown
  <2>2. applied[o] = 0
    BY <1>2 DEF CallsInv, CommitTold
  <2>3. applied'[o] = 1 /\ \A p \in Ops \ {o} : applied'[p] = applied[p]
    BY <1>2, <2>2, PublishFacts DEF CallsInv
  <2>4. o \notin Committed /\ Committed' = Committed \union {o}
    BY <2>2, <2>3 DEF Committed
  <2>5. QED
    BY <2>1, <2>4
<1>3. CASE UNCHANGED vars
  BY <1>1, <1>3 DEF vars, table
<1>4. CASE GetAll /\ UNCHANGED <<table, progress, driver>>
  BY <1>1, <1>4 DEF table
<1>5. ASSUME NEW o \in Ops, Step(o), UNCHANGED <<driver, reader>>
      PROVE  \/ pc[o] = "commit" /\ Publish(o)
             \/ rows' = rows /\ applied' = applied
  BY <1>5 DEF Step, Begin, Exec, Commit, Fault, CommitLost, Deadlock, Rollback, Wake, Abort, table
<1>6. QED
  BY <1>1, <1>2, <1>3, <1>4, <1>5 DEF Next

LEMMA SpecKeepsTransactions ==
    ASSUME NamesKeepTheirType
    PROVE  Spec => [](CallsInv /\ TransactionsInv)
<1>1. Init => TransactionsInv
  BY InitTransactions
<1>2. CallsInv /\ TransactionsInv /\ [Next]_vars => TransactionsInv'
  BY StepKeepsTransactions
<1>3. QED
  BY <1>1, <1>2, SpecKeepsCalls, PTL DEF Spec

LEMMA StoreInit == Init => Store!Init
<1> SUFFICES ASSUME Init PROVE Store!Init
  OBVIOUS
<1>1. \A i \in Ids : GetGauge(i) = Null /\ GetCounter(i) = Null
  BY DEF Init, GetGauge, GetCounter
<1>2. Visible = Store!Empty
  BY <1>1 DEF Visible, Store!Empty
<1>3. Committed = {}
  <2>1. \A o \in Ops : ~(applied[o] > 0)
    <3>1. \A o \in Ops : applied[o] = 0
      BY DEF Init
    <3>2. QED
      BY <3>1
  <2>2. QED
    BY <2>1 DEF Committed
<1>4. QED
  BY <1>2, <1>3 DEF Store!Init

LEMMA StoreStep ==
    ASSUME NamesKeepTheirType, CallsInv, TransactionsInv, [Next]_vars
    PROVE  [Store!Next]_(Store!vars)
<1>1. CASE UNCHANGED <<Visible, Committed>>
  BY <1>1 DEF Store!vars
<1>2. ASSUME NEW o \in Ops \ Committed,
             Visible' = Store!After(Visible, Batch[o]),
             Committed' = Committed \union {o}
      PROVE  Store!Next
  BY <1>2 DEF Store!Next, Store!UpdateMetricsBatch
<1>3. QED
  BY <1>1, <1>2, TableStep

\* Whatever the order in which transactions lock, wait, deadlock and fail, the
\* readers see whole batches applied one after another, each at most once.
THEOREM ImplementsStore ==
    ASSUME NamesKeepTheirType
    PROVE  Spec => StoreSpec
<1>1. Init => Store!Init
  BY StoreInit
<1>2. CallsInv /\ TransactionsInv /\ [Next]_vars => [Store!Next]_(Store!vars)
  BY StoreStep
<1>3. QED
  BY <1>1, <1>2, SpecKeepsTransactions, PTL DEF Spec, StoreSpec, Store!Spec

-----------------------------------------------------------------------------
(* The list.                                                                *)

\* The calls committed so far in their order, and what a reader saw after each.
CommitOrder(order, v) ==
    /\ order \in Seq(Ops)
    /\ \A i, j \in 1..Len(order) : order[i] = order[j] => i = j
    /\ v[0] = Store!Empty
    /\ \A n \in 1..Len(order) : v[n] = Store!After(v[n - 1], Batch[order[n]])

FirstOf(order, n) == {order[i] : i \in 1..n}

\* The gauges are those after the first m commits, the counters those after the
\* first n.
Views(order, v) ==
    /\ list.phase = "second" /\ list.whole =>
          \E m \in 0..Len(order) :
              known = FirstOf(order, m) /\ list.gauges = v[m].gauges
    /\ list.phase = "done" /\ list.whole =>
          \E n \in 0..Len(order) : \E m \in 0..n :
              /\ known = FirstOf(order, m) /\ list.gauges = v[m].gauges
              /\ list.counters = v[n].counters

ListInv ==
    \E order, v :
        /\ CommitOrder(order, v)
        /\ Committed = FirstOf(order, Len(order))
        /\ Visible = v[Len(order)]
        /\ Views(order, v)

LEMMA InitList == Init => ListInv
<1> SUFFICES ASSUME Init PROVE ListInv
  OBVIOUS
<1> DEFINE v == [n \in {0} |-> Store!Empty]
<1>1. Visible = Store!Empty /\ Committed = {}
  BY StoreInit DEF Store!Init
<1>2. CommitOrder(<<>>, v) /\ FirstOf(<<>>, Len(<<>>)) = {} /\ Visible = v[Len(<<>>)]
  BY <1>1 DEF CommitOrder, FirstOf
<1>3. Views(<<>>, v)
  BY DEF Init, Views
<1>4. QED
  BY <1>1, <1>2, <1>3 DEF ListInv

\* One more commit: what was seen before it stays seen.
LEMMA CommitExtends ==
    ASSUME ListInv, NEW o \in Ops \ Committed,
           Visible' = Store!After(Visible, Batch[o]),
           Committed' = Committed \union {o}, UNCHANGED <<driver, reader>>
    PROVE  ListInv'
<1>1. PICK order, v :
          /\ CommitOrder(order, v)
          /\ Committed = FirstOf(order, Len(order))
          /\ Visible = v[Len(order)]
          /\ Views(order, v)
  BY DEF ListInv
<1>a. PICK last, now : last = Len(order) /\ now = Visible'
  OBVIOUS
<1>b. PICK longer, w :
          /\ longer = Append(order, o)
          /\ w = [n \in 0..(last + 1) |-> IF n = last + 1 THEN now ELSE v[n]]
  OBVIOUS
<1>2. /\ order \in Seq(Ops) /\ last \in Nat
      /\ \A i, j \in 1..last : order[i] = order[j] => i = j
      /\ v[0] = Store!Empty
      /\ \A n \in 1..last : v[n] = Store!After(v[n - 1], Batch[order[n]])
  <2>1. order \in Seq(Ops)
    BY <1>1 DEF CommitOrder
  <2>2. last \in Nat
    BY <2>1, <1>a
  <2>3. QED
    BY <1>1, <1>a, <2>1, <2>2 DEF CommitOrder
<1>3. /\ longer \in Seq(Ops) /\ Len(longer) = last + 1
      /\ \A i \in 1..last : longer[i] = order[i]
      /\ longer[last + 1] = o
  BY <1>2, <1>a, <1>b
<1>4. \A n \in 0..last : FirstOf(longer, n) = FirstOf(order, n)
  <2> SUFFICES ASSUME NEW n \in 0..last
               PROVE  {longer[i] : i \in 1..n} = {order[i] : i \in 1..n}
    BY DEF FirstOf
  <2>1. \A i \in 1..n : i \in 1..last
    BY <1>2
  <2>2. QED
    BY <1>3, <2>1
<1>5. FirstOf(longer, last + 1) = FirstOf(order, last) \union {o}
  <2>1. 1..(last + 1) = (1..last) \union {last + 1}
    BY <1>2
  <2>2. FirstOf(longer, last + 1) = {longer[i] : i \in 1..last} \union {longer[last + 1]}
    BY <2>1 DEF FirstOf
  <2>3. {longer[i] : i \in 1..last} = {order[i] : i \in 1..last}
    BY <1>3
  <2>4. QED
    BY <1>3, <2>2, <2>3 DEF FirstOf
<1>6. \A n \in 0..last : w[n] = v[n]
  BY <1>2, <1>b
<1>7. w[last + 1] = now
  BY <1>2, <1>b
<1>8. CommitOrder(longer, w)
  <2>1. \A i, j \in 1..(last + 1) : longer[i] = longer[j] => i = j
    <3>1. \A i \in 1..last : order[i] # o
      BY <1>1, <1>a DEF FirstOf
    <3>2. \A i \in 1..(last + 1) : i = last + 1 \/ i \in 1..last
      BY <1>2
    <3>3. QED
      BY <1>2, <1>3, <3>1, <3>2
  <2>2. w[0] = Store!Empty
    BY <1>2, <1>6
  <2>3. ASSUME NEW n \in 1..(last + 1)
        PROVE  w[n] = Store!After(w[n - 1], Batch[longer[n]])
    <3>1. CASE n = last + 1
      <4>1. n - 1 = last /\ last \in 0..last
        BY <1>2, <3>1
      <4>2. w[n - 1] = Visible
        BY <1>1, <1>6, <1>a, <4>1
      <4>3. QED
        BY <1>3, <1>7, <1>a, <3>1, <4>2
    <3>2. CASE n # last + 1
      <4>1. n \in 1..last /\ n \in 0..last /\ n - 1 \in 0..last
        BY <1>2, <3>2
      <4>2. QED
        BY <1>2, <1>3, <1>6, <4>1
    <3>3. QED
      BY <3>1, <3>2
  <2>4. QED
    BY <1>3, <2>1, <2>2, <2>3 DEF CommitOrder
<1>9. Views(longer, w)'
  <2>1. list' = list /\ known' = known
    BY DEF reader
  <2>2. \A m \in 0..last : m \in 0..(last + 1)
    BY <1>2
  <2>3. \A n \in 0..last : \A m \in 0..n : m \in 0..last
    BY <1>2
  <2>4. ASSUME list.phase = "second", list.whole
        PROVE  \E m \in 0..Len(longer) :
                   known = FirstOf(longer, m) /\ list.gauges = w[m].gauges
    <3>1. PICK m \in 0..last : known = FirstOf(order, m) /\ list.gauges = v[m].gauges
      BY <1>1, <1>a, <2>4 DEF Views
    <3>2. QED
      BY <1>3, <1>4, <1>6, <2>2, <3>1
  <2>5. ASSUME list.phase = "done", list.whole
        PROVE  \E n \in 0..Len(longer) : \E m \in 0..n :
                   /\ known = FirstOf(longer, m) /\ list.gauges = w[m].gauges
                   /\ list.counters = w[n].counters
    <3>1. PICK n \in 0..last : \E m \in 0..n :
              /\ known = FirstOf(order, m) /\ list.gauges = v[m].gauges
              /\ list.counters = v[n].counters
      BY <1>1, <1>a, <2>5 DEF Views
    <3>2. PICK m \in 0..n :
              /\ known = FirstOf(order, m) /\ list.gauges = v[m].gauges
              /\ list.counters = v[n].counters
      BY <3>1
    <3>3. m \in 0..last /\ n \in 0..Len(longer)
      BY <1>3, <2>2, <2>3
    <3>4. QED
      BY <1>4, <1>6, <3>2, <3>3
  <2>6. QED
    BY <2>1, <2>4, <2>5 DEF Views
<1>10. Committed' = FirstOf(longer, Len(longer)) /\ Visible' = w[Len(longer)]
  BY <1>1, <1>3, <1>5, <1>7, <1>a
<1>11. QED
  BY <1>8, <1>9, <1>10 DEF ListInv

\* A query sees what is committed when it runs.
LEMMA QueryKeeps ==
    ASSUME CallsInv, ListInv, GetAll, UNCHANGED <<Visible, Committed>>
    PROVE  ListInv'
<1>1. PICK order, v :
          /\ CommitOrder(order, v)
          /\ Committed = FirstOf(order, Len(order))
          /\ Visible = v[Len(order)]
          /\ Views(order, v)
  BY DEF ListInv
<1>2. Len(order) \in Nat
  BY <1>1 DEF CommitOrder
<1>3. /\ list \in [phase : {"first", "second", "done"},
                   gauges : [Ids -> Nat \union {Null}],
                   counters : [Ids -> Nat \union {Null}], whole : BOOLEAN]
  BY TypesTogether DEF CallsInv, ListTypes
<1>4. CASE ListLosesRows \/ ListCutShort
  <2>1. ~list'.whole
    BY <1>3, <1>4 DEF ListLosesRows, ListCutShort, QueryOf
  <2>2. Views(order, v)'
    BY <2>1 DEF Views
  <2>3. QED
    BY <1>1, <2>2 DEF ListInv
<1>5. CASE ListQuery /\ list.phase = "first"
  <2>1. /\ list'.phase = "second" /\ list'.gauges = Visible.gauges
        /\ known' = Committed
    BY <1>3, <1>5 DEF ListQuery, QueryOf, Snapshot
  <2>2. Len(order) \in 0..Len(order)
    BY <1>2
  <2>3. Views(order, v)'
    BY <1>1, <2>1, <2>2 DEF Views
  <2>4. QED
    BY <1>1, <2>3 DEF ListInv
<1>6. CASE ListQuery /\ list.phase = "second"
  <2>1. /\ list'.phase = "done" /\ list'.gauges = list.gauges
        /\ list'.counters = Visible.counters /\ list'.whole = list.whole
        /\ known' = known
    BY <1>3, <1>6 DEF ListQuery, QueryOf, Snapshot
  <2>2. ASSUME list.whole
        PROVE  \E n \in 0..Len(order) : \E m \in 0..n :
                   /\ known = FirstOf(order, m) /\ list.gauges = v[m].gauges
                   /\ Visible.counters = v[n].counters
    <3>1. \E m \in 0..Len(order) : known = FirstOf(order, m) /\ list.gauges = v[m].gauges
      BY <1>1, <1>6, <2>2 DEF Views
    <3>2. Len(order) \in 0..Len(order)
      BY <1>2
    <3>3. QED
      BY <1>1, <3>1, <3>2
  <2>3. Views(order, v)'
    BY <2>1, <2>2 DEF Views
  <2>4. QED
    BY <1>1, <2>3 DEF ListInv
<1>7. QED
  BY <1>4, <1>5, <1>6 DEF GetAll, ListQuery

LEMMA StepKeepsList ==
    ASSUME NamesKeepTheirType, CallsInv, TransactionsInv, ListInv, [Next]_vars
    PROVE  ListInv'
<1>1. ASSUME UNCHANGED <<Visible, Committed>>, UNCHANGED <<driver, reader>>
      PROVE  ListInv'
  <2>1. Visible' = Visible /\ Committed' = Committed /\ list' = list /\ known' = known
    BY <1>1 DEF reader
  <2>2. QED
    BY <2>1 DEF ListInv, Views
<1>2. ASSUME NEW o \in Ops \ Committed, Visible' = Store!After(Visible, Batch[o]),
             Committed' = Committed \union {o}, UNCHANGED <<driver, reader>>
      PROVE  ListInv'
  BY <1>2, CommitExtends
<1>3. CASE GetAll /\ UNCHANGED <<table, progress, driver>>
  <2>1. UNCHANGED <<Visible, Committed>>
    BY <1>3 DEF table, Visible, GetGauge, GetCounter, Committed
  <2>2. QED
    BY <1>3, <2>1, QueryKeeps
<1>4. CASE UNCHANGED <<driver, reader>>
  BY <1>1, <1>2, <1>4, TableStep
<1>5. QED
  BY <1>3, <1>4 DEF Next, vars

\* The first n commits are an order of their calls.
LEMMA FirstCalls ==
    ASSUME NEW order, NEW v, CommitOrder(order, v), NEW n \in 0..Len(order)
    PROVE  \E calls \in SetToSeqs(FirstOf(order, n)) : Store!AfterCalls(calls) = v[n]
<1> DEFINE S == FirstOf(order, n)
           calls == [i \in 1..n |-> order[i]]
<1>1. /\ order \in Seq(Ops)
      /\ \A i, j \in 1..Len(order) : order[i] = order[j] => i = j
      /\ v[0] = Store!Empty
      /\ \A k \in 1..Len(order) : v[k] = Store!After(v[k - 1], Batch[order[k]])
  BY DEF CommitOrder
<1>2. n \in Nat /\ \A i \in 1..n : i \in 1..Len(order)
  <2>1. Len(order) \in Nat
    BY <1>1
  <2>2. QED
    BY <2>1
<1>3. calls \in Seq(Ops) /\ Len(calls) = n
  <2>1. \A i \in 1..n : order[i] \in Ops
    BY <1>1, <1>2
  <2>2. QED
    BY <1>2, <2>1
<1>4. calls \in Bijection(1..n, S)
  <2>1. calls \in [1..n -> S] /\ \A s \in S : \E i \in 1..n : calls[i] = s
    BY DEF FirstOf
  <2>2. \A i, j \in 1..n : calls[i] = calls[j] => i = j
    BY <1>1, <1>2
  <2> HIDE DEF calls, S
  <2>3. QED
    BY <2>1, <2>2 DEF Bijection, Injection, Surjection, IsInjective
<1>5. Cardinality(S) = n
  <2>1. IsFiniteSet(1..n) /\ Cardinality(1..n) = n
    BY <1>2, FS_Interval
  <2> HIDE DEF calls, S
  <2>2. QED
    BY <1>4, <2>1, FS_Bijection DEF ExistsBijection
<1>6. calls \in SetToSeqs(S)
  <2>1. calls \in [1..n -> S] /\ \A i, j \in 1..n : i # j => calls[i] # calls[j]
    BY <1>1, <1>2 DEF FirstOf
  <2> HIDE DEF calls, S
  <2>2. QED
    BY <1>5, <2>1 DEF SetToSeqs
<1>7. Store!AfterCalls(calls) = v[n]
  <2>1. \A k \in 1..n : v[k] = Store!After(v[k - 1], Batch[calls[k]])
    BY <1>1, <1>2
  <2> HIDE DEF calls
  <2>2. QED
    BY <1>1, <1>3, <2>1, AfterCallsIsLast
<1>8. QED
  BY <1>6, <1>7

LEMMA KeepsUpFromInv == ListInv => CountersKeepUpWithGauges
<1> SUFFICES ASSUME ListInv, list.phase = "done", list.whole
             PROVE  \E later \in SUBSET Committed : \E earlier \in SUBSET later :
                        /\ known \subseteq earlier
                        /\ Shows("gauges", earlier) /\ Shows("counters", later)
  BY DEF CountersKeepUpWithGauges
<1>1. PICK order, v :
          /\ CommitOrder(order, v)
          /\ Committed = FirstOf(order, Len(order))
          /\ Views(order, v)
  BY DEF ListInv
<1>2. PICK n \in 0..Len(order) : \E m \in 0..n :
          /\ known = FirstOf(order, m) /\ list.gauges = v[m].gauges
          /\ list.counters = v[n].counters
  BY <1>1 DEF Views
<1>3. PICK m \in 0..n :
          /\ known = FirstOf(order, m) /\ list.gauges = v[m].gauges
          /\ list.counters = v[n].counters
  BY <1>2
<1>4. Len(order) \in Nat
  BY <1>1 DEF CommitOrder
<1>5. m \in 0..Len(order)
  BY <1>4
<1>6. /\ FirstOf(order, m) \subseteq FirstOf(order, n)
      /\ FirstOf(order, n) \subseteq Committed
  BY <1>1, <1>4 DEF FirstOf
<1>7. Shows("gauges", FirstOf(order, m))
  BY <1>1, <1>3, <1>5, FirstCalls DEF Shows
<1>8. Shows("counters", FirstOf(order, n))
  BY <1>1, <1>3, FirstCalls DEF Shows
<1>9. QED
  BY <1>3, <1>6, <1>7, <1>8

\* A list that met no error shows the gauges after some commits and the counters
\* after the same or later ones, none older than the call, whatever commits between
\* its two queries.
THEOREM ListKeepsUp ==
    ASSUME NamesKeepTheirType
    PROVE  Spec => []CountersKeepUpWithGauges
<1>1. Init => ListInv
  BY InitList
<1>2. CallsInv /\ TransactionsInv /\ ListInv /\ [Next]_vars => ListInv'
  BY StepKeepsList
<1>3. ListInv => CountersKeepUpWithGauges
  BY KeepsUpFromInv
<1>4. QED
  BY <1>1, <1>2, <1>3, SpecKeepsTransactions, PTL DEF Spec

=============================================================================
