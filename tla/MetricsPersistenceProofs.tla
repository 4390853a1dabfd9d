---------------------- MODULE MetricsPersistenceProofs ----------------------
(***************************************************************************)
(* What saving and restoring keep, for any number of handlers, updates and *)
(* restarts and in every setting of the server.                            *)
(***************************************************************************)
EXTENDS MetricsPersistence, FiniteSetTheorems, TLAPS

USE ValuesAssumption, PersistenceAssumption

-----------------------------------------------------------------------------
(* The invariant.                                                           *)

\* Values made of the updates clients may send, each of them counted once.
Counted ==
    {v \in [Updates -> {0, 1}] : \A u \in Updates \ setting.updates : v[u] = 0}

Files == {Absent, EmptyFile, TornFile} \union {Saved(v) : v \in Counted}
Phases == {"down", "load", "restore", "serve", "drain", "grpcstop", "final"}
Steps == {"no", "getall", "create", "write", "rename", "remove"}

Types ==
    /\ setting \in SettingRecords
    /\ phase \in Phases
    /\ memory \in Counted
    /\ unread \in Counted
    /\ busy \in [HttpHandlers -> Updates \union {NoUpdate}]
    /\ saving \in [Savers -> Steps]
    /\ copy \in [Savers -> Counted]
    /\ fd \in [Savers -> {"none", "tmp", "file", "unlinked"}]
    /\ disk \in [{"file", "tmp"} -> Files]
    /\ acked \subseteq Updates

\* Loading adds to what gRPC calls have put into memory meanwhile: to other counters
\* than those in the file.  Until it is over the file is in memory or still unread.
Disjoint ==
    /\ phase = "down" => memory = NoValues
    /\ phase = "load" => \A u \in CounterUpdates : memory[u] = 0 \/ Durable[u] = 0
    /\ phase = "restore" =>
          \A u \in CounterUpdates :
              /\ memory[u] = 0 \/ unread[u] = 0
              /\ unread[u] = 1 => Durable[u] = 1
              /\ Durable[u] = 1 => memory[u] = 1 \/ unread[u] = 1
    /\ phase # "restore" => unread = NoValues

\* The settings AckedDurable is about.
Safe == setting.sync /\ ~setting.diskFails /\ SavesAlone /\ AllEncodable

\* Who may save, when, and whose save may fail.
Roles ==
    /\ \A h \in HttpHandlers :
          /\ busy[h] # NoUpdate => h \in setting.handlers /\ phase \in {"serve", "drain"}
          /\ saving[h] # "no" => busy[h] # NoUpdate /\ setting.sync
    /\ periodic \/ saving["periodic"] # "no" => ~setting.sync /\ phase \notin {"down", "load", "restore"}
    /\ saving["main"] # "no" => phase = "final"
    /\ \A s \in Savers : saving[s] = "remove" => ~Safe
    /\ signalled \/ phase \in {"drain", "grpcstop", "final"} => setting.stops

\* A save that meets no other finds its own temporary file when it renames it.
OwnFile ==
    SavesAlone =>
        /\ \A s \in Savers :
              /\ fd[s] = IF saving[s] \in {"write", "rename", "remove"} THEN "tmp" ELSE "none"
              /\ saving[s] = "rename" => disk["tmp"] = Saved(copy[s])
        /\ FileReadable

Copied(s) == saving[s] \in {"create", "write", "rename"}

\* Counter updates over HTTP that the middleware saves at once.
Durables == Updates \ (GaugeUpdates \union GrpcUpdates \union BatchUpdates)

\* An update that is acknowledged is in the file, in memory and in every copy that
\* may replace the file; one that is about to be acknowledged is saved already.
Kept ==
    Safe =>
        \A u \in Durables :
            /\ u \in acked =>
                  /\ Durable[u] = 1
                  /\ phase \notin {"down", "load", "restore"} => memory[u] = 1
                  /\ \A s \in Savers : Copied(s) => copy[s][u] = 1
            /\ \A h \in HttpHandlers : busy[h] = u =>
                  /\ memory[u] = 1
                  /\ saving[h] = "no" => Durable[u] = 1
                  /\ Copied(h) => copy[h][u] = 1

\* The last save carries the memory as it stays into the file.
LastSave ==
    phase = "final" /\ setting.sync /\ ~setting.diskFails /\ Encodable(memory) =>
        /\ Copied("main") => copy["main"] = memory
        /\ saving["main"] \in {"write", "rename"} => fd["main"] = "tmp"
        /\ saving["main"] = "rename" => disk["tmp"] = Saved(memory)
        /\ saving["main"] # "remove"
        /\ saving["main"] = "no" => disk["file"] = Saved(memory)

PersistenceInv ==
    /\ Types /\ Disjoint /\ Roles
    /\ OwnFile /\ Kept /\ LastSave

-----------------------------------------------------------------------------
(* The values.                                                              *)

LEMMA SameSetting ==
    ASSUME setting' = setting
    PROVE  /\ Counted' = Counted /\ Files' = Files
           /\ SavesAlone' = SavesAlone /\ Safe' = Safe
BY DEF Counted, Files, SavesAlone, Safe, AllEncodable

LEMMA NoValuesCounted == NoValues \in Counted /\ \A u \in Updates : NoValues[u] = 0
BY DEF NoValues, Counted

LEMMA SavedDiffers ==
    ASSUME NEW v
    PROVE  /\ Saved(v).kind = "values" /\ Saved(v).values = v
           /\ Saved(v) # Absent /\ Saved(v) # EmptyFile /\ Saved(v) # TornFile
           /\ Absent.kind = "absent" /\ EmptyFile.kind = "empty" /\ TornFile.kind = "torn"
BY DEF Saved, Absent, EmptyFile, TornFile

LEMMA DurableCounted ==
    ASSUME Types
    PROVE  Durable \in Counted
<1>1. disk["file"] \in Files
  BY DEF Types
<1>2. CASE \E v \in Counted : disk["file"] = Saved(v)
  BY <1>2, SavedDiffers DEF Durable
<1>3. CASE disk["file"] \in {Absent, EmptyFile, TornFile}
  BY <1>3, SavedDiffers, NoValuesCounted DEF Durable
<1>4. QED
  BY <1>1, <1>2, <1>3 DEF Files

LEMMA ApplyFacts ==
    ASSUME NEW v \in Counted, NEW u \in setting.updates, u \in Updates, v[u] = 0
    PROVE  /\ Apply(v, u) \in Counted
           /\ Apply(v, u)[u] = 1
           /\ \A w \in CounterUpdates : w # u => Apply(v, u)[w] = v[w]
           /\ \A w \in CounterUpdates : Apply(v, u)[w] >= v[w]
<1>1. v \in [Updates -> {0, 1}] /\ \A w \in Updates \ setting.updates : v[w] = 0
  BY DEF Counted
<1>2. Apply(v, u) = [w \in Updates |->
          IF w = u THEN 1
          ELSE IF u \in GaugeUpdates /\ w \in GaugeUpdates THEN 0 ELSE v[w]]
  BY DEF Apply
<1>3. Apply(v, u) \in [Updates -> {0, 1}]
  BY <1>1, <1>2
<1>4. ASSUME NEW w \in CounterUpdates
      PROVE  (w # u => Apply(v, u)[w] = v[w]) /\ Apply(v, u)[w] >= v[w]
  <2>1. w \in Updates /\ w \notin GaugeUpdates
    BY DEF CounterUpdates
  <2>2. Apply(v, u)[w] = IF w = u THEN 1 ELSE v[w]
    BY <1>2, <2>1
  <2>3. PICK n \in {0, 1} : n = v[w]
    BY <1>1, <2>1
  <2>4. n >= n /\ 1 >= n
    BY <2>3
  <2>5. QED
    BY <2>2, <2>3, <2>4
<1>6. QED
  BY <1>1, <1>2, <1>3, <1>4 DEF Counted, CounterUpdates

LEMMA RestoreFacts ==
    ASSUME NEW v \in Counted, NEW d \in Counted,
           \A u \in CounterUpdates : v[u] = 0 \/ d[u] = 0
    PROVE  /\ Restore(v, d) \in Counted
           /\ \A u \in CounterUpdates : Restore(v, d)[u] = v[u] + d[u]
           /\ \A u \in CounterUpdates : Restore(v, d)[u] >= v[u]
<1>1. /\ v \in [Updates -> {0, 1}] /\ \A u \in Updates \ setting.updates : v[u] = 0
      /\ d \in [Updates -> {0, 1}] /\ \A u \in Updates \ setting.updates : d[u] = 0
  BY DEF Counted
<1>2. ASSUME NEW u \in CounterUpdates
      PROVE  v[u] + d[u] \in {0, 1} /\ v[u] + d[u] >= v[u]
  <2>1. PICK m \in {0, 1} : m = v[u]
    BY <1>1 DEF CounterUpdates
  <2>2. PICK n \in {0, 1} : n = d[u]
    BY <1>1 DEF CounterUpdates
  <2>3. m = 0 \/ n = 0
    BY <2>1, <2>2
  <2>4. m + n \in {0, 1} /\ m + n >= m
    BY <2>3
  <2>5. QED
    BY <2>1, <2>2, <2>4
<1>3. \A u \in Updates : Restore(v, d)[u] =
          IF u \in CounterUpdates THEN v[u] + d[u]
          ELSE IF \E g \in GaugeUpdates : d[g] > 0 THEN d[u] ELSE v[u]
  BY DEF Restore
<1>4. \A u \in Updates : Restore(v, d)[u] \in {0, 1}
  BY <1>1, <1>2, <1>3
<1>5. ASSUME NEW u \in Updates \ setting.updates
      PROVE  Restore(v, d)[u] = 0
  <2>1. v[u] = 0 /\ d[u] = 0
    BY <1>1
  <2>2. v[u] + d[u] = 0
    BY <2>1
  <2>3. QED
    BY <1>3, <2>1, <2>2
<1>6. Restore(v, d) \in [Updates -> {0, 1}]
  BY <1>4 DEF Restore
<1>7. QED
  BY <1>2, <1>3, <1>5, <1>6 DEF Counted, CounterUpdates

LEMMA RestoreNothing ==
    ASSUME NEW v \in Counted
    PROVE  Restore(v, NoValues) = v
<1>1. v \in [Updates -> {0, 1}]
  BY DEF Counted
<1>2. ASSUME NEW u \in Updates
      PROVE  v[u] + NoValues[u] = v[u] /\ ~(NoValues[u] > 0)
  <2>1. PICK n \in {0, 1} : n = v[u]
    BY <1>1
  <2>2. n + 0 = n /\ ~(0 > 0)
    BY <2>1
  <2>3. QED
    BY <2>1, <2>2, NoValuesCounted
<1>3. Restore(v, NoValues) = [u \in Updates |-> v[u]]
  BY <1>2 DEF Restore
<1>4. QED
  BY <1>1, <1>3

\* The gauge of d is to be restored, or only the counter is left.
NextMetric(d, metric) ==
    \/ metric = {g \in GaugeUpdates : d[g] > 0}
    \/ metric = CounterUpdates /\ \A g \in GaugeUpdates : ~(d[g] > 0)

Part(d, metric) == [u \in Updates |-> IF u \in metric THEN d[u] ELSE 0]
Rest(d, metric) == [u \in Updates |-> IF u \in metric THEN 0 ELSE d[u]]

\* Restoring the gauge first and the counter after it is restoring both.
LEMMA RestoreParts ==
    ASSUME NEW v \in Counted, NEW d \in Counted, NEW metric, NextMetric(d, metric)
    PROVE  /\ Part(d, metric) \in Counted /\ Rest(d, metric) \in Counted
           /\ \A u \in CounterUpdates :
                 \/ Part(d, metric)[u] = d[u] /\ Rest(d, metric)[u] = 0
                 \/ Part(d, metric)[u] = 0 /\ Rest(d, metric)[u] = d[u]
           /\ Restore(Restore(v, Part(d, metric)), Rest(d, metric)) = Restore(v, d)
<1> DEFINE part == Part(d, metric)
<1> DEFINE rest == Rest(d, metric)
<1>0. /\ part = [u \in Updates |-> IF u \in metric THEN d[u] ELSE 0]
      /\ rest = [u \in Updates |-> IF u \in metric THEN 0 ELSE d[u]]
      /\ \/ metric = {g \in GaugeUpdates : d[g] > 0}
         \/ metric = CounterUpdates /\ \A g \in GaugeUpdates : ~(d[g] > 0)
  BY DEF Part, Rest, NextMetric
<1> HIDE DEF part, rest
<1>1. /\ v \in [Updates -> {0, 1}]
      /\ d \in [Updates -> {0, 1}] /\ \A u \in Updates \ setting.updates : d[u] = 0
  BY DEF Counted
<1>2. part \in Counted /\ rest \in Counted
  BY <1>0, <1>1 DEF Counted
<1>3. \A u \in Updates : \/ part[u] = d[u] /\ rest[u] = 0
                         \/ part[u] = 0 /\ rest[u] = d[u]
  BY <1>0
<1>4. \A x \in {0, 1} : x > 0 <=> x = 1
  OBVIOUS
<1>5. \A g \in GaugeUpdates : g \in Updates /\ g \notin CounterUpdates /\ d[g] \in {0, 1}
  BY <1>1 DEF CounterUpdates
<1>6. /\ (\E g \in GaugeUpdates : d[g] > 0) <=> (\E g \in GaugeUpdates : part[g] > 0)
      /\ \A g \in GaugeUpdates : part[g] = d[g] /\ ~(rest[g] > 0)
  <2>1. ASSUME NEW g \in GaugeUpdates
        PROVE  part[g] = d[g] /\ rest[g] = 0
    <3>1. CASE g \in metric
      BY <1>0, <1>5, <3>1
    <3>2. CASE g \notin metric
      BY <1>0, <1>4, <1>5, <3>2
    <3>3. QED
      BY <3>1, <3>2
  <2>2. ~(0 > 0)
    OBVIOUS
  <2>3. QED
    BY <2>1, <2>2
<1>7. ASSUME NEW u \in Updates
      PROVE  Restore(Restore(v, part), rest)[u] = Restore(v, d)[u]
  <2>1. Restore(v, part)[u] = IF u \in CounterUpdates THEN v[u] + part[u]
                              ELSE IF \E g \in GaugeUpdates : part[g] > 0 THEN part[u]
                              ELSE v[u]
    BY DEF Restore
  <2>2. Restore(v, d)[u] = IF u \in CounterUpdates THEN v[u] + d[u]
                           ELSE IF \E g \in GaugeUpdates : d[g] > 0 THEN d[u]
                           ELSE v[u]
    BY DEF Restore
  <2>3. Restore(Restore(v, part), rest)[u]
            = IF u \in CounterUpdates THEN Restore(v, part)[u] + rest[u]
              ELSE Restore(v, part)[u]
    BY <1>6 DEF Restore
  <2>4. CASE u \in CounterUpdates
    <3>1. PICK m \in {0, 1} : m = v[u]
      BY <1>1
    <3>2. PICK n \in {0, 1} : n = d[u]
      BY <1>1
    <3>3. (m + n) + 0 = m + n /\ (m + 0) + n = m + n
      BY <3>1, <3>2
    <3>4. QED
      BY <1>3, <2>1, <2>2, <2>3, <2>4, <3>1, <3>2, <3>3
  <2>5. CASE u \notin CounterUpdates
    <3>1. u \in GaugeUpdates
      BY <2>5 DEF CounterUpdates
    <3>2. QED
      BY <1>6, <2>1, <2>2, <2>3, <2>5, <3>1
  <2>6. QED
    BY <2>4, <2>5
<1>8. Restore(Restore(v, part), rest) = Restore(v, d)
  <2>1. /\ Restore(v, d) = [u \in Updates |-> Restore(v, d)[u]]
        /\ Restore(Restore(v, part), rest)
              = [u \in Updates |-> Restore(Restore(v, part), rest)[u]]
    BY DEF Restore
  <2>2. QED
    BY <1>7, <2>1
<1>9. QED
  BY <1>2, <1>3, <1>8 DEF CounterUpdates, part, rest

\* An update that comes in between is applied to what will have been restored, but
\* for one of the gauge while the gauge of the file is still to come: that one is lost.
LEMMA RestoreBehind ==
    ASSUME NEW v \in Counted, NEW d \in Counted, NEW u \in Updates
    PROVE  \/ Restore(Apply(v, u), d) = Apply(Restore(v, d), u)
           \/ Restore(Apply(v, u), d) = Restore(v, d)
<1> DEFINE held == \E g \in GaugeUpdates : d[g] > 0
<1>1. v \in [Updates -> {0, 1}] /\ d \in [Updates -> {0, 1}]
  BY DEF Counted
<1>2. \A w \in Updates :
         Apply(v, u)[w] = IF w = u THEN v[w] + 1
                          ELSE IF u \in GaugeUpdates /\ w \in GaugeUpdates THEN 0
                          ELSE v[w]
  BY DEF Apply
<1>3. \A w \in Updates :
         Restore(v, d)[w] = IF w \in CounterUpdates THEN v[w] + d[w]
                            ELSE IF held THEN d[w] ELSE v[w]
  BY DEF Restore
<1>4. \A w \in Updates :
         Restore(Apply(v, u), d)[w] = IF w \in CounterUpdates THEN Apply(v, u)[w] + d[w]
                                      ELSE IF held THEN d[w] ELSE Apply(v, u)[w]
  BY DEF Restore
<1>5. \A w \in Updates :
         Apply(Restore(v, d), u)[w]
             = IF w = u THEN Restore(v, d)[w] + 1
               ELSE IF u \in GaugeUpdates /\ w \in GaugeUpdates THEN 0
               ELSE Restore(v, d)[w]
  BY DEF Apply
<1>6. /\ Restore(v, d) = [w \in Updates |-> Restore(v, d)[w]]
      /\ Restore(Apply(v, u), d) = [w \in Updates |-> Restore(Apply(v, u), d)[w]]
      /\ Apply(Restore(v, d), u) = [w \in Updates |-> Apply(Restore(v, d), u)[w]]
  BY DEF Restore, Apply
<1> HIDE DEF held
<1>7. CASE u \in GaugeUpdates /\ held
  <2>1. \A w \in Updates : Restore(Apply(v, u), d)[w] = Restore(v, d)[w]
    BY <1>2, <1>3, <1>4, <1>7 DEF CounterUpdates
  <2>2. QED
    BY <1>6, <2>1
<1>8. CASE u \notin GaugeUpdates \/ ~held
  <2>1. ASSUME NEW w \in Updates
        PROVE  Restore(Apply(v, u), d)[w] = Apply(Restore(v, d), u)[w]
    <3>1. PICK m \in {0, 1} : m = v[w]
      BY <1>1
    <3>2. PICK n \in {0, 1} : n = d[w]
      BY <1>1
    <3>3. (m + 1) + n = (m + n) + 1
      BY <3>1, <3>2
    <3>4. CASE w = u /\ w \in CounterUpdates
      <4>1. Restore(Apply(v, u), d)[w] = (v[w] + 1) + d[w]
        BY <1>2, <1>4, <3>4
      <4>2. Apply(Restore(v, d), u)[w] = (v[w] + d[w]) + 1
        BY <1>3, <1>5, <3>4
      <4>3. QED
        BY <3>1, <3>2, <3>3, <4>1, <4>2
    <3>5. CASE w = u /\ w \notin CounterUpdates
      BY <1>2, <1>3, <1>4, <1>5, <1>8, <3>5 DEF CounterUpdates
    <3>6. CASE w # u
      BY <1>2, <1>3, <1>4, <1>5, <1>8, <3>6 DEF CounterUpdates
    <3>7. QED
      BY <3>4, <3>5, <3>6
  <2>2. QED
    BY <1>6, <2>1
<1>9. QED
  BY <1>7, <1>8

\* An update a client may still make is nowhere yet.
LEMMA UnusedFacts ==
    ASSUME Types, NEW u \in Updates, u \notin Used
    PROVE  /\ u \notin acked /\ memory[u] = 0 /\ Durable[u] = 0
           /\ \A h \in HttpHandlers : busy[h] # u
<1>1. memory[u] \in {0, 1} /\ Durable[u] \in {0, 1}
  BY DurableCounted DEF Types, Counted
<1>2. ~(memory[u] > 0) /\ ~(Durable[u] > 0) /\ u \notin acked
      /\ \A h \in HttpHandlers : busy[h] # u
  BY DEF Used
<1>3. QED
  BY <1>1, <1>2

-----------------------------------------------------------------------------
(* Savers that are alone.                                                   *)

LEMMA OneHandler ==
    ASSUME Types, SavesAlone, NEW g \in setting.handlers, NEW h \in setting.handlers
    PROVE  g = h
<1>1. setting.handlers \subseteq HttpHandlers
  BY DEF Types, SettingRecords
<1>2. IsFiniteSet(setting.handlers) /\ Cardinality(setting.handlers) <= 1
  BY <1>1, FS_Subset DEF SavesAlone
<1>3. {g, h} \subseteq setting.handlers
  OBVIOUS
<1>4. Cardinality({g, h}) <= Cardinality(setting.handlers)
  BY <1>2, <1>3, FS_Subset
<1>5. Cardinality(setting.handlers) \in Nat /\ Cardinality({g, h}) \in Nat
  BY <1>2, <1>3, FS_CardinalityType, FS_Subset
<1>6. Cardinality({g, h}) <= 1
  BY <1>2, <1>4, <1>5
<1>7. SUFFICES ASSUME g # h
               PROVE  FALSE
  OBVIOUS
<1>8. Cardinality({g, h}) = 2
  <2>1. IsFiniteSet({g}) /\ Cardinality({g}) = 1
    BY FS_Singleton
  <2>2. Cardinality({g} \union {h}) = Cardinality({g}) + 1
    BY <1>7, <2>1, FS_AddElement
  <2>3. {g} \union {h} = {g, h}
    OBVIOUS
  <2>4. QED
    BY <2>1, <2>2, <2>3
<1>9. QED
  BY <1>6, <1>8

\* A busy handler with saving at once is the only one that may save.
LEMMA BusySaver ==
    ASSUME Types, Roles, SavesAlone, setting.sync,
           NEW h \in HttpHandlers, busy[h] # NoUpdate, NEW s \in Savers, saving[s] # "no"
    PROVE  s = h
<1>1. h \in setting.handlers /\ phase \in {"serve", "drain"}
  BY DEF Roles
<1>2. s \notin {"periodic", "main"}
  BY <1>1 DEF Roles
<1>3. s \in setting.handlers
  BY <1>2 DEF Roles, Savers
<1>4. QED
  BY <1>1, <1>3, OneHandler

LEMMA OneSaver ==
    ASSUME Types, Roles, SavesAlone,
           NEW r \in Savers, saving[r] # "no", NEW s \in Savers, saving[s] # "no"
    PROVE  r = s
<1>1. ASSUME NEW q \in Savers, saving[q] # "no"
      PROVE  \/ q \in setting.handlers /\ setting.sync /\ phase \in {"serve", "drain"}
             \/ q = "periodic" /\ ~setting.sync
             \/ q = "main" /\ setting.sync /\ phase = "final"
  BY <1>1 DEF Roles, Savers, SavesAlone
<1>2. QED
  BY <1>1, OneHandler

LEMMA FinalSaver ==
    ASSUME Roles, phase = "final", setting.sync, NEW s \in Savers, saving[s] # "no"
    PROVE  s = "main"
BY DEF Roles, Savers

\* Nobody saves while the process is down or loads.
LEMMA SaverUp ==
    ASSUME Roles, NEW s \in Savers, saving[s] # "no"
    PROVE  phase \notin {"down", "load", "restore"}
BY DEF Roles, Savers

-----------------------------------------------------------------------------
(* Main, the signal and the ticker.                                         *)

\* Steps that touch neither values nor files.
LEMMA StillKeeps ==
    ASSUME PersistenceInv, phase' \in Phases, phase' = phase \/ phase' # "final",
           phase' \notin {"down", "load", "restore"} =>
               \A u \in Durables : Safe /\ u \in acked => memory[u] = 1,
           UNCHANGED <<setting, memory, busy, saveVars, disk, acked>>, unread' \in Counted,
           Disjoint', Roles'
    PROVE  PersistenceInv'
<1>1. /\ Counted' = Counted /\ Files' = Files
      /\ SavesAlone' = SavesAlone /\ Safe' = Safe
  BY SameSetting
<1>2. UNCHANGED <<memory, busy, saving, copy, fd, disk, acked>>
  BY DEF saveVars
<1>3. Durable' = Durable
  BY DEF Durable
<1>4. Types'
  BY <1>1, <1>2 DEF PersistenceInv, Types
<1>5. OwnFile'
  BY <1>1, <1>2 DEF PersistenceInv, OwnFile, FileReadable
<1>6. Kept'
  BY <1>1, <1>2, <1>3 DEF PersistenceInv, Kept, Copied
<1>7. LastSave'
  BY <1>2 DEF PersistenceInv, LastSave, Copied, Encodable
<1>8. QED
  BY <1>4, <1>5, <1>6, <1>7 DEF PersistenceInv

LEMMA MainKeeps ==
    ASSUME PersistenceInv,
           Boot \/ Signal \/ BeginShutdown \/ ShutdownDone \/ PeriodicStop \/ UNCHANGED vars
    PROVE  PersistenceInv'
<1>1. UNCHANGED <<setting, memory, unread, busy, saveVars, disk, acked>>
  BY DEF Boot, Signal, BeginShutdown, ShutdownDone, MainGoes, PeriodicStop, vars, lifeVars
<1>2. /\ phase' \in Phases
      /\ phase' = phase \/ phase' # "final"
      /\ phase' \in {"down", "load", "restore"} \/ phase \notin {"down", "load", "restore"}
  BY DEF Boot, Signal, BeginShutdown, ShutdownDone, MainGoes, PeriodicStop, vars, lifeVars,
         PersistenceInv, Types, Phases
<1>3. Durable' = Durable /\ Safe' = Safe
  BY <1>1, SameSetting DEF Durable
<1>4. Disjoint'
  BY <1>1, <1>3, NoValuesCounted
     DEF Boot, Signal, BeginShutdown, ShutdownDone, MainGoes, PeriodicStop, vars, lifeVars,
         PersistenceInv, Disjoint, CounterUpdates
<1>5. Roles'
  <2>1. saving' = saving
    BY <1>1 DEF saveVars
  <2>2. \A s \in Savers : phase \in {"down", "load", "restore"} => saving[s] = "no"
    BY SaverUp DEF PersistenceInv
  <2>3. QED
    BY <1>1, <1>3, <2>1, <2>2
       DEF Boot, Signal, BeginShutdown, ShutdownDone, MainGoes, PeriodicStop, vars, lifeVars,
           PersistenceInv, Roles, Savers
<1>6. phase' \notin {"down", "load", "restore"} =>
          \A u \in Durables : Safe /\ u \in acked => memory[u] = 1
  BY <1>2 DEF PersistenceInv, Kept
<1>7. unread' \in Counted
  BY <1>1, SameSetting DEF PersistenceInv, Types
<1>8. QED
  BY <1>1, <1>2, <1>4, <1>5, <1>6, <1>7, StillKeeps

\* Reading the file changes nothing yet.
LEMMA LoadKeeps ==
    ASSUME PersistenceInv, LoadFromFile
    PROVE  PersistenceInv'
<1>1. /\ phase = "load" /\ phase' = "restore" /\ unread' = Durable
      /\ UNCHANGED <<setting, signalled, periodic, memory, busy, saveVars, disk, acked>>
  BY DEF LoadFromFile
<1>2. Counted' = Counted /\ Durable' = Durable /\ Safe' = Safe
  BY <1>1, SameSetting DEF Durable
<1>3. Durable \in Counted
  BY DurableCounted DEF PersistenceInv
<1>4. Disjoint'
  BY <1>1, <1>2 DEF PersistenceInv, Disjoint
<1>5. Roles'
  BY <1>1, <1>2 DEF PersistenceInv, Roles, saveVars
<1>6. QED
  BY <1>1, <1>2, <1>3, <1>4, <1>5, StillKeeps DEF Phases

\* When the loop is over what was acknowledged is in memory.
LEMMA StartServingKeeps ==
    ASSUME PersistenceInv, StartServing
    PROVE  PersistenceInv'
<1>1. /\ phase = "restore" /\ unread = NoValues
      /\ phase' = "serve" /\ periodic' = ~setting.sync
      /\ UNCHANGED <<setting, signalled, memory, unread, busy, saveVars, disk, acked>>
  BY DEF StartServing
<1>2. Counted' = Counted /\ Durable' = Durable /\ Safe' = Safe
  BY <1>1, SameSetting DEF Durable
<1>3. Disjoint'
  BY <1>1, <1>2 DEF PersistenceInv, Disjoint
<1>4. Roles'
  BY <1>1, <1>2 DEF PersistenceInv, Roles, saveVars
<1>5. ASSUME NEW u \in Durables, Safe, u \in acked
      PROVE  memory[u] = 1
  <2>1. Durable[u] = 1
    BY <1>5 DEF PersistenceInv, Kept
  <2>2. u \in Updates /\ u \in CounterUpdates
    BY DEF Durables, CounterUpdates
  <2>3. unread[u] = 0
    BY <1>1, <2>2, NoValuesCounted
  <2>4. memory[u] = 1 \/ unread[u] = 1
    BY <1>1, <2>1, <2>2 DEF PersistenceInv, Disjoint
  <2>5. QED
    BY <2>3, <2>4
<1>6. unread' \in Counted
  BY <1>1, <1>2 DEF PersistenceInv, Types
<1>7. QED
  BY <1>1, <1>3, <1>4, <1>5, <1>6, StillKeeps DEF Phases

LEMMA RestoreKeeps ==
    ASSUME PersistenceInv, RestoreNext
    PROVE  /\ PersistenceInv'
           /\ Restore(memory', unread') = Restore(memory, unread)
           /\ \A u \in CounterUpdates : memory'[u] >= memory[u]
<1>1. /\ phase = "restore"
      /\ UNCHANGED <<setting, phase, signalled, periodic, busy, saving, copy, fd, disk, acked>>
  BY DEF RestoreNext, lifeVars, saveVars
<1>2. /\ Counted' = Counted /\ Files' = Files
      /\ SavesAlone' = SavesAlone /\ Safe' = Safe /\ Durable' = Durable
  BY <1>1, SameSetting DEF Durable
<1>3. PICK metric : /\ NextMetric(unread, metric)
                    /\ memory' = Restore(memory, Part(unread, metric))
                    /\ unread' = Rest(unread, metric)
  BY DEF RestoreNext, NextMetric, Part, Rest
<1>4. PICK part : part = Part(unread, metric)
  OBVIOUS
<1>5. memory' = Restore(memory, part)
  BY <1>3, <1>4
<1>6. memory \in Counted /\ unread \in Counted
  BY DEF PersistenceInv, Types
<1>7. /\ part \in Counted /\ unread' \in Counted
      /\ \A u \in CounterUpdates : \/ part[u] = unread[u] /\ unread'[u] = 0
                                   \/ part[u] = 0 /\ unread'[u] = unread[u]
      /\ Restore(Restore(memory, part), unread') = Restore(memory, unread)
  BY <1>3, <1>4, <1>6, RestoreParts
<1>8. \A u \in CounterUpdates : memory[u] = 0 \/ part[u] = 0
  BY <1>1, <1>7 DEF PersistenceInv, Disjoint
<1>9. /\ memory' \in Counted
      /\ \A u \in CounterUpdates : memory'[u] = memory[u] + part[u]
      /\ \A u \in CounterUpdates : memory'[u] >= memory[u]
  BY <1>5, <1>6, <1>7, <1>8, RestoreFacts
<1>10. Types'
  BY <1>1, <1>2, <1>7, <1>9 DEF PersistenceInv, Types
<1>11. Disjoint'
  <2>1. ASSUME NEW u \in CounterUpdates
        PROVE  \/ memory'[u] = memory[u] /\ unread'[u] = unread[u]
               \/ memory'[u] = unread[u] /\ unread'[u] = 0 /\ memory[u] = 0
               \/ memory'[u] = memory[u] /\ unread'[u] = 0 /\ unread[u] = 0
    <3>1. PICK m \in {0, 1} : m = memory[u]
      BY <1>6 DEF Counted, CounterUpdates
    <3>2. PICK n \in {0, 1} : n = unread[u]
      BY <1>6 DEF Counted, CounterUpdates
    <3>3. m + 0 = m /\ 0 + n = n
      BY <3>1, <3>2
    <3>4. m = 0 \/ n = 0
      BY <1>1, <3>1, <3>2 DEF PersistenceInv, Disjoint
    <3>5. QED
      BY <1>7, <1>9, <3>1, <3>2, <3>3, <3>4
  <2>2. QED
    BY <1>1, <1>2, <2>1 DEF PersistenceInv, Disjoint
<1>12. Roles'
  BY <1>1, <1>2 DEF PersistenceInv, Roles
<1>13. OwnFile'
  BY <1>1, <1>2 DEF PersistenceInv, OwnFile, FileReadable
<1>14. Kept'
  <2>1. \A h \in HttpHandlers : busy[h] = NoUpdate
    BY <1>1 DEF PersistenceInv, Roles
  <2>2. \A u \in Durables : \A h \in HttpHandlers : busy[h] # u
    BY <2>1 DEF Durables
  <2>3. QED
    BY <1>1, <1>2, <2>2 DEF PersistenceInv, Kept, Copied
<1>15. LastSave'
  BY <1>1 DEF LastSave
<1>16. QED
  BY <1>5, <1>7, <1>9, <1>10, <1>11, <1>12, <1>13, <1>14, <1>15 DEF PersistenceInv

\* The ticker, and the save main begins with nobody else about.
LEMMA BeginKeeps ==
    ASSUME PersistenceInv, PeriodicTick \/ FinalSave
    PROVE  PersistenceInv'
<1>1. PICK q \in {"periodic", "main"} :
         /\ saving' = [saving EXCEPT ![q] = "getall"]
         /\ q = "periodic" => periodic /\ phase' = phase
         /\ q = "main" => phase = "grpcstop" /\ phase' = "final"
         /\ saving[q] = "no" \/ q = "main"
  BY DEF PeriodicTick, FinalSave, MainGoes, lifeVars
<1>2. UNCHANGED <<setting, signalled, periodic, memory, unread, busy, copy, fd, disk, acked>>
  BY DEF PeriodicTick, FinalSave, MainGoes, lifeVars
<1>3. /\ Counted' = Counted /\ Files' = Files
      /\ SavesAlone' = SavesAlone /\ Safe' = Safe /\ Durable' = Durable
  BY <1>2, SameSetting DEF Durable
<1>4. /\ q \in Savers /\ saving[q] = "no"
      /\ saving' \in [Savers -> Steps] /\ saving'[q] = "getall"
      /\ \A r \in Savers : r # q => saving'[r] = saving[r]
  BY <1>1 DEF PersistenceInv, Types, Steps, Savers, Roles
<1>5. phase \notin {"down", "load", "restore"} /\ phase' \notin {"down", "load", "restore"} /\ phase' \in Phases
  BY <1>1 DEF PersistenceInv, Types, Roles, Phases
<1>6. Types'
  BY <1>2, <1>3, <1>4, <1>5 DEF PersistenceInv, Types
<1>7. Disjoint'
  BY <1>2, <1>5 DEF PersistenceInv, Disjoint
<1>8. Roles'
  <2>1. \A h \in HttpHandlers : h # q /\ h \in Savers
    BY <1>1 DEF Savers
  <2>2. CASE q = "periodic"
    BY <1>1, <1>2, <1>3, <1>4, <1>5, <2>1, <2>2 DEF PersistenceInv, Roles, Savers
  <2>3. CASE q = "main"
    <3>1. \A h \in HttpHandlers : busy[h] = NoUpdate /\ saving[h] = "no"
      BY <1>1, <2>3 DEF PersistenceInv, Roles
    <3>2. QED
      BY <1>1, <1>2, <1>3, <1>4, <1>5, <2>1, <2>3, <3>1 DEF PersistenceInv, Roles, Savers
  <2>4. QED
    BY <2>2, <2>3
<1>9. OwnFile'
  BY <1>2, <1>3, <1>4 DEF PersistenceInv, OwnFile, FileReadable
<1>10. Kept'
  <2>1. \A r \in Savers : Copied(r)' => Copied(r)
    BY <1>4 DEF Copied
  <2>2. \A h \in HttpHandlers : h # q /\ h \in Savers
    BY <1>1 DEF Savers
  <2>3. \A h \in HttpHandlers : saving'[h] = saving[h]
    BY <1>4, <2>2
  <2>4. QED
    BY <1>2, <1>3, <1>5, <2>1, <2>2, <2>3 DEF PersistenceInv, Kept
<1>11. LastSave'
  BY <1>1, <1>2, <1>4 DEF PersistenceInv, LastSave, Copied, Savers, Encodable
<1>12. QED
  BY <1>6, <1>7, <1>8, <1>9, <1>10, <1>11 DEF PersistenceInv

\* A process that ends takes everything with it but the files and what its clients
\* were told.
LEMMA HaltKeeps ==
    ASSUME PersistenceInv, NEW how, Halt(how)
    PROVE  PersistenceInv'
<1>1. /\ phase' = "down" /\ memory' = NoValues /\ unread' = NoValues
      /\ busy' = [h \in HttpHandlers |-> NoUpdate]
      /\ saving' = [s \in Savers |-> "no"]
      /\ copy' = [s \in Savers |-> NoValues]
      /\ fd' = [s \in Savers |-> "none"]
      /\ periodic' = FALSE /\ signalled' = FALSE
      /\ UNCHANGED <<setting, disk, acked>>
  BY DEF Halt
<1>2. /\ Counted' = Counted /\ Files' = Files
      /\ SavesAlone' = SavesAlone /\ Safe' = Safe /\ Durable' = Durable
  BY <1>1, SameSetting DEF Durable
<1>3. Types'
  BY <1>1, <1>2, NoValuesCounted DEF PersistenceInv, Types, Phases, Steps
<1>4. Disjoint'
  BY <1>1 DEF Disjoint
<1>5. Roles'
  BY <1>1 DEF Roles, Savers
<1>6. OwnFile'
  BY <1>1, <1>2 DEF PersistenceInv, OwnFile, FileReadable
<1>7. Kept'
  BY <1>1, <1>2 DEF PersistenceInv, Kept, Copied, Durables
<1>8. LastSave'
  BY <1>1 DEF LastSave
<1>9. QED
  BY <1>3, <1>4, <1>5, <1>6, <1>7, <1>8 DEF PersistenceInv

-----------------------------------------------------------------------------
(* Updates.                                                                 *)

LEMMA HttpUpdateKeeps ==
    ASSUME PersistenceInv, NEW h \in HttpHandlers, NEW u \in Updates, HttpUpdate(h, u)
    PROVE  /\ PersistenceInv'
           /\ \A w \in CounterUpdates : memory'[w] >= memory[w]
<1>1. /\ phase = "serve" /\ busy[h] = NoUpdate /\ h \in setting.handlers
      /\ u \in setting.updates /\ u \notin Used
      /\ memory' = Apply(memory, u)
      /\ busy' = [busy EXCEPT ![h] = u]
      /\ saving' = IF SavedAtOnce(u) THEN [saving EXCEPT ![h] = "getall"] ELSE saving
      /\ UNCHANGED <<setting, phase, signalled, periodic, unread, copy, fd, disk, acked>>
  BY DEF HttpUpdate, lifeVars
<1>2. /\ Counted' = Counted /\ Files' = Files
      /\ SavesAlone' = SavesAlone /\ Safe' = Safe /\ Durable' = Durable
  BY <1>1, SameSetting DEF Durable
<1>3. Types /\ Roles
  BY DEF PersistenceInv
<1>4. /\ u \notin acked /\ memory[u] = 0 /\ Durable[u] = 0
      /\ \A g \in HttpHandlers : busy[g] # u
  BY <1>1, <1>3, UnusedFacts
<1>5. /\ memory' \in Counted /\ memory'[u] = 1
      /\ \A w \in CounterUpdates : w # u => memory'[w] = memory[w]
      /\ \A w \in CounterUpdates : memory'[w] >= memory[w]
  BY <1>1, <1>3, <1>4, ApplyFacts DEF Types
<1>6. h \in Savers /\ saving[h] = "no"
  BY <1>1, <1>3 DEF Roles, Savers
<1>7. /\ saving' \in [Savers -> Steps]
      /\ \A r \in Savers : r # h => saving'[r] = saving[r]
      /\ saving'[h] \in {"no", "getall"}
      /\ SavedAtOnce(u) <=> saving'[h] = "getall"
  BY <1>1, <1>3, <1>6 DEF Types, Steps
<1>8. /\ busy' \in [HttpHandlers -> Updates \union {NoUpdate}] /\ busy'[h] = u
      /\ \A g \in HttpHandlers : g # h => busy'[g] = busy[g]
  BY <1>1, <1>3 DEF Types
<1>9. Types'
  BY <1>1, <1>2, <1>3, <1>5, <1>7, <1>8 DEF Types
<1>10. Disjoint'
  BY <1>1 DEF PersistenceInv, Disjoint
<1>11. Roles'
  <2>1. ASSUME NEW g \in HttpHandlers
        PROVE  /\ busy'[g] # NoUpdate => g \in setting.handlers
               /\ saving'[g] # "no" => busy'[g] # NoUpdate /\ setting.sync
    <3>1. CASE g = h
      BY <1>1, <1>7, <1>8, <3>1 DEF SavedAtOnce
    <3>2. CASE g # h
      BY <1>3, <1>7, <1>8, <3>2 DEF Roles, Savers
    <3>3. QED
      BY <3>1, <3>2
  <2>2. h \notin {"periodic", "main"} /\ {"periodic", "main"} \subseteq Savers
    BY DEF Savers
  <2>3. saving'["periodic"] = saving["periodic"] /\ saving'["main"] = saving["main"]
    BY <1>7, <2>2
  <2>4. \A s \in Savers : saving'[s] = "remove" => saving[s] = "remove"
    BY <1>7
  <2>5. QED
    BY <1>1, <1>2, <1>3, <2>1, <2>3, <2>4 DEF Roles
<1>12. OwnFile'
  BY <1>1, <1>2, <1>6, <1>7 DEF PersistenceInv, OwnFile, FileReadable
<1>13. Kept'
  <2> SUFFICES ASSUME Safe, NEW w \in Durables
               PROVE  /\ w \in acked =>
                            /\ Durable[w] = 1 /\ memory'[w] = 1
                            /\ \A s \in Savers : Copied(s)' => copy[s][w] = 1
                      /\ \A g \in HttpHandlers : busy'[g] = w =>
                            /\ memory'[w] = 1
                            /\ saving'[g] = "no" => Durable[w] = 1
                            /\ Copied(g)' => copy[g][w] = 1
    BY <1>1, <1>2 DEF Kept
  <2>1. w \in CounterUpdates /\ w \notin BatchUpdates
    BY DEF Durables, CounterUpdates
  <2>2. \A s \in Savers : Copied(s)' => Copied(s)
    BY <1>7 DEF Copied
  <2>3. w \in acked => /\ Durable[w] = 1 /\ memory[w] = 1
                       /\ \A s \in Savers : Copied(s) => copy[s][w] = 1
    BY <1>1 DEF PersistenceInv, Kept
  <2>4. w \in acked => memory'[w] = 1
    BY <1>4, <1>5, <2>1, <2>3
  <2>5. ASSUME NEW g \in HttpHandlers, busy'[g] = w
        PROVE  /\ memory'[w] = 1
               /\ saving'[g] = "no" => Durable[w] = 1
               /\ Copied(g)' => copy[g][w] = 1
    <3>1. CASE g = h
      <4>1. w = u
        BY <1>8, <2>5, <3>1
      <4>2. SavedAtOnce(u)
        BY <2>1, <4>1 DEF SavedAtOnce, Safe
      <4>3. saving'[h] = "getall"
        BY <1>7, <4>2
      <4>4. QED
        BY <1>5, <3>1, <4>1, <4>3 DEF Copied
    <3>2. CASE g # h
      <4>1. busy[g] = w /\ saving'[g] = saving[g]
        BY <1>7, <1>8, <2>5, <3>2 DEF Savers
      <4>2. w # u
        BY <1>4, <4>1
      <4>3. memory[w] = 1 /\ (saving[g] = "no" => Durable[w] = 1)
            /\ (Copied(g) => copy[g][w] = 1)
        BY <4>1 DEF PersistenceInv, Kept
      <4>4. QED
        BY <1>5, <2>1, <4>1, <4>2, <4>3 DEF Copied
    <3>3. QED
      BY <3>1, <3>2
  <2>6. QED
    BY <2>2, <2>3, <2>4, <2>5
<1>14. LastSave'
  BY <1>1 DEF LastSave
<1>15. QED
  BY <1>5, <1>9, <1>10, <1>11, <1>12, <1>13, <1>14 DEF PersistenceInv

LEMMA HttpRespondKeeps ==
    ASSUME PersistenceInv, NEW h \in HttpHandlers, HttpRespond(h)
    PROVE  PersistenceInv'
<1>1. /\ busy[h] # NoUpdate /\ saving[h] = "no"
      /\ acked' = acked \union {busy[h]}
      /\ busy' = [busy EXCEPT ![h] = NoUpdate]
      /\ UNCHANGED <<setting, phase, signalled, periodic, memory, unread, saving, copy, fd,
                     disk>>
  BY DEF HttpRespond, lifeVars, saveVars
<1>2. /\ Counted' = Counted /\ Files' = Files
      /\ SavesAlone' = SavesAlone /\ Safe' = Safe /\ Durable' = Durable
  BY <1>1, SameSetting DEF Durable
<1>3. Types /\ Roles
  BY DEF PersistenceInv
<1>4. /\ busy[h] \in Updates /\ phase \in {"serve", "drain"}
  BY <1>1, <1>3 DEF Types, Roles
<1>5. /\ busy' \in [HttpHandlers -> Updates \union {NoUpdate}] /\ busy'[h] = NoUpdate
      /\ \A g \in HttpHandlers : g # h => busy'[g] = busy[g]
  BY <1>1, <1>3 DEF Types
<1>6. Types'
  BY <1>1, <1>2, <1>3, <1>4, <1>5 DEF Types
<1>7. Disjoint'
  BY <1>1, <1>4 DEF PersistenceInv, Disjoint
<1>8. Roles'
  BY <1>1, <1>2, <1>3, <1>5 DEF Roles
<1>9. OwnFile'
  BY <1>1, <1>2 DEF PersistenceInv, OwnFile, FileReadable
<1>10. Kept'
  <2> SUFFICES ASSUME Safe, NEW w \in Durables
               PROVE  /\ w \in acked' =>
                            /\ Durable[w] = 1 /\ memory[w] = 1
                            /\ \A s \in Savers : Copied(s) => copy[s][w] = 1
                      /\ \A g \in HttpHandlers : busy'[g] = w =>
                            /\ memory[w] = 1
                            /\ saving[g] = "no" => Durable[w] = 1
                            /\ Copied(g) => copy[g][w] = 1
    BY <1>1, <1>2 DEF Kept, Copied
  <2>1. CASE w = busy[h]
    <3>1. Durable[w] = 1 /\ memory[w] = 1
      BY <1>1, <2>1 DEF PersistenceInv, Kept
    <3>2. \A s \in Savers : saving[s] = "no"
      BY <1>1, <1>3, BusySaver DEF Safe
    <3>3. QED
      BY <3>1, <3>2 DEF Copied, Savers
  <2>2. CASE w # busy[h]
    <3>1. w \in acked' => w \in acked
      BY <1>1, <2>2
    <3>2. \A g \in HttpHandlers : busy'[g] = w => busy[g] = w
      BY <1>5 DEF Durables
    <3>3. QED
      BY <1>4, <3>1, <3>2 DEF PersistenceInv, Kept
  <2>3. QED
    BY <2>1, <2>2
<1>11. LastSave'
  BY <1>1, <1>4 DEF LastSave
<1>12. QED
  BY <1>6, <1>7, <1>8, <1>9, <1>10, <1>11 DEF PersistenceInv

LEMMA GrpcUpdateKeeps ==
    ASSUME PersistenceInv, NEW u \in Updates, GrpcUpdate(u)
    PROVE  /\ PersistenceInv'
           /\ \A w \in CounterUpdates : memory'[w] >= memory[w]
<1>1. /\ u \in GrpcUpdates /\ u \in setting.updates /\ u \notin Used
      /\ phase \in {"load", "restore", "serve", "drain", "grpcstop"}
      /\ memory' = Apply(memory, u)
      /\ acked' = acked \union {u}
      /\ UNCHANGED <<setting, phase, signalled, periodic, unread, busy, saving, copy, fd, disk>>
  BY DEF GrpcUpdate, lifeVars, saveVars
<1>2. /\ Counted' = Counted /\ Files' = Files
      /\ SavesAlone' = SavesAlone /\ Safe' = Safe /\ Durable' = Durable
  BY <1>1, SameSetting DEF Durable
<1>3. Types
  BY DEF PersistenceInv
<1>4. memory[u] = 0 /\ Durable[u] = 0
  BY <1>1, <1>3, UnusedFacts
<1>5. /\ memory' \in Counted /\ memory'[u] = 1
      /\ \A w \in CounterUpdates : w # u => memory'[w] = memory[w]
      /\ \A w \in CounterUpdates : memory'[w] >= memory[w]
  BY <1>1, <1>3, <1>4, ApplyFacts DEF Types
<1>6. Types'
  BY <1>1, <1>2, <1>3, <1>5 DEF Types
<1>7. Disjoint'
  <2>1. phase # "down" /\ (phase # "restore" => unread = NoValues)
    BY <1>1 DEF PersistenceInv, Disjoint
  <2>2. ASSUME NEW w \in CounterUpdates, phase = "load"
        PROVE  memory'[w] = 0 \/ Durable[w] = 0
    BY <1>4, <1>5, <2>2 DEF PersistenceInv, Disjoint
  <2>3. ASSUME NEW w \in CounterUpdates, phase = "restore"
        PROVE  /\ memory'[w] = 0 \/ unread[w] = 0
               /\ unread[w] = 1 => Durable[w] = 1
               /\ Durable[w] = 1 => memory'[w] = 1 \/ unread[w] = 1
    <3>1. unread[w] \in {0, 1}
      BY <1>3 DEF Types, Counted, CounterUpdates
    <3>2. /\ memory[w] = 0 \/ unread[w] = 0
          /\ unread[w] = 1 => Durable[w] = 1
          /\ Durable[w] = 1 => memory[w] = 1 \/ unread[w] = 1
      BY <2>3 DEF PersistenceInv, Disjoint
    <3>3. QED
      BY <1>4, <1>5, <3>1, <3>2
  <2>4. QED
    BY <1>1, <1>2, <2>1, <2>2, <2>3 DEF Disjoint
<1>8. Roles'
  BY <1>1, <1>2 DEF PersistenceInv, Roles
<1>9. OwnFile'
  BY <1>1, <1>2 DEF PersistenceInv, OwnFile, FileReadable
<1>10. Kept'
  <2> SUFFICES ASSUME Safe, NEW w \in Durables
               PROVE  /\ w \in acked' =>
                            /\ Durable[w] = 1
                            /\ phase \notin {"down", "load", "restore"} => memory'[w] = 1
                            /\ \A s \in Savers : Copied(s) => copy[s][w] = 1
                      /\ \A g \in HttpHandlers : busy[g] = w =>
                            /\ memory'[w] = 1
                            /\ saving[g] = "no" => Durable[w] = 1
                            /\ Copied(g) => copy[g][w] = 1
    BY <1>1, <1>2 DEF Kept, Copied
  <2>1. w \in CounterUpdates /\ w # u
    BY <1>1 DEF Durables, CounterUpdates
  <2>2. memory'[w] = memory[w] /\ (w \in acked' => w \in acked)
    BY <1>1, <1>5, <2>1
  <2>3. QED
    BY <2>2 DEF PersistenceInv, Kept
<1>11. LastSave'
  BY <1>1 DEF LastSave
<1>12. QED
  BY <1>5, <1>6, <1>7, <1>8, <1>9, <1>10, <1>11 DEF PersistenceInv

-----------------------------------------------------------------------------
(* The steps of a save.                                                     *)

\* A saver that goes on is one that was entitled to save.
LEMMA SaveGoesOn ==
    ASSUME Types, Disjoint, Roles, NEW s \in Savers, saving[s] # "no",
           NEW k \in Steps, k = "remove" => ~Safe, saving' = [saving EXCEPT ![s] = k],
           UNCHANGED <<lifeVars, periodic, memory, unread, busy, acked>>
    PROVE  /\ UNCHANGED <<setting, phase, signalled, periodic, memory, unread, busy, acked>>
           /\ phase \notin {"down", "load", "restore"}
           /\ Disjoint' /\ Roles'
           /\ saving' \in [Savers -> Steps] /\ saving'[s] = k
           /\ \A r \in Savers : r # s => saving'[r] = saving[r]
<1>1. UNCHANGED <<setting, phase, signalled, periodic, memory, unread, busy, acked>>
  BY DEF lifeVars
<1>2. phase \notin {"down", "load", "restore"} /\ Safe' = Safe
  BY <1>1, SaverUp, SameSetting
<1>3. /\ saving' \in [Savers -> Steps] /\ saving'[s] = k
      /\ \A r \in Savers : r # s => saving'[r] = saving[r]
  BY DEF Types
<1>4. Disjoint'
  BY <1>1, <1>2 DEF Disjoint
<1>5. \A r \in Savers : /\ saving'[r] # "no" => saving[r] # "no"
                        /\ saving'[r] = "remove" => saving[r] = "remove" \/ ~Safe
  BY <1>3
<1>6. Roles'
  BY <1>1, <1>2, <1>5 DEF Roles, Savers
<1>7. QED
  BY <1>1, <1>2, <1>3, <1>4, <1>6

LEMMA SaveGetAllKeeps ==
    ASSUME PersistenceInv, NEW s \in Savers, SaveGetAll(s)
    PROVE  PersistenceInv'
<1>1. /\ saving[s] = "getall" /\ saving' = [saving EXCEPT ![s] = "create"]
      /\ copy' = [copy EXCEPT ![s] = memory]
      /\ UNCHANGED <<lifeVars, periodic, memory, unread, busy, acked>> /\ UNCHANGED <<fd, disk>>
  BY DEF SaveGetAll
<1>2. /\ UNCHANGED <<setting, phase, signalled, periodic, memory, unread, busy, acked>>
      /\ phase \notin {"down", "load", "restore"}
      /\ Disjoint' /\ Roles'
      /\ saving' \in [Savers -> Steps] /\ saving'[s] = "create"
      /\ \A r \in Savers : r # s => saving'[r] = saving[r]
  BY <1>1, SaveGoesOn DEF PersistenceInv, Steps
<1>3. /\ Counted' = Counted /\ Files' = Files
      /\ SavesAlone' = SavesAlone /\ Safe' = Safe /\ Durable' = Durable
  BY <1>1, <1>2, SameSetting DEF Durable
<1>4. /\ copy' \in [Savers -> Counted] /\ copy'[s] = memory
      /\ \A r \in Savers : r # s => copy'[r] = copy[r]
  BY <1>1 DEF PersistenceInv, Types
<1>5. Types'
  BY <1>1, <1>2, <1>3, <1>4 DEF PersistenceInv, Types
<1>6. OwnFile'
  BY <1>1, <1>2, <1>3, <1>4 DEF PersistenceInv, OwnFile, FileReadable
<1>7. Kept'
  <2>1. \A r \in Savers : r # s => (Copied(r)' <=> Copied(r)) /\ copy'[r] = copy[r]
    BY <1>2, <1>4 DEF Copied
  <2>2. \A h \in HttpHandlers : h \in Savers /\ (saving'[h] = "no" => saving[h] = "no")
    BY <1>1, <1>2 DEF Savers
  <2>3. QED
    BY <1>2, <1>3, <1>4, <2>1, <2>2 DEF PersistenceInv, Kept
<1>8. LastSave'
  <2>1. CASE s = "main"
    BY <1>2, <1>4, <2>1 DEF LastSave
  <2>2. CASE s # "main"
    BY <1>1, <1>2, <1>4, <2>2 DEF PersistenceInv, LastSave, Copied, Savers, Encodable
  <2>3. QED
    BY <2>1, <2>2
<1>9. QED
  BY <1>2, <1>5, <1>6, <1>7, <1>8 DEF PersistenceInv

LEMMA SaveCreateKeeps ==
    ASSUME PersistenceInv, NEW s \in Savers, SaveCreate(s)
    PROVE  PersistenceInv' /\ Durable' = Durable
<1>1. /\ saving[s] = "create" /\ saving' = [saving EXCEPT ![s] = "write"]
      /\ disk' = [disk EXCEPT !["tmp"] = EmptyFile]
      /\ fd' = [fd EXCEPT ![s] = "tmp"]
      /\ UNCHANGED <<lifeVars, periodic, memory, unread, busy, acked>> /\ copy' = copy
  BY DEF SaveCreate
<1>2. /\ UNCHANGED <<setting, phase, signalled, periodic, memory, unread, busy, acked>>
      /\ phase \notin {"down", "load", "restore"}
      /\ Disjoint' /\ Roles'
      /\ saving' \in [Savers -> Steps] /\ saving'[s] = "write"
      /\ \A r \in Savers : r # s => saving'[r] = saving[r]
  BY <1>1, SaveGoesOn DEF PersistenceInv, Steps
<1>3. /\ disk' \in [{"file", "tmp"} -> Files] /\ disk'["file"] = disk["file"]
      /\ fd' \in [Savers -> {"none", "tmp", "file", "unlinked"}] /\ fd'[s] = "tmp"
      /\ \A r \in Savers : r # s => fd'[r] = fd[r]
  BY <1>1 DEF PersistenceInv, Types, Files
<1>4. /\ Counted' = Counted /\ Files' = Files
      /\ SavesAlone' = SavesAlone /\ Safe' = Safe /\ Durable' = Durable
  BY <1>2, <1>3, SameSetting DEF Durable
<1>5. Types'
  BY <1>1, <1>2, <1>3, <1>4 DEF PersistenceInv, Types
<1>6. OwnFile'
  <2>1. SavesAlone => \A r \in Savers : r # s => saving[r] = "no"
    BY <1>1, OneSaver DEF PersistenceInv
  <2>2. QED
    BY <1>2, <1>3, <1>4, <2>1 DEF PersistenceInv, OwnFile, FileReadable
<1>7. Kept'
  <2>1. \A r \in Savers : Copied(r)' <=> Copied(r)
    BY <1>1, <1>2 DEF Copied
  <2>2. \A h \in HttpHandlers : h \in Savers /\ (saving'[h] = "no" => saving[h] = "no")
    BY <1>1, <1>2 DEF Savers
  <2>3. QED
    BY <1>1, <1>2, <1>4, <2>1, <2>2 DEF PersistenceInv, Kept
<1>8. LastSave'
  <2>1. phase = "final" /\ setting.sync => s = "main"
    BY <1>1, FinalSaver DEF PersistenceInv
  <2>2. QED
    BY <1>1, <1>2, <1>3, <2>1 DEF PersistenceInv, LastSave, Copied, Encodable
<1>9. QED
  BY <1>2, <1>4, <1>5, <1>6, <1>7, <1>8 DEF PersistenceInv

LEMMA SaveWriteKeeps ==
    ASSUME PersistenceInv, NEW s \in Savers, SaveWrite(s)
    PROVE  PersistenceInv' /\ (SavesAlone => Durable' = Durable)
<1>1. /\ saving[s] = "write" /\ saving' = [saving EXCEPT ![s] = "rename"]
      /\ disk' = IF fd[s] = "unlinked" THEN disk ELSE [disk EXCEPT ![fd[s]] = Saved(copy[s])]
      /\ UNCHANGED <<lifeVars, periodic, memory, unread, busy, acked>> /\ UNCHANGED <<copy, fd>>
  BY DEF SaveWrite, WriteTo
<1>2. /\ UNCHANGED <<setting, phase, signalled, periodic, memory, unread, busy, acked>>
      /\ phase \notin {"down", "load", "restore"}
      /\ Disjoint' /\ Roles'
      /\ saving' \in [Savers -> Steps] /\ saving'[s] = "rename"
      /\ \A r \in Savers : r # s => saving'[r] = saving[r]
  BY <1>1, SaveGoesOn DEF PersistenceInv, Steps
<1>3. disk \in [{"file", "tmp"} -> Files] /\ Saved(copy[s]) \in Files
  BY DEF PersistenceInv, Types, Files
<1>4. /\ disk' \in [{"file", "tmp"} -> Files]
      /\ fd[s] = "tmp" => disk'["file"] = disk["file"] /\ disk'["tmp"] = Saved(copy[s])
  BY <1>1, <1>3
<1>5. /\ Counted' = Counted /\ Files' = Files
      /\ SavesAlone' = SavesAlone /\ Safe' = Safe
  BY <1>2, SameSetting
<1>6. SavesAlone => fd[s] = "tmp"
  BY <1>1 DEF PersistenceInv, OwnFile
<1>7. SavesAlone => Durable' = Durable
  BY <1>4, <1>6 DEF Durable
<1>8. Types'
  BY <1>1, <1>2, <1>4, <1>5 DEF PersistenceInv, Types
<1>9. OwnFile'
  <2>1. SavesAlone => \A r \in Savers : r # s => saving[r] = "no"
    BY <1>1, OneSaver DEF PersistenceInv
  <2>2. QED
    BY <1>1, <1>2, <1>4, <1>5, <1>6, <2>1 DEF PersistenceInv, OwnFile, FileReadable
<1>10. Kept'
  <2>1. \A r \in Savers : Copied(r)' <=> Copied(r)
    BY <1>1, <1>2 DEF Copied
  <2>2. \A h \in HttpHandlers : h \in Savers /\ (saving'[h] = "no" => saving[h] = "no")
    BY <1>1, <1>2 DEF Savers
  <2>3. Safe => Durable' = Durable
    BY <1>7 DEF Safe
  <2>4. QED
    BY <1>1, <1>2, <1>5, <2>1, <2>2, <2>3 DEF PersistenceInv, Kept
<1>11. LastSave'
  <2>1. phase = "final" /\ setting.sync => s = "main"
    BY <1>1, FinalSaver DEF PersistenceInv
  <2>2. QED
    BY <1>1, <1>2, <1>4, <2>1 DEF PersistenceInv, LastSave, Copied, Encodable
<1>12. QED
  BY <1>2, <1>7, <1>8, <1>9, <1>10, <1>11 DEF PersistenceInv

\* Where clients send only what JSON can express, every copy can be encoded.
LEMMA CopiesEncodable ==
    ASSUME Types, AllEncodable, NEW s \in Savers
    PROVE  Encodable(copy[s])
<1>1. copy[s] \in Counted
  BY DEF Types
<1>2. \A u \in NaNUpdates : u \in Updates \ setting.updates
  BY DEF AllEncodable
<1>3. QED
  BY <1>1, <1>2 DEF Encodable, Counted

LEMMA SaveCreateFailsKeeps ==
    ASSUME PersistenceInv, NEW s \in Savers, SaveCreateFails(s)
    PROVE  PersistenceInv' /\ Durable' = Durable
<1>1. /\ saving[s] \in {"getall", "create"} /\ saving' = [saving EXCEPT ![s] = "no"]
      /\ setting.diskFails
      /\ copy' = [copy EXCEPT ![s] = NoValues]
      /\ fd' = [fd EXCEPT ![s] = "none"]
      /\ UNCHANGED <<lifeVars, periodic, memory, unread, busy, acked>> /\ disk' = disk
  BY DEF SaveCreateFails, SaveEnds
<1>2. /\ UNCHANGED <<setting, phase, signalled, periodic, memory, unread, busy, acked>>
      /\ phase \notin {"down", "load", "restore"}
      /\ Disjoint' /\ Roles'
      /\ saving' \in [Savers -> Steps] /\ saving'[s] = "no"
      /\ \A r \in Savers : r # s => saving'[r] = saving[r]
  BY <1>1, SaveGoesOn DEF PersistenceInv, Steps
<1>3. /\ Counted' = Counted /\ Files' = Files
      /\ SavesAlone' = SavesAlone /\ Safe' = Safe /\ Durable' = Durable
  BY <1>1, <1>2, SameSetting DEF Durable
<1>4. /\ copy' \in [Savers -> Counted]
      /\ fd' \in [Savers -> {"none", "tmp", "file", "unlinked"}] /\ fd'[s] = "none"
      /\ \A r \in Savers : r # s => fd'[r] = fd[r]
  BY <1>1, NoValuesCounted DEF PersistenceInv, Types
<1>5. Types'
  BY <1>1, <1>2, <1>3, <1>4 DEF PersistenceInv, Types
<1>6. OwnFile'
  <2>1. SavesAlone => \A r \in Savers : r # s => saving[r] = "no"
    BY <1>1, OneSaver DEF PersistenceInv
  <2>2. QED
    BY <1>1, <1>2, <1>3, <1>4, <2>1 DEF PersistenceInv, OwnFile, FileReadable
<1>7. Kept' /\ LastSave'
  BY <1>1, <1>2, <1>3 DEF Kept, LastSave, Safe
<1>8. QED
  BY <1>2, <1>3, <1>5, <1>6, <1>7 DEF PersistenceInv

\* A save that has failed goes on to the removal, its temporary file still open.
LEMMA GivesUpKeeps ==
    ASSUME PersistenceInv, NEW s \in Savers, saving[s] \in {"write", "rename"},
           SaveGivesUp(s), ~Safe,
           disk' \in [{"file", "tmp"} -> Files],
           SavesAlone => disk'["file"] = disk["file"],
           phase = "final" /\ setting.sync /\ ~setting.diskFails /\ Encodable(memory)
               => s # "main"
    PROVE  PersistenceInv' /\ (SavesAlone => Durable' = Durable)
<1>1. /\ saving' = [saving EXCEPT ![s] = "remove"]
      /\ copy' = [copy EXCEPT ![s] = NoValues]
      /\ UNCHANGED <<lifeVars, periodic, memory, unread, busy, acked>> /\ fd' = fd
  BY DEF SaveGivesUp
<1>2. /\ UNCHANGED <<setting, phase, signalled, periodic, memory, unread, busy, acked>>
      /\ phase \notin {"down", "load", "restore"}
      /\ Disjoint' /\ Roles'
      /\ saving' \in [Savers -> Steps] /\ saving'[s] = "remove"
      /\ \A r \in Savers : r # s => saving'[r] = saving[r]
  BY <1>1, SaveGoesOn DEF PersistenceInv, Steps
<1>3. /\ Counted' = Counted /\ Files' = Files
      /\ SavesAlone' = SavesAlone /\ Safe' = Safe
  BY <1>2, SameSetting
<1>4. SavesAlone => Durable' = Durable
  BY DEF Durable
<1>5. copy' \in [Savers -> Counted]
  BY <1>1, NoValuesCounted DEF PersistenceInv, Types
<1>6. Types'
  BY <1>1, <1>2, <1>3, <1>5 DEF PersistenceInv, Types
<1>7. OwnFile'
  <2>1. SavesAlone => \A r \in Savers : r # s => saving[r] = "no"
    BY OneSaver DEF PersistenceInv
  <2>2. QED
    BY <1>1, <1>2, <1>3, <2>1 DEF PersistenceInv, OwnFile, FileReadable
<1>8. Kept'
  BY <1>3 DEF Kept
<1>9. LastSave'
  <2>1. phase = "final" /\ setting.sync => s = "main"
    BY FinalSaver DEF PersistenceInv
  <2>2. QED
    BY <1>2, <2>1 DEF LastSave, Encodable
<1>10. QED
  BY <1>2, <1>4, <1>6, <1>7, <1>8, <1>9 DEF PersistenceInv

LEMMA SaveWriteFailsKeeps ==
    ASSUME PersistenceInv, NEW s \in Savers, SaveWriteFails(s)
    PROVE  PersistenceInv' /\ (SavesAlone => Durable' = Durable)
<1>1. /\ saving[s] = "write" /\ SaveGivesUp(s)
      /\ ~Encodable(copy[s]) \/ setting.diskFails
      /\ \/ disk' = disk
         \/ disk' = [disk EXCEPT ![fd[s]] = TornFile]
  BY DEF SaveWriteFails, WriteFails, WriteTo
<1>2. disk \in [{"file", "tmp"} -> Files] /\ TornFile \in Files
  BY DEF PersistenceInv, Types, Files
<1>3. disk' \in [{"file", "tmp"} -> Files]
  BY <1>1, <1>2
<1>4. SavesAlone => disk'["file"] = disk["file"]
  <2>1. SavesAlone => fd[s] = "tmp"
    BY <1>1 DEF PersistenceInv, OwnFile
  <2>2. QED
    BY <1>1, <1>2, <2>1
<1>5. ~Safe
  BY <1>1, CopiesEncodable DEF PersistenceInv, Safe
<1>6. ASSUME phase = "final", setting.sync, ~setting.diskFails, Encodable(memory), s = "main"
      PROVE  FALSE
  <2>1. copy["main"] = memory
    BY <1>1, <1>6 DEF PersistenceInv, LastSave, Copied
  <2>2. QED
    BY <1>1, <1>6, <2>1
<1>7. QED
  BY <1>1, <1>3, <1>4, <1>5, <1>6, GivesUpKeeps

LEMMA SaveRenameKeeps ==
    ASSUME PersistenceInv, NEW s \in Savers, SaveRename(s)
    PROVE  PersistenceInv' /\ (SavesAlone => Durable' = copy[s])
<1>1. /\ saving[s] = "rename" /\ saving' = [saving EXCEPT ![s] = "no"]
      /\ copy' = [copy EXCEPT ![s] = NoValues]
      /\ UNCHANGED <<lifeVars, periodic, memory, unread, busy, acked>>
      /\ disk' = [file |-> disk["tmp"], tmp |-> Absent]
  BY DEF SaveRename, SaveEnds
<1>2. fd' = [[r \in Savers |-> CASE fd[r] = "tmp" -> "file"
                                 [] fd[r] = "file" -> "unlinked"
                                 [] OTHER -> fd[r]] EXCEPT ![s] = "none"]
  BY DEF SaveRename, SaveEnds
<1>3. /\ UNCHANGED <<setting, phase, signalled, periodic, memory, unread, busy, acked>>
      /\ phase \notin {"down", "load", "restore"}
      /\ Disjoint' /\ Roles'
      /\ saving' \in [Savers -> Steps] /\ saving'[s] = "no"
      /\ \A r \in Savers : r # s => saving'[r] = saving[r]
  BY <1>1, SaveGoesOn DEF PersistenceInv, Steps
<1>4. /\ disk' \in [{"file", "tmp"} -> Files] /\ disk'["file"] = disk["tmp"]
      /\ disk["tmp"] \in Files
  BY <1>1 DEF PersistenceInv, Types, Files
<1>5. /\ copy' \in [Savers -> Counted]
      /\ \A r \in Savers : r # s => copy'[r] = copy[r]
  BY <1>1, NoValuesCounted DEF PersistenceInv, Types
<1>6. /\ fd' \in [Savers -> {"none", "tmp", "file", "unlinked"}] /\ fd'[s] = "none"
      /\ \A r \in Savers : r # s /\ fd[r] = "none" => fd'[r] = "none"
  BY <1>2 DEF PersistenceInv, Types
<1>7. /\ Counted' = Counted /\ Files' = Files
      /\ SavesAlone' = SavesAlone /\ Safe' = Safe
  BY <1>3, SameSetting
<1>8. SavesAlone => disk'["file"] = Saved(copy[s])
  BY <1>1, <1>4 DEF PersistenceInv, OwnFile
<1>9. SavesAlone => Durable' = copy[s] /\ FileReadable'
  BY <1>8, SavedDiffers DEF Durable, FileReadable
<1>10. Types'
  BY <1>3, <1>4, <1>5, <1>6, <1>7 DEF PersistenceInv, Types
<1>11. OwnFile'
  <2>1. SavesAlone => \A r \in Savers : r # s => saving[r] = "no"
    BY <1>1, OneSaver DEF PersistenceInv
  <2>2. QED
    BY <1>3, <1>6, <1>7, <1>9, <2>1 DEF PersistenceInv, OwnFile
<1>12. Kept'
  <2> SUFFICES ASSUME Safe, NEW w \in Durables
               PROVE  /\ w \in acked =>
                            /\ Durable'[w] = 1 /\ memory[w] = 1
                            /\ \A r \in Savers : Copied(r)' => copy'[r][w] = 1
                      /\ \A h \in HttpHandlers : busy[h] = w =>
                            /\ memory[w] = 1
                            /\ saving'[h] = "no" => Durable'[w] = 1
                            /\ Copied(h)' => copy'[h][w] = 1
    BY <1>3, <1>7 DEF Kept
  <2>1. Copied(s) /\ \A r \in Savers : Copied(r)' => r # s /\ Copied(r)
    BY <1>1, <1>3 DEF Copied
  <2>2. Durable' = copy[s]
    BY <1>9 DEF Safe
  <2>3. ASSUME w \in acked
        PROVE  /\ Durable'[w] = 1 /\ memory[w] = 1
               /\ \A r \in Savers : Copied(r)' => copy'[r][w] = 1
    BY <1>3, <1>5, <2>1, <2>2, <2>3 DEF PersistenceInv, Kept
  <2>4. ASSUME NEW h \in HttpHandlers, busy[h] = w
        PROVE  /\ memory[w] = 1 /\ Durable'[w] = 1 /\ ~Copied(h)'
    <3>1. busy[h] # NoUpdate
      BY <2>4 DEF Durables
    <3>2. s = h
      BY <1>1, <3>1, BusySaver DEF PersistenceInv, Safe
    <3>3. memory[w] = 1 /\ copy[h][w] = 1
      BY <2>1, <2>4, <3>2 DEF PersistenceInv, Kept
    <3>4. QED
      BY <2>1, <2>2, <3>2, <3>3 DEF Savers
  <2>5. QED
    BY <2>3, <2>4
<1>13. LastSave'
  <2>1. phase = "final" /\ setting.sync => s = "main"
    BY <1>1, FinalSaver DEF PersistenceInv
  <2>2. QED
    BY <1>1, <1>3, <1>4, <2>1 DEF PersistenceInv, LastSave, Copied, Encodable
<1>14. QED
  BY <1>3, <1>9, <1>10, <1>11, <1>12, <1>13 DEF PersistenceInv

LEMMA SaveRenameFailsKeeps ==
    ASSUME PersistenceInv, NEW s \in Savers, SaveRenameFails(s)
    PROVE  PersistenceInv' /\ Durable' = Durable
<1>1. /\ saving[s] = "rename" /\ SaveGivesUp(s) /\ disk' = disk
      /\ disk["tmp"] = Absent \/ setting.diskFails
  BY DEF SaveRenameFails
<1>2. ~Safe
  BY <1>1, SavedDiffers DEF PersistenceInv, OwnFile, Safe
<1>3. disk' \in [{"file", "tmp"} -> Files]
  BY <1>1 DEF PersistenceInv, Types
<1>4. ASSUME phase = "final", setting.sync, ~setting.diskFails, Encodable(memory), s = "main"
      PROVE  FALSE
  BY <1>1, <1>4, SavedDiffers DEF PersistenceInv, LastSave
<1>5. QED
  BY <1>1, <1>2, <1>3, <1>4, GivesUpKeeps DEF Durable

LEMMA SaveRemoveKeeps ==
    ASSUME PersistenceInv, NEW s \in Savers, SaveRemove(s)
    PROVE  PersistenceInv' /\ Durable' = Durable
<1>1. /\ saving[s] = "remove" /\ saving' = [saving EXCEPT ![s] = "no"]
      /\ disk' = disk \/ disk' = [disk EXCEPT !["tmp"] = Absent]
      /\ copy' = [copy EXCEPT ![s] = NoValues]
      /\ UNCHANGED <<lifeVars, periodic, memory, unread, busy, acked>>
  BY DEF SaveRemove, SaveEnds
<1>2. \/ fd' = [fd EXCEPT ![s] = "none"]
      \/ fd' = [[r \in Savers |-> IF fd[r] = "tmp" THEN "unlinked" ELSE fd[r]]
                    EXCEPT ![s] = "none"]
  BY DEF SaveRemove, SaveEnds
<1>3. /\ UNCHANGED <<setting, phase, signalled, periodic, memory, unread, busy, acked>>
      /\ phase \notin {"down", "load", "restore"}
      /\ Disjoint' /\ Roles'
      /\ saving' \in [Savers -> Steps] /\ saving'[s] = "no"
      /\ \A r \in Savers : r # s => saving'[r] = saving[r]
  BY <1>1, SaveGoesOn DEF PersistenceInv, Steps
<1>4. disk' \in [{"file", "tmp"} -> Files] /\ disk'["file"] = disk["file"]
  BY <1>1 DEF PersistenceInv, Types, Files
<1>5. /\ Counted' = Counted /\ Files' = Files
      /\ SavesAlone' = SavesAlone /\ Safe' = Safe /\ Durable' = Durable
  BY <1>3, <1>4, SameSetting DEF Durable
<1>6. /\ copy' \in [Savers -> Counted]
      /\ fd' \in [Savers -> {"none", "tmp", "file", "unlinked"}] /\ fd'[s] = "none"
      /\ \A r \in Savers : r # s /\ fd[r] = "none" => fd'[r] = "none"
  BY <1>1, <1>2, NoValuesCounted DEF PersistenceInv, Types
<1>7. Types'
  BY <1>3, <1>4, <1>5, <1>6 DEF PersistenceInv, Types
<1>8. OwnFile'
  <2>1. SavesAlone => \A r \in Savers : r # s => saving[r] = "no"
    BY <1>1, OneSaver DEF PersistenceInv
  <2>2. QED
    BY <1>3, <1>4, <1>5, <1>6, <2>1 DEF PersistenceInv, OwnFile, FileReadable
<1>9. Kept'
  <2>1. ~Safe
    BY <1>1 DEF PersistenceInv, Roles
  <2>2. QED
    BY <1>5, <2>1 DEF Kept
<1>10. LastSave'
  <2>1. phase = "final" /\ setting.sync => s = "main"
    BY <1>1, FinalSaver DEF PersistenceInv
  <2>2. QED
    BY <1>1, <1>3, <2>1 DEF PersistenceInv, LastSave, Encodable
<1>11. QED
  BY <1>3, <1>5, <1>7, <1>8, <1>9, <1>10 DEF PersistenceInv

-----------------------------------------------------------------------------
(* The specification.                                                       *)

LEMMA InitPersistence == Init => PersistenceInv
<1> SUFFICES ASSUME Init
             PROVE  PersistenceInv
  OBVIOUS
<1>1. Types
  BY NoValuesCounted DEF Init, Types, Phases, Steps, Files
<1>2. Disjoint /\ Roles /\ LastSave
  BY DEF Init, Disjoint, Roles, LastSave, Savers
<1>3. OwnFile
  BY SavedDiffers DEF Init, OwnFile, FileReadable
<1>4. Kept
  BY DEF Init, Kept, Durables
<1>5. QED
  BY <1>1, <1>2, <1>3, <1>4 DEF PersistenceInv

LEMMA StepKeepsPersistence ==
    ASSUME PersistenceInv, [Next]_vars
    PROVE  PersistenceInv'
<1>1. CASE Boot \/ Signal \/ BeginShutdown \/ ShutdownDone \/ PeriodicStop \/ UNCHANGED vars
  BY <1>1, MainKeeps
<1>2. CASE LoadFromFile \/ RestoreNext \/ StartServing
  BY <1>2, LoadKeeps, RestoreKeeps, StartServingKeeps
<1>3. CASE PeriodicTick \/ FinalSave
  BY <1>3, BeginKeeps
<1>4. CASE Exit \/ ShutdownTimeout \/ Crash
  <2>1. PICK how \in {"clean", "killed"} : Halt(how)
    BY <1>4 DEF Exit, ShutdownTimeout, Crash
  <2>2. QED
    BY <2>1, HaltKeeps
<1>5. ASSUME NEW h \in HttpHandlers, NEW u \in Updates, HttpUpdate(h, u)
      PROVE  PersistenceInv'
  BY <1>5, HttpUpdateKeeps
<1>6. ASSUME NEW h \in HttpHandlers, HttpRespond(h)
      PROVE  PersistenceInv'
  BY <1>6, HttpRespondKeeps
<1>7. ASSUME NEW u \in Updates, GrpcUpdate(u)
      PROVE  PersistenceInv'
  BY <1>7, GrpcUpdateKeeps
<1>8. ASSUME NEW s \in Savers, SaveStep(s)
      PROVE  PersistenceInv'
  BY <1>8, SaveGetAllKeeps, SaveCreateKeeps, SaveCreateFailsKeeps, SaveWriteKeeps,
     SaveWriteFailsKeeps, SaveRenameKeeps, SaveRenameFailsKeeps, SaveRemoveKeeps DEF SaveStep
<1>9. QED
  BY <1>1, <1>2, <1>3, <1>4, <1>5, <1>6, <1>7, <1>8 DEF Next, Terminated

LEMMA SpecKeepsPersistence == Spec => []PersistenceInv
<1>1. Init => PersistenceInv
  BY InitPersistence
<1>2. PersistenceInv /\ [Next]_vars => PersistenceInv'
  BY StepKeepsPersistence
<1>3. QED
  BY <1>1, <1>2, PTL DEF Spec

-----------------------------------------------------------------------------
(* The safety properties.                                                   *)

\* Neither memory nor the file counts an update twice, whatever saves overlap and
\* wherever the process is killed.
THEOREM NothingCountedTwice == Spec => []CountedOnce
<1>1. PersistenceInv => CountedOnce
  <2> SUFFICES ASSUME PersistenceInv, NEW u \in Updates
               PROVE  memory[u] <= 1 /\ Durable[u] <= 1
    BY DEF CountedOnce
  <2>1. memory[u] \in {0, 1} /\ Durable[u] \in {0, 1}
    BY DurableCounted DEF PersistenceInv, Types, Counted
  <2>2. QED
    BY <2>1
<1>2. QED
  BY <1>1, SpecKeepsPersistence, PTL

\* Where no two saves overlap the file can be read at every moment.
THEOREM ReadableAlone == Spec => []FileReadableAlone
<1>1. PersistenceInv => FileReadableAlone
  BY DEF PersistenceInv, OwnFile, FileReadableAlone
<1>2. QED
  BY <1>1, SpecKeepsPersistence, PTL

\* With synchronous saving, on a disk that works and with values JSON can express,
\* what /update has acknowledged is in the file for ever.
THEOREM AckedStays == Spec => []AckedDurable
<1>1. PersistenceInv => AckedDurable
  <2> SUFFICES ASSUME PersistenceInv, Safe, NEW u \in acked, u \notin GaugeUpdates,
                      u \notin GrpcUpdates, u \notin BatchUpdates
               PROVE  Durable[u] = 1
    BY DEF AckedDurable, Safe
  <2>1. u \in Durables
    BY DEF PersistenceInv, Types, Durables
  <2>2. QED
    BY <2>1 DEF PersistenceInv, Kept
<1>2. QED
  BY <1>1, SpecKeepsPersistence, PTL

\* The steps that write neither the memory nor the file.
LEMMA MemoryGrows ==
    ASSUME PersistenceInv, [Next]_vars, phase' # "down", NEW w \in CounterUpdates
    PROVE  memory'[w] >= memory[w]
<1>1. CASE memory' = memory
  <2>1. PICK n \in {0, 1} : n = memory[w]
    BY DEF PersistenceInv, Types, Counted, CounterUpdates
  <2>2. n >= n
    BY <2>1
  <2>3. QED
    BY <1>1, <2>1, <2>2
<1>2. CASE RestoreNext
  BY <1>2, RestoreKeeps
<1>3. ASSUME NEW h \in HttpHandlers, NEW u \in Updates, HttpUpdate(h, u)
      PROVE  memory'[w] >= memory[w]
  BY <1>3, HttpUpdateKeeps
<1>4. ASSUME NEW u \in Updates, GrpcUpdate(u)
      PROVE  memory'[w] >= memory[w]
  BY <1>4, GrpcUpdateKeeps
<1>5. CASE Exit \/ ShutdownTimeout \/ Crash
  BY <1>5 DEF Exit, ShutdownTimeout, Crash, Halt
<1>6. ASSUME NEW s \in Savers, SaveStep(s)
      PROVE  memory' = memory
  BY <1>6 DEF SaveStep, SaveGetAll, SaveCreate, SaveCreateFails, SaveWrite, SaveWriteFails,
              SaveGivesUp, SaveRename, SaveRenameFails, SaveRemove
<1>7. ASSUME NEW h \in HttpHandlers, HttpRespond(h)
      PROVE  memory' = memory
  BY <1>7 DEF HttpRespond
<1>8. CASE Boot \/ LoadFromFile \/ StartServing \/ Signal \/ BeginShutdown \/ ShutdownDone
           \/ FinalSave \/ PeriodicTick \/ PeriodicStop \/ UNCHANGED vars
  <2>1. memory' = memory
    BY <1>8 DEF Boot, LoadFromFile, StartServing, Signal, BeginShutdown, ShutdownDone, FinalSave, MainGoes,
                PeriodicTick, PeriodicStop, vars
  <2>2. QED
    BY <1>1, <2>1
<1>9. QED
  BY <1>1, <1>2, <1>3, <1>4, <1>5, <1>6, <1>7, <1>8 DEF Next, Terminated

\* While the process runs no step takes a counter update out of memory, the load of
\* the file behind the first gRPC calls included.
THEOREM CountersGrow == Spec => CountersOnlyGrow
<1>1. PersistenceInv /\ [Next]_vars
          => [phase' # "down" => \A u \in CounterUpdates : memory'[u] >= memory[u]]_vars
  BY MemoryGrows
<1>2. QED
  BY <1>1, SpecKeepsPersistence, PTL DEF Spec, CountersOnlyGrow

\* A graceful exit with synchronous saving leaves the memory in the file, however
\* many handlers saved over one another before.
THEOREM GracefulSaves == Spec => GracefulExitSaves
<1>1. PersistenceInv /\ [Next]_vars
          => [Exit /\ setting.sync /\ ~setting.diskFails /\ Encodable(memory)
                 => Durable = memory]_vars
  <2> SUFFICES ASSUME PersistenceInv, Exit, setting.sync, ~setting.diskFails,
                      Encodable(memory)
               PROVE  Durable = memory
    OBVIOUS
  <2>1. disk["file"] = Saved(memory)
    BY DEF Exit, PersistenceInv, LastSave
  <2>2. QED
    BY <2>1, SavedDiffers DEF Durable
<1>2. QED
  BY <1>1, SpecKeepsPersistence, PTL DEF Spec, GracefulExitSaves

-----------------------------------------------------------------------------
(* Saving and restoring implement the atomic checkpoint.                    *)

Copies == {copy[s] : s \in {r \in Savers :
                SavesAlone /\ saving[r] \in {"create", "write", "rename"}}}

LEMMA SameValues ==
    /\ Checkpoint!NoValues = NoValues
    /\ \A v, u : Checkpoint!Apply(v, u) = Apply(v, u)
    /\ \A v, d : Checkpoint!Restore(v, d) = Restore(v, d)
BY DEF Checkpoint!NoValues, NoValues, Checkpoint!Apply, Apply, Checkpoint!Restore, Restore,
       Checkpoint!CounterUpdates, CounterUpdates

Up == phase \notin {"down", "load"}

\* The memory as it will be when what was read from the file is in it.
Working == Restore(memory, unread)

LEMMA WorkingMemory ==
    ASSUME PersistenceInv, phase # "restore"
    PROVE  Working = memory
BY RestoreNothing DEF PersistenceInv, Types, Disjoint, Working

LEMMA WorkingMemoryNext ==
    ASSUME PersistenceInv', phase' # "restore", setting' = setting
    PROVE  Working' = memory'
<1>1. memory' \in Counted /\ unread' = NoValues
  BY SameSetting DEF PersistenceInv, Types, Disjoint
<1>2. QED
  BY <1>1, RestoreNothing DEF Working

\* The steps of the checkpoint, in terms of the variables of this module.
LEMMA CheckpointUpdate ==
    ASSUME SavesAlone, SavesAlone', NEW u \in Updates, Working' = Apply(Working, u),
           Copies' = Copies, Durable' = Durable, phase' = phase
    PROVE  Checkpoint!Update
BY SameValues DEF Working, Copies, Checkpoint!Update

LEMMA CheckpointCopy ==
    ASSUME SavesAlone, SavesAlone', Up, Up', Working' = Working,
           Copies' = Copies \union {Working}, Durable' = Durable
    PROVE  Checkpoint!Copy
BY DEF Working, Copies, Up, Checkpoint!Copy

LEMMA CheckpointSave ==
    ASSUME SavesAlone, SavesAlone', Up, Up', Working' = Working,
           Copies' \subseteq Copies, Durable' \in Copies
    PROVE  Checkpoint!Save
BY DEF Working, Copies, Up, Checkpoint!Save

LEMMA CheckpointGiveUp ==
    ASSUME SavesAlone, SavesAlone', Up, Up', Working' = Working,
           Copies' \subseteq Copies, Durable' = Durable
    PROVE  Checkpoint!GiveUp
BY DEF Working, Copies, Up, Checkpoint!GiveUp

LEMMA CheckpointContinue ==
    ASSUME SavesAlone, SavesAlone', ~Up, Up', Working' = Restore(Working, Durable),
           Copies' = Copies, Durable' = Durable
    PROVE  Checkpoint!Continue
BY SameValues DEF Working, Copies, Up, Checkpoint!Continue

LEMMA CheckpointStop ==
    ASSUME SavesAlone, SavesAlone', ~Up', Working' = NoValues,
           Copies' = {}, Durable' = Durable
    PROVE  Checkpoint!Stop
BY SameValues DEF Working, Copies, Up, Checkpoint!Stop

LEMMA CheckpointStutter ==
    ASSUME \/ /\ SavesAlone /\ SavesAlone' /\ Working' = Working
              /\ Copies' = Copies /\ Durable' = Durable /\ (Up' <=> Up)
           \/ ~SavesAlone /\ ~SavesAlone'
    PROVE  UNCHANGED Checkpoint!vars
<1>1. CASE SavesAlone
  BY <1>1 DEF Working, Copies, Up, Checkpoint!vars
<1>2. CASE ~SavesAlone
  BY <1>2 DEF Checkpoint!vars
<1>3. QED
  BY <1>1, <1>2

\* Steps that leave the savers, the memory and the file as they are.
LEMMA StillStutters ==
    ASSUME UNCHANGED <<setting, memory, unread, saving, copy>>, Durable' = Durable, Up' <=> Up
    PROVE  UNCHANGED Checkpoint!vars
<1>1. SavesAlone' = SavesAlone
  BY SameSetting
<1>2. Copies' = Copies
  BY <1>1 DEF Copies
<1>3. Working' = Working
  BY DEF Working
<1>4. QED
  BY <1>1, <1>2, <1>3, CheckpointStutter

LEMMA UpdateImplements ==
    ASSUME PersistenceInv, PersistenceInv', SavesAlone, NEW u \in Updates,
           GrpcUpdate(u) \/ \E h \in HttpHandlers : HttpUpdate(h, u)
    PROVE  Checkpoint!Update \/ UNCHANGED Checkpoint!vars
<1>1. /\ memory' = Apply(memory, u)
      /\ UNCHANGED <<setting, phase, unread, copy, disk>>
  BY DEF GrpcUpdate, HttpUpdate, lifeVars, saveVars
<1>2. SavesAlone' /\ Durable' = Durable
  BY <1>1, SameSetting DEF Durable
<1>3. \A r \in Savers : Copied(r)' <=> Copied(r)
  <2>1. CASE saving' = saving
    BY <2>1 DEF Copied
  <2>2. ASSUME NEW h \in HttpHandlers, HttpUpdate(h, u), saving' # saving
        PROVE  \A r \in Savers : Copied(r)' <=> Copied(r)
    <3>1. saving' = [saving EXCEPT ![h] = "getall"] /\ busy[h] = NoUpdate
      BY <2>2 DEF HttpUpdate
    <3>2. saving[h] = "no"
      BY <3>1 DEF PersistenceInv, Roles
    <3>3. QED
      BY <3>1, <3>2 DEF PersistenceInv, Types, Copied
  <2>3. QED
    BY <2>1, <2>2 DEF GrpcUpdate, saveVars
<1>4. Copies' = Copies
  BY <1>1, <1>2, <1>3 DEF Copies, Copied
<1>5. memory \in Counted /\ unread \in Counted
  BY DEF PersistenceInv, Types
<1>6. Working' = Apply(Working, u) \/ Working' = Working
  BY <1>1, <1>5, RestoreBehind DEF Working
<1>7. CASE Working' = Apply(Working, u)
  BY <1>1, <1>2, <1>4, <1>7, CheckpointUpdate
<1>8. CASE Working' = Working
  BY <1>1, <1>2, <1>4, <1>8, CheckpointStutter DEF Up
<1>9. QED
  BY <1>6, <1>7, <1>8

LEMMA SaveImplements ==
    ASSUME PersistenceInv, SavesAlone, NEW s \in Savers, SaveStep(s)
    PROVE  Checkpoint!Next \/ UNCHANGED Checkpoint!vars
<1>1. /\ UNCHANGED <<setting, phase, memory, unread>>
      /\ saving \in [Savers -> Steps] /\ copy \in [Savers -> Counted]
  BY DEF SaveStep, SaveGetAll, SaveCreate, SaveCreateFails, SaveWrite, SaveWriteFails,
         SaveGivesUp, SaveRename, SaveRenameFails, SaveRemove, lifeVars, PersistenceInv, Types
<1>2. saving[s] # "no"
  BY DEF SaveStep, SaveGetAll, SaveCreate, SaveCreateFails, SaveWrite, SaveWriteFails,
         WriteFails, SaveRename, SaveRenameFails, SaveRemove
<1>3. Up /\ Up' /\ SavesAlone' /\ Working' = Working /\ Working = memory
  BY <1>1, <1>2, SaverUp, SameSetting, WorkingMemory DEF PersistenceInv, Up, Working
<1>4. CASE SaveGetAll(s)
  <2>1. /\ saving[s] = "getall" /\ saving' = [saving EXCEPT ![s] = "create"]
        /\ copy' = [copy EXCEPT ![s] = memory] /\ disk' = disk
    BY <1>4 DEF SaveGetAll
  <2>2. \A r \in Savers : r # s => (Copied(r)' <=> Copied(r)) /\ copy'[r] = copy[r]
    BY <1>1, <2>1 DEF Copied
  <2>3. Copied(s)' /\ copy'[s] = memory /\ ~Copied(s)
    BY <1>1, <2>1 DEF Copied
  <2>4. Copies' = Copies \union {memory}
    <3>1. Copies = {copy[r] : r \in {q \in Savers : Copied(q)}}
          /\ Copies' = {copy'[r] : r \in {q \in Savers : Copied(q)'}}
      BY <1>3 DEF Copies, Copied
    <3>2. ASSUME NEW x
          PROVE  x \in Copies' <=> x \in Copies \/ x = memory
      BY <2>2, <2>3, <3>1
    <3>3. QED
      BY <3>2
  <2>5. Durable' = Durable
    BY <2>1 DEF Durable
  <2>6. QED
    BY <1>3, <2>4, <2>5, CheckpointCopy DEF Checkpoint!Next
<1>5. CASE SaveCreate(s) \/ SaveWrite(s)
  <2>1. /\ saving[s] \in {"create", "write"} /\ copy' = copy
        /\ \/ saving' = [saving EXCEPT ![s] = "write"]
           \/ saving' = [saving EXCEPT ![s] = "rename"]
    BY <1>5 DEF SaveCreate, SaveWrite
  <2>2. \A r \in Savers : Copied(r)' <=> Copied(r)
    BY <1>1, <2>1 DEF Copied
  <2>3. Copies' = Copies
    BY <1>3, <2>1, <2>2 DEF Copies, Copied
  <2>4. Durable' = Durable
    BY <1>5, SaveCreateKeeps, SaveWriteKeeps
  <2>5. QED
    BY <1>1, <1>3, <2>3, <2>4, CheckpointStutter
<1>6. CASE \/ SaveCreateFails(s) \/ SaveWriteFails(s)
           \/ SaveRename(s) \/ SaveRenameFails(s) \/ SaveRemove(s)
  <2>1. /\ copy' = [copy EXCEPT ![s] = NoValues]
        /\ \/ saving' = [saving EXCEPT ![s] = "no"]
           \/ saving' = [saving EXCEPT ![s] = "remove"]
    BY <1>6 DEF SaveCreateFails, SaveWriteFails, SaveGivesUp, SaveRename, SaveRenameFails,
                SaveRemove, SaveEnds
  <2>2. \A r \in Savers : Copied(r)' => Copied(r) /\ copy'[r] = copy[r]
    BY <1>1, <2>1 DEF Copied
  <2>3. Copies' \subseteq Copies
    <3>1. Copies = {copy[r] : r \in {q \in Savers : Copied(q)}}
          /\ Copies' = {copy'[r] : r \in {q \in Savers : Copied(q)'}}
      BY <1>3 DEF Copies, Copied
    <3>2. QED
      BY <2>2, <3>1
  <2>4. CASE ~SaveRename(s)
    <3>1. Durable' = Durable
      BY <1>6, <2>4, SaveCreateFailsKeeps, SaveWriteFailsKeeps, SaveRenameFailsKeeps,
         SaveRemoveKeeps
    <3>2. QED
      BY <1>3, <2>3, <3>1, CheckpointGiveUp DEF Checkpoint!Next
  <2>5. CASE SaveRename(s)
    <3>1. Durable' = copy[s]
      BY <2>5, SaveRenameKeeps
    <3>2. copy[s] \in Copies
      BY <2>5 DEF SaveRename, Copies
    <3>3. QED
      BY <1>3, <2>3, <3>1, <3>2, CheckpointSave DEF Checkpoint!Next
  <2>6. QED
    BY <2>4, <2>5
<1>7. QED
  BY <1>4, <1>5, <1>6 DEF SaveStep

\* Every step of a server whose saves do not overlap is a step of the checkpoint.
LEMMA StepImplements ==
    ASSUME PersistenceInv, [Next]_vars
    PROVE  [Checkpoint!Next]_(Checkpoint!vars)
<1>1. setting' = setting
  BY DEF Next, Boot, LoadFromFile, RestoreNext, StartServing, HttpUpdate, HttpRespond,
         GrpcUpdate, SaveStep, SaveGetAll, SaveCreate, SaveCreateFails, SaveWrite,
         SaveWriteFails, SaveGivesUp, SaveRename, SaveRenameFails, SaveRemove, PeriodicTick,
         PeriodicStop, Signal, BeginShutdown, ShutdownDone, FinalSave, MainGoes, Exit,
         ShutdownTimeout, Crash, Halt, Terminated, vars, lifeVars
<1>2. SavesAlone' = SavesAlone
  BY <1>1, SameSetting
<1>3. CASE ~SavesAlone
  BY <1>2, <1>3, CheckpointStutter
<1>4. CASE SavesAlone
  <2>1. PersistenceInv'
    BY StepKeepsPersistence
  <2>2. ASSUME Boot \/ StartServing \/ Signal \/ BeginShutdown \/ ShutdownDone \/ PeriodicStop
               \/ UNCHANGED vars \/ \E h \in HttpHandlers : HttpRespond(h)
        PROVE  UNCHANGED Checkpoint!vars
    <3>1. UNCHANGED <<memory, unread, saving, copy, disk>>
      BY <2>2 DEF Boot, StartServing, Signal, BeginShutdown, ShutdownDone, MainGoes,
                  PeriodicStop, HttpRespond, vars, saveVars
    <3>2. Up' <=> Up
      BY <2>2 DEF Boot, StartServing, Signal, BeginShutdown, ShutdownDone, MainGoes,
                  PeriodicStop, HttpRespond, vars, lifeVars, Up
    <3>3. Durable' = Durable
      BY <3>1 DEF Durable
    <3>4. QED
      BY <1>1, <3>1, <3>2, <3>3, StillStutters
  <2>3. ASSUME PeriodicTick \/ FinalSave
        PROVE  UNCHANGED Checkpoint!vars
    <3>1. /\ UNCHANGED <<memory, unread, copy, disk>>
          /\ Up /\ Up'
      BY <2>3 DEF PeriodicTick, FinalSave, MainGoes, lifeVars, PersistenceInv, Roles, Up
    <3>2. \A r \in Savers : Copied(r)' <=> Copied(r)
      <4>1. PICK q \in {"periodic", "main"} :
                saving' = [saving EXCEPT ![q] = "getall"] /\ saving[q] = "no"
        BY <2>3 DEF PeriodicTick, FinalSave, MainGoes, PersistenceInv, Roles
      <4>2. QED
        BY <4>1 DEF PersistenceInv, Types, Copied
    <3>3. Copies' = Copies
      BY <1>2, <3>1, <3>2 DEF Copies, Copied
    <3>4. Durable' = Durable /\ Working' = Working
      BY <3>1 DEF Durable, Working
    <3>5. QED
      BY <1>2, <1>4, <3>1, <3>3, <3>4, CheckpointStutter
  <2>4. ASSUME LoadFromFile
        PROVE  Checkpoint!Next
    <3>1. /\ phase = "load" /\ ~Up /\ Up' /\ unread' = Durable
          /\ UNCHANGED <<memory, saving, copy, disk>>
      BY <2>4 DEF LoadFromFile, saveVars, Up
    <3>2. Working = memory
      BY <3>1, WorkingMemory
    <3>3. Working' = Restore(Working, Durable) /\ Durable' = Durable
      BY <3>1, <3>2 DEF Working, Durable
    <3>4. Copies' = Copies
      BY <1>2, <3>1 DEF Copies
    <3>5. QED
      BY <1>2, <1>4, <3>1, <3>3, <3>4, CheckpointContinue DEF Checkpoint!Next
  <2>5. ASSUME RestoreNext
        PROVE  UNCHANGED Checkpoint!vars
    <3>1. Working' = Working
      BY <2>5, RestoreKeeps DEF Working
    <3>2. UNCHANGED <<phase, saving, copy, disk>>
      BY <2>5 DEF RestoreNext, lifeVars, saveVars
    <3>3. Copies' = Copies /\ Durable' = Durable /\ (Up' <=> Up)
      BY <1>2, <3>2 DEF Copies, Durable, Up
    <3>4. QED
      BY <1>2, <1>4, <3>1, <3>3, CheckpointStutter
  <2>6. ASSUME Exit \/ ShutdownTimeout \/ Crash
        PROVE  Checkpoint!Next
    <3>1. /\ phase' = "down" /\ memory' = NoValues /\ disk' = disk
          /\ saving' = [s \in Savers |-> "no"]
      BY <2>6 DEF Exit, ShutdownTimeout, Crash, Halt
    <3>2. Copies' = {} /\ ~Up' /\ Durable' = Durable
      BY <3>1 DEF Copies, Up, Durable
    <3>3. Working' = NoValues
      BY <1>1, <2>1, <3>1, WorkingMemoryNext
    <3>4. QED
      BY <1>2, <1>4, <3>2, <3>3, CheckpointStop DEF Checkpoint!Next
  <2>7. ASSUME NEW u \in Updates, GrpcUpdate(u) \/ \E h \in HttpHandlers : HttpUpdate(h, u)
        PROVE  Checkpoint!Next \/ UNCHANGED Checkpoint!vars
    BY <1>4, <2>1, <2>7, UpdateImplements DEF Checkpoint!Next
  <2>8. ASSUME NEW s \in Savers, SaveStep(s)
        PROVE  Checkpoint!Next \/ UNCHANGED Checkpoint!vars
    BY <1>4, <2>8, SaveImplements
  <2>9. QED
    BY <2>2, <2>3, <2>4, <2>5, <2>6, <2>7, <2>8 DEF Next, Terminated
<1>5. QED
  BY <1>3, <1>4

\* Saving through a temporary file and restoring on start implement the atomic
\* checkpoint that SaveToFile's comment promises, as long as no two saves overlap.
THEOREM ImplementsCheckpoint == Spec => CheckpointSpec
<1>1. Init => Checkpoint!Init
  <2> SUFFICES ASSUME Init
               PROVE  Checkpoint!Init
    OBVIOUS
  <2>1. /\ memory = NoValues /\ Durable = NoValues /\ Copies = {}
        /\ phase = "down"
    BY SavedDiffers DEF Init, Durable, Copies
  <2>2. Working = NoValues
    BY <2>1, InitPersistence, WorkingMemory
  <2>3. QED
    BY <2>1, <2>2, SameValues DEF Checkpoint!Init, Copies, Working
<1>2. PersistenceInv /\ [Next]_vars => [Checkpoint!Next]_(Checkpoint!vars)
  BY StepImplements
<1>3. QED
  BY <1>1, <1>2, SpecKeepsPersistence, PTL DEF Spec, CheckpointSpec, Checkpoint!Spec

-----------------------------------------------------------------------------
(* Type correctness.                                                        *)

LifeTypes ==
    /\ setting \in Settings
    /\ runs \in 0..setting.runs
    /\ lastExit \in {"none", "clean", "killed"}
    /\ signalled \in BOOLEAN
    /\ periodic \in BOOLEAN

LEMMA StepKeepsLife ==
    ASSUME LifeTypes, [Next]_vars
    PROVE  LifeTypes'
<1>1. setting.runs \in Nat /\ setting.sync \in BOOLEAN
  BY DEF LifeTypes, SettingRecords
<1>2. CASE Boot
  <2>1. runs \in 0..setting.runs /\ runs < setting.runs /\ runs' = runs + 1
    BY <1>2 DEF LifeTypes, Boot
  <2>2. runs' \in 0..setting.runs
    BY <1>1, <2>1
  <2>3. UNCHANGED <<setting, lastExit, signalled, periodic>>
    BY <1>2 DEF Boot
  <2>4. QED
    BY <2>2, <2>3 DEF LifeTypes
<1>3. CASE Exit \/ ShutdownTimeout \/ Crash
  BY <1>3 DEF LifeTypes, Exit, ShutdownTimeout, Crash, Halt
<1>4. CASE LoadFromFile \/ StartServing
  BY <1>1, <1>4 DEF LifeTypes, LoadFromFile, StartServing
<1>5. CASE Signal \/ BeginShutdown \/ ShutdownDone \/ FinalSave \/ PeriodicTick
           \/ PeriodicStop \/ UNCHANGED vars
  BY <1>5 DEF LifeTypes, Signal, BeginShutdown, ShutdownDone, FinalSave, MainGoes,
              PeriodicTick, PeriodicStop, lifeVars, vars
<1>6. CASE \/ \E h \in HttpHandlers : HttpRespond(h) \/ \E u \in Updates : HttpUpdate(h, u)
           \/ \E u \in Updates : GrpcUpdate(u)
           \/ RestoreNext \/ \E s \in Savers : SaveStep(s)
  <2>1. UNCHANGED lifeVars /\ periodic' = periodic
    BY <1>6 DEF RestoreNext, HttpRespond, HttpUpdate, GrpcUpdate, SaveStep, SaveGetAll,
                SaveCreate, SaveCreateFails, SaveWrite, SaveWriteFails, SaveGivesUp,
                SaveRename, SaveRenameFails, SaveRemove
  <2>2. QED
    BY <2>1 DEF LifeTypes, lifeVars
<1>7. QED
  BY <1>2, <1>3, <1>4, <1>5, <1>6 DEF Next, Terminated

\* Every variable keeps its type, in every setting.
THEOREM PersistenceTypes == Spec => []TypeOK
<1>1. Init => LifeTypes
  <2> SUFFICES ASSUME Init
               PROVE  LifeTypes
    OBVIOUS
  <2>1. setting.runs \in Nat
    BY DEF Init, SettingRecords
  <2>2. 0 \in 0..setting.runs
    BY <2>1
  <2>3. QED
    BY <2>2 DEF Init, LifeTypes
<1>2. LifeTypes /\ [Next]_vars => LifeTypes'
  BY StepKeepsLife
<1>3. LifeTypes /\ PersistenceInv => TypeOK
  <2> SUFFICES ASSUME LifeTypes, PersistenceInv
               PROVE  TypeOK
    OBVIOUS
  <2>1. Counted \subseteq Values
    <3>1. setting.runs \in Nat \ {0}
      BY DEF LifeTypes, SettingRecords
    <3>2. {0, 1} \subseteq 0..setting.runs
      BY <3>1
    <3>3. QED
      BY <3>2 DEF Counted, Values
  <2>2. Files \subseteq Contents
    BY <2>1 DEF Files, Contents
  <2>3. QED
    BY <2>1, <2>2 DEF LifeTypes, PersistenceInv, Types, Phases, Steps, TypeOK
<1>4. QED
  BY <1>1, <1>2, <1>3, SpecKeepsPersistence, PTL DEF Spec

=============================================================================
