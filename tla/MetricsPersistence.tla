------------------------- MODULE MetricsPersistence -------------------------
(***************************************************************************)
(* How the server with the memory repository saves its metrics to a file   *)
(* and restores them (internal/service/metrics.go), inside the life of the *)
(* process (cmd/server/main.go): load on start, a save after every HTTP    *)
(* update or a periodic one, a last save on graceful shutdown, crashes.    *)
(*                                                                         *)
(* Every save writes the same temporary file and renames it.  The disk has *)
(* the two names and what they hold; an open file descriptor follows the   *)
(* file, not the name, as a rename or a removal happens under it.          *)
(*                                                                         *)
(* The operators named Bug... are plausible mistakes in the operator that  *)
(* follows them; each makes one property at the end of the module fail.    *)
(***************************************************************************)
EXTENDS MetricValues, FiniteSets

CONSTANTS
    NaNUpdates,     \* gauge updates whose value JSON cannot express
    GrpcUpdates,    \* updates that arrive over gRPC; the others over HTTP
    BatchUpdates,   \* updates posted to /updates/; the other HTTP ones to /update
    HttpHandlers,   \* goroutines serving HTTP updates
    NoUpdate,       \* what an idle handler works on
    Settings        \* how the server may be set up, and what may happen to it

\* sync: StoreInterval is 0, save after updates over HTTP.  diskFails: any call of
\* SaveToFile that touches the disk may fail.  stops: the process may be told to stop.  handlers:
\* those that serve requests at the same time.  updates: what clients may send.
\* runs: bound, how often the process is started.
SettingRecords ==
    [sync : BOOLEAN, diskFails : BOOLEAN, stops : BOOLEAN,
     handlers : SUBSET HttpHandlers, updates : SUBSET Updates, runs : Nat \ {0}]

ASSUME PersistenceAssumption ==
    /\ NaNUpdates \subseteq GaugeUpdates
    /\ IsFiniteSet(HttpHandlers)
    /\ HttpHandlers \intersect {"periodic", "main"} = {}
    /\ NoUpdate \notin Updates
    /\ GrpcUpdates \subseteq Updates
    /\ BatchUpdates \subseteq Updates \ GrpcUpdates
    /\ Settings \subseteq SettingRecords

Savers == HttpHandlers \union {"periodic", "main"}

\* What a file name leads to.
Absent == [kind |-> "absent"]
EmptyFile == [kind |-> "empty"]
TornFile == [kind |-> "torn"]
Saved(values) == [kind |-> "values", values |-> values]

VARIABLES
    setting,    \* the same in every run of the process
    phase,      \* of main
    runs,       \* how often the process was started
    lastExit,   \* how the last run ended: "none", "clean", "killed"
    signalled,  \* appCtx is done
    periodic,   \* the goroutine of StartPeriodicSaving is running
    memory,     \* the repository's values
    unread,     \* the metrics slice of LoadFromFile, what its loop has still to restore
    busy,       \* [HttpHandlers -> update], the update a handler works on
    saving,     \* [Savers -> step of SaveToFile it is about to take]
    copy,       \* [Savers -> values], the metrics slice of its SaveToFile
    fd,         \* [Savers -> where its open temporary file is now]
    disk,       \* [{"file", "tmp"} -> contents]
    acked       \* updates answered with success; survives the process

saveVars == <<saving, copy, fd>>
lifeVars == <<setting, phase, runs, lastExit, signalled>>
vars == <<lifeVars, periodic, memory, unread, busy, saveVars, disk, acked>>

Durable ==
    IF disk["file"].kind = "values" THEN disk["file"].values ELSE NoValues

\* Clients make an update once; one lost in a crash may be made again.
Used ==
    {u \in Updates :
        \/ u \in acked
        \/ \E h \in HttpHandlers : busy[h] = u
        \/ memory[u] > 0 \/ Durable[u] > 0}

\* The state of a process that is not running.
Halt(how) ==
    /\ phase' = "down"
    /\ lastExit' = how
    /\ signalled' = FALSE
    /\ periodic' = FALSE
    /\ memory' = NoValues
    /\ unread' = NoValues
    /\ busy' = [h \in HttpHandlers |-> NoUpdate]
    /\ saving' = [s \in Savers |-> "no"]
    /\ copy' = [s \in Savers |-> NoValues]
    /\ fd' = [s \in Savers |-> "none"]
    /\ UNCHANGED <<setting, runs, disk, acked>>

Init ==
    /\ setting \in Settings
    /\ phase = "down"
    /\ runs = 0
    /\ lastExit = "none"
    /\ signalled = FALSE
    /\ periodic = FALSE
    /\ memory = NoValues
    /\ unread = NoValues
    /\ busy = [h \in HttpHandlers |-> NoUpdate]
    /\ saving = [s \in Savers |-> "no"]
    /\ copy = [s \in Savers |-> NoValues]
    /\ fd = [s \in Savers |-> "none"]
    /\ disk = [file |-> Absent, tmp |-> Absent]
    /\ acked = {}

-----------------------------------------------------------------------------
(* Start-up.                                                                *)

\* main starts: the repository is empty, and the gRPC server is listening
\* before anything is loaded.
Boot ==
    /\ phase = "down"
    /\ runs < setting.runs
    /\ phase' = "load"
    /\ runs' = runs + 1
    /\ UNCHANGED <<setting, lastExit, signalled, periodic, memory, unread, busy, saveVars,
                   disk, acked>>

\* Periodic saving is started before the file is loaded.
BugLoadFromFile ==
    /\ phase = "load"
    /\ IF ~setting.sync /\ ~periodic
       THEN periodic' = TRUE /\ UNCHANGED <<phase, unread>>
       ELSE phase' = "restore" /\ unread' = Durable /\ UNCHANGED periodic
    /\ UNCHANGED <<setting, runs, lastExit, signalled, memory, busy, saveVars, disk, acked>>

\* The file is read.  One that cannot be decoded is logged and ignored.
LoadFromFile ==
    /\ phase = "load"
    /\ phase' = "restore"
    /\ unread' = Durable
    /\ UNCHANGED <<setting, runs, lastExit, signalled, periodic, memory, busy, saveVars,
                   disk, acked>>

\* The loop over the metrics: the gauge is in the file before the counter.
RestoreNext ==
    /\ phase = "restore"
    /\ unread # NoValues
    /\ LET gauge == {u \in GaugeUpdates : unread[u] > 0}
           metric == IF gauge # {} THEN gauge ELSE CounterUpdates
       IN /\ memory' = Restore(memory, [u \in Updates |-> IF u \in metric THEN unread[u] ELSE 0])
          /\ unread' = [u \in Updates |-> IF u \in metric THEN 0 ELSE unread[u]]
    /\ UNCHANGED <<lifeVars, periodic, busy, saveVars, disk, acked>>

\* The load is over: the chosen way of saving is set up, the HTTP server started.
StartServing ==
    /\ phase = "restore"
    /\ unread = NoValues
    /\ phase' = "serve"
    /\ periodic' = ~setting.sync
    /\ UNCHANGED <<setting, runs, lastExit, signalled, memory, unread, busy, saveVars, disk,
                   acked>>

-----------------------------------------------------------------------------
(* Updates.                                                                 *)

\* The middleware saves after a request to /update or below it, which /updates/
\* is not.
SavedAtOnce(u) == setting.sync /\ u \notin BatchUpdates

\* A handler applies one update.  With synchronous saving the middleware saves
\* after the handler, before the buffered response leaves.
HttpUpdate(h, u) ==
    /\ phase = "serve"
    /\ busy[h] = NoUpdate
    /\ h \in setting.handlers
    /\ u \in setting.updates \ (Used \union GrpcUpdates)
    /\ memory' = Apply(memory, u)
    /\ busy' = [busy EXCEPT ![h] = u]
    /\ saving' = IF SavedAtOnce(u) THEN [saving EXCEPT ![h] = "getall"] ELSE saving
    /\ UNCHANGED <<lifeVars, periodic, unread, copy, fd, disk, acked>>

\* The response is sent without waiting for the save.
BugHttpRespondEarly(h) ==
    /\ busy[h] # NoUpdate
    /\ busy[h] \notin acked
    /\ acked' = acked \union {busy[h]}
    /\ busy' = IF saving[h] = "no" THEN [busy EXCEPT ![h] = NoUpdate] ELSE busy
    /\ UNCHANGED <<lifeVars, periodic, memory, unread, saveVars, disk>>

\* The handler chain returns and the client reads 200, saved or not.
HttpRespond(h) ==
    /\ busy[h] # NoUpdate
    /\ saving[h] = "no"
    /\ acked' = acked \union {busy[h]}
    /\ busy' = [busy EXCEPT ![h] = NoUpdate]
    /\ UNCHANGED <<lifeVars, periodic, memory, unread, saveVars, disk>>

\* UpdateMetrics over gRPC: no save follows, whatever StoreInterval says.
GrpcUpdate(u) ==
    /\ u \in (GrpcUpdates \intersect setting.updates) \ Used
    /\ phase \in {"load", "restore", "serve", "drain", "grpcstop"}
    /\ memory' = Apply(memory, u)
    /\ acked' = acked \union {u}
    /\ UNCHANGED <<lifeVars, periodic, unread, busy, saveVars, disk>>

-----------------------------------------------------------------------------
(* SaveToFile, one action per system call that changes the disk.            *)

SaveEnds(s, descriptors) ==
    /\ saving' = [saving EXCEPT ![s] = "no"]
    /\ copy' = [copy EXCEPT ![s] = NoValues]
    /\ fd' = [descriptors EXCEPT ![s] = "none"]

\* The directory is there; gauges, counters := ms.repo.GetAll(ctx).
SaveGetAll(s) ==
    /\ saving[s] = "getall"
    /\ copy' = [copy EXCEPT ![s] = memory]
    /\ saving' = [saving EXCEPT ![s] = "create"]
    /\ UNCHANGED <<lifeVars, periodic, memory, unread, busy, fd, disk, acked>>

\* The file itself is created and truncated.
BugSaveCreateInPlace(s) ==
    /\ saving[s] = "create"
    /\ disk' = [disk EXCEPT !["file"] = EmptyFile]
    /\ fd' = [fd EXCEPT ![s] = "file"]
    /\ saving' = [saving EXCEPT ![s] = "write"]
    /\ UNCHANGED <<lifeVars, periodic, memory, unread, busy, copy, acked>>

\* os.Create(filename + ".tmp") truncates the file of that name if there is one.
SaveCreate(s) ==
    /\ saving[s] = "create"
    /\ disk' = [disk EXCEPT !["tmp"] = EmptyFile]
    /\ fd' = [fd EXCEPT ![s] = "tmp"]
    /\ saving' = [saving EXCEPT ![s] = "write"]
    /\ UNCHANGED <<lifeVars, periodic, memory, unread, busy, copy, acked>>

\* MkdirAll or Create fails: the error is returned at once.
SaveCreateFails(s) ==
    /\ saving[s] \in {"getall", "create"}
    /\ setting.diskFails
    /\ SaveEnds(s, fd)
    /\ UNCHANGED <<lifeVars, periodic, memory, unread, busy, disk, acked>>

Encodable(values) == \A u \in NaNUpdates : values[u] = 0

\* Encode writes the whole document with one Write, at offset 0 of the file the
\* descriptor leads to.  What an earlier writer left behind it is never decoded.
WriteTo(s, content) ==
    disk' = IF fd[s] = "unlinked" THEN disk ELSE [disk EXCEPT ![fd[s]] = content]

SaveWrite(s) ==
    /\ saving[s] = "write"
    /\ Encodable(copy[s])
    /\ WriteTo(s, Saved(copy[s]))
    /\ saving' = [saving EXCEPT ![s] = "rename"]
    /\ UNCHANGED <<lifeVars, periodic, memory, unread, busy, copy, fd, acked>>

\* Nothing is written on a value JSON has no form for, a part on a disk that fails.
WriteFails(s) ==
    /\ saving[s] = "write"
    /\ ~Encodable(copy[s]) \/ setting.diskFails
    /\ IF Encodable(copy[s]) THEN WriteTo(s, TornFile) ELSE UNCHANGED disk

\* The periodic goroutine returns on the error.
BugSaveWriteFailsForGood(s) ==
    /\ WriteFails(s)
    /\ SaveEnds(s, fd)
    /\ periodic' = (periodic /\ s # "periodic")
    /\ UNCHANGED <<lifeVars, memory, unread, busy, acked>>

\* The error of Encode is not returned, and the half-written file is renamed.
BugSaveWriteFailsGoesOn(s) ==
    /\ WriteFails(s)
    /\ saving' = [saving EXCEPT ![s] = "rename"]
    /\ UNCHANGED <<lifeVars, periodic, memory, unread, busy, copy, fd, acked>>

SaveGivesUp(s) ==
    /\ saving' = [saving EXCEPT ![s] = "remove"]
    /\ copy' = [copy EXCEPT ![s] = NoValues]
    /\ UNCHANGED <<lifeVars, periodic, memory, unread, busy, fd, acked>>

SaveWriteFails(s) == WriteFails(s) /\ SaveGivesUp(s)

\* os.Rename: the name "tmp" goes, the old file loses its name.
SaveRename(s) ==
    /\ saving[s] = "rename"
    /\ disk["tmp"] # Absent
    /\ disk' = [file |-> disk["tmp"], tmp |-> Absent]
    /\ SaveEnds(s, [r \in Savers |-> CASE fd[r] = "tmp" -> "file"
                                       [] fd[r] = "file" -> "unlinked"
                                       [] OTHER -> fd[r]])
    /\ UNCHANGED <<lifeVars, periodic, memory, unread, busy, acked>>

\* Another save renamed or removed the temporary file first, or the disk fails.
SaveRenameFails(s) ==
    /\ saving[s] = "rename"
    /\ disk["tmp"] = Absent \/ setting.diskFails
    /\ UNCHANGED disk
    /\ SaveGivesUp(s)

\* os.Remove of the name, whosever file it is by now; who has that file open keeps
\* it without a name.  Its error is ignored, and the caller logs the first one.
SaveRemove(s) ==
    /\ saving[s] = "remove"
    /\ \/ /\ disk' = [disk EXCEPT !["tmp"] = Absent]
          /\ SaveEnds(s, [r \in Savers |-> IF fd[r] = "tmp" THEN "unlinked" ELSE fd[r]])
       \/ setting.diskFails /\ UNCHANGED disk /\ SaveEnds(s, fd)
    /\ UNCHANGED <<lifeVars, periodic, memory, unread, busy, acked>>

SaveStep(s) ==
    \/ SaveGetAll(s) \/ SaveCreate(s) \/ SaveCreateFails(s)
    \/ SaveWrite(s) \/ SaveWriteFails(s)
    \/ SaveRename(s) \/ SaveRenameFails(s) \/ SaveRemove(s)

\* case <-ticker.C; main stops the ticker before it shuts the servers down.
PeriodicTick ==
    /\ periodic
    /\ phase \in {"load", "restore", "serve"}
    /\ saving["periodic"] = "no"
    /\ saving' = [saving EXCEPT !["periodic"] = "getall"]
    /\ UNCHANGED <<lifeVars, periodic, memory, unread, busy, copy, fd, disk, acked>>

\* case <-ctx.Done()
PeriodicStop ==
    /\ periodic
    /\ signalled
    /\ saving["periodic"] = "no"
    /\ periodic' = FALSE
    /\ UNCHANGED <<lifeVars, memory, unread, busy, saveVars, disk, acked>>

-----------------------------------------------------------------------------
(* The end of the process.                                                  *)

Signal ==
    /\ setting.stops
    /\ phase \in {"load", "restore", "serve"}
    /\ ~signalled
    /\ signalled' = TRUE
    /\ UNCHANGED <<setting, phase, runs, lastExit, periodic, memory, unread, busy, saveVars,
                   disk, acked>>

MainGoes(from, to) ==
    /\ phase = from
    /\ phase' = to
    /\ UNCHANGED <<setting, runs, lastExit, signalled, periodic, memory, unread, busy, disk, acked>>

\* <-appCtx.Done(), ticker.Stop(), server.Shutdown: no new HTTP requests.
BeginShutdown ==
    /\ signalled
    /\ MainGoes("serve", "drain")
    /\ UNCHANGED saveVars

\* Shutdown does not wait for the requests being served.
BugShutdownDoneAtOnce ==
    /\ MainGoes("drain", "grpcstop")
    /\ UNCHANGED saveVars

\* Shutdown returns when no request is being served.
ShutdownDone ==
    /\ \A h \in HttpHandlers : busy[h] = NoUpdate
    /\ MainGoes("drain", "grpcstop")
    /\ UNCHANGED saveVars

\* GracefulStop of the gRPC server returned; the last save begins.  The
\* periodic goroutine is not waited for.
FinalSave ==
    /\ MainGoes("grpcstop", "final")
    /\ saving' = [saving EXCEPT !["main"] = "getall"]
    /\ UNCHANGED <<copy, fd>>

\* main returns and takes every goroutine with it.
Exit ==
    /\ phase = "final"
    /\ saving["main"] = "no"
    /\ Halt("clean")

\* The 5 s of Shutdown are over with a request still being served: Fatalf.
ShutdownTimeout ==
    /\ phase = "drain"
    /\ \E h \in HttpHandlers : busy[h] # NoUpdate
    /\ Halt("killed")

\* Killed at any point; what reached the disk stays.
Crash ==
    /\ phase # "down"
    /\ Halt("killed")

\* The process is down for good.
Terminated ==
    /\ phase = "down"
    /\ runs = setting.runs
    /\ UNCHANGED vars

Next ==
    \/ Boot \/ LoadFromFile \/ RestoreNext \/ StartServing
    \/ \E h \in HttpHandlers : \E u \in Updates : HttpUpdate(h, u)
    \/ \E h \in HttpHandlers : HttpRespond(h)
    \/ \E u \in Updates : GrpcUpdate(u)
    \/ \E s \in Savers : SaveStep(s)
    \/ PeriodicTick \/ PeriodicStop
    \/ Signal \/ BeginShutdown \/ ShutdownDone \/ FinalSave
    \/ Exit \/ ShutdownTimeout \/ Crash
    \/ Terminated

Spec == Init /\ [][Next]_vars

\* The process is started, its goroutines run, the ticker ticks, and no call of the
\* periodic save fails for ever; nothing is assumed of clients, signals and crashes.
Fairness ==
    /\ WF_vars(Boot) /\ WF_vars(LoadFromFile) /\ WF_vars(RestoreNext)
    /\ WF_vars(StartServing) /\ WF_vars(PeriodicTick) /\ WF_vars(PeriodicStop)
    /\ WF_vars(BeginShutdown) /\ WF_vars(ShutdownDone) /\ WF_vars(FinalSave)
    /\ WF_vars(Exit)
    /\ \A h \in HttpHandlers : WF_vars(HttpRespond(h))
    /\ \A s \in Savers : WF_vars(SaveStep(s))
    /\ SF_vars(SaveGetAll("periodic")) /\ SF_vars(SaveCreate("periodic"))
    /\ SF_vars(SaveWrite("periodic")) /\ SF_vars(SaveRename("periodic"))

FairSpec == Spec /\ Fairness

-----------------------------------------------------------------------------
(* Properties.                                                              *)

Values == [Updates -> 0..setting.runs]
Contents == {Absent, EmptyFile, TornFile} \union {Saved(v) : v \in Values}

\* Every variable keeps its type.
TypeOK ==
    /\ setting \in Settings
    /\ phase \in {"down", "load", "restore", "serve", "drain", "grpcstop", "final"}
    /\ runs \in 0..setting.runs
    /\ lastExit \in {"none", "clean", "killed"}
    /\ signalled \in BOOLEAN
    /\ periodic \in BOOLEAN
    /\ {memory, unread} \subseteq Values
    /\ busy \in [HttpHandlers -> Updates \union {NoUpdate}]
    /\ saving \in [Savers -> {"no", "getall", "create", "write", "rename", "remove"}]
    /\ copy \in [Savers -> Values]
    /\ fd \in [Savers -> {"none", "tmp", "file", "unlinked"}]
    /\ disk \in [{"file", "tmp"} -> Contents]
    /\ acked \subseteq Updates

\* No update is counted twice, in memory or in the file, by any sequence of
\* saves, loads and crashes: loading adds to the counters, so it must meet an
\* empty repository (main.go:106-113, metrics.go:213-217).
CountedOnce ==
    \A u \in Updates : memory[u] <= 1 /\ Durable[u] <= 1

\* The file can be read at every moment, so after every crash: SaveToFile's
\* comment promises an atomic save (metrics.go:122).  With saves that overlap it
\* does not hold: see the run persistence_overlap.
FileReadable == disk["file"].kind \in {"absent", "values"}

\* No two saves can overlap: requests come one after the other, and either they
\* save themselves or the process is never told to stop, so that its last save
\* cannot meet one of the periodic goroutine.
SavesAlone ==
    /\ Cardinality(setting.handlers) <= 1
    /\ setting.sync \/ ~setting.stops

FileReadableAlone == SavesAlone => FileReadable

\* No update brings a value JSON has no form for: while a gauge has one, every save
\* fails, and updates are acknowledged all the same.
AllEncodable == setting.updates \intersect NaNUpdates = {}

\* With synchronous saving, on a disk that works and with values JSON can express,
\* a counter update acknowledged by /update is in the file from the acknowledgement
\* on, whatever crashes follow (metrics.go:238-260).
AckedDurable ==
    setting.sync /\ ~setting.diskFails /\ SavesAlone /\ AllEncodable =>
        \A u \in acked \ (GaugeUpdates \union GrpcUpdates \union BatchUpdates) :
            Durable[u] = 1

\* While the process runs nothing takes a counter update out of memory again, not
\* even the load of the file behind an update that came over gRPC before it:
\* what was acknowledged stays (main.go:99-113, metrics.go:197-217).  A gauge may
\* be replaced by the older value of the file.
CountersOnlyGrow ==
    [][phase' # "down" => \A u \in CounterUpdates : memory'[u] >= memory[u]]_vars

\* A graceful exit leaves in the file what is in memory, over whatever way the
\* updates came in and whatever the handlers saved before (main.go:166-187),
\* unless a value JSON cannot express is among it.  With periodic saving the
\* goroutine may still be saving, and nothing is promised.
GracefulExitSaves ==
    [][Exit /\ setting.sync /\ ~setting.diskFails /\ Encodable(memory)
           => Durable = memory]_vars

\* With periodic saving an update in memory reaches the file, or the process goes
\* down first, unless a value JSON cannot express keeps every save from succeeding.
EventuallySaved ==
    \A u \in CounterUpdates :
        (~setting.sync /\ memory[u] = 1)
            ~> (Durable[u] = 1 \/ phase = "down" \/ ~Encodable(memory))

\* Saving and restoring implement an atomic checkpoint of the memory, where saves
\* do not overlap; where they may, nothing is shown to the checkpoint.  What is read
\* from the file belongs to the working values at once: updates that come over gRPC
\* during the loop leave them as if they had come before or after it.
Checkpoint == INSTANCE AtomicCheckpoint WITH
    working <- IF SavesAlone THEN Restore(memory, unread) ELSE NoValues,
    copies <- {copy[s] : s \in {r \in Savers :
                    SavesAlone /\ saving[r] \in {"create", "write", "rename"}}},
    durable <- IF SavesAlone THEN Durable ELSE NoValues,
    restored <- SavesAlone /\ phase \notin {"down", "load"}
CheckpointSpec == Checkpoint!Spec

=============================================================================
