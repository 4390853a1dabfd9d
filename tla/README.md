# Verification of the metrics service

TLA+ models of the agent and the server of this repository, the TLC configurations
that check them on small instances, and TLAPS proofs of their safety properties.
Paths below are relative to the repository (`internal/agent/agent.go` and so on).
A run is checked with `tlc -config <cfg> <module>`, the proofs of a component with
`tlapm <component>Proofs.tla`.

## 1. The system

The **agent** samples metrics of its host and sends them in batches. The **server**
applies them to a repository, in memory (saved to a file) or in PostgreSQL, and
answers reads.

| Part | State | Operations | Hard because |
|---|---|---|---|
| Agent pipeline (`internal/agent/agent.go`, `safe_metrics.go`, `internal/pool`) | the current batch, a pool of batches, a bounded channel, the context | collect, swap the batch, offer it, requeue it, send, recycle, drain, final send | 3 + N goroutines hand the same slices round; a full channel; cancellation at any point |
| HTTP sender (`internal/agent/http_sender.go`) | attempts, a semaphore | batch with retries, then every metric alone, JSON then text | retries of what may have been applied; pauses against the caller's deadline; goroutines that outlive the call |
| gRPC sender (`sender_grpc.go`) | a connection | one call | an error that hides whether the batch was applied |
| Router and middleware (`internal/handler/router.go`, `internal/middleware`) | per request: body, header | address, subnet, unpack, decrypt, audit, hash | each consumes or replaces what the next one reads |
| Handlers (`internal/handler/http.go`), gRPC server (`internal/grpc`) | a position in the batch | update, batch, read | a batch is applied metric by metric over HTTP and in one call over gRPC, and the store may fail in the middle |
| Persistence (`internal/service/metrics.go`, `cmd/server/main.go`) | memory, the file, a temporary file | load, save per update, save per tick, last save | crashes between system calls, savers that overlap, the order of start-up and shutdown |
| PostgreSQL storage (`internal/repository/postgres`) | the table, row locks, attempts | upsert, batch, read, list, retry | deadlocks, lost answers of commits, retries of additions, two queries without a transaction |
| Memory storage (`internal/repository/memory`) | two maps under one mutex | the same | every call is one critical section |
| Configuration (`internal/agent/config.go`, `internal/config`, the start of both mains) | defaults, file, environment, flags | read and layer them, choose the sender, the storage and the way of saving | four sources with four ideas of a value, each with its own cost of a malformed one |
| Reset generator (`cmd/reset`) | the source tree and one generated file per package | find marked structures, generate, write | it reads its own earlier output |
| Encryption, audit receivers, migrations, logger, analyser, generated code | - | - | see section 8 |

How they interact. The collectors call `SafeMetrics.Append`, the dispatcher
swaps the batch out and offers it to the workers through `metricsCh`, a worker calls
`SendMetrics` with a context of its own and puts the batch back into the pool. The
sender's requests reach the router's middleware chain or the gRPC interceptor, then a
handler, then `MetricsService`, then the repository. In synchronous mode
`SaveOnUpdateMiddleware` wraps the router and saves after each update before the
response leaves; in periodic mode a goroutine saves on a ticker; `main` loads at start
and saves at the end. The agent assumes of the server that an error may leave a
prefix of a batch applied (`Parts` in `HttpSender`), which is what `RequestPath` shows
the server to do (`EffectIsAPrefix`).

What makes each part correct:

- pipeline: a batch has one owner; a sample is neither lost nor sent twice; Start
  returns after a cancellation with nothing left behind;
- sender: a metric is applied twice only if an answer was lost, lost only if faults
  spoilt every attempt, the call ends with its context, nothing is sent after it, and what
  it returns is true;
- request path: the answer tells the effect as far as the store tells it, a failure
  leaves a prefix, an outsider leaves no trace, a read finds what was acknowledged;
- persistence: the file goes from one whole state to another, nothing is counted
  twice, what was acknowledged is in the file when it is promised to be;
- PostgreSQL: a call is committed as a whole and once, or reports why not; every call
  ends; a list never shows gauges newer than its counters;
- configuration: the highest source that says something readable wins, and only what the
  operator asked for makes the agent panic or the server save synchronously;
- generator: after two runs the files fit the source, and no method is declared twice.

## 2. Modules

| Module | Models | Proved in |
|---|---|---|
| `AgentPipeline` | the agent's goroutines | `AgentPipelineProofs` (batches), `AgentSamplesProofs` (samples, the ledger, the shutdown) |
| `SampleLedger` | abstract: what the agent promises about a sample | |
| `MCAgentPipeline` | small instances, symmetry | |
| `HttpSender` | one call of `SendMetrics`, over HTTP or gRPC | `HttpSenderProofs` |
| `RequestPath` | middleware, handlers, gRPC handler, for several requests at once | `RequestPathProofs` |
| `MCRequestPath` | the catalogue of requests and settings | |
| `MetricsPersistence` | saving, loading and the life of the server process | `MetricsPersistenceProofs` |
| `MCMetricsPersistence` | the settings each run asks about | |
| `AtomicCheckpoint` | abstract: an atomic save | |
| `MetricValues` | values of metrics and what an update does to them | |
| `PostgresStorage` | transactions, row locks, `Retry`, the classifier | `PostgresStorageProofs` |
| `MetricStore` | abstract: the repository, which the memory storage is literally | |
| `MCPostgresStorage` | three calls that lock in opposite orders | |
| `Configuration` | the loaders of both programs, and what they start with the result | `ConfigurationProofs` |
| `MCConfiguration` | what the operator may write | |
| `ResetGenerator` | edits of the source and runs of the generator | `ResetGeneratorProofs` |
| `MCResetGenerator` | three nested structures in two packages | |

Operators named `Bug...` are plausible mistakes in the operator that follows them.
Each makes one property fail when it is put in its place; none is part of a
specification.

### AgentPipeline

`pc` holds where each goroutine is (two collectors, the dispatcher, the workers and
`main`, which is `Start` itself). A *sample* is everything one `Collect` call returns;
`items[b]` is the `Item` slice of batch `b`, `pool` what `sync.Pool` holds, `hand` the
local variable of a goroutine that holds a batch. The actions follow the code:
`Collect`/`AppendMetrics` are `collectMetrics` and `SafeMetrics.Append`, the dispatcher's
`select` is `DispatchTick`/`DispatchStop`, `OfferSend`, `OfferBusy` and `OfferCancelled`
are the inner `select` with its three cases, `RequeueAppend` and `PutBatch` are the two
statements of the refused case, `Receive`, `SendFinished` and `WorkerExit` the loop over
the channel, and `WaitDone`, the final send and the return are `Start` after the
cancellation. A send on a context that is already done fails (`doomed`).

Refinement: `SampleLedger` knows only pending, delivered and dropped samples. Under
`pending <- Pending` every step of the pipeline takes a sample, settles the samples of
one batch, or changes nothing; `LedgerSpec` checks that.

### HttpSender

`pc[t]` is the state of a `Retry` loop: task 0 is the batch, the others are the
goroutines of the fallback. `Outcomes` is everything that can happen to a request: the
server's regular answer, or a fault, in which any prefix of a batch may have been
applied. Faults are of three kinds: what the classifier retries ("500", "EOF"), what it
does not ("broken": a network error without one of its words, or an unexpected status), and
silence. The last two leave a `Retry` loop no other attempt (`permanents`), except that a
broken JSON request is followed by the text request. Two things can keep a request
from being made at all: `noForm` are the metrics JSON has no form for (a NaN or infinite gauge), one
of which spoils the whole batch and gets no text request either, and `tooLong` are the
requests the public key cannot encrypt, after which a metric goes out as text. Time is in seconds and moves (`Tick`) only when every goroutine waits for it,
since the rest takes no time compared with pauses of 1, 3 and 5 seconds. `Deadlines`
has 4 s, within which the second attempt comes and the third does not, as with the 5 s of
a worker, and 20 s, which is enough for all attempts. `Servers` has the server that takes everything and the one that takes only
the text form, which is what `NewRouter` amounts to for an agent (section 5). `sender`
says which of the two senders main has chosen: `SendGRPC` is the whole of the other one,
a call of 5 s that the server applies as a whole or not at all. `result` is what
`SendMetrics` returned.

### RequestPath

`stage[r]` is the position of request `r` in `Chain`, which lists `r.Use` in the order
of `NewRouter`; GetRealIP is `Address`, and the two middlewares that only log or
compress the response have no effect on what is modelled. A body is a sequence of
encodings around a form (`object`, `array`, `junk`, `empty`, and `cut` for one that breaks
off while it is read) and its metrics, each a name, a type and whether it has its value;
gzip and decryption peel the outermost layer or refuse. A `chunked` request does not say how
long its body is, and the handler then takes the parameters of the path (`Sized`). The
store is a log of what was applied, by which request and as its which metric (`Applied` is
the part of it that is of one request), and begins empty. `Visible` is what the readers find
in it: all of it in memory, which has a map for each type; in a database, where a row keeps
the type it was inserted with and a write clears the other type's column, a name that was
first and last written with the type asked for. A call of a store that fails may have
been applied all the same, since only its answer may be lost: an upsert (`Stores`) or the commit
of a gRPC batch (`UpdateMetrics`). A handler that applies a batch in one call adds one of
`Entries`, and the metrics it leaves out are those of unknown type; `shown` is what the page
of all metrics held when a request was answered with it. `setting` holds the parameters of one server, chosen once
out of `Settings`: the chain, whether a trusted subnet and a private key are configured,
whether the store is a database, and whether it may fail. The handlers are also checked behind the two
address checks alone, because the tests route them so and because in the full chain the
audit keeps JSON updates from reaching them.

### MetricsPersistence

One action per system call of `SaveToFile` that changes the disk, and one for each way the
call may fail: the directory or the temporary file cannot be made (`SaveCreateFails`), or
the write or the rename fails (`SaveWriteFails`, `SaveRenameFails`) and the temporary file is
removed after that (`SaveRemove`), which may fail as well. `LoadFromFile` reads the file
and `RestoreNext` is its loop, one metric per step, so that gRPC updates come between two of
them; `unread` is what the loop has still to do. The disk maps the two names to contents,
and an open descriptor follows the file: a rename under it makes it point to the metrics
file, a removal to no name. The life of the process is `phase`; `Crash` may happen in any
of its states. Update handlers hold an update in `busy` until the answer, so that what
was acknowledged and what was not can be told apart after a crash. `setting` is what
one server is set up with and may meet, chosen once out of `Settings`: synchronous or
periodic saving, a disk that may fail, a process that may be told to stop, how many
requests it serves at once, what clients send, how often it is started. An update
over gRPC (`GrpcUpdates`) is applied and acknowledged with no save behind it, since
`SaveOnUpdateMiddleware` wraps the HTTP router only, and so is one posted to `/updates/`
(`BatchUpdates`), which the middleware's prefix `/update/` does not match. Clients make an update once, and
may make it again when a crash has lost it.

Refinement: `AtomicCheckpoint` has a memory, copies taken of it, and a durable value that
changes only to one of the copies. What has been read of the file and not yet restored
belongs to its memory. `CheckpointSpec` checks that the steps of `SaveToFile`
amount to that while saves do not overlap (`SavesAlone`); in settings with more than one
handler or a stop during periodic saving they may, and the mapping is then constant.

### PostgresStorage

A call is a transaction of upserts (a single upsert is its own transaction). An upsert
locks its row to the end of the transaction, waits for a locked row, and reads the row as
committed when it gets the lock; a cycle of waits is ended with an error in one member.
That is PostgreSQL at read committed, and external to the repository; `Upsert`, `Retry`
and the classifier are the code. An empty batch, which the gRPC handler hands on, is a
transaction without rows. `driver` is the version of pgx the program is built with: "v4" is the one of
this build, whose errors the classifier does not recognise, and "v5" the one the classifier is
written for. What must hold in any case is checked and proved for both. The codes of a server
that stops or starts are met like those of class 08. `MetricStore` is refined through the two readers.
`GetAll` runs once among the calls: `QueryOf` is the order of its two queries, each sees
what is committed when it runs, takes no lock, and may lose rows (`ListLosesRows`) or end
the list (`ListCutShort`), which the code only logs.

### Configuration

The operator writes up to `MaxWritten` values into the arguments, the environment and the
file, and the path of the file; a value is the form it was written in (`5`, `5s`, `500ms`,
empty, a word, ...), and `Accepts` says which forms each reader takes. Then come the steps
of the loader in the order of the code: `fs.Parse`, the file, the environment, `fs.Visit`,
and the start. The agent's flags refuse to start over a bad value, the server's parser
stops at it without a word; `cleanenv` is external and stops at the first bad variable in
the order of the struct. `cfg` keeps for each field the source it came from. `Parsed(flags, n)` says that the first n arguments are the ones that are read, and
`Ends` which argument is the last the parser looks at. The last
step is the part of both mains that decides by the configuration: the sender and the
private key, either of which may be refused, the sizes that may make the agent panic, the
database or memory, restoring, and the way of saving.

### ResetGenerator

A developer marks structures, writes or removes a `Reset` by hand and changes fields; a
run loads the source (`Load`: `Targets`, `Owners`, `Method`), then writes one package
after another in the order of its keys (`WriteFile`, `IsNext`; `pending` holds the
positions it still has to write), any of which may fail, leave a part of the file behind or
be the last (`Stopped`). `file`
holds, for each generated method, how it treats each field. `intact` says that the run
has written every file it came to, and `fresh` counts complete runs since the last edit or
failure. A handwritten `Reset` may have parameters ("args"): it keeps the generator from
writing one (`HasManual`) but cannot be called (`HasReset`).

## 3. Runs

"Pass" means that TLC explores every reachable state and finds no error.

| Run | Bounds | Shows |
|---|---|---|
| `agent_one_worker` | 5 batches, 1 worker, channel of 2, 2 samples per collector | ownership, empty pool, no sample lost or twice, nothing left at return, the ledger, and that only a requeue reorders |
| `agent_live` | 4 batches, 2 workers, channel of 1, 1 sample per collector | Start returns; samples are settled; no double sending with concurrent workers |
| `persistence` | five settings. Crashes: 3 updates (one over gRPC, one a gauge), 1 handler, 2 runs of the process, synchronous with stops, periodic on a failing disk; with stops too for the 2 counters. Stops: synchronous with 4 updates (one over gRPC, one in a batch, one a NaN gauge) and 2 handlers, periodic on a failing disk with a counter, a gauge and a NaN it may replace | nothing counted twice, counters never shrink while the process lives, file readable and checkpoint atomic while saves do not overlap, counters acknowledged by `/update` are durable in synchronous mode, a graceful exit saves, periodic saving gets there |
| `persistence_overlap` | 2 updates, 2 handlers, synchronous | **violation** |
| `http_sender` | 4 metrics (1 invalid, 1 that JSON may have no form for), 2 requests the key may be too short for, semaphore of 2, 4 faults, 2 deadlines, 2 senders, 2 servers, cancellation at any time | exactly once without faults, duplicates and losses explained by faults, over at the deadline, nothing sent later, an honest result, returns |
| `request_path` | 2 requests out of the whole catalogue, 5 settings | prefix, answer tells the effect, outsiders invisible, gRPC atomic, acknowledged is found, every request answered |
| `request_path_documented` | 1 request, the chain of `NewRouter` | **violation** |
| `postgres` | 2 rows, 2 batches in opposite orders and an upsert, 1 reader, 1 fault besides any deadlocks, 2 drivers | commit and answer agree, every call ends, the repository's promise, lists whose counters are as new as their gauges |
| `postgres_driver` | the same without faults, with the error type of the driver in use | **violation** |
| `configuration` | 3 written values and the path of the file, out of 33 for the agent and 29 for the server | who wins, what a malformed value costs, what the programs start with |
| `configuration_dsn` | the same with 2 values | **violation** |
| `reset_generator` | 3 structures, 2 packages, 4 edits, any number of runs | two runs settle, no method twice |

Why the bounds are enough. In the agent two samples per collector on a channel of two
slots fill the channel, so that a batch is refused, requeued and offered again together
with newer samples, while another is in the worker's hand and one is current;
`EnoughBatches` is an assumption that the number of batches never limits the agent, which
allocates a new one when the pool is empty. Two faults, both permanent, lose a metric, and so
does any mixture of four in which they spoil the six attempts of the batch and of the
metric, so the bound of `LossNeedsEveryAttemptToFail` is met. With three valid metrics and two places the
semaphore blocks. Three written values are the least that lets a malformed value of one
source meet a readable one of two others. Four edits let a structure be generated,
unmarked, written by hand and marked again; a field of the type of a structure, one
behind an embedded field and one across packages are the ways a method can come to be
called. Two runs of the process are a crash, a load and a second save. A NaN and a gauge that
replaces it let saving fail for a while and resume. Two
requests interleave at every step of both; properties about a third would need a chain
of effects between requests, and requests meet only in the store. One of two requests can
write a name with both types (a gRPC batch), so that a reader finds neither. Two rows and two batches
are the smallest deadlock, and the third call waits behind it. Three attempts are
the constant of the code.

What the persistence properties leave out, and why: `AckedDurable` speaks of counters
posted to `/update`, on a working disk, in synchronous mode with one request at a time,
since a newer gauge value replaces an older one, gRPC updates and batches are not saved
before they are answered, and the middleware answers 200 when the save failed.
`GracefulExitSaves` and `EventuallySaved` ask for memory that JSON can express, since one
NaN makes every save fail. `GracefulExitSaves` speaks of synchronous mode, and
`FileReadableAlone` and `CheckpointSpec` of settings in which saves are made one at a time
(section 5).

`TypeOK` is stated in the modules of the agent, the sender, the request path, persistence
and the storage. It holds on the instances of all of these runs, is part of
`agent_one_worker` only, and is proved for all of these modules.

`CHECK_DEADLOCK FALSE` is set where the modelled thing ends: a call of `SendMetrics`,
the requests of a run, the calls of the storage. The agent and the server process have an
explicit `Terminated`.

## 4. Fairness

`AgentPipeline`: weak fairness of each goroutine (the Go scheduler runs what can run;
the sends have timeouts, so they end), and strong fairness of the `Done` case of a
`select`, because Go picks among ready cases at random. Nothing forces a cancellation.
`MetricsPersistence`: main, the handlers, the savers and the ticker go on; strong fairness
of the four steps of the periodic save says that none of its calls fails for ever. No fairness of clients, signals or
crashes. `HttpSender`: some goroutine that can run runs, or time passes. `RequestPath`: a
request that has arrived is served. `PostgresStorage`: a call that can go on does, and the
database ends deadlocks (`deadlock_timeout`).

## 5. Disagreements between the code and what is said of it

Checked as runs that TLC must find violated:

- `persistence_overlap`: all savers share one temporary file (`metrics.go:158`), though the
  save is documented as atomic. The periodic goroutine, which main does not wait for, can
  overlap the last save in the same way.
- `request_path_documented`: the audit middleware (`audit.go:97`) answers 400 to a JSON
  object and hands an empty body to the batch handler. Only updates in the path get
  through `NewRouter`; an agent therefore always ends in its text fallback.
- `postgres_driver`: the classifier looks for the error type of pgx v5, the driver is
  v4, so nothing is ever retried.
- `configuration_dsn`: flags are said to have the highest priority (`config.go:104`), but
  `GetConnect` reads `DATABASE_DSN` again (`db/postgres.go:54`), so the flag `-d` decides
  that a database is used and not which.

Seen while modelling, and visible in the definitions named, but not runs of their own:

- `sendCtx` is derived from the agent's context (`agent.go:134`), so a batch drained after
  the cancellation is sent on a context that is already done and cannot arrive, though
  comments call the drain the key point; the final send has a context of its own
  (`doomed` in `AgentPipeline`);
- the pauses of three failed attempts (9 s) outlast the 5 s context of a worker, so the
  fallback does not send anything in that case (`Sleeps`, `GivesUp`);
- `SendMetrics` returns nil when goroutines of the fallback failed (`Join`, and the
  condition `next = 1` of `ResultIsHonest`);
- a compressed and then encrypted body, as the agent sends it, is refused because
  unpacking runs first (`Chain`);
- a store error of a JSON update is answered 400, documented as 500, and the update may
  have been applied (`UpdateMetric`, `Fits`);
- `AddHash` sets its header after the response was written (`AddHash`);
- a name written both as a gauge and as a counter is readable as neither in PostgreSQL
  (`Upsert`, `GetGauge`, `GetCounter`; `Visible` in `RequestPath`);
- a metric with a NaN gauge makes the sender's batch fail before it is sent, and gets no text
  request, which would have a form for it (`BatchHasNoBody`, `MetricHasNoForm`);
- a JSON update sent without a Content-Length is not read, and the request is answered by
  the parameters of its path, of which `/update` has none (`Sized`);
- a NaN gauge makes every later save fail (`Encodable`);
- a batch posted to `/updates/` would not be saved in synchronous mode (`SavedAtOnce`), were
  it ever acknowledged by `NewRouter`;
- a list cut short by a database error is returned as if it were whole (`ListCutShort`), so
  the page of all metrics is then incomplete under a 200, where `http.go:190` documents a
  500 (`List` in `RequestPath`);
- a malformed or stray argument of the server ends its parsing without a message: the
  flags before it count, the ones after it do not (`Excused` of `HighestReadableWins`); "-r false" is such a
  case, since a boolean flag takes no separate value;
- a `store_interval` below a second in the file means saving after every update
  (`StartsAsAsked`);
- the first run of the generator after an edit may write calls of methods it removes with
  the same write, so the package does not compile until the second (`TwoRunsSettle` fails
  with one run);
- the generator never removes a `reset.gen.go`: when the last structure of a package gets
  a `Reset` by hand, the old method stays and is declared twice, which the comment at
  `cmd/reset/main.go:125` means to avoid (`Abandoned` in `DeclaredOnce`);
- `internal/model/metrics.go:17` carries the marker and has no generated file.

## 6. What is proved

Every safety invariant and action property that a run checks is proved for all values
of the constants, and so is every refinement. The theorems are those listed in
`PROJECT.json`; each module below ends in them.

| Proofs | Theorems | Invariant |
|---|---|---|
| `AgentPipelineProofs` | `TypeCorrect`, `Exclusive`, `PoolEmpty` | `OwnershipInv` |
| `AgentSamplesProofs` | `NothingLost`, `NothingTwice`, `ImplementsLedger`, `RequeueAlone`, `NothingLeft` | `SampleInv`, `ShutdownInv` |
| `HttpSenderProofs` | `CallTypes`, `DuplicatesPaid`, `OverInTime`, `HonestResult`, `SilentAfterReturn`, `ExactlyOnce`, `LossIsPaid` | `CallInv` |
| `RequestPathProofs` | `RequestTypes`, `PrefixAlways`, `AnswersTell`, `OutsidersInvisible`, `BatchesAtomic`, `ReadsFind` | `RequestInv` |
| `MetricsPersistenceProofs` | `PersistenceTypes`, `NothingCountedTwice`, `ReadableAlone`, `AckedStays`, `CountersGrow`, `GracefulSaves`, `ImplementsCheckpoint` | `PersistenceInv` |
| `PostgresStorageProofs` | `StorageTypes`, `AnswersAreTrue`, `ImplementsStore`, `ListKeepsUp` | `CallsInv`, `TransactionsInv`, `ListInv` |
| `ConfigurationProofs` | `HighestWins`, `StartsAsWritten` | `ConfigurationInv` |
| `ResetGeneratorProofs` | `OneMethodEach`, `TwoRunsAreEnough` | `GeneratorInv` |

### Assumptions

The proofs use the named assumptions of the modules, which TLC evaluates on every
run. Most say what kind of thing a constant is. The ones that say more:

- `PipelineAssumption`: there are workers exactly when the channel has room, because
  `Start` makes `rateLimit` workers and a channel of `rateLimit*2`. Samples are then not
  left behind in a channel that nobody reads.
- `StorageAssumption`: NULL is neither a name, a call, a number nor a row.
- `PersistenceAssumption`: finitely many handlers run at once.
- `RequestAssumption`: a JSON object holds one metric.
- `CatalogueAssumption`: only two paths have parameters, a GET has no body, and only a
  database fails. It is about what the runs enumerate; the proofs do not use it.
- `GeneratorAssumption`: an embedded field has the type of a structure that has itself no
  embedded fields, so that promotion goes one level deep.

Two theorems name a condition in their statement, since the property is false without
it: `ImplementsStore` and `ListKeepsUp` hold where no name is used with both
types (`NamesKeepTheirType`): the table has one row for a name, which keeps its first type,
and a repository has two maps. `MCPostgresStorage` assumes the same of its calls. Others have
their conditions inside. `AcknowledgedIsFound` asks the same of the one name it is about, in a
database (`Reliable`). `ExactlyOnceWithoutFaults` and `LossNeedsEveryAttemptToFail` speak of
metrics that JSON has a form for, on a server that takes the text form (`Sendable`), which
is every server `NewRouter` builds. `AckedDurable` asks for a synchronous setting, on a
disk that works, with one save at a time and values that JSON can express.

### Arguments

**Batches of the agent.** Exclusiveness is not inductive: whether it survives a goroutine
putting a batch into the channel or the pool depends on the goroutine having
held that batch, which only its program counter tells. Hence `HandsMatchPc`, which says
at which labels a goroutine has a batch in its hand. That the pool holds only empty
batches depends on `PutBatch` emptying what it puts, and on nobody writing to a batch in
the pool, which is exclusiveness:

    OwnershipInv == TypeOK /\ HandsMatchPc /\ BatchExclusive /\ PooledBatchesEmpty

**Samples of the agent.** `Load(b)` is what batch `b` still has to deliver. `StepEffect`
says that every step of every goroutine changes the loads in one of five ways (quiet,
taken, appended, moved, emptied), and everything after it is about the
five and not about the goroutines. `SampleInv` accounts for each sample taken: it waits at
its collector, is carried at one index of one load, or is settled, and these exclude each
other. The refinement of `SampleLedger` reads the same five ways as ledger steps. The
shutdown has an invariant of its own: the order in which the channel is closed, drained and
main goes on.

**The sender.** Each quantity the properties bound is paid: an application beyond the first
by a fault (`ApplicationsPaid`), a failed attempt by a fault as long as the context is
alive (`FailuresPaid`), where a permanent fault pays for all attempts of its loop and a
task that cannot be sent owes nothing. These need to know which branch of
`SendMetrics` the caller is in and which goroutines it has started (`TasksFollowCaller`,
`CallerFollowsBatch`). The deadline holds because time passes only while every goroutine
waits for it.

**The request path.** What the store has of a request is settled by the request's place in
its chain: nothing in front of the handler, what the loop has applied while in it, what the
answer says behind it. `SlotInv` says so for one slot. A step of one slot leaves the
others where they are and only adds to the log, so interleavings need one lemma
(`OthersKeep`) and not one case per pair of actions. Atomicity of a gRPC batch is a
property of positions in the log. What was acknowledged stays readable because the log
only grows (`Extends`), and a name written with one type only is visible once it is in it
(`ReliableVisible`).

**Persistence.** Where saves do not overlap, at most one saver is under way, and the
temporary file is its own (`OwnFile`). An acknowledged counter is in the file, in memory
and in every copy that may still replace the file (`Kept`); the copies are what makes the
property inductive, because an older copy could otherwise be renamed over a newer file.
Loading adds to memory, so counting once needs that what gRPC calls put into memory
before the load and between two metrics of it is not among what is still unread, and that
what is in the file is in memory or unread (`Disjoint`). For the refinement the memory is
taken together with what is unread (`Working`), which the loop does not change.

**The storage.** A call that has not ended has committed nothing, whatever was tried, so a
retry cannot apply a batch twice; an error of the server implies a rollback
(`CommitTold`).

That a commit is one step of the store needs more than the table: a transaction writes its
rows one at a time, while others commit. `TransactionsInv` says of each transaction that
there is a chain of tables, each the upsert of one entry after the one before, which on the
rows it has locked starts from what is committed and ends in its draft (`Built`). Because no
other transaction can change a locked row, the chain can be moved to a table that has
changed elsewhere, and at the commit its last member is the whole new table
(`WholeTable`). The list needs history: `ListInv` carries the order of the commits, what a
reader sees after each, and for the open `GetAll` which of these its first query saw.
`MetricStore` computes a batch with a recursive function; its value is tied to the chain by
a least counterexample (`AgreeUpTo`), since the library's induction theorem cannot be
instantiated.

**The configuration.** The invariant is a closed form: at each stage every field has the
value of the highest source read so far, as a function of what the operator wrote
(`Settled`). Two lemmas per source then say that it takes only what it says readably, and
that what it loses has the excuse the property names.

**The generator.** After one complete run the right methods exist, though they may call
wrong ones. The second run decides by methods that it will neither add nor remove, so what
it has found at `Load` stays true while it writes. A run that stops may leave a part of a
file, but only methods of its own package (`StoppedKeeps`).

### What the proofs and further reading of the code changed in the models

- With no workers and a channel that has room, batches are left in the channel when `Start`
  returns. The code cannot be in this state, and `PipelineAssumption` says why.
- A run of the generator that failed to write a file was counted as complete;
  `intact` is the answer to this.
- `AckedDurable` needs values that JSON can express: one NaN gauge makes every save
  fail until it is replaced, and the answer is 200 all the same.
- `MetricStore` folded the updates of a batch with an operator of the community modules; it
  has recursive functions now, about which a proof can reason.
- A store that fails was taken to have applied nothing. The answer of an upsert or of a
  commit may be lost, so `AnswerTellsTheEffect` promises nothing after a 500, nor after the
  400 of a metric in JSON, unless the store cannot fail; a gRPC batch is all there or not at all.
- A read was taken to find a name with whichever type; in a database it does not find one
  written with the other (`Visible`), so `AcknowledgedIsFound` has its condition `Reliable`.
- Every fault of a sender was taken to be worth another try; `LossNeedsEveryAttemptToFail` counts
  a permanent one for all attempts of its loop.

### Only model-checked, and why

- Liveness under fairness is out of the prover's reach, and so is ENABLED: `CancelLeadsToReturn`
  and `EventuallySettled` of the agent, `Returns` of the sender, `Answered`, `EventuallySaved`,
  `Finishes`.


## 7. What the checks do not show

- The interleavings inside one `Append`, one `GetAll` of the memory storage or one system
  call: a mutex or the operating system makes them one step.
- Values: a metric is an identity; sums are small naturals that do not overflow.
- The wire: cryptography, gzip and JSON are layers and forms.
- The order in which two workers' batches reach the server, for which no text promises
  anything.
- A list of PostgreSQL that met an error: nothing is claimed of it.
- A server started with `restore` false: its first save replaces the old file.
- What a generated `Reset` leaves behind in an object: only that each field is treated, and
  by a method when there is one.

## 8. Not modelled

The migrations (once, before the server serves), the cryptography, the audit receivers
(one write each), the logger, `cmd/staticlint` (a walk over a syntax tree), the printing of
generated code (expressions, names of imports), and generated code, mocks and documents. The components in `PROJECT.json` give the reason for each.

## 9. Plan

1. `MetricStore` under `RequestPath`: the log replaced by the store with values, so that the
   sums a client reads are checked.
