# Weibo: TLA+ models, model checks and proofs

Weibo is a stream processor in Go: a pipeline (source, operators, sink) runs in one
process, checkpoints its operator state and source positions with barriers that flow
through the stream, and, with the transactional Kafka sink, promises exactly-once
output across restarts.  A job agent hosts a pipeline in its process, takes savepoints and
restores them; a control plane deploys those processes as containers and restarts them; a
compiler turns workflow documents into pipelines.  This directory models the parts of it whose correctness depends on the order of
steps: what is checkpointed when, what is committed when, what a restart finds.

## 1. Inventory

| Part | Source | State | Operations | Correct when |
|---|---|---|---|---|
| Barrier injector | `engine.go` `injectBarriers` | aligned offset map, checkpoint counter | forward a record, inject a barrier (ticker, end of source, shutdown) | a barrier is preceded by exactly the records its positions cover |
| Stages | `pipeline/` | bounded channels, one operator clone per worker | route, broadcast markers, align, unwind | no record crosses a marker; snapshots are one cut; nobody waits for good |
| Pre-sink tap | `engine.go` `barrierDetect`, `collectSnapshots` | barrier-time snapshots | hand the snapshot to the coordinator | the snapshot is there before the sink acknowledges |
| Coordinator | `checkpoint/coordinator.go` | pending checkpoints, event queue, fatal error | prepare, save, commit, complete, commit offsets, abort | completed stands for committed output |
| Checkpoint directory | `checkpoint/checkpoint.go` | one JSON per checkpoint, two pointers, state directories | save, update status, load, scan, retain, sweep | what a restart picks is complete and newest |
| Transactional sink | `sink/kafka_txn.go` | open transaction, waiters, latched produce error | write, commit, abort, marker probe | output becomes readable with its checkpoint or not at all |
| Source positions | `source/kafka*.go`, `source/file.go` | consumed and restored offsets, group offsets | restore, read, commit | state and position agree after a restart |
| Recovery | `engine.go` `Execute`, `resolveCoordinatedRecovery` | - | load, probe, promote or fall back, restore | restores exactly the readable prefix |
| Uncoordinated mode | `engine.go` `saveCheckpoint`, `pipeline/stage.go` | barrier-time snapshots, the records the sink has not taken yet | save when the sink has taken all, drain, force, resume | nothing is lost between source and sink; a checkpoint is the cut at its barrier |
| Event time | `source/watermark.go`, `operator/window.go`, `window/` | watermark per partition, buffered windows | tick, idle, assign, drop late, merge sessions, fire, snapshot | every accepted record is in each of its windows once; fired windows stay closed |
| Interval join | `operator/join.go`, `engine.go` `executeNativeJoin` | two buffers, two watermarks | match, evict, snapshot | every match once; nothing that can still match is evicted |
| Keyed process, reduce | `operator/keyed_process.go`, `reduce.go` | values, timers, accumulators, a frontier | fold, register and fire timers, evict | output is a function of the input |
| State backends | `state/` | key-value and list state, native checkpoints | get, put, append, checkpoint, restore, reset | what is restored is what was checkpointed |
| Other sinks | `sink/` | batch, background flush, dead letters | batch, flush, retry, apply the failure policy | a clean stop has settled everything |
| Job agent, SDK, savepoints | `jobagent/`, `sdk/`, `checkpoint/savepoint.go`, `archive.go`, `blob.go` | phase, savepoint request, exit code; archives | run, cancel, savepoint, promote, restore | an exit code of 0 means what it says; a restored run resumes from the archive |
| Workflow compiler, planner | `workflow/`, `pipeline/planner.go` | the document, the environment | validate, resolve, compile, plan | what is accepted starts, with the guarantee that is reported |
| Controller and reconciler | `control/controller.go`, `reconcile.go`, `sweep.go` | a lock per job | submit, cancel, restart, delete, savepoint, reconcile, sweep | one live container per job; none is lost track of; desired state is reached |
| Store | `control/store/` | tables jobs and runs, one active run per job by index | create, update, prune, delete | - |
| Container backends | `control/backend/` | containers or Kubernetes Jobs | launch, stop, remove, status | - |
| CLI, API, observability, stream API | `control/api`, `control/cmd`, `observability/`, `stream.go` | little of their own | translation and I/O | - |

How they interact: goroutines connected by bounded channels (injector, stages, tap,
sink), a callback from the sink to the coordinator (`OnSinkPrepared`), an event channel
from there to the finalize worker, calls back from the worker to the sink (`Commit`,
`Abort`), the checkpoint directory and Kafka as the state that outlives the process.
Above that, a controller process drives containers from a SQLite store: API handlers and a
reconciler on a ticker share a lock per job, the store and the backend outlive both.

What is hard: the interleaving of those goroutines, the process dying between two
durable writes, a commit whose outcome is unknown, a fatal error that is reported while
the next barrier is already under way, a shutdown timeout during finalization, and
marker alignment over bounded channels; a sink that has taken records it has not written;
watermarks of partitions that progress at different rates; state that is in memory, on disk
and in a checkpoint at once; a savepoint request that races the end of the run.  In the control plane: a controller that dies
between a store write and a backend call, handlers and reconciler working on one run, a
second controller on the same store file, calls that fail half-way.  `PROJECT.json` lists each hazard at its line.

## 2. Modules

| Module | Models | Used by |
|---|---|---|
| `CheckpointStore` | the checkpoint directory, one operator per durable write | `ExactlyOnce`, `JobAgent` |
| `ExactlyOnce` | the exactly-once mode: injector, tap, sink, coordinator, directory, crash, recovery | `MCExactlyOnce`, proofs |
| `ExactlyOnceOutput` | what that mode promises to a reader of the output topic | instantiated by `ExactlyOnce` |
| `AlignedStage` | a stage with several workers and its aligned merge | runs directly |
| `AtLeastOnce` | the uncoordinated mode: sources, one operator, sink stage, batching sinks | `MCAtLeastOnce`, proofs |
| `EventTimeWindow` | watermarks, the window operator, the three assigners | `MCEventTimeWindow`, proofs |
| `IntervalJoin` | the interval join in both wirings | `MCIntervalJoin`, proofs |
| `KeyedState` | stateful operators on their backend through crashes | `MCKeyedState` |
| `JobAgent` | the process of a job, savepoints, exit code; composes `CheckpointStore` twice | `MCJobAgent` |
| `Workflow` | validator, compiler, engine checks, planner | `MCWorkflow` |
| `ControlPlane` | controller, reconciler, store and backend for one job | runs directly, proofs |
| `MC*` | TLC constants, inputs and symmetry | runs |
| `OutputInvariant` | the inductive invariant behind the exactly-once guarantee | `MCOutputInvariant.cfg`, `ExactlyOnceProofs` |
| `ExactlyOnceProofs` | type correctness, the checkpoint directory, the exactly-once guarantee, the refinement of `ExactlyOnceOutput` | TLAPS |
| `AtLeastOnceProofs` | where every record of the uncoordinated mode is, and what its snapshots hold | TLAPS |
| `EventTimeWindowProofs` | the cut in front of the window operator, lateness, the windows | TLAPS |
| `IntervalJoinProofs` | what the interval join keeps and emits | TLAPS |
| `AlignedStageProofs` | marker alignment: order and consistent cuts | TLAPS |
| `WorkflowProofs` | compiler and planner | TLAPS |
| `JobAgentProofs` | exit code and savepoints | TLAPS |
| `ControlPlaneProofs` | single-live-run fencing and its consequences | TLAPS |

### CheckpointStore

`files`, `latest`, `latestCompleted` and `dirs` are the directory.  A checkpoint is its
number in creation order: `scanLocked` sorts by timestamp, then by the number in the ID,
which is creation order while the clock does not step back.  `saveLocked` performs three
separate atomic writes and then retention; the module gives each one an operator
(`WriteCheckpoint`, `WriteLatest`, `WriteLatestCompleted`, `RemoveCheckpoint`,
`DeleteStateDirs`), so the process can die between any two.  `LoadPointer` is
`loadPointerLocked`: a pointer that names a usable file wins over anything newer;
otherwise the newest usable file does and the pointer is rewritten.  `Maintain` is
`maintainLocked`, atomic because each of its parts is idempotent and runs before
anything else of the process.

### ExactlyOnce

A source record is a pair (partition, offset).  The payload never matters: the operator
state is the number of records of each partition folded in, the output of a record is
how often it is readable (`visible`).  This is enough to tell apart a lost record, a
duplicate and a state that does not match its position.  `flight` holds the records
between injector and sink, each with the barrier that precedes it; within one interval
they reach the sink in any order, which is what keyed and parallel stages do.  That
nothing crosses a barrier on the way is not assumed silently: `AlignedStage` shows it.

| Actions | Code |
|---|---|
| `Boot`, `ResolveCoordinatedRecovery`, `ProbeFails`, `Start` | `NewFileStorage`, `resolveCoordinatedRecovery`, `Execute` up to the start of the stages |
| `Read`, `Tick`, `CtxDone`, `DrainEnd`, `SourceClosed` | the cases of the `select` in `injectBarriers` |
| `TapBarrier` | `barrierDetect` with `collectSnapshots` and `OnStateSnapshot` |
| `SinkWrite`, `SinkPrepare`, `SinkUnwind` | `TxnKafkaSink.Write`: data, barrier, its deferred abort |
| `TakeEvent`, `SaveFile` .. `SaveFails`, `CommitSink`, `CommitFails`, `AbortFatal`, `CommitOffsets` | `Coordinator.finalize`, one step per durable effect |
| `HardCancel`, `HardExit`, `CleanExit` | the watcher, the error of a stage, the shutdown timer, the tail of `Execute` |
| `Crash`, `LateCommit` | the environment |

`Faults` says which calls may fail, `TornCrash` whether the process may die between the
writes of one `UpdateStatus` (between those of a `Save` it always may), `GroupMode` whether the source is in a consumer group.  A commit that
fails may or may not have taken effect.  A failed `UpdateStatus` leaves any prefix of its
writes behind.  The Kafka client and broker are external: a transaction becomes readable
as a whole or not at all, a new producer with the same transactional ID fences the old
one, and the marker probe sees exactly the committed markers.

`ExactlyOnceOutput` is the abstract specification: the readable output is a prefix of each
partition, and a step extends it.  `Output` instantiates it with `visible`, and
`ExactlyOnceRefinement` says that `ExactlyOnce` implements it.

### AlignedStage

`N` workers, channels of capacity `Cap`.  The router sends data to one worker and a
marker to all in turn; a worker folds, snapshots and forwards; a reader per worker
parks behind a marker it delivered; the merge counts copies, emits the marker after the
last one and hands out the resume tokens in order.  The whole pipeline can be cancelled
from outside, and a window with an idle timeout can return while its input is open.  Which
worker a record goes to is nondeterministic, so one module covers `KeyedStage` and the
parallel `StatelessStage`; a worker may or may not emit a record for what it folds.

A worker runs a chain of operators.  When the first one fails, the worker reads its error
and cancels the stage (`WorkerFails`).  When a later one does, the worker waits for the
errors in the order of the chain (`keyed_stage.go:188`): it is `broken`, its output stays
open, the stage is not cancelled, and the operators in front go on (`StuckTakes`) until the
channel to the one that is gone is full (`pile`), or until their input ends and the error is
read at last (`StuckEnds`).  `MaxBroken` bounds the broken workers; 0 is a chain of one.  A
Window consumes watermarks (`window.go:334`), so in a stage with one a watermark reaches a
worker the way a data record does, and the markers of the model are its barriers.

### AtLeastOnce

Source, injector, one stateful operator, sink stage and sink in a line, the channels of
capacity `job.cap`.  Which source (file, consumer group, parallel readers with discovery),
which sink (Kafka, Postgres, HTTP, S3, file) with which options (`opts`: a file that is
appended to, an asynchronous Kafka writer), which failure policy, the batch size and the
records that cannot be encoded or decoded are chosen by `job`, so that one run covers each of
them.  A record is a pair (partition, place); `out` tells where it ended: written,
dead-lettered, dropped by policy, or taken by an asynchronous writer that never says whether
it arrived (`adrift`).  A file sink that does not append truncates its file when the next run
opens it (`Truncates`).

| Actions | Code |
|---|---|
| `Read`, `ReadGarbled`, `SourceFails`, `CommitGroup`, `Discover` | the Kafka source: fetch, decode, retry, commit, partition discovery; `FileSource.Run` |
| `PeriodicBarrier`, `LastBarrier`, `SourceCloses` | `injectBarriers` |
| `OpRecord`, `OpBarrier`, `OpPanics` | `ChannelStage.Run`, the snapshot hook, `addBarrierSnapshot` |
| `StageRecord`, `StageBarrier`, `StageSeesDeath`, `StageDiscards`, `StageCloses` | `SinkStage.Run`: hand over, wait, `saveCheckpoint` |
| `SinkTakes`, `SinkTick`, `SinkEnds`, `SinkReturns` | `batchWriter.run` |
| `FlushSucceeds`, `FlushRetries`, `FlushGivesUp`, `FlushFails`, `PostgresDeclines`, `KafkaRefuses`, `FileRefuses` | what each sink does with a batch or a record |
| `Stop`, `ShutdownTimeout`, `Return`, `Restart` | `Execute`, a crash, the next run |

One failure policy stands for that of the source and that of the sink.  `excused` records what
a resume skipped because the sink still held it when the checkpoint was saved, or because the
consumer group had committed it without a checkpoint, and what a truncating file sink erased:
`LossIsTheSinks` says that nothing else is ever lost.

### EventTimeWindow

Two partitions behind `WatermarkSource`, the injector, the window operator.  A record is named
by its place in its partition; a window holds a bag of names, so that loss and duplication
show.  Event time is an integer; the zero time and the year-9999 watermark are two values that
the operator's 64-bit nanoseconds cannot hold (`StoredTime`).  `TrueWindows` defines the windows
of a record without the walk of `AssignWindows`, and is what the assigners are checked against.
`WindowStart` keeps Go's truncating division.  The source has one watermark generator per
partition, or a single one (`job.shared`), and a consumer group or none (`job.group`).  A
barrier names the offsets of the partitions that had a record in this incarnation only
(`inj.named`), because the injector's map starts empty; a restart without a group reads the
others from their beginning (`ResumeAt`), and `rewound` remembers that it did.  The assumptions are what the constructors and the
clock give: the zero time, an unrepresentable time after a round trip and the last watermark lie
in this order (`TimeAxis`; their values are parameters), a slide is not longer than its window (`TimeParameters`, as `NewSliding` requires),
event times lie between the two that cannot be stored (`JobParameters`), and records of a
tumbling job are not older than the offset (`TumblingTimes`; section 5 says what happens to one
that is).

| Actions | Code |
|---|---|
| `ReadRecord`, `PartitionIdles`, `EmitWatermark`, `SourceEnds` | `WatermarkSource.Run` and its generators |
| `PeriodicBarrier`, `ShutdownBarrier`, `FinalBarrier` | `injectBarriers` |
| `OpRecord`, `OpWatermark`, `OpBarrier`, `InputCloses`, `IdleTimeout` | `WindowOperator.Process` |
| `Cancel`, `Restart` | a stop; a crash and the resume from the last checkpoint |

### IntervalJoin

`wiring = "stream"`: both sides come from one source, barriers pass the operator.
`wiring = "native"`: `executeNativeJoin`, where barriers are injected behind it and the snapshot
is read in three steps while the job runs on: the operator's state, the left position, the right
one (`SinkBarrier`, `ReadLeftOffset`, `ReadRightOffset`).  A source that ends or is cancelled
sends its last watermark (`SourceEnds`), which the `select` of the injector may forward before
the shutdown barrier; `flushed` remembers that a restart resumed from a checkpoint behind such a
watermark of a source that had more to read.  The stream wiring is taken to have a consumer group:
a side that was quiet since a restart resumes where it was (`EventTimeWindow` has the other case).  `Matches`,
`Evict` and `AlignedWatermark` are the operator's; `seen` is the latest event time of each side
that the source's watermark generator has shown in this process, which a restart forgets; `late`
records which records came behind the aligned watermark, for which nothing is promised.

### KeyedState

An input is a record or a watermark; a payload is its position in the input, so every value
tells which records are in it.  A Reduce hears one window worker, or, when it is not next to its
Window and becomes a stage of its own, all of them (`job.workers`): then the windows of different
keys come in no common order (`WindowFires`).  `op` holds the operator with the content of its backend (`db`)
and what is in RAM only (list counters, the frontier); `dir` is what a crash leaves on disk.

| Actions | Code |
|---|---|
| `ReadNew`, `ReadAgain` | a new input, or the replay of one after a restart: `KeyedProcess`, `Reduce`, list buffering of windows |
| `OpBarrier`, `SaveCheckpoint` | native or inline snapshot at the barrier, `collectSnapshots` at the end of the pipeline |
| `Crash`, `StartFresh`, `RestoreOperatorState`, `RestoreCrashes`, `OpensPartial` | the next start: reset, restore, a crash inside `RestoreFrom` |

`OutputFollowsInput` computes what each operator must emit from the input alone.  A run restored
from a snapshot that was not taken at its barrier (`spoiled`) and a window that another window
worker overtook (`Overtaken`) are excepted; section 5 has both.

### JobAgent

Successive processes of one job on one checkpoint directory and one blobstore.  The directory
is opened twice, as in the code: by the engine with the retention of the job
(`CheckpointStore`), by the savepoint code with the default one
(`Default == INSTANCE CheckpointStore WITH RetainCompleted <- DefaultRetained`).  A save is one
step here; what a crash inside it does is the business of `ExactlyOnce`.

| Actions | Code |
|---|---|
| `Launch`, `OpenBlob`, `ExtractState`, `ExtractFails`, `SaveExtracted` | `runBuild`, `Serve`, `RestoreSavepoint`, `ExtractCheckpoint` |
| `Resume`, `ResumePrepared`, `Advance`, `SaveCheckpoint`, `SavePrepared`, `CommitSink`, `CompletePrepared` | the engine as the agent sees it |
| `CoordinatorFails`, `WatcherRelays`, `WatcherSeesEnd`, `HardCancel`, `StagesEnd`, `ExecuteReturns`, `RunNotesShutdown`, `RunSettles` | `reportFatal`, the watcher, the tail of `Execute`, `Agent.Run`; the context is read once for the result and once more after the state backends are closed |
| `Cancel`, `RequestSavepoint`, `RequestCancels`, `Terminate` | the HTTP handlers, signals |
| `NothingToPromote`, `CreateSavepoint`, `PutSavepoint`, `Exit` | `promoteSavepoint`, the exit code |
| `Crash` | the process is killed |

### Workflow

A document is a record of the fields the code decides on: a string that is only tested for
being empty is a Boolean, a sensitive text is one of four kinds, an omitted block is `Nil`.
`Validate`, `ResolveSecrets`, `CompileRuntime`, `CompileStream`, `ApplyOperator`, `CompileSink`,
`Execute` and the planner's steps follow each other; each may reject.  A state store may fail to
open (`BackendFails`), and the reader of a running source panics on a TLS file it cannot read
(`OpenReader`).  `MCWorkflow` builds
families of documents that vary one part over sound and unsound values, and combines the
parts of the delivery guarantee freely.

### ControlPlane

One job, its rows in table `runs` (`row`, numbered in creation order), the containers
(`ctr`, the one launched for run r is container r), and for every controller process the
operation it runs under its lock for the job (`op`): where it is (`pc`), the run (`id`),
the copy of the row it has read and will write back (`copy`), the container status and
desired state it has read (`st`, `want`).  Every write of the store and every call of the
backend is a step, the two halves of `Launch` included, so a crash, a second controller or
the container itself can come between any two; only the removals of one round (a sweep, a
pruning, those of `Delete`) are taken together.

| Actions | Code |
|---|---|
| `Submit`, `SubmitLaunch` | `SubmitWithSecretRefs`, `submitSDK`: the job row outside the lock, then `launch` |
| `StartRun`, `CreateContainer`, `StartContainer`, `LaunchFails`, `LaunchGivesUp`, `LaunchBlocked`, `RecordRun`, `RecordFails`, `MarkLaunchRecordFailure` | `startRun`, the backends' `Launch`, `markLaunchRecordFailure`, `blockRun` |
| `Cancel`, `Restart`, `Stop`, `StopFails`, `RemoveStopped`, `SetDesiredRunning` | `Cancel`, `doRestart` |
| `FinishRun`, `PruneContainers`, `PruneTerminalRuns` | `finishRun`, `pruneTerminalRuns` |
| `Delete`, `DeleteJob` | `DeleteWithOptions` |
| `Relaunch`, `Observe`, `Reattach`, `ReattachLive`, `ReattachOther` | `reconcile`, `maybeRestart`, `maybeUnblock`, `reattachUnrecordedBackendRun` |
| `KeepRunning`, `ReconcileStop`, `HandleExit` | `reconcileRun`, `handleExit` |
| `SavepointAccepted`, `SavepointRecorded` | `Savepoint`, which takes no lock |
| `Boot` | start-up with `SweepOrphans` |
| `Crash`, `ContainerStarts` .. `ContainerEnds` | the environment |

`UpdateRun` writes the caller's whole copy and fails when the row is gone or when
`idx_runs_one_active_per_job` rejects the result.  `backend` is Docker or Kubernetes.  Docker
creates a container, which it reports as exited with code 0 until it is started, keeps a
stopped one and removes one at once.  Kubernetes creates a Job whose pod the cluster starts;
`Stop` deletes Job and pods and waits for them, but `Remove` deletes in the background: the Job
is gone, so that `Status` says so, and its pod runs on for its grace period (`"ending"`).  `Stop` of
an empty ID is an error: the Kubernetes client rejects an empty resource name and the
Docker client does not follow the redirect its daemon answers (the fake backend of the
tests accepts it).  A backoff is a time that may or may not have passed, so the
`maybeRestart` right after scheduling is a later `Relaunch`.  Foreign keys are not enforced by the store, so a launch
may follow the deletion of its job.  Not modelled: errors of store calls other than
recording a launch, the audit log of transitions, secret values, host ports, metrics.

## 3. Runs

| Run | Bounds | Shows |
|---|---|---|
| `exactly_once_crash` | 2 partitions x 2 records, 1 tick, 3 process starts | refinement of `ExactlyOnceOutput`; what recovery restores is the readable prefix; completed means committed; group offsets stay behind; the newest completed checkpoint survives |
| `exactly_once_faults` | 1 partition x 1 record, 2 ticks, 3 starts, retention of 1 | no duplicate and no restorable checkpoint without state, with failing calls and torn updates |
| `exactly_once_live` | 2 partitions x 1 record, 1 tick, 2 starts, fairness | `Write` is always released, all input becomes readable |
| `aligned_stage` | 2 workers, 1-slot channels, 1 record, 2 markers, 1 broken chain | no overtaking, consistent cut, every marker leaves, the stage returns |
| `control_plane` | Docker and Kubernetes, 1 controller, 2 runs, 2 attempts, retention 1, 2 crashes; launch, secret, record and stop may fail, containers may vanish or be paused | one live container, always tracked, never swept while live; a stop reaches it; a scheduled restart happens |
| `at_least_once` | 7 jobs (each source, each sink, an asynchronous Kafka writer, an appending and a truncating file), 1-2 records, 1 periodic barrier, 1 failing call, 1 retry, 2 starts | what a resumed run skips was settled, in the sink's hands or erased by it; a clean stop settles all; a checkpoint is its barrier's cut; a stopped or failed run returns |
| `event_time` | 5 jobs (session, sliding, tumbling with idle exit, tumbling and sliding with a shared generator; with and without a consumer group), 2 partitions, 2-4 records, 1 tick, 2-3 starts | each window once, exact sessions, fired windows stay closed, lateness by the rules, exact cut, everything fires |
| `interval_join` | both wirings, 3-4 records, 1 barrier, cancellation, 2 starts (native: 1) | matches joined once, nothing that can match is evicted |
| `keyed_state` | 14 jobs (process, reduce behind one and behind several window workers, buffer, on memory and Pebble), 2 keys, 3-4 inputs, 2 barriers, 2 crashes, 1 failing snapshot | output is a function of the input; closed windows leave nothing |
| `job_agent` | plain, coordinated and no checkpoints; 3 launches, 3 checkpoints, 2 labels, default retention 2 | exit code 0 keeps its promises; a restored run resumes from the archive |
| `workflow` | some 4,100 documents | accepted means started, with the reported guarantee; the plan holds the pipeline |
| `restore_pruned` | as `job_agent` with the code's retention of 3 and 4 checkpoints | a counterexample, section 5 |

Why the bounds are enough: three process starts allow a prepared checkpoint from one
run, a recovery that discards or promotes it, and another run that relies on the
outcome.  A tick next to the final barrier of each run gives two checkpoints in flight
and up to four in the directory, more than are retained; two ticks (`exactly_once_faults`)
give three in one run, so pointers lag and one checkpoint can hide another.  Two records
in a partition tell an overtaken record from a prefix; one suffices to tell loss from
duplication.  Two partitions let positions differ.
In `AlignedStage` one-slot channels block at once, which is the worst case for deadlock,
and two markers let a worker be one marker ahead.
In `ControlPlane` two runs allow a first launch and a restart, automatic or by the user, with a
retention of one that makes the end of the second evict the first; two attempts let the policy
both retry and give up; two crashes can fall between any two calls of either.  (With three runs
and one crash, 887,505 states instead of 145,911, the same properties hold.)
In `AtLeastOnce` two starts give one resume, which is where loss shows; a batch of two and
channels of one or two slots let a barrier meet a sink with a full, a partial and an empty
batch; `SnapLimit = 0` (the code has 8) makes the second checkpoint in flight evict the first.
In `EventTimeWindow` the logs put records on window boundaries, one between two sessions, one
out of order within the allowed lateness and one behind it; two partitions can hold each other's
watermark back or be idle.  Three starts let a checkpoint of the second leave out a partition
that was quiet in it, and the third resume from it.  In
`IntervalJoin` records lie on both edges of the interval.  `KeyedState` has two barriers and two
crashes, so a restored run can checkpoint and be restored again.  In `JobAgent` three launches
allow a savepoint, a run that moves on and a restore, and a default retention below the
number of checkpoints makes pruning happen.
Removing a container is taken to succeed in `control_plane`: when both recording a launch and
removing its container fail, the container is live and no row leads to it, so `LiveIsTracked`
and `SingleLive` need that assumption (it is the hypothesis of the theorems too).

Deadlock is checked in `event_time`, where `Done` marks the end of a behaviour.  Elsewhere it is
switched off: the process starts are bounded, a stage returns and a document is rejected, so
behaviours do end.  That nothing ends too early is what the liveness properties say.

Fairness.  `ExactlyOnce!Fairness` asks that each goroutine takes a step it can always
take: recovery, the injector's reads and its handling of a closed source, the tap, the
sink, the worker, the exits.  The Go scheduler gives that.  The ticker, cancellation,
crashes, faults and the late broker commit are not owed.  `AlignedStage!FairSpec` is the
same for router, workers, readers and merge; it also assumes that the stage downstream
keeps reading, which the composition of stages down to the sink provides.  New input, the
end of the input, failures and the idle timer are not owed; the operators in front of a failed
one go on as long as they have room.
`IntervalJoin!Fairness` is the same for the operator, the injector, the steps of a native
snapshot and the end of a source; behind a cancelled native join nothing need reach the sink.
`EventTimeWindow!Fairness`: injector, operator and the end of the source are weakly fair;
reading is strongly fair, because the `select` of `WatermarkSource.Run` chooses at random among
ready cases and the ticker cannot keep records out for ever.  `AtLeastOnce!Fairness`: every
goroutine that can run does, and a call to a destination ends, with whatever outcome (each sink
has a timeout or a bounded number of retries); stops, crashes, faults and restarts are not owed.
`ControlPlane!Fairness`: an operation under way goes on, a crashed controller is started
again, the launch of a `Submit` and the record of a savepoint follow (weak fairness).  The
reconciler ticks for ever and Go's mutex does not starve a waiter, so it gets its turn
however often users call (strong fairness: the lock is taken and released in between); a
backend failure is transient, so `Stop` does not fail for ever; a pod that was told to end does
(its grace period is bounded).  User calls, crashes and what
containers do are not owed.

## 4. Proofs

TLAPS proves, for every finite set of partitions, every log length, every number of
ticks, restarts and checkpoints, every retention and every set of faults:

* `TypeCorrect` (`ExactlyOnceProofs`): `Spec => []TypeOK`.  The type invariant alone is
  not inductive: a worker in the middle of a save must have a checkpoint ID, or the
  write would be outside the directory (`WorkerHasCheckpoint`).
* `RestorableCheckpointsHaveState`: every completed checkpoint, and
  every one whose marker is readable, has its state directory.
* `NewestCompletedIsKept`: no step loses the newest completed checkpoint.

The last two rest on `DirectoryInv`.  A state directory is deleted by an abort, by
retention and by the start-up sweep; to show that none of them touches a restorable
checkpoint one needs: IDs beyond the last one handed out are unused anywhere
(`FreshIds`); barriers are tapped, prepared and finalized in order (`QueueOrder`); with
no process, nothing is pending (`Quiescent`); while the worker prepares a checkpoint its
marker is not yet readable (`Preparing`), so an abort is harmless; a victim's JSON is
gone before its directory (`RetainOrder`); a transaction the broker may still commit
belongs to a checkpoint with its state (`LimboHasState`).  The argument that retention
spares the newest checkpoint is `NewestIsNoVictim`: nothing newer than the newest exists
and at least one is retained.  `ConstantTypes`, `NewestIn` and `LoadPointerIn` collect
what the assumptions on the constants give.  The assumptions are `StoreAssumption` and
`ExactlyOnceAssumption`; TLC evaluates both on every run.

**The exactly-once guarantee** (`OutputInvariant`, `ExactlyOnceProofs`).  For every finite set of
partitions, log length, number of ticks, restarts and checkpoints, under `Tolerated`:

* `NoRecordTwice`: `Spec => []NoDuplicate`.
* `PositionMatchesState`: `Spec => []StateMatchesPosition`.

and under `Tolerated` and `Lossless`:

* `CompletedMeansCommitted`: `Spec => []CompletedIsCommitted`.
* `RecoveryRestoresTheOutput`: `Spec => []RestoredIsReadablePrefix`.
* `GroupNeverAhead`: `Spec => []GroupBehindOutput`.
* `OutputRefines`: `Spec => ExactlyOnceRefinement`, the engine implements `ExactlyOnceOutput`:
  its initial states are initial there, a commit extends the readable prefix and every other
  step stutters.

`Tolerated` is a consumer group, no failing `UpdateStatus`, no commit that outlives its sender,
and one retained checkpoint if the process may die inside `UpdateStatus`; `Lossless` is no
failing produce and no failing `Save`.  Crashes between all durable writes, failing commits
(effective or not), probes, offset commits and aborts, hard and graceful shutdown are allowed.
The hypotheses are the boundary, not a convenience: for each one that is dropped, a
configuration of section 5 has TLC find the counterexample (`MCQuietPartition`, `MCUpdateFails`,
`MCLateCommit`, `MCTornUpdate`, `MCAbortContinues`).

None of the five properties is inductive: each looks at the directory or at the output, while
a record is in a channel, in a staged transaction or in a commit that may have taken effect.
`GuaranteeInv` quantifies over two pieces of history that the program does not keep: the
frontier `F`, below which everything may be readable and nothing else, and `B`, what the
operators had folded in when each barrier passed them.  With these, the records between two
barriers are the segment between two values of `B` wherever they are; the newest committed
checkpoint holds the frontier and the positions that belong to it; the checkpoint the worker
commits holds the next segment; and the consumer group is never ahead of the frontier.  It is
proved on top of `DirectoryInv`, one lemma per action; `MCOutputInvariant.cfg` checks it by TLC.

**Marker alignment** (`AlignedStageProofs`), for every number of workers, channel capacity and
number of records and markers, with failures anywhere in a worker's chain, cancellation and idle
return:

* `StageTypeCorrect`: `Spec => []TypeOK`.
* `NothingOvertakes`: `Spec => []NoOvertaking`.
* `SnapshotsAreOneCut`: `Spec => []ConsistentCut`.

`StageInv` has two halves.  `InputInv` says that what was routed is folded, in a worker's
channel or behind a marker there, nothing twice and nothing lost.  `MergeInv` follows the copies
of a marker: for some count of markers through each reader, of workers that the merge has
counted and for some origin of each item in the shared fan-in channel, a reader that delivered a
copy is parked until the merge has counted all of them, and what is in front of it belongs to an
earlier epoch.  The fan-in channel does not say which worker an item came from, hence the
existential.  TLC checked `StageInv` with the constants of `MCAlignedStage.cfg` (586,825 states).

**Compiler and planner** (`WorkflowProofs`), for every set of documents and pipelines of any
length:

* `WhatCompilesStarts`: `Spec => []CompiledStarts`.
* `ReportedGuaranteeRuns`: `Spec => []GuaranteeIsWhole`.
* `PlanIsThePipeline`: `Spec => []PlanKeepsPipeline`.

`WorkflowInv` carries what validation established (`Sound`) through the resolution of secrets,
which rewrites the document it was established for; relates the environment to the document
while it is built (`Built`); and says of an unfinished plan that its stages are contiguous, fit
their operators (`Fits`), end where the open group begins and cover what has been read
(`Covers`).  That `takeStateful` stops at the first operator that is not stateful, however many
there are, is `TakeStatefulEnds`: a least counterexample, found with `WFMin` from the
well-founded order of the naturals, stands in for an induction.

**The process of a job** (`JobAgentProofs`), for any number of processes, checkpoints, requests,
labels and any two retentions:

* `CleanExitIsClean`: `Spec => []CleanExitKeepsPromises`.  A stage's failure is excepted when
  `Execute` returned a cancellation and the stop was first asked for afterwards, between the two
  reads of the context (`MCHiddenFailure.cfg`, section 5).
* `RestoreResumesTheArchive`: `Spec => []RestoredIsArchived`.

`AgentInv` has one part per way the promise could be broken.  The directory is opened with two
different retentions, and a restore may put an old checkpoint back: `Directory` says that the
checkpoint `latest-completed.json` names is never a victim of the default retention, so that
`CreateSavepoint` does not delete what it has just picked, and that a prepared checkpoint which
`latest.json` names is the newest.  `InFlight` and `Drained` say that the checkpoint in its commit
is the newest and whole, and that a run that drained into its last checkpoint is the one
`latest-completed.json` names.  `Failures` follows an error from the coordinator through the
channel of one, the watcher and `CoordErr` to the phase: a cancellation is only reported when the
pipeline is already unwinding and nothing else is in flight, so it never takes the place of a
checkpoint's error; of a stage's it may.  `Promotion` and `Restoring` follow a savepoint out and in.  TLC checked `AgentInv` with the
constants of `MCJobAgent.cfg` (4,035,499 states).

**The uncoordinated mode** (`AtLeastOnceProofs`), for every job (source, sink, failure policy,
batch size, channel capacity, log), any number of barriers, faults, retries and restarts and any
limit on the snapshots kept for barriers under way:

* `LossIsTheSinksHolds`: `Spec => []LossIsTheSinks`.
* `CleanStopDeliversHolds`: `Spec => []CleanStopDelivers`.
* `SnapshotIsTheCutHolds`: `Spec => SnapshotIsTheCut`.

The first two rest on `DeliveryInv` (`DeliveryInvHolds`).  `NothingVanishes` says where a record
that was read can be: in one of the channels, in the batch, in a call to the destination, settled,
or refused with the run on its way down.  What a truncating file sink erases at a restart goes
into `excused`, which is the only way out of `Settled`.  `BarriersCover` says that what a barrier covers and is
not behind the sink stage yet is in front of it in the channel, which is what makes the checkpoint
saved at its arrival cover only what the sink has taken (`SavedCovers`).  `Closing` orders the end:
a stage is done only when the one before it is and its channel is empty, unless the stop was
forced.  `SnapshotInv` is separate, because the snapshots are about the operator and not about the
sink: what the operator has folded is the cut at its place in the stream, barriers are numbered in
the order of their injection, and each snapshot in the list is the cut of the barrier with its
number; so an eviction from the list (`SnapLimit`) can lose a snapshot, never exchange two.  The
assumption is `AtLeastOnceParameters`.

**The interval join** (`IntervalJoinProofs`), for every pair of logs, interval, bound on disorder,
channel capacity and number of barriers and restarts:

* `JoinedOnceHolds`: `Spec => []JoinedOnce`.
* `StateSufficesHolds`: `Spec => []StateSuffices`.

`Sound` relates five things: which records have arrived, what the operator keeps, its two
watermarks, which records were late and what was put out.  `JoinInv` (`JoinInvHolds`) asserts it
of the running operator and, where barriers pass the operator, of the checkpoint and of every
barrier behind it, so that a restart is the return to a sound stage.  The two points of the argument are eviction (a record that goes
is out of reach of everything at or above the aligned watermark) and the last
watermark, which the stored nanoseconds do not hold: a restored operator has forgotten it, and
that is harmless only when nothing arrives behind it (`LastIsLast`).  Behind the last watermark of
a source that was cancelled before its end something does: the invariant holds until a restart
resumes from such a checkpoint (`flushed`; `MCJoinFlushes.cfg`).  For the native wiring
the invariant holds until the first restart; `MCJoinLoses.cfg` is the counterexample beyond it.
The assumptions are `TimeAxis`, the order of the three special times, and `JoinParameters`.

**Event time** (`EventTimeWindowProofs`), for every set of partitions, all logs, every size,
slide, offset, gap, lateness and bound on disorder, any number of barriers and restarts, with idle
partitions, idle exit, cancellation and crashes:

* `CutIsExactHolds`: `Spec => []CutIsExact`.
* `LateOnlyWhenBehindHolds`: `Spec => []LateOnlyWhenBehind`.
* `FiredWindowStaysClosedHolds`: `Spec => []FiredWindowStaysClosed`.
* `InEachWindowOnceHolds`: `Spec => []InEachWindowOnce`.
* `SessionsAreExactHolds`: `Spec => []SessionsAreExact`.

Each of the five says `~rewound => ...`, and so do the invariants below them: without a consumer
group, the first restart from a checkpoint that leaves out a quiet partition reads it again from
its beginning, and from then on nothing is claimed (`MCRewinds.cfg`, section 5).  With a group, or
while every partition of a checkpoint is named, `rewound` stays false.  There are two invariants.  `StreamInv` (`StreamInvHolds`) is about the channel: what the operator
has taken and what is in front of it is what was read, in the order of each partition; a barrier
carries the offsets of what is in front of it; and a watermark rests on records that are in front
of it, or on a partition that was passed over as idle, which is what a late record can be traced
back to.  `WindowInv` (`WindowInvHolds`) is about the operator: open and fired windows share out
the accepted records (`SharedOut`: each counted once per window, in windows of its own key and
time, in all of them, and for sessions in one only); open windows are ahead of the watermark
(`OpenAhead`) and fired ones behind it (`FiredBehind`), so that a record that would reopen one is
too late.  Both are asserted of the checkpoint as well as of the running operator.  What the
assigners' loops compute is a lemma each: the walk of the sliding assigner and the division of the
tumbling one give exactly the aligned intervals that hold the record (`SlidingStarts`,
`TumblingStarts`), which `TrueWindows` states without a walk.  For sessions, the comment in
`assignToWindow` (`operator/window.go:283`) argues that comparing every open session with the
new record's own window is enough, although the merged window grows as it goes; `SpanApart` and
`SpanSession` prove it: open sessions of a key are disjoint, so one that touches the merged span
touches the new window.  After the last watermark (`hist.maxed`, section 5) nothing is claimed of
fired windows.  `MCEventTimeWindow.cfg` has TLC check the five properties (631,373 states).

**The control plane.**  For one controller, every number of runs, attempts and crashes, every retention and every
set of faults without a failing removal (`ControlPlaneProofs`):

* `ControlTypeCorrect`: `Spec => []TypeOK`, for any number of controllers and all faults.
* `OneLiveRun`: `Spec => []SingleLive`.
* `LiveContainersTracked`: `Spec => []LiveIsTracked`.
* `CleanupIsSafe`: `Spec => CleanupSparesLive`.

`SingleLive` has two halves: no two containers that have not been told to end, on either backend,
and on Docker no two at all, because nothing there is ever ending (`DockerKills`).  The first is
not inductive.  `CreateContainer` and `StartContainer` are the steps that make a container live, so
`FenceInv` says where nothing may be live: before a launch and after a failed one (`LaunchInv`), wherever an
operation ends a run (`EndInv`), when a run waits for a restart or a secret (`Accounts`) and
when the job has no active run (`InactiveIsDown`).  Elsewhere it names the one container
that may be: the row's, or for a row without a container ID the one launched for it
(`Holder`), and the same for the copy an operation is working on (`HoldInv`).  `Delete` is the
subtle case: it can leave an unrecorded container behind while a `Submit` has not launched
yet; it does not, because an unrecorded container needs a crash, which ends the `Submit` too
(`SubmitSeesRecorded`, `DeleteLeaves`).  Every clause bounds the live containers from above,
so steps that only take containers away need no argument (`LiveShrinks`), and the others
reduce to two frames: a step that writes no row (`OpMoves`) and a write of the newest row
that ends the operation (`RowWrite`).  `ControlAssumption` is the assumption on the
constants; `OneController` and `"remove" \notin Faults` are hypotheses of the theorems.
With two controllers `SingleLive` is false (`MCTwoControllers.cfg`, section 5).

Only model-checked:

* every liveness property (`MarkerLeaves`, `StageReturns`, `StopReturns`, `EverythingFires`,
  `SinkReleased`, `EverythingReadable`, `StopReachesContainer`, `RestartHappens`): liveness
  under fairness and ENABLED are beyond this prover;
* `KeyedState!OutputFollowsInput`: it compares the output with a reference that is computed from
  the whole input; the step needs what counts and ordered sequences of the input come to when it
  grows by one, which is induction over data;
* `KeyedState!DeadWindowsGo`: a relation between the frontier and the stored windows, within
  reach, not done yet.

## 5. Where comments and code disagree

`restore_pruned` is a run: a savepoint that is older than the three newest completed
checkpoints of the directory is restored by a `Save` whose own retention deletes it again as
the oldest; both pointers then name a missing file, recovery falls back to the newest
checkpoint, and the run resumes from that one although the savepoint was reported as restored.
`PROJECT.json` quotes the line.

The other disagreements have a configuration next to the runs, to be checked by hand
(`tlc -config MCAbortContinues.cfg MCExactlyOnce`); TLC finds a counterexample for each.

| Configuration | Module, property | What happens |
|---|---|---|
| `MCAbortContinues.cfg` | `MCExactlyOnce`, `CompletedIsCommitted` | after an abort the coordinator keeps finalizing until the watcher has cancelled the pipeline (`checkpoint/coordinator.go:332`), so a later checkpoint can complete without the aborted interval's output; the comment at line 51 says the failure fails the pipeline and recovery restores the latest completed checkpoint |
| `MCUpdateFails.cfg` | `MCExactlyOnce`, `NoDuplicate` | a checkpoint that committed but could not be marked completed (`coordinator.go:285`) is hidden by the next prepared one; its interval is produced twice, where the comment says the marker makes it recoverable |
| `MCQuietPartition.cfg` | `MCExactlyOnce`, `StateMatchesPosition` | the injector's positions start empty in every run (`engine.go:1089`); without a consumer group a quiet partition restarts from its beginning, which `source/kafka_offset_tracker.go:118` means to exclude |
| `MCLateCommit.cfg` | `MCExactlyOnce`, `NoDuplicate` | the marker is probed (`engine.go:1376`) before the old producer is fenced; a commit the broker completes in between is replayed |
| `MCTornUpdate.cfg` | `MCExactlyOnce`, `NoDuplicate` | the process dies inside `UpdateStatus` after the record is marked completed and before `latest-completed.json` follows (`checkpoint/checkpoint.go`, `saveLocked`); the pointer stays on an older completed checkpoint that retention keeps, and a later recovery that rejects a prepared checkpoint restores that one and replays committed output |
| `MCIdleWorker.cfg` | `AlignedStage`, `EveryMarkerLeaves` | an idle window worker returns (`operator/window.go:223`) and stops the marker alignment of its stage; `pipeline/keyed_stage.go:23` says each marker is emitted once |
| `MCTwoControllers.cfg` | `ControlPlane`, `FencedAcrossProcesses` | a run without a container ID is attached to the job's newest container, whichever run launched it (`control/reconcile.go:141`); a second controller on the same store ends a run that the first is launching, and both launch; `docs/self-hosting.md:38` says at most one does |
| `MCStoppedSettles.cfg` | `ControlPlane`, `StoppedSettles` | a run that waits for its restart without a container ID cannot be cancelled, restarted or reconciled once the job should be stopped (`control/reconcile.go:292`) |
| `MCBufferedLoses.cfg` | `MCAtLeastOnce`, `AtLeastOnceDelivery` | an uncoordinated checkpoint is saved once the sink has taken the records ahead of the barrier (`pipeline/stage.go:167`), which a buffering sink has not written; a crash then loses them, where `sink/file.go` promises at-least-once with checkpointing |
| `MCJoinLoses.cfg` | `MCIntervalJoin`, `NativeAtLeastOnce` | the native join's barriers are injected behind the operator (`engine.go:848`); pairs in the channels are neither in its live snapshot nor behind its live positions, and a crash loses them |
| `MCJoinHangs.cfg` | `MCIntervalJoin`, `CancelledReturns` | a cancelled native join stops reading at once, which also stops the shutdown timer; with full channels the operator never returns and `Execute` waits for it |
| `MCChainFails.cfg` | `AlignedStage`, `FailureUnwinds` | a worker reads the errors of its operators in the order of the chain (`pipeline/keyed_stage.go:188`), so the failure of a later one waits for the first to end and does not cancel the stage; the first fills the channel in front of the dead one and never ends, and the stage hangs even when it is told to stop; `keyed_stage.go:93` says a worker's panic cancels the stage "so the router, remaining workers, and merge unwind instead of deadlocking" |
| `MCLingeringPod.cfg` | `ControlPlane`, `NeverTwoRunning` | on Kubernetes `Remove` deletes the Job in the background (`control/backend/kubernetes.go:691`), its pod runs on for up to 45 s (line 365) while `Status` says gone (line 445); a restart after a launch that could not be recorded runs a second pod beside it, where `controller.go:710` says "never run two containers for one job at once" |
| `MCRewinds.cfg` | `MCEventTimeWindow`, `NeverRewinds` | the empty map of the injector (`engine.go:1089`) again, as the window operator sees it: without a consumer group the third run reads a quiet partition into windows that have seen it |
| `MCJoinFlushes.cfg` | `MCIntervalJoin`, `StopLosesNoMatch` | a cancelled `WatermarkSource` sends the last watermark (`source/watermark.go:150`), the injector may forward it before the shutdown barrier (`engine.go:1117`), the join evicts everything, and the resumed job misses matches with the records still to be read; `watermark.go:109` says this "guarantees correct end-of-stream behavior for both batch and streaming sources" |
| `MCFileTruncates.cfg` | `MCAtLeastOnce`, `WrittenStaysOrReplays` | `FileSink` opens its file with `O_TRUNC` unless `FileSinkAppend` is given (`sink/file.go:74`), so a resumed run erases what the run before wrote and does not read it again; `file.go:38` says "Delivery is at-least-once with checkpointing" |
| `MCHiddenFailure.cfg` | `MCJobAgent`, `CleanExitHidesNoFailure` | a stage fails, the cancellation it leaves is returned as the run's error (`engine.go:678`), a stop is asked for while the state backends close, and the agent takes the cancellation for a clean finish (`jobagent/agent.go:109`): exit code 0, which the comment at lines 114-124 means to exclude |
| `MCOvertakenWindow.cfg` | `MCKeyedState`, `EvictedIsFinal` | a Reduce in a stage of its own behind several window workers (`pipeline/planner.go:189`) moves its frontier with the latest window any of them fired and evicts a window of another worker whose records are still coming (`operator/reduce.go:177`); they start a new accumulator |

Noticed on the way, without a configuration:

* Checkpoints: a barrier-time snapshot that failed or was
  evicted is replaced by a live one, or by nothing, and the checkpoint is saved as if sound
  (`spoiled` in `AtLeastOnce` and `KeyedState`).  Group offsets are committed as records are
  emitted, so a crash before the first checkpoint loses what was in flight.
* Event time: the last watermark and the zero time do not fit the stored nanoseconds, so after a
  graceful stop the restored watermark is far in the past and a fired window can open again
  (`hist.maxed`); a timestamp before the offset is put into the wrong tumbling window by Go's
  division; a partition that was never seen does not hold the watermark back.  Two comments say
  otherwise than the code: `window/sliding.go:18` puts a record at 00:03 into [00:04-00:09], which
  starts after it, and leaves out [23:59-00:04), which `AssignWindows` assigns
  (`InEachWindowOnce` holds of the code); `stream.go:268` says that `Window(...).Reduce(...)` keeps
  "a per-window accumulator around indefinitely", where `stream.go:194` and
  `operator/reduce.go:214` say it is evicted, which it is (`DeadWindowsGo`).
* State: an inline restore on Pebble keeps namespaces that are not in the snapshot; a crash
  inside `RestoreFrom` leaves a partial directory that the next start may refuse to open.
* Sinks: `Execute` returns nil for any stage error that wraps a cancellation; a cancelled
  Postgres retry returns before the failure policy is asked; background Kafka flushes can
  reorder batches; the fetch backoff `1 << attempt` is not capped.
* Savepoints: extraction overwrites state files of a retained checkpoint in place; `Serve` and
  `promoteSavepoint` open the directory with the default retention whatever
  `CHECKPOINT_RETENTION` says; a second request overwrites the label of the first although both
  were accepted; when the final save failed, an older checkpoint is promoted; `/cancel` before
  `Run` is answered and lost; the phase, which "only ever moves forward", goes from finished to
  failed; the reconciler relaunches a failed restore without the savepoint
  (`control/reconcile.go:305`); labels of all jobs share one Docker volume.
* Workflows: the delivery check looks at `source` only, so named `sources` with `exactlyOnce` and
  a plain sink are accepted; the validator rejects the `file` types that `spec.go` documents and
  accepts settings the compiler rejects; an unreadable TLS file makes `NewTxnKafkaSink` panic
  inside the compiler, and one of a source panics in its running reader (`source/auth.go:30`);
  at-least-once is reported for sources that cannot resume; nothing calls
  `FilterConfig.Validate`, and a filter with an unknown operator drops every record
  (`FiltersCompare` states it).
* Control plane: `PruneTerminalRuns` deletes every terminal run for `keep <= 0`, where its comment
  says it keeps all; `started_at` is ordered as text with trailing zeros cut; the table of valid
  lifecycle transitions is not enforced; unblocking a run uses up attempts; a savepoint takes no
  lock and can stop the run of a restart that came in between; a Docker container that was created
  and not started when the controller died is reported as exited with code 0
  (`control/backend/docker.go:326`), so its run ends as finished although it never ran.

## 6. Not modelled, and the plan

Not modelled: clock regressions and unreadable files in the checkpoint directory; the test hook of
the coordinator; what the Kafka client does with concurrent calls to end a transaction; rebalancing
and the removal of partitions; encodings, object names and upsert deduplication in sinks; key
encoding and closed-backend calls in `state/`, and the sharing of table files by hard links between
Pebble checkpoints; the failure policy of `Process` and user functions; `List`, `Delete` and
`Exists` of the blobstores, which only tests use; decoding of YAML and JSON; secret values; the
API, CLI, stream builders, history, metrics and traces, which keep no state that a decision
depends on.

Next: `DeadWindowsGo` of `KeyedState` in a proof module of its own, then the part of
`OutputFollowsInput` that needs no induction over the input: that a snapshot and the replay behind
it hold the inputs up to the operator's position, each once.
