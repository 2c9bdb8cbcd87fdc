----------------------------- MODULE ExactlyOnce -----------------------------
(***************************************************************************)
(* Coordinated (exactly-once) checkpointing of a pipeline with one         *)
(* transactional sink: the barrier injector of engine.go, the finalize     *)
(* worker of checkpoint.Coordinator, sink.TxnKafkaSink, the checkpoint     *)
(* directory (CheckpointStore), the crash of the process and the recovery  *)
(* of Execute / resolveCoordinatedRecovery.                                *)
(*                                                                         *)
(* Goroutines interleave freely: the injector (Read, Tick, ...), the tap   *)
(* before the sink (TapBarrier), the sink's Write loop (SinkWrite,         *)
(* SinkPrepare), the coordinator's worker (TakeEvent ... CommitOffsets),   *)
(* the fatal-error watcher (HardCancel), and the environment (Crash).      *)
(*                                                                         *)
(* Records between two barriers reach the sink in any order, because keyed *)
(* and parallel stages lie in between; no record crosses a barrier (module *)
(* AlignedStage shows why).  flight is therefore a set of records, each    *)
(* tagged with the barrier that precedes it.                               *)
(***************************************************************************)
EXTENDS CheckpointStore

CONSTANTS MaxTicks,     \* bound on barriers injected by the ticker, over all runs
          MaxRuns,      \* bound on process starts
          GroupMode,    \* TRUE: consumer-group source; FALSE: KafkaParallel or FileSource
          Faults,       \* failures the environment may inject
          TornCrash     \* TRUE: the process may also die inside UpdateStatus,
                        \* with the file completed and the pointer not yet moved

\* A produce or flush, the Save of a prepared checkpoint, the UpdateStatus to
\* completed, EndTransaction(commit), EndTransaction(abort), the advisory offset
\* commit and the marker probe can fail; "late" is a commit request the broker
\* finishes after its sender died.
AllFaults == {"produce", "save", "update", "commit", "abort", "offsets", "probe", "late"}
WorkerSteps == {"idle", "file", "latest", "latestDone", "retain", "retainDir",
                "commit", "abort", "offsets"}

ASSUME ExactlyOnceAssumption ==
    /\ MaxTicks \in Nat
    /\ MaxRuns \in Nat \ {0}
    /\ MaxId >= MaxTicks + MaxRuns
    /\ GroupMode \in BOOLEAN
    /\ Faults \subseteq AllFaults
    /\ TornCrash \in BOOLEAN

VARIABLES
  (* Kafka: what outlives the process besides the checkpoint directory *)
    visible,      \* how often the output of each source record is readable (read_committed)
    markers,      \* checkpoint IDs whose marker is readable
    staged,       \* source records produced into the open transaction
    limbo,        \* [id, recs]: an EndTxn the dead process had already sent
    group,        \* offsets committed for the consumer group
  (* the engine *)
    phase,        \* where Execute is
    runs,         \* process starts so far
    restored,     \* the checkpoint recovery chose (NoId: fresh start)
    fatal,        \* Coordinator.fatal holds an error
    hard,         \* hardCtx is cancelled
  (* the injector *)
    readPos,      \* next offset the source delivers, per partition
    aligned,      \* injectBarriers' offsets map, per partition
    folded,       \* records the operators have folded into their state
    lastId,       \* last checkpoint ID handed out
    ticks,        \* ticker barriers so far
  (* the pipeline and the sink *)
    flight,       \* records between the injector and the sink
    sinkId,       \* last barrier the sink is done with
    sinkWait,     \* barrier Write blocks on, or NoId
    produceErr,   \* TxnKafkaSink.produceErr
  (* the coordinator *)
    pending,      \* Coordinator.pending
    event,        \* Coordinator.events: at most one, since the sink blocks
    worker        \* the finalize worker

kafkaVars == <<visible, markers, staged, limbo, group>>
engineVars == <<phase, runs, restored, fatal, hard>>
injectorVars == <<readPos, aligned, folded, lastId, ticks>>
sinkVars == <<flight, sinkId, sinkWait, produceErr>>
coordVars == <<pending, event, worker>>
vars == <<storeVars, kafkaVars, engineVars, injectorVars, sinkVars, coordVars>>

Phases == {"down", "boot", "promote", "restore", "run", "drain", "ended"}
Streaming == phase \in {"run", "drain", "ended"}   \* stages are running
Offsets == 0..(LogEnd - 1)
Records == Partitions \X Offsets
InFlight == [rec : Records, after : Ids \cup {NoId}]
PendingCheckpoint == [stage   : {"none", "injected", "tapped"},
                      offsets : [Partitions -> Pos \cup {NoPos}],
                      state   : [Partitions -> Nat],
                      sinkErr : BOOLEAN]
NoPending == [stage |-> "none", offsets |-> NoPositions, state |-> NoState,
              sinkErr |-> FALSE]
Worker == [pc : WorkerSteps, id : Ids \cup {NoId}, victim : Ids \cup {NoId},
           data : CheckpointData]
IdleWorker == [pc |-> "idle", id |-> NoId, victim |-> NoId, data |-> Absent]
NoLimbo == [id |-> NoId, recs |-> {}]

\* The value of every variable has the shape the code gives it.
TypeOK ==
    /\ StoreTypeOK
    /\ visible \in [Records -> Nat]
    /\ markers \subseteq Ids
    /\ staged \subseteq Records
    /\ limbo \in [id : Ids \cup {NoId}, recs : SUBSET Records]
    /\ group \in [Partitions -> Pos]
    /\ phase \in Phases
    /\ runs \in 0..MaxRuns
    /\ restored \in Ids \cup {NoId}
    /\ fatal \in BOOLEAN
    /\ hard \in BOOLEAN
    /\ readPos \in [Partitions -> Pos]
    /\ aligned \in [Partitions -> Pos \cup {NoPos}]
    /\ folded \in [Partitions -> Nat]
    /\ lastId \in Ids \cup {NoId}
    /\ ticks \in 0..MaxTicks
    /\ flight \subseteq InFlight
    /\ sinkId \in Ids \cup {NoId}
    /\ sinkWait \in Ids \cup {NoId}
    /\ produceErr \in BOOLEAN
    /\ pending \in [Ids -> PendingCheckpoint]
    /\ event \in Ids \cup {NoId}
    /\ worker \in Worker

Init ==
    /\ StoreInit
    /\ visible = [r \in Records |-> 0]
    /\ markers = {}
    /\ staged = {}
    /\ limbo = NoLimbo
    /\ group = NoState
    /\ phase = "down"
    /\ runs = 0
    /\ restored = NoId
    /\ fatal = FALSE
    /\ hard = FALSE
    /\ readPos = NoState
    /\ aligned = NoPositions
    /\ folded = NoState
    /\ lastId = NoId
    /\ ticks = 0
    /\ flight = {}
    /\ sinkId = NoId
    /\ sinkWait = NoId
    /\ produceErr = FALSE
    /\ pending = [i \in Ids |-> NoPending]
    /\ event = NoId
    /\ worker = IdleWorker

-----------------------------------------------------------------------------
(* The process goes away, by a crash or because Execute returned: every    *)
(* goroutine and every map it kept is gone.                                *)

ProcessGone ==
    /\ phase' = "down"
    /\ restored' = NoId
    /\ fatal' = FALSE
    /\ hard' = FALSE
    /\ readPos' = NoState
    /\ aligned' = NoPositions
    /\ folded' = NoState
    /\ flight' = {}
    /\ sinkId' = NoId
    /\ sinkWait' = NoId
    /\ produceErr' = FALSE
    /\ pending' = [i \in Ids |-> NoPending]
    /\ event' = NoId
    /\ worker' = IdleWorker
    /\ UNCHANGED <<runs, lastId, ticks>>

\* UpdateStatus has marked the checkpoint completed but has not moved
\* latest-completed.json to it.
TornUpdate == worker.pc \in {"latest", "latestDone"} /\ worker.data.status = "completed"

\* kill -9, OOM, machine loss, between any two writes of a Save and of retention;
\* between those of an UpdateStatus only with TornCrash.  The broker never makes the open transaction
\* readable, unless the commit request had left the process.
Crash ==
    /\ phase # "down"
    /\ TornUpdate => TornCrash
    /\ runs < MaxRuns
    /\ staged' = {}
    /\ \/ UNCHANGED limbo
       \/ /\ "late" \in Faults
          /\ worker.pc = "commit"
          /\ sinkWait = worker.id
          /\ limbo' = [id |-> worker.id, recs |-> staged]
    /\ ProcessGone
    /\ UNCHANGED <<storeVars, visible, markers, group>>

\* Records of the set R become readable once more.
Publish(R) == visible' = [r \in Records |-> visible[r] + (IF r \in R THEN 1 ELSE 0)]

\* The broker finishes a commit it had received from a process that is gone
\* and whose transactional ID no new producer has fenced yet.
LateCommit ==
    /\ limbo.id # NoId
    /\ Publish(limbo.recs)
    /\ markers' = markers \cup {limbo.id}
    /\ limbo' = NoLimbo
    /\ UNCHANGED <<storeVars, staged, group, engineVars, injectorVars, sinkVars, coordVars>>

-----------------------------------------------------------------------------
(* Start-up: NewFileStorage, resolveCoordinatedRecovery, the restore of    *)
(* source positions and operator state.                                    *)

Boot ==
    /\ phase = "down"
    /\ runs < MaxRuns
    /\ runs' = runs + 1
    /\ phase' = "boot"
    /\ Maintain
    /\ UNCHANGED <<kafkaVars, restored, fatal, hard, injectorVars, sinkVars, coordVars>>

\* Mutants: recovery trusts, or never trusts, the prepared file.
WasCommitted_Always(id) == TRUE
WasCommitted_Never(id) == FALSE

\* The marker probe: under read_committed, up to the last stable offset.
WasCommitted(id) == id \in markers

\* The decision table of resolveCoordinatedRecovery.
ResolveCoordinatedRecovery ==
    LET found == LoadPointer(files, latest, FALSE)
    IN  /\ phase = "boot"
        /\ latest' = RepairedPointer(files, latest, FALSE)
        /\ \/ /\ found # NoId => files[found].status = "completed"
              /\ restored' = found
              /\ phase' = "restore"
              /\ UNCHANGED <<latestCompleted, worker>>
           \/ /\ found # NoId /\ files[found].status = "prepared"
              /\ WasCommitted(found)
              /\ restored' = found
              /\ phase' = "promote"
              /\ worker' = [pc |-> "file", id |-> found, victim |-> NoId,
                            data |-> [files[found] EXCEPT !.status = "completed"]]
              /\ UNCHANGED latestCompleted
           \/ /\ found # NoId /\ files[found].status = "prepared"
              /\ ~WasCommitted(found)
              /\ restored' = LoadPointer(files, latestCompleted, TRUE)
              /\ latestCompleted' = RepairedPointer(files, latestCompleted, TRUE)
              /\ phase' = "restore"
              /\ UNCHANGED worker
        /\ UNCHANGED <<files, dirs, kafkaVars, runs, fatal, hard, injectorVars,
                       sinkVars, pending, event>>

\* WasCommitted cannot reach the marker topic: Execute refuses to start.
ProbeFails ==
    /\ phase = "boot"
    /\ "probe" \in Faults
    /\ runs < MaxRuns
    /\ LET found == LoadPointer(files, latest, FALSE)
       IN  found # NoId /\ files[found].status = "prepared"
    /\ ProcessGone
    /\ UNCHANGED <<storeVars, kafkaVars>>

\* Positions a checkpoint holds; none for a fresh start.
SavedPositions(id) == IF id = NoId THEN NoPositions ELSE files[id].offsets

\* Mutants: a partition without a saved position gets no start offset; the
\* group's committed offsets win over the checkpoint.
StartPosition_NoDefault(id, p) == SavedPositions(id)[p]
StartPosition_GroupFirst(id, p) == group[p]

\* Where the reader of partition p starts.  Positions in the checkpoint win; a
\* partition without one starts at the group's committed offset, or, without a
\* consumer group, at the configured start offset (the earliest).
StartPosition(id, p) ==
    IF SavedPositions(id)[p] # NoPos THEN SavedPositions(id)[p]
    ELSE IF GroupMode THEN group[p] ELSE 0

\* Restore the source and the operators, then start every goroutine.  The new
\* producer fences the old one; injectBarriers starts with an empty map.
Start ==
    /\ phase = "restore"
    /\ restored = NoId \/ restored \in dirs
    /\ phase' = "run"
    /\ readPos' = [p \in Partitions |-> StartPosition(restored, p)]
    /\ group' = IF GroupMode THEN [p \in Partitions |-> StartPosition(restored, p)]
                ELSE group
    /\ folded' = IF restored = NoId THEN NoState ELSE files[restored].state
    /\ aligned' = NoPositions
    /\ sinkId' = lastId
    /\ limbo' = NoLimbo
    /\ UNCHANGED <<storeVars, visible, markers, staged, runs, restored, fatal, hard,
                   lastId, ticks, flight, sinkWait, produceErr, coordVars>>

-----------------------------------------------------------------------------
(* injectBarriers.                                                         *)

\* A data record passes the injector, which advances the partition's aligned
\* position to the record's offset + 1; the operators then fold it.
Read(p) ==
    /\ phase \in {"run", "drain"} /\ ~hard
    /\ readPos[p] < LogEnd
    /\ readPos' = [readPos EXCEPT ![p] = @ + 1]
    /\ aligned' = [aligned EXCEPT ![p] = readPos[p] + 1]
    /\ folded' = [folded EXCEPT ![p] = @ + 1]
    /\ flight' = flight \cup {[rec |-> <<p, readPos[p]>>, after |-> lastId]}
    /\ UNCHANGED <<storeVars, kafkaVars, engineVars, lastId, ticks, sinkId, sinkWait,
                   produceErr, coordVars>>

\* registerAlignedOffsets (OnBarrierInjected), then the barrier enters the
\* stream.  The state is what the operators hold when the barrier passes them.
InjectBarrier ==
    /\ lastId < MaxId
    /\ lastId' = lastId + 1
    /\ pending' = [pending EXCEPT ![lastId + 1] =
                     [stage |-> "injected", offsets |-> aligned, state |-> folded,
                      sinkErr |-> FALSE]]
    /\ UNCHANGED <<readPos, aligned, folded, event, worker>>

\* The checkpoint ticker.
Tick ==
    /\ phase = "run" /\ ~hard
    /\ ticks < MaxTicks
    /\ ticks' = ticks + 1
    /\ InjectBarrier
    /\ UNCHANGED <<storeVars, kafkaVars, engineVars, sinkVars>>

\* ctx is cancelled: one "-shutdown" barrier, then whatever the source had
\* already handed over is forwarded with no barrier behind it.
CtxDone ==
    /\ phase = "run" /\ ~hard
    /\ runs < MaxRuns
    /\ phase' = "drain"
    /\ InjectBarrier
    /\ UNCHANGED <<storeVars, kafkaVars, runs, restored, fatal, hard, ticks, sinkVars>>

\* The drained source channel is closed.
DrainEnd ==
    /\ phase = "drain"
    /\ phase' = "ended"
    /\ UNCHANGED <<storeVars, kafkaVars, runs, restored, fatal, hard, injectorVars,
                   sinkVars, coordVars>>

\* Mutant: the source ends without a last barrier.
SourceClosed_NoBarrier ==
    /\ phase = "run" /\ ~hard
    /\ \A p \in Partitions : readPos[p] = LogEnd
    /\ phase' = "ended"
    /\ UNCHANGED <<storeVars, kafkaVars, runs, restored, fatal, hard, injectorVars,
                   sinkVars, coordVars>>

\* End of a bounded source: one "-final" barrier.
SourceClosed ==
    /\ phase = "run" /\ ~hard
    /\ \A p \in Partitions : readPos[p] = LogEnd
    /\ phase' = "ended"
    /\ InjectBarrier
    /\ UNCHANGED <<storeVars, kafkaVars, runs, restored, fatal, hard, ticks, sinkVars>>

-----------------------------------------------------------------------------
(* The tap before the sink (barrierDetect) and TxnKafkaSink.Write.         *)

\* Operators wrote their native state directories when the barrier passed them;
\* the tap hands the collected snapshot to the coordinator (OnStateSnapshot)
\* before it forwards the barrier.
TapBarrier(id) ==
    /\ Streaming
    /\ pending[id].stage = "injected"
    /\ \A j \in Ids : j < id => pending[j].stage # "injected"
    /\ pending' = [pending EXCEPT ![id].stage = "tapped"]
    /\ dirs' = dirs \cup {id}
    /\ UNCHANGED <<files, latest, latestCompleted, kafkaVars, engineVars, injectorVars,
                   sinkVars, event, worker>>

\* The next barrier the sink will see.
NextBarrier == sinkId + 1

\* A data record is produced into the open transaction, or its produce fails
\* and the error is latched until the next barrier.
SinkWrite(f) ==
    /\ Streaming /\ ~hard
    /\ sinkWait = NoId
    /\ f.after = sinkId
    /\ flight' = flight \ {f}
    /\ \/ staged' = staged \cup {f.rec} /\ UNCHANGED produceErr
       \/ "produce" \in Faults /\ produceErr' = TRUE /\ UNCHANGED staged
    /\ UNCHANGED <<storeVars, visible, markers, limbo, group, engineVars, injectorVars,
                   sinkId, sinkWait, coordVars>>

\* Mutant: a barrier overtakes records.
Delivered_Overtaken == TRUE

\* Every record ahead of the next barrier has been taken by the sink: no stage
\* lets a barrier overtake a record.
Delivered == \A f \in flight : f.after # sinkId

\* A barrier reaches Write behind everything that precedes it: produce the
\* marker, flush, report to OnSinkPrepared and block.
SinkPrepare ==
    /\ Streaming /\ ~hard
    /\ sinkWait = NoId
    /\ NextBarrier <= lastId
    /\ pending[NextBarrier].stage = "tapped"
    /\ Delivered
    /\ sinkWait' = NextBarrier
    /\ \E flushErr \in {FALSE} \cup {x \in {TRUE} : "produce" \in Faults} :
         pending' = [pending EXCEPT ![NextBarrier].sinkErr = produceErr \/ flushErr]
    /\ event' = NextBarrier
    /\ UNCHANGED <<storeVars, kafkaVars, engineVars, injectorVars, flight, sinkId,
                   produceErr, worker>>

\* Mutant: the waiter is never released.
Signal_Lost(id) ==
    /\ produceErr' = FALSE
    /\ UNCHANGED <<sinkWait, sinkId>>

\* signal: Commit or Abort opened the next transaction and released Write.
Signal(id) ==
    /\ sinkWait' = NoId
    /\ sinkId' = id
    /\ produceErr' = FALSE

-----------------------------------------------------------------------------
(* Coordinator.finalize, one step per durable effect.                      *)

To(pc) == worker' = [worker EXCEPT !.pc = pc]

\* Take the event and the pending checkpoint.
TakeEvent ==
    /\ Streaming
    /\ worker.pc = "idle"
    /\ event # NoId
    /\ event' = NoId
    /\ pending' = [pending EXCEPT ![event] = NoPending]
    /\ worker' = [pc |-> IF pending[event].sinkErr THEN "abort" ELSE "file",
                  id |-> event, victim |-> NoId,
                  data |-> [status |-> "prepared", offsets |-> pending[event].offsets,
                            state |-> pending[event].state]]
    /\ UNCHANGED <<storeVars, kafkaVars, engineVars, injectorVars, sinkVars>>

\* saveLocked, first write: the checkpoint JSON, after its state directory is
\* found and synced.
SaveFile ==
    /\ worker.pc = "file"
    /\ worker.id \in dirs
    /\ WriteCheckpoint(worker.id, worker.data)
    /\ To("latest")
    /\ UNCHANGED <<kafkaVars, engineVars, injectorVars, sinkVars, pending, event>>

SaveLatest ==
    /\ worker.pc = "latest"
    /\ WriteLatest(worker.id)
    /\ To(IF worker.data.status = "completed" THEN "latestDone" ELSE "retain")
    /\ UNCHANGED <<kafkaVars, engineVars, injectorVars, sinkVars, pending, event>>

SaveLatestCompleted ==
    /\ worker.pc = "latestDone"
    /\ WriteLatestCompleted(worker.id)
    /\ To("retain")
    /\ UNCHANGED <<kafkaVars, engineVars, injectorVars, sinkVars, pending, event>>

\* enforceRetentionLocked removes the oldest victim: its JSON, then its
\* directory, and looks again.
RetainFile ==
    /\ worker.pc = "retain"
    /\ \E v \in Victims(files) :
         /\ \A u \in Victims(files) : v <= u
         /\ RemoveCheckpoint(v)
         /\ worker' = [worker EXCEPT !.pc = "retainDir", !.victim = v]
    /\ UNCHANGED <<kafkaVars, engineVars, injectorVars, sinkVars, pending, event>>

RetainDir ==
    /\ worker.pc = "retainDir"
    /\ DeleteStateDirs(worker.victim)
    /\ worker' = [worker EXCEPT !.pc = "retain", !.victim = NoId]
    /\ UNCHANGED <<kafkaVars, engineVars, injectorVars, sinkVars, pending, event>>

\* Mutant: positions are committed before the sink's transaction.
AfterSave_OffsetsFirst(status) == "offsets"

\* What finalize does after a successful Save or UpdateStatus.
AfterSave(status) == IF status = "completed" THEN "offsets" ELSE "commit"

\* Save or UpdateStatus returned nil: a prepared checkpoint goes on to the
\* commit, a completed one to the advisory offset commit; a promotion during
\* recovery goes on to the restore.
SaveDone ==
    /\ worker.pc = "retain"
    /\ Victims(files) = {}
    /\ \/ /\ phase = "promote"
          /\ phase' = "restore"
          /\ worker' = IdleWorker
       \/ /\ phase # "promote"
          /\ UNCHANGED phase
          /\ To(AfterSave(worker.data.status))
    /\ UNCHANGED <<storeVars, kafkaVars, runs, restored, fatal, hard, injectorVars,
                   sinkVars, pending, event>>

\* A write of Save or UpdateStatus fails.  Before the commit the transaction is
\* aborted; after it the failure is only reported; in recovery Execute returns.
SaveFails ==
    /\ worker.pc \in {"file", "latest", "latestDone", "retain", "retainDir"}
    /\ \/ "save" \in Faults /\ worker.data.status = "prepared"
       \/ "update" \in Faults /\ worker.data.status = "completed"
       \/ worker.pc = "file" /\ worker.id \notin dirs
    /\ \/ /\ phase = "promote"
          /\ ProcessGone
       \/ /\ phase # "promote"
          /\ worker.data.status = "prepared"
          /\ To("abort")
          /\ UNCHANGED <<engineVars, injectorVars, sinkVars, pending, event>>
       \/ /\ phase # "promote"
          /\ worker.data.status = "completed"
          /\ fatal' = TRUE
          /\ worker' = IdleWorker
          /\ UNCHANGED <<phase, runs, restored, hard, injectorVars, sinkVars, pending, event>>
    /\ UNCHANGED <<storeVars, kafkaVars>>

\* The open transaction commits: its records and its marker become readable at
\* once.
EndTransactionCommit ==
    /\ Publish(staged)
    /\ markers' = markers \cup {worker.id}
    /\ staged' = {}

\* CommitSink: commit, begin the next transaction, release Write; the worker
\* goes on to UpdateStatus(completed).
CommitSink ==
    /\ worker.pc = "commit" /\ ~hard
    /\ sinkWait = worker.id
    /\ EndTransactionCommit
    /\ Signal(worker.id)
    /\ worker' = [worker EXCEPT !.pc = "file", !.data.status = "completed"]
    /\ UNCHANGED <<storeVars, limbo, group, engineVars, injectorVars, flight, pending, event>>

\* Mutant: a failed commit is cleaned up like a failed prepare.
CommitFails_Cleanup ==
    /\ worker.pc = "commit"
    /\ hard \/ "commit" \in Faults
    /\ \/ UNCHANGED <<visible, markers, staged>>
       \/ sinkWait = worker.id /\ EndTransactionCommit
    /\ DeleteStateDirs(worker.id)
    /\ fatal' = TRUE
    /\ worker' = IdleWorker
    /\ UNCHANGED <<limbo, group, phase, runs, restored, hard, injectorVars,
                   sinkVars, pending, event>>

\* Commit returns an error and the outcome is unknown: the broker may or may
\* not have committed.  Nothing is aborted and Write is not released.
CommitFails ==
    /\ worker.pc = "commit"
    /\ hard \/ "commit" \in Faults
    /\ \/ UNCHANGED <<visible, markers, staged>>
       \/ sinkWait = worker.id /\ EndTransactionCommit
    /\ fatal' = TRUE
    /\ worker' = IdleWorker
    /\ UNCHANGED <<storeVars, limbo, group, phase, runs, restored, hard, injectorVars,
                   sinkVars, pending, event>>

\* abortFatal: AbortSink (its failure is only logged), DeleteStateDirs,
\* reportFatal.  A successful abort opens the next transaction and releases
\* Write; the coordinator itself stays able to finalize later checkpoints.
AbortFatal ==
    /\ worker.pc = "abort"
    /\ \/ /\ sinkWait = worker.id
          /\ staged' = {}
          /\ Signal(worker.id)
       \/ /\ "abort" \in Faults \/ sinkWait # worker.id
          /\ UNCHANGED <<staged, sinkId, sinkWait, produceErr>>
    /\ DeleteStateDirs(worker.id)
    /\ fatal' = TRUE
    /\ worker' = IdleWorker
    /\ UNCHANGED <<visible, markers, limbo, group, phase, runs, restored, hard,
                   injectorVars, flight, pending, event>>

\* The advisory commit of the checkpoint's positions to the consumer group.
CommitOffsets ==
    /\ worker.pc = "offsets"
    /\ \/ group' = IF GroupMode
                   THEN [p \in Partitions |-> IF worker.data.offsets[p] = NoPos THEN group[p]
                                              ELSE worker.data.offsets[p]]
                   ELSE group
       \/ (hard \/ "offsets" \in Faults) /\ UNCHANGED group
    /\ worker' = IdleWorker
    /\ UNCHANGED <<storeVars, visible, markers, staged, limbo, engineVars, injectorVars,
                   sinkVars, pending, event>>

-----------------------------------------------------------------------------
(* Shutdown: the fatal-error watcher, the shutdown timer, the unwinding.   *)

\* hardCancel: a fatal coordination error reached the watcher, a stage failed, or
\* the shutdown timeout passed after ctx was cancelled.
HardCancel ==
    /\ Streaming /\ ~hard
    /\ fatal \/ runs < MaxRuns
    /\ hard' = TRUE
    /\ UNCHANGED <<storeVars, kafkaVars, phase, runs, restored, fatal, injectorVars,
                   sinkVars, coordVars>>

\* Write sees hardCtx while it waits: it returns, and its deferred call aborts
\* the open transaction.
SinkUnwind ==
    /\ hard
    /\ sinkWait # NoId
    /\ sinkWait' = NoId
    /\ staged' = {}
    /\ UNCHANGED <<storeVars, visible, markers, limbo, group, engineVars, injectorVars,
                   flight, sinkId, produceErr, coordVars>>

\* Execute returns after a forced unwind: Coordinator.Stop waited for the
\* worker, and an event it had not taken yet is dropped (halted).
HardExit ==
    /\ hard
    /\ worker.pc = "idle"
    /\ sinkWait = NoId
    /\ staged' = {}
    /\ ProcessGone
    /\ UNCHANGED <<storeVars, visible, markers, limbo, group>>

\* Execute returns after everything drained; the records behind the last barrier
\* are aborted with the open transaction.
CleanExit ==
    /\ phase = "ended" /\ ~hard
    /\ flight = {} /\ sinkId = lastId /\ sinkWait = NoId
    /\ event = NoId /\ worker.pc = "idle"
    /\ staged' = {}
    /\ ProcessGone
    /\ UNCHANGED <<storeVars, visible, markers, limbo, group>>

-----------------------------------------------------------------------------
Recovery == Boot \/ ResolveCoordinatedRecovery \/ ProbeFails \/ Start
Injector == (\E p \in Partitions : Read(p)) \/ Tick \/ CtxDone \/ DrainEnd \/ SourceClosed
Sink == (\E f \in flight : SinkWrite(f)) \/ SinkPrepare \/ SinkUnwind
Finalize == \/ TakeEvent \/ SaveFile \/ SaveLatest \/ SaveLatestCompleted
            \/ RetainFile \/ RetainDir \/ SaveDone \/ SaveFails
            \/ CommitSink \/ CommitFails \/ AbortFatal \/ CommitOffsets

Next ==
    \/ Recovery
    \/ Injector
    \/ \E id \in Ids : TapBarrier(id)
    \/ Sink
    \/ Finalize
    \/ HardCancel \/ HardExit \/ CleanExit
    \/ Crash \/ LateCommit

Spec == Init /\ [][Next]_vars

\* Every goroutine keeps running; the ticker, cancellation, crashes and injected
\* failures are not owed.  The source closes once it is exhausted.
Fairness ==
    /\ WF_vars(Boot) /\ WF_vars(ResolveCoordinatedRecovery) /\ WF_vars(Start)
    /\ \A p \in Partitions : WF_vars(Read(p))
    /\ WF_vars(DrainEnd) /\ WF_vars(SourceClosed)
    /\ WF_vars(\E id \in Ids : TapBarrier(id))
    /\ WF_vars(Sink)
    /\ WF_vars(Finalize)
    /\ WF_vars(HardExit) /\ WF_vars(CleanExit)

FairSpec == Spec /\ Fairness

-----------------------------------------------------------------------------
(* Properties.                                                             *)

Output == INSTANCE ExactlyOnceOutput
            WITH Partitions <- Partitions, LogEnd <- LogEnd, visible <- visible

\* Exactly-once output: seen through the output topic alone, the pipeline, its
\* crashes and its recoveries are a sequence of atomic extensions of a prefix of
\* the source (sink/kafka_txn.go Commit, engine.go resolveCoordinatedRecovery).
ExactlyOnceRefinement == Output!Spec

\* The output of no source record is readable twice, however often the process
\* restarts and replays (coordinator.go finalize, engine.go
\* resolveCoordinatedRecovery).
NoDuplicate == \A r \in Records : visible[r] <= 1

\* A completed checkpoint stands for committed output: everything its operator
\* state has folded in is readable (coordinator.go finalize: completed is only
\* written after the sink commit).
CompletedIsCommitted ==
    \A id \in Completed(files), p \in Partitions, o \in Offsets :
        o < files[id].state[p] => visible[<<p, o>>] >= 1

\* Recovery restores exactly the readable prefix: no record of it is replayed
\* and no record beyond it is skipped (engine.go resolveCoordinatedRecovery).
RestoredIsReadablePrefix ==
    phase = "restore" =>
        visible = Output!Prefix(IF restored = NoId THEN NoState ELSE files[restored].state)

\* While the pipeline runs, the source position and the operator state agree:
\* nothing is folded twice or skipped after a restore (engine.go
\* restoreSourceOffset, source/kafka_offset_tracker.go restore).
StateMatchesPosition == Streaming => folded = readPos

\* The state directory of every checkpoint that recovery may pick is there, so a
\* restore cannot fail for good (checkpoint.go enforceRetentionLocked,
\* sweepOrphansLocked, coordinator.go cleanupStateDirs).
RestorableHasState ==
    \A id \in Present(files) :
        files[id].status = "completed" \/ id \in markers => id \in dirs

\* The advisory group offsets never run ahead of the committed output: a
\* consumer group that has to fall back on them loses nothing (source/kafka.go
\* CommitOffsets, coordinator.go finalize).
GroupBehindOutput ==
    \A p \in Partitions, o \in Offsets : o < group[p] => visible[<<p, o>>] >= 1

\* Retention, repair and abort never lose ground: the newest completed
\* checkpoint is only ever replaced by a newer one (checkpoint.go
\* enforceRetentionLocked).
NewestCompletedSurvives ==
    [][Newest(Completed(files)) <= Newest(Completed(files'))]_vars

\* Write never stays blocked on a barrier (sink/kafka_txn.go Write).
SinkReleased == sinkWait # NoId ~> sinkWait = NoId

\* Everything the source holds becomes readable in the end, crashes and
\* graceful stops in between notwithstanding (engine.go injectBarriers).
EverythingReadable == <>[](\A r \in Records : visible[r] >= 1)
=============================================================================
