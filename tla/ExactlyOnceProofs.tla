--------------------------- MODULE ExactlyOnceProofs ---------------------------
(***************************************************************************)
(* Machine-checked facts about ExactlyOnce, for every number of partitions *)
(* and records, every bound, every retention and every set of faults.      *)
(***************************************************************************)
EXTENDS OutputInvariant, FiniteSetTheorems, TLAPS

\* What a scan of the directory returns is a checkpoint of the set scanned, or
\* NoId (checkpoint.go scanLocked, loadPointerLocked).
LEMMA NewestIn ==
    ASSUME NEW S
    PROVE  Newest(S) \in S \cup {NoId}
  BY DEF Newest

\* A pointer that is followed leads to a usable checkpoint or to none.
LEMMA LoadPointerIn ==
    ASSUME NEW f, NEW ptr, NEW c \in BOOLEAN
    PROVE  /\ LoadPointer(f, ptr, c) \in Usable(f, c) \cup {NoId}
           /\ Usable(f, c) \subseteq Ids
  BY NewestIn DEF LoadPointer, Usable, Completed, Present

\* A pointer that is rewritten holds a checkpoint ID or none.
LEMMA RepairedPointerIn ==
    ASSUME NEW f, NEW ptr \in Ids \cup {NoId}, NEW c \in BOOLEAN
    PROVE  RepairedPointer(f, ptr, c) \in Ids \cup {NoId}
  BY LoadPointerIn DEF RepairedPointer

-----------------------------------------------------------------------------
(* Type correctness.                                                       *)

\* The constant records have the types of the variables that hold them.
LEMMA ConstantTypes ==
    /\ NoState \in [Partitions -> Nat] /\ NoState \in [Partitions -> Pos]
    /\ NoPositions \in [Partitions -> Pos \cup {NoPos}]
    /\ Absent \in CheckpointData
    /\ NoPending \in PendingCheckpoint
    /\ IdleWorker \in Worker
    /\ NoLimbo \in [id : Ids \cup {NoId}, recs : SUBSET Records]
  <1>1. 0 \in Pos
    BY StoreAssumption DEF Pos
  <1>2. /\ NoState \in [Partitions -> Nat] /\ NoState \in [Partitions -> Pos]
        /\ NoPositions \in [Partitions -> Pos \cup {NoPos}]
    BY <1>1 DEF NoState, NoPositions
  <1>3. Absent \in CheckpointData
    BY <1>2 DEF Absent, CheckpointData, Statuses
  <1>4. NoPending \in PendingCheckpoint
    BY <1>2 DEF NoPending, PendingCheckpoint
  <1>5. IdleWorker \in Worker
    BY <1>3 DEF IdleWorker, Worker, WorkerSteps
  <1>6. QED
    BY <1>2, <1>3, <1>4, <1>5 DEF NoLimbo

\* The program starts in a well-typed state (an empty checkpoint directory and
\* no process).
LEMMA InitType == Init => TypeOK
  <1> SUFFICES ASSUME Init PROVE TypeOK
    OBVIOUS
  <1>1. StoreTypeOK
    BY ConstantTypes DEF Init, StoreInit, StoreTypeOK
  <1>2. /\ visible \in [Records -> Nat]
        /\ pending \in [Ids -> PendingCheckpoint]
    BY ConstantTypes DEF Init
  <1>3. runs \in 0..MaxRuns /\ ticks \in 0..MaxTicks
    BY ExactlyOnceAssumption DEF Init
  <1>4. /\ markers \subseteq Ids /\ staged \subseteq Records /\ flight \subseteq InFlight
        /\ phase \in Phases /\ fatal \in BOOLEAN /\ hard \in BOOLEAN
        /\ produceErr \in BOOLEAN
    BY DEF Init, Phases
  <1>5. /\ limbo \in [id : Ids \cup {NoId}, recs : SUBSET Records]
        /\ group \in [Partitions -> Pos] /\ readPos \in [Partitions -> Pos]
        /\ aligned \in [Partitions -> Pos \cup {NoPos}] /\ folded \in [Partitions -> Nat]
        /\ worker \in Worker
    BY ConstantTypes DEF Init
  <1>6. {restored, lastId, sinkId, sinkWait, event} \subseteq Ids \cup {NoId}
    BY DEF Init
  <1>7. QED
    BY <1>1, <1>2, <1>3, <1>4, <1>5, <1>6 DEF TypeOK

\* A process that goes away leaves well-typed variables behind.
LEMMA ProcessGoneType ==
    ASSUME TypeOK, ProcessGone, UNCHANGED storeVars,
           visible' \in [Records -> Nat], markers' \subseteq Ids, staged' \subseteq Records,
           limbo' \in [id : Ids \cup {NoId}, recs : SUBSET Records],
           group' \in [Partitions -> Pos]
    PROVE  TypeOK'
  BY ConstantTypes DEF TypeOK, StoreTypeOK, storeVars, ProcessGone, Phases

\* Making records readable counts them.
LEMMA PublishType ==
    ASSUME NEW R, visible \in [Records -> Nat], Publish(R)
    PROVE  visible' \in [Records -> Nat]
  BY DEF Publish

\* maintainLocked keeps the directory well-typed.
LEMMA MaintainType ==
    ASSUME StoreTypeOK, Maintain
    PROVE  StoreTypeOK'
  <1>1. latest' \in Ids \cup {NoId} /\ latestCompleted' \in Ids \cup {NoId}
    BY RepairedPointerIn DEF Maintain, StoreTypeOK
  <1>2. files' \in [Ids -> CheckpointData]
    BY ConstantTypes DEF Maintain, StoreTypeOK
  <1>3. dirs' \subseteq Ids
    BY DEF Maintain, StoreTypeOK
  <1>4. QED
    BY <1>1, <1>2, <1>3 DEF StoreTypeOK

\* A restored source starts at an offset of the log.
LEMMA StartPositionType ==
    ASSUME TypeOK, NEW id \in Ids \cup {NoId}, NEW p \in Partitions
    PROVE  StartPosition(id, p) \in Pos
  <1>1. 0 \in Pos
    BY StoreAssumption DEF Pos
  <1>2. SavedPositions(id) \in [Partitions -> Pos \cup {NoPos}]
    BY ConstantTypes DEF TypeOK, StoreTypeOK, SavedPositions, CheckpointData
  <1>3. QED
    BY <1>1, <1>2 DEF StartPosition, TypeOK

\* TypeOK alone is not inductive: a commit adds the worker's checkpoint to the
\* markers, so a busy worker must hold one (coordinator.go finalize).
WorkerHasCheckpoint == worker.pc # "idle" => worker.id # NoId

\* Every step keeps the variables well-typed: one case per action.
LEMMA NextType == TypeOK /\ WorkerHasCheckpoint /\ [Next]_vars => TypeOK'
  <1> SUFFICES ASSUME TypeOK, WorkerHasCheckpoint, [Next]_vars
               PROVE  TypeOK'
    OBVIOUS
  <1> USE DEF storeVars, kafkaVars, engineVars, injectorVars, sinkVars, coordVars
  <1>1. CASE UNCHANGED vars
    BY <1>1 DEF vars, TypeOK, StoreTypeOK
  <1>2. CASE Boot
    <2>1. StoreTypeOK'
      BY <1>2, MaintainType DEF Boot, TypeOK
    <2>2. runs' \in 0..MaxRuns
      BY <1>2, ExactlyOnceAssumption DEF Boot, TypeOK
    <2>3. QED
      BY <1>2, <2>1, <2>2 DEF Boot, TypeOK, Phases
  <1>3. CASE ResolveCoordinatedRecovery
    <2> DEFINE found == LoadPointer(files, latest, FALSE)
    <2>1. found \in Ids \cup {NoId} /\ LoadPointer(files, latestCompleted, TRUE) \in Ids \cup {NoId}
      BY LoadPointerIn
    <2>2. /\ RepairedPointer(files, latest, FALSE) \in Ids \cup {NoId}
          /\ RepairedPointer(files, latestCompleted, TRUE) \in Ids \cup {NoId}
      BY RepairedPointerIn DEF TypeOK, StoreTypeOK
    <2>3. found \in Ids => [files[found] EXCEPT !.status = "completed"] \in CheckpointData
      BY DEF TypeOK, StoreTypeOK, CheckpointData, Statuses
    <2>4. worker' \in Worker
      <3>1. CASE worker' = worker
        BY <3>1 DEF TypeOK
      <3>2. CASE /\ found # NoId
                 /\ worker' = [pc |-> "file", id |-> found, victim |-> NoId,
                              data |-> [files[found] EXCEPT !.status = "completed"]]
        BY <2>1, <2>3, <3>2 DEF Worker, WorkerSteps
      <3>3. QED
        BY <1>3, <3>1, <3>2 DEF ResolveCoordinatedRecovery
    <2>5. restored' \in Ids \cup {NoId} /\ phase' \in Phases
      BY <1>3, <2>1 DEF ResolveCoordinatedRecovery, Phases
    <2>6. StoreTypeOK'
      BY <1>3, <2>2 DEF ResolveCoordinatedRecovery, TypeOK, StoreTypeOK
    <2>7. QED
      BY <1>3, <2>4, <2>5, <2>6 DEF ResolveCoordinatedRecovery, TypeOK
  <1>4. CASE ProbeFails
    BY <1>4, ProcessGoneType DEF ProbeFails, TypeOK
  <1>5. CASE Start
    <2>1. /\ readPos' \in [Partitions -> Pos]
          /\ group' \in [Partitions -> Pos]
      BY <1>5, StartPositionType DEF Start, TypeOK
    <2>2. folded' \in [Partitions -> Nat] /\ aligned' \in [Partitions -> Pos \cup {NoPos}]
      BY <1>5, ConstantTypes DEF Start, TypeOK, StoreTypeOK, CheckpointData
    <2>3. limbo' \in [id : Ids \cup {NoId}, recs : SUBSET Records]
      BY <1>5, ConstantTypes DEF Start
    <2>4. QED
      BY <1>5, <2>1, <2>2, <2>3 DEF Start, TypeOK, StoreTypeOK, Phases
  <1>6. CASE \E p \in Partitions : Read(p)
    <2>1. PICK p \in Partitions : Read(p)
      BY <1>6
    <2>2. readPos[p] \in Offsets /\ readPos[p] + 1 \in Pos
      BY <2>1, StoreAssumption DEF Read, TypeOK, Offsets, Pos
    <2>3. readPos' \in [Partitions -> Pos] /\ aligned' \in [Partitions -> Pos \cup {NoPos}]
      BY <2>1, <2>2 DEF Read, TypeOK
    <2>4. folded' \in [Partitions -> Nat]
      BY <2>1 DEF Read, TypeOK
    <2>5. flight' \subseteq InFlight
      BY <2>1, <2>2 DEF Read, TypeOK, InFlight, Records
    <2>6. QED
      BY <2>1, <2>3, <2>4, <2>5 DEF Read, TypeOK, StoreTypeOK
  <1>7. ASSUME InjectBarrier
        PROVE  lastId' \in Ids \cup {NoId} /\ pending' \in [Ids -> PendingCheckpoint]
    <2>1. lastId + 1 \in Ids
      BY <1>7, StoreAssumption DEF InjectBarrier, TypeOK, Ids, NoId
    <2>2. [stage |-> "injected", offsets |-> aligned, state |-> folded, sinkErr |-> FALSE]
            \in PendingCheckpoint
      BY DEF TypeOK, PendingCheckpoint
    <2>3. QED
      BY <1>7, <2>1, <2>2 DEF InjectBarrier, TypeOK
  <1>8. CASE Tick
    <2>1. ticks' \in 0..MaxTicks
      BY <1>8, ExactlyOnceAssumption DEF Tick, TypeOK
    <2>2. QED
      BY <1>7, <1>8, <2>1 DEF Tick, InjectBarrier, TypeOK, StoreTypeOK
  <1>9. CASE CtxDone
    BY <1>7, <1>9 DEF CtxDone, InjectBarrier, TypeOK, StoreTypeOK, Phases
  <1>10. CASE DrainEnd
    BY <1>10 DEF DrainEnd, TypeOK, StoreTypeOK, Phases
  <1>11. CASE SourceClosed
    BY <1>7, <1>11 DEF SourceClosed, InjectBarrier, TypeOK, StoreTypeOK, Phases
  <1>12. CASE \E id \in Ids : TapBarrier(id)
    <2>1. PICK id \in Ids : TapBarrier(id)
      BY <1>12
    <2>2. pending' \in [Ids -> PendingCheckpoint]
      BY <2>1, ZenonT(60) DEF TapBarrier, TypeOK, PendingCheckpoint
    <2>3. QED
      BY <2>1, <2>2 DEF TapBarrier, TypeOK, StoreTypeOK
  <1>13. CASE \E f \in flight : SinkWrite(f)
    <2>1. PICK f \in flight : SinkWrite(f)
      BY <1>13
    <2>2. f.rec \in Records
      BY DEF TypeOK, InFlight
    <2>3. staged' \subseteq Records /\ flight' \subseteq InFlight /\ produceErr' \in BOOLEAN
      BY <2>1, <2>2 DEF SinkWrite, TypeOK
    <2>4. QED
      BY <2>1, <2>3 DEF SinkWrite, TypeOK, StoreTypeOK
  <1>14. CASE SinkPrepare
    <2>1. NextBarrier \in Ids
      BY <1>14, StoreAssumption DEF SinkPrepare, NextBarrier, TypeOK, Ids, NoId
    <2>2. \A e : (produceErr \/ e) \in BOOLEAN
      BY Zenon
    <2>3. PICK b \in BOOLEAN : pending' = [pending EXCEPT ![NextBarrier].sinkErr = b]
      BY <1>14, <2>2, Zenon DEF SinkPrepare
    <2>4. pending' \in [Ids -> PendingCheckpoint]
      BY <2>1, <2>3, ZenonT(60) DEF TypeOK, PendingCheckpoint
    <2>5. QED
      BY <1>14, <2>1, <2>4 DEF SinkPrepare, TypeOK, StoreTypeOK
  <1>15. CASE SinkUnwind
    BY <1>15 DEF SinkUnwind, TypeOK, StoreTypeOK
  <1>16. CASE TakeEvent
    <2>1. event \in Ids
      BY <1>16 DEF TakeEvent, TypeOK
    <2>2. pending' \in [Ids -> PendingCheckpoint]
      BY <1>16, ConstantTypes DEF TakeEvent, TypeOK
    <2>3. [status |-> "prepared", offsets |-> pending[event].offsets,
           state |-> pending[event].state] \in CheckpointData
      BY <2>1 DEF TypeOK, PendingCheckpoint, CheckpointData, Statuses
    <2>4. worker' \in Worker
      <3>1. (IF pending[event].sinkErr THEN "abort" ELSE "file") \in WorkerSteps
        BY DEF WorkerSteps
      <3>2. QED
        BY <1>16, <2>1, <2>3, <3>1 DEF TakeEvent, Worker
    <2>5. QED
      BY <1>16, <2>2, <2>4 DEF TakeEvent, TypeOK, StoreTypeOK
  <1>17. ASSUME NEW pc \in WorkerSteps, To(pc)
         PROVE  worker' \in Worker
    BY <1>17 DEF To, TypeOK, Worker
  <1>18. CASE SaveFile
    <2>1. worker.id \in Ids /\ worker.data \in CheckpointData
      BY <1>18 DEF SaveFile, TypeOK, StoreTypeOK, Worker
    <2>2. worker' \in Worker
      BY <1>17, <1>18 DEF SaveFile, WorkerSteps
    <2>3. QED
      BY <1>18, <2>1, <2>2 DEF SaveFile, WriteCheckpoint, TypeOK, StoreTypeOK
  <1>19. CASE SaveLatest
    <2>1. worker' \in Worker
      BY <1>17, <1>19 DEF SaveLatest, WorkerSteps
    <2>2. latest' \in Ids \cup {NoId}
      BY <1>19 DEF SaveLatest, WriteLatest, TypeOK, Worker
    <2>3. QED
      BY <1>19, <2>1, <2>2 DEF SaveLatest, WriteLatest, TypeOK, StoreTypeOK
  <1>20. CASE SaveLatestCompleted
    <2>1. worker' \in Worker
      BY <1>17, <1>20 DEF SaveLatestCompleted, WorkerSteps
    <2>2. latestCompleted' \in Ids \cup {NoId}
      BY <1>20 DEF SaveLatestCompleted, WriteLatestCompleted, TypeOK, Worker
    <2>3. QED
      BY <1>20, <2>1, <2>2 DEF SaveLatestCompleted, WriteLatestCompleted, TypeOK, StoreTypeOK
  <1>21. CASE RetainFile
    <2>1. PICK v \in Victims(files) :
            RemoveCheckpoint(v) /\ worker' = [worker EXCEPT !.pc = "retainDir", !.victim = v]
      BY <1>21 DEF RetainFile
    <2>2. v \in Ids
      BY DEF Victims, Completed
    <2>3. worker' \in Worker
      BY <2>1, <2>2 DEF TypeOK, Worker, WorkerSteps
    <2>4. StoreTypeOK'
      BY <2>1, <2>2, ConstantTypes DEF RemoveCheckpoint, TypeOK, StoreTypeOK
    <2>5. QED
      BY <1>21, <2>3, <2>4 DEF RetainFile, TypeOK
  <1>22. CASE RetainDir
    <2>1. worker' \in Worker
      BY <1>22 DEF RetainDir, TypeOK, Worker, WorkerSteps
    <2>2. QED
      BY <1>22, <2>1 DEF RetainDir, DeleteStateDirs, TypeOK, StoreTypeOK
  <1>23. CASE SaveDone
    <2>1. worker' \in Worker /\ phase' \in Phases
      BY <1>17, <1>23, ConstantTypes DEF SaveDone, AfterSave, WorkerSteps, TypeOK, Phases
    <2>2. QED
      BY <1>23, <2>1 DEF SaveDone, TypeOK, StoreTypeOK
  <1>24. CASE SaveFails
    <2>1. CASE ProcessGone
      BY <1>24, <2>1, ProcessGoneType DEF SaveFails, TypeOK
    <2>2. CASE To("abort") /\ UNCHANGED <<engineVars, injectorVars, sinkVars, pending, event>>
      <3>1. worker' \in Worker
        BY <1>17, <2>2 DEF WorkerSteps
      <3>2. QED
        BY <1>24, <2>2, <3>1 DEF SaveFails, TypeOK, StoreTypeOK
    <2>3. CASE /\ fatal' = TRUE /\ worker' = IdleWorker
               /\ UNCHANGED <<phase, runs, restored, hard, injectorVars, sinkVars, pending, event>>
      BY <1>24, <2>3, ConstantTypes DEF SaveFails, TypeOK, StoreTypeOK
    <2>4. QED
      BY <1>24, <2>1, <2>2, <2>3 DEF SaveFails
  <1>25. ASSUME EndTransactionCommit, worker.pc = "commit"
         PROVE  /\ visible' \in [Records -> Nat]
                /\ staged' \subseteq Records
                /\ markers' \subseteq Ids
    <2>1. worker.id \in Ids
      BY <1>25 DEF WorkerHasCheckpoint, TypeOK, Worker
    <2>2. QED
      BY <1>25, <2>1, PublishType DEF EndTransactionCommit, TypeOK
  <1>26. CASE CommitSink
    <2>1. worker' \in Worker
      BY <1>26 DEF CommitSink, TypeOK, Worker, WorkerSteps, CheckpointData, Statuses
    <2>2. sinkWait' \in Ids \cup {NoId} /\ sinkId' \in Ids \cup {NoId} /\ produceErr' \in BOOLEAN
      BY <1>26 DEF CommitSink, Signal, TypeOK, Worker
    <2>3. QED
      BY <1>25, <1>26, <2>1, <2>2 DEF CommitSink, TypeOK, StoreTypeOK
  <1>27. CASE CommitFails
    <2>1. visible' \in [Records -> Nat] /\ staged' \subseteq Records /\ markers' \subseteq Ids
      BY <1>25, <1>27 DEF CommitFails, TypeOK
    <2>2. QED
      BY <1>27, <2>1, ConstantTypes DEF CommitFails, TypeOK, StoreTypeOK
  <1>28. CASE AbortFatal
    <2>1. /\ staged' \subseteq Records /\ produceErr' \in BOOLEAN
          /\ sinkWait' \in Ids \cup {NoId} /\ sinkId' \in Ids \cup {NoId}
      BY <1>28 DEF AbortFatal, Signal, TypeOK, Worker
    <2>2. QED
      BY <1>28, <2>1, ConstantTypes DEF AbortFatal, DeleteStateDirs, TypeOK, StoreTypeOK
  <1>29. CASE CommitOffsets
    <2>1. group' \in [Partitions -> Pos]
      BY <1>29 DEF CommitOffsets, TypeOK, Worker, CheckpointData
    <2>2. QED
      BY <1>29, <2>1, ConstantTypes DEF CommitOffsets, TypeOK, StoreTypeOK
  <1>30. CASE HardCancel
    BY <1>30 DEF HardCancel, TypeOK, StoreTypeOK
  <1>31. CASE HardExit
    BY <1>31, ProcessGoneType DEF HardExit, TypeOK
  <1>32. CASE CleanExit
    BY <1>32, ProcessGoneType DEF CleanExit, TypeOK
  <1>33. CASE Crash
    <2>1. limbo' \in [id : Ids \cup {NoId}, recs : SUBSET Records]
      BY <1>33 DEF Crash, TypeOK, Worker
    <2>2. QED
      BY <1>33, <2>1, ProcessGoneType DEF Crash, TypeOK
  <1>34. CASE LateCommit
    <2>1. visible' \in [Records -> Nat] /\ markers' \subseteq Ids
      BY <1>34, PublishType DEF LateCommit, TypeOK
    <2>2. QED
      BY <1>34, <2>1, ConstantTypes DEF LateCommit, TypeOK, StoreTypeOK
  <1>35. QED
    BY <1>1, <1>2, <1>3, <1>4, <1>5, <1>6, <1>8, <1>9, <1>10, <1>11, <1>12, <1>13, <1>14,
       <1>15, <1>16, <1>18, <1>19, <1>20, <1>21, <1>22, <1>23, <1>24, <1>26, <1>27, <1>28,
       <1>29, <1>30, <1>31, <1>32, <1>33, <1>34
    DEF Next, Recovery, Injector, Sink, Finalize

\* The worker only ever becomes busy with a checkpoint in hand.
LEMMA NextWorker == TypeOK /\ WorkerHasCheckpoint /\ [Next]_vars => WorkerHasCheckpoint'
  <1> SUFFICES ASSUME TypeOK, WorkerHasCheckpoint, [Next]_vars
               PROVE  WorkerHasCheckpoint'
    OBVIOUS
  <1> USE DEF WorkerHasCheckpoint
  <1>1. CASE worker' = worker
    BY <1>1
  <1>2. CASE worker' = IdleWorker
    BY <1>2 DEF IdleWorker
  <1>3. CASE ResolveCoordinatedRecovery
    <2> DEFINE found == LoadPointer(files, latest, FALSE)
    <2>1. CASE /\ found # NoId
               /\ worker' = [pc |-> "file", id |-> found, victim |-> NoId,
                            data |-> [files[found] EXCEPT !.status = "completed"]]
      BY <2>1
    <2>2. QED
      BY <1>1, <1>3, <2>1 DEF ResolveCoordinatedRecovery
  <1>4. CASE TakeEvent
    BY <1>4 DEF TakeEvent
  <1>5. CASE worker.id # NoId /\ worker'.id = worker.id
    BY <1>5
  <1>6. CASE SaveFile \/ SaveLatest \/ SaveLatestCompleted \/ RetainFile \/ RetainDir \/ CommitSink
    BY <1>5, <1>6 DEF SaveFile, SaveLatest, SaveLatestCompleted, RetainFile, RetainDir,
                      CommitSink, To, TypeOK, Worker
  <1>7. CASE SaveDone \/ SaveFails
    BY <1>2, <1>5, <1>7 DEF SaveDone, SaveFails, To, TypeOK, Worker, ProcessGone
  <1>8. QED
    BY <1>1, <1>2, <1>3, <1>4, <1>6, <1>7
    DEF Next, Recovery, Injector, Sink, Finalize, vars, coordVars, Boot, ProbeFails, Start,
        Read, Tick, InjectBarrier, CtxDone, DrainEnd, SourceClosed, TapBarrier, SinkWrite,
        SinkPrepare, SinkUnwind, CommitFails, AbortFatal, CommitOffsets, HardCancel,
        HardExit, CleanExit, Crash, LateCommit, ProcessGone

\* Type correctness of the coordinated checkpoint protocol, under every failure:
\* in particular recovery never starts a partition outside the log and a commit
\* never writes a marker for no checkpoint (engine.go resolveCoordinatedRecovery,
\* coordinator.go finalize).
THEOREM TypeCorrect == Spec => []TypeOK
  <1>1. Init => TypeOK /\ WorkerHasCheckpoint
    BY InitType DEF Init, WorkerHasCheckpoint, IdleWorker
  <1>2. TypeOK /\ WorkerHasCheckpoint /\ [Next]_vars => (TypeOK /\ WorkerHasCheckpoint)'
    BY NextType, NextWorker
  <1>3. QED
    BY <1>1, <1>2, PTL DEF Spec

-----------------------------------------------------------------------------
(* The checkpoint directory under every failure: what recovery may pick    *)
(* can be restored, and the newest completed checkpoint is never lost.     *)


\* Checkpoint IDs are handed out once: what is not yet written down about a
\* checkpoint cannot be in the directory, nor its marker in the topic
\* (engine.go injectBarriers).
FreshIds ==
    \A i \in Ids :
        (lastId < i \/ pending[i].stage # "none")
            => files[i].status = "absent" /\ i \notin markers /\ limbo.id # i

\* Nothing is pending beyond the last ID, the queued event is pending, and the
\* worker's checkpoint no longer is (coordinator.go OnSinkPrepared, finalize).
QueueOrder ==
    /\ \A i \in Ids : lastId < i => pending[i].stage = "none"
    /\ event # NoId => pending[event].stage = "tapped"
    /\ worker.pc # "idle" => worker.id <= lastId /\ pending[worker.id].stage = "none"

\* Outside the streaming phases nothing is pending and the worker is idle,
\* except for a promotion; a commit of a dead process can only finish then.
Quiescent ==
    /\ ~Streaming => event = NoId /\ \A i \in Ids : pending[i].stage = "none"
    /\ ~Streaming /\ worker.pc # "idle" => phase = "promote" /\ worker.data.status = "completed"
    /\ Streaming => phase # "promote" /\ limbo.id = NoId

\* A checkpoint that is being prepared has no marker, its file is at most
\* prepared, and from the first write on its state directory is there; only a
\* prepared checkpoint is committed or aborted (coordinator.go finalize).
Preparing ==
    worker.pc # "idle" =>
        /\ worker.data.status # "absent"
        /\ worker.pc \in {"commit", "abort"} => worker.data.status = "prepared"
        /\ worker.data.status = "prepared" =>
             /\ Streaming
             /\ worker.id \notin markers
             /\ files[worker.id].status # "completed"
             /\ worker.pc \notin {"file", "abort"} => worker.id \in dirs

\* Retention removes a state directory after its JSON, and never the directory
\* of the checkpoint that is being prepared (checkpoint.go
\* enforceRetentionLocked).
RetainOrder ==
    worker.pc = "retainDir" =>
        /\ worker.victim \in Ids => files[worker.victim].status = "absent"
        /\ worker.data.status = "prepared" => worker.victim # worker.id

\* A commit still under way at the broker has its state directory.
LimboHasState ==
    limbo.id \in Ids /\ files[limbo.id].status # "absent" => limbo.id \in dirs

\* What the proof adds to type correctness and to RestorableHasState.
DirectoryInv ==
    /\ TypeOK /\ WorkerHasCheckpoint
    /\ FreshIds /\ QueueOrder /\ Quiescent /\ Preparing /\ RetainOrder /\ LimboHasState
    /\ RestorableHasState

-----------------------------------------------------------------------------
(* Steps that leave the directory and the coordinator alone.               *)

\* A step of the source, the stages or the sink's data path.
LEMMA DirectoryUntouched ==
    ASSUME DirectoryInv, TypeOK',
           UNCHANGED <<files, dirs, markers, limbo, lastId, pending, event, worker>>,
           phase' = phase \/ (Streaming /\ Streaming')
    PROVE  DirectoryInv'
  BY DEF DirectoryInv, WorkerHasCheckpoint, FreshIds, QueueOrder, Quiescent, Preparing,
         RetainOrder, LimboHasState, RestorableHasState, Present, Streaming

\* The process goes away without a commit under way: everything volatile is gone
\* and the rest of the invariant speaks of the directory alone.
LEMMA DirectoryGone ==
    ASSUME DirectoryInv, TypeOK', ProcessGone, UNCHANGED <<files, dirs, markers>>,
           limbo'.id = limbo.id \/ (limbo'.id = worker.id /\ worker.pc = "commit")
    PROVE  DirectoryInv'
  <1> USE DEF DirectoryInv, ProcessGone, IdleWorker, NoPending
  <1>1. WorkerHasCheckpoint' /\ Preparing' /\ RetainOrder'
    BY DEF WorkerHasCheckpoint, Preparing, RetainOrder
  <1>2. QueueOrder' /\ Quiescent'
    BY DEF QueueOrder, Quiescent, Streaming
  <1>3. worker.pc = "commit" => worker.id \in Ids /\ worker.id \in dirs /\ worker.id <= lastId
    BY DEF WorkerHasCheckpoint, Preparing, QueueOrder, TypeOK, Worker
  <1>4. FreshIds'
    BY <1>3 DEF FreshIds, TypeOK, Ids, NoId
  <1>5. LimboHasState'
    BY <1>3 DEF LimboHasState
  <1>6. RestorableHasState'
    BY DEF RestorableHasState, Present
  <1>7. QED
    BY <1>1, <1>2, <1>4, <1>5, <1>6

\* A barrier enters the stream: its ID is new.
LEMMA DirectoryInject ==
    ASSUME DirectoryInv, TypeOK', InjectBarrier, Streaming, Streaming',
           UNCHANGED <<files, dirs, markers, limbo>>
    PROVE  DirectoryInv'
  <1> USE DEF DirectoryInv
  <1>1. lastId \in Nat /\ lastId + 1 \in Ids
    BY StoreAssumption DEF InjectBarrier, TypeOK, Ids, NoId
  <1>2. /\ lastId' = lastId + 1
        /\ pending'[lastId + 1].stage = "injected"
        /\ \A i \in Ids : i # lastId + 1 => pending'[i] = pending[i]
        /\ UNCHANGED <<event, worker>>
    BY <1>1 DEF InjectBarrier, TypeOK
  <1>3. FreshIds'
    BY <1>1, <1>2 DEF FreshIds, Ids
  <1>4. QueueOrder'
    <2>1. event \in Ids \cup {NoId} /\ (worker.pc # "idle" => worker.id \in Ids)
      BY DEF TypeOK, WorkerHasCheckpoint, Worker
    <2>2. QED
      BY <1>1, <1>2, <2>1 DEF QueueOrder, Ids, NoId
  <1>5. Quiescent' /\ Preparing' /\ RetainOrder' /\ WorkerHasCheckpoint'
    BY <1>2 DEF Quiescent, Preparing, RetainOrder, WorkerHasCheckpoint, Streaming
  <1>6. LimboHasState' /\ RestorableHasState'
    BY DEF LimboHasState, RestorableHasState, Present
  <1>7. QED
    BY <1>3, <1>4, <1>5, <1>6

-----------------------------------------------------------------------------
(* Every step keeps the invariant: one case per action.                    *)

\* No step of the process, the crash or the broker breaks the directory invariant.
LEMMA DirectoryStep ==
    ASSUME DirectoryInv, [Next]_vars
    PROVE  DirectoryInv'
  <1> USE DEF storeVars, kafkaVars, engineVars, injectorVars, sinkVars, coordVars
  <1>t. TypeOK' /\ WorkerHasCheckpoint'
    BY NextType, NextWorker DEF DirectoryInv
  <1>w. worker.pc # "idle" => worker.id \in Ids /\ worker.id \in Nat
    BY StoreAssumption DEF DirectoryInv, TypeOK, WorkerHasCheckpoint, Worker, Ids, NoId
  <1>1. CASE UNCHANGED vars
    BY <1>t, <1>1, DirectoryUntouched DEF vars
  <1>2. CASE \/ \E p \in Partitions : Read(p)
             \/ \E f \in flight : SinkWrite(f)
             \/ DrainEnd \/ SinkUnwind \/ HardCancel
    BY <1>t, <1>2, DirectoryUntouched DEF Read, SinkWrite, DrainEnd, SinkUnwind, HardCancel, Streaming
  <1>3. CASE ProbeFails \/ HardExit \/ CleanExit \/ Crash
    <2>1. limbo'.id = limbo.id \/ (limbo'.id = worker.id /\ worker.pc = "commit")
      <3>1. CASE Crash
        BY <3>1 DEF Crash
      <3>2. CASE ProbeFails \/ HardExit \/ CleanExit
        BY <3>2 DEF ProbeFails, HardExit, CleanExit
      <3>3. QED
        BY <1>3, <3>1, <3>2
    <2>2. QED
      BY <1>t, <1>3, <2>1, DirectoryGone DEF ProbeFails, HardExit, CleanExit, Crash
  <1>4. CASE Tick \/ CtxDone \/ SourceClosed
    BY <1>t, <1>4, DirectoryInject DEF Tick, CtxDone, SourceClosed, Streaming
  <1>5. CASE Boot
    <2> USE DEF DirectoryInv
    <2>1. /\ \A i \in Ids : \/ files'[i].status = files[i].status /\ (i \in dirs => i \in dirs' \/ files[i].status = "absent")
                            \/ files'[i].status = "absent"
          /\ UNCHANGED <<markers, limbo, lastId, pending, event, worker>>
      BY <1>5 DEF Boot, Maintain, TypeOK, StoreTypeOK, Present, Victims, Completed, Absent
    <2>2. worker.pc = "idle" /\ ~Streaming /\ ~Streaming'
      BY <1>5 DEF Boot, Quiescent, Streaming
    <2>3. FreshIds'
      BY <2>1 DEF FreshIds
    <2>4. LimboHasState'
      BY <2>1 DEF LimboHasState
    <2>5. RestorableHasState'
      BY <2>1 DEF RestorableHasState, Present
    <2>6. QueueOrder' /\ Quiescent' /\ Preparing' /\ RetainOrder'
      BY <2>1, <2>2 DEF QueueOrder, Quiescent, Preparing, RetainOrder
    <2>7. QED
      BY <1>t, <2>3, <2>4, <2>5, <2>6
  <1>6. CASE ResolveCoordinatedRecovery
    <2> USE DEF DirectoryInv
    <2> DEFINE found == LoadPointer(files, latest, FALSE)
    <2>1. /\ UNCHANGED <<files, dirs, markers, limbo, lastId, pending, event>>
          /\ phase = "boot" /\ phase' \in {"restore", "promote"}
          /\ \/ UNCHANGED worker
             \/ /\ phase' = "promote" /\ found # NoId
                /\ worker' = [pc |-> "file", id |-> found, victim |-> NoId,
                              data |-> [files[found] EXCEPT !.status = "completed"]]
      BY <1>6 DEF ResolveCoordinatedRecovery
    <2>2. found # NoId => found \in Ids /\ files[found].status # "absent"
      BY LoadPointerIn DEF Usable, Present
    <2>3. found # NoId => found <= lastId /\ pending[found].stage = "none"
      <3>1. \A i \in Ids : files[i].status # "absent" => i <= lastId /\ pending[i].stage = "none"
        BY StoreAssumption DEF FreshIds, TypeOK, Ids, NoId
      <3>2. QED
        BY <2>2, <3>1
    <2>4. worker.pc = "idle" /\ ~Streaming /\ ~Streaming'
      BY <2>1 DEF Quiescent, Streaming
    <2>5. CASE UNCHANGED worker
      BY <1>t, <2>1, <2>4, <2>5 DEF FreshIds, QueueOrder, Quiescent, Preparing, RetainOrder,
                                    LimboHasState, RestorableHasState, Present
    <2>6. CASE /\ phase' = "promote" /\ found # NoId
               /\ worker' = [pc |-> "file", id |-> found, victim |-> NoId,
                             data |-> [files[found] EXCEPT !.status = "completed"]]
      <3>1. /\ worker'.pc = "file" /\ worker'.id = found
            /\ worker'.data.status = "completed"
        BY <2>2, <2>6 DEF TypeOK, StoreTypeOK, CheckpointData
      <3>2. QueueOrder'
        BY <2>1, <2>3, <2>4, <3>1 DEF QueueOrder
      <3>3. Quiescent' /\ Preparing' /\ RetainOrder'
        BY <2>1, <2>4, <2>6, <3>1 DEF Quiescent, Preparing, RetainOrder
      <3>4. FreshIds' /\ LimboHasState' /\ RestorableHasState'
        BY <2>1 DEF FreshIds, LimboHasState, RestorableHasState, Present
      <3>5. QED
        BY <1>t, <3>2, <3>3, <3>4
    <2>7. QED
      BY <2>1, <2>5, <2>6
  <1>7. CASE Start
    <2> USE DEF DirectoryInv
    <2>1. /\ UNCHANGED <<files, dirs, markers, lastId, pending, event, worker>>
          /\ limbo'.id = NoId /\ ~Streaming /\ Streaming' /\ phase = "restore" /\ phase' = "run"
      BY <1>7 DEF Start, NoLimbo, Streaming
    <2>2. worker.pc = "idle"
      BY <2>1 DEF Quiescent
    <2>3. FreshIds' /\ LimboHasState'
      BY <2>1 DEF FreshIds, LimboHasState, Ids, NoId
    <2>4. QueueOrder' /\ Quiescent' /\ Preparing' /\ RetainOrder' /\ RestorableHasState'
      BY <2>1, <2>2 DEF QueueOrder, Quiescent, Preparing, RetainOrder, RestorableHasState, Present
    <2>5. QED
      BY <1>t, <2>3, <2>4
  <1>8. CASE \E id \in Ids : TapBarrier(id)
    <2> USE DEF DirectoryInv
    <2>1. PICK id \in Ids : TapBarrier(id)
      BY <1>8
    <2>2. /\ pending[id].stage = "injected" /\ pending'[id].stage = "tapped"
          /\ \A i \in Ids : i # id => pending'[i] = pending[i]
          /\ dirs' = dirs \cup {id} /\ Streaming
          /\ UNCHANGED <<files, markers, limbo, lastId, event, worker, phase>>
      BY <2>1 DEF TapBarrier, TypeOK, PendingCheckpoint
    <2>3. FreshIds' /\ LimboHasState' /\ RestorableHasState'
      BY <2>2 DEF FreshIds, LimboHasState, RestorableHasState, Present
    <2>4. QueueOrder'
      BY <1>w, <2>2 DEF QueueOrder, TypeOK
    <2>5. Quiescent' /\ Preparing' /\ RetainOrder'
      BY <2>2 DEF Quiescent, Preparing, RetainOrder, Streaming
    <2>6. QED
      BY <1>t, <2>3, <2>4, <2>5
  <1>9. CASE SinkPrepare
    <2> USE DEF DirectoryInv
    <2>1. NextBarrier \in Ids
      BY <1>9, StoreAssumption DEF SinkPrepare, NextBarrier, TypeOK, Ids, NoId
    <2>2. /\ pending[NextBarrier].stage = "tapped" /\ event' = NextBarrier
          /\ \A i \in Ids : pending'[i].stage = pending[i].stage
          /\ UNCHANGED <<files, dirs, markers, limbo, lastId, worker, phase>>
          /\ Streaming
      BY <1>9, <2>1 DEF SinkPrepare, TypeOK, PendingCheckpoint
    <2>3. FreshIds' /\ LimboHasState' /\ RestorableHasState'
      BY <2>2 DEF FreshIds, LimboHasState, RestorableHasState, Present
    <2>4. QueueOrder'
      BY <1>w, <2>1, <2>2 DEF QueueOrder
    <2>5. Quiescent' /\ Preparing' /\ RetainOrder'
      BY <2>2 DEF Quiescent, Preparing, RetainOrder, Streaming
    <2>6. QED
      BY <1>t, <2>3, <2>4, <2>5
  <1>10. CASE TakeEvent
    <2> USE DEF DirectoryInv
    <2>1. event \in Ids
      BY <1>10 DEF TakeEvent, TypeOK
    <2>2. /\ event' = NoId /\ pending'[event].stage = "none"
          /\ \A i \in Ids : i # event => pending'[i] = pending[i]
          /\ worker'.id = event /\ worker'.pc \in {"file", "abort"}
          /\ worker'.data.status = "prepared"
          /\ UNCHANGED <<files, dirs, markers, limbo, lastId, phase>>
          /\ Streaming
      BY <1>10, <2>1 DEF TakeEvent, TypeOK, NoPending
    <2>3. /\ pending[event].stage = "tapped" /\ event <= lastId
          /\ files[event].status = "absent" /\ event \notin markers
      <3>1. pending[event].stage = "tapped"
        BY <1>10 DEF TakeEvent, QueueOrder
      <3>2. ~(lastId < event)
        BY <2>1, <3>1 DEF QueueOrder
      <3>3. QED
        BY <2>1, <3>1, <3>2, StoreAssumption DEF FreshIds, TypeOK, Ids, NoId
    <2>4. FreshIds' /\ LimboHasState' /\ RestorableHasState'
      BY <2>2 DEF FreshIds, LimboHasState, RestorableHasState, Present
    <2>5. QueueOrder'
      BY <2>1, <2>2, <2>3 DEF QueueOrder
    <2>6. Quiescent' /\ Preparing' /\ RetainOrder'
      BY <2>2, <2>3 DEF Quiescent, Preparing, RetainOrder, Streaming
    <2>7. QED
      BY <1>t, <2>4, <2>5, <2>6
  <1>11. CASE SaveFile
    <2> USE DEF DirectoryInv
    <2>1. /\ worker.pc = "file" /\ worker.id \in dirs
          /\ files'[worker.id] = worker.data
          /\ \A i \in Ids : i # worker.id => files'[i] = files[i]
          /\ worker' = [worker EXCEPT !.pc = "latest"]
          /\ UNCHANGED <<dirs, markers, limbo, lastId, pending, event, phase>>
      BY <1>w, <1>11 DEF SaveFile, WriteCheckpoint, To, TypeOK, StoreTypeOK
    <2>2. /\ worker'.pc = "latest" /\ worker'.id = worker.id /\ worker'.data = worker.data
      BY <2>1 DEF TypeOK, Worker
    <2>3. worker.id \in Ids /\ worker.id <= lastId /\ pending[worker.id].stage = "none"
      BY <1>w, <2>1 DEF QueueOrder
    <2>4. FreshIds'
      BY <2>1, <2>3, StoreAssumption, SMTT(30) DEF FreshIds, TypeOK, Ids, NoId
    <2>5. LimboHasState' /\ RestorableHasState'
      BY <2>1, <2>3 DEF LimboHasState, RestorableHasState, Present
    <2>6. QueueOrder' /\ Quiescent'
      BY <2>1, <2>2 DEF QueueOrder, Quiescent, Streaming
    <2>7. Preparing' /\ RetainOrder'
      BY <2>1, <2>2, <2>3 DEF Preparing, RetainOrder, Streaming
    <2>8. QED
      BY <1>t, <2>4, <2>5, <2>6, <2>7
  <1>12. CASE SaveLatest \/ SaveLatestCompleted
    <2> USE DEF DirectoryInv
    <2>1. /\ worker.pc \in {"latest", "latestDone"} /\ worker'.pc \in {"latestDone", "retain"}
          /\ worker'.id = worker.id /\ worker'.data = worker.data
          /\ UNCHANGED <<files, dirs, markers, limbo, lastId, pending, event, phase>>
      BY <1>12 DEF SaveLatest, SaveLatestCompleted, WriteLatest, WriteLatestCompleted, To, TypeOK, Worker
    <2>2. QED
      BY <1>t, <2>1 DEF FreshIds, QueueOrder, Quiescent, Preparing, RetainOrder, LimboHasState,
                        RestorableHasState, Present, Streaming
  <1>13. CASE RetainFile
    <2> USE DEF DirectoryInv
    <2>1. PICK v \in Victims(files) :
            RemoveCheckpoint(v) /\ worker' = [worker EXCEPT !.pc = "retainDir", !.victim = v]
      BY <1>13 DEF RetainFile
    <2>2. v \in Ids /\ files[v].status = "completed"
      BY DEF Victims, Completed
    <2>3. /\ worker.pc = "retain" /\ worker'.pc = "retainDir" /\ worker'.victim = v
          /\ worker'.id = worker.id /\ worker'.data = worker.data
          /\ files'[v].status = "absent"
          /\ \A i \in Ids : i # v => files'[i] = files[i]
          /\ UNCHANGED <<dirs, markers, limbo, lastId, pending, event, phase>>
      BY <1>13, <2>1, <2>2 DEF RetainFile, RemoveCheckpoint, TypeOK, StoreTypeOK, Worker, Absent
    <2>4. FreshIds' /\ LimboHasState' /\ RestorableHasState'
      BY <2>2, <2>3 DEF FreshIds, LimboHasState, RestorableHasState, Present
    <2>5. QueueOrder' /\ Quiescent'
      BY <2>3 DEF QueueOrder, Quiescent, Streaming
    <2>6. Preparing' /\ RetainOrder'
      BY <1>w, <2>2, <2>3 DEF Preparing, RetainOrder, Streaming
    <2>7. QED
      BY <1>t, <2>4, <2>5, <2>6
  <1>14. CASE RetainDir
    <2> USE DEF DirectoryInv
    <2>1. /\ worker.pc = "retainDir" /\ worker'.pc = "retain"
          /\ worker'.id = worker.id /\ worker'.data = worker.data
          /\ dirs' = dirs \ {worker.victim}
          /\ UNCHANGED <<files, markers, limbo, lastId, pending, event, phase>>
      BY <1>14 DEF RetainDir, DeleteStateDirs, TypeOK, Worker
    <2>2. LimboHasState' /\ RestorableHasState'
      BY <2>1 DEF LimboHasState, RestorableHasState, RetainOrder, Present
    <2>3. FreshIds' /\ QueueOrder' /\ Quiescent'
      BY <2>1 DEF FreshIds, QueueOrder, Quiescent, Streaming
    <2>4. Preparing' /\ RetainOrder'
      BY <2>1 DEF Preparing, RetainOrder, Streaming
    <2>5. QED
      BY <1>t, <2>2, <2>3, <2>4
  <1>15. ASSUME worker' = IdleWorker, UNCHANGED <<files, dirs, limbo, lastId, pending, event>>,
                worker.pc # "idle", markers' \in {markers, markers \cup {worker.id}},
                markers' # markers => worker.pc = "commit",
                phase' = phase \/ (phase = "promote" /\ phase' = "restore")
         PROVE  DirectoryInv'
    <2> USE DEF DirectoryInv
    <2>1. worker'.pc = "idle"
      BY <1>15 DEF IdleWorker
    <2>2. worker.id \in Ids /\ worker.id <= lastId /\ pending[worker.id].stage = "none"
      BY <1>w, <1>15 DEF QueueOrder
    <2>3. markers' # markers => worker.id \in dirs
      BY <1>15 DEF Preparing
    <2>4. FreshIds'
      BY <1>15, <2>2, StoreAssumption DEF FreshIds, TypeOK, Ids, NoId
    <2>5. LimboHasState' /\ RestorableHasState'
      BY <1>15, <2>3 DEF LimboHasState, RestorableHasState, Present
    <2>6. QueueOrder' /\ Quiescent' /\ Preparing' /\ RetainOrder'
      BY <1>15, <2>1 DEF QueueOrder, Quiescent, Preparing, RetainOrder, Streaming
    <2>7. QED
      BY <1>t, <2>4, <2>5, <2>6
  <1>16. ASSUME worker.pc # "idle", worker'.id = worker.id, worker'.data = worker.data,
                worker'.pc \in {"commit", "abort"} => worker.data.status = "prepared",
                worker'.pc = "offsets" => worker.data.status = "completed",
                worker'.pc \in {"commit", "abort", "offsets"},
                worker'.pc = "commit" => worker.pc = "retain",
                UNCHANGED <<files, dirs, markers, limbo, lastId, pending, event, phase>>
         PROVE  DirectoryInv'
    BY <1>t, <1>16 DEF DirectoryInv, FreshIds, QueueOrder, Quiescent, Preparing, RetainOrder,
                       LimboHasState, RestorableHasState, Present, Streaming
  <1>17. CASE SaveDone
    <2>1. CASE phase = "promote"
      BY <1>15, <1>17, <2>1 DEF SaveDone
    <2>2. CASE phase # "promote"
      <3>1. /\ worker.pc = "retain" /\ worker'.pc = AfterSave(worker.data.status)
            /\ worker'.id = worker.id /\ worker'.data = worker.data
            /\ UNCHANGED <<files, dirs, markers, limbo, lastId, pending, event, phase>>
        BY <1>17, <2>2 DEF SaveDone, To, DirectoryInv, TypeOK, Worker
      <3>2. worker.data.status \in {"prepared", "completed"}
        BY <3>1 DEF DirectoryInv, Preparing, TypeOK, Worker, CheckpointData, Statuses
      <3>3. QED
        BY <1>16, <3>1, <3>2 DEF AfterSave
    <2>3. QED
      BY <2>1, <2>2
  <1>18. CASE SaveFails
    <2>1. worker.pc # "idle" /\ UNCHANGED <<files, dirs, markers, limbo>>
      BY <1>18 DEF SaveFails
    <2>2. CASE ProcessGone
      BY <1>t, <2>1, <2>2, DirectoryGone
    <2>3. CASE /\ worker.data.status = "prepared" /\ To("abort")
               /\ UNCHANGED <<engineVars, injectorVars, sinkVars, pending, event>>
      <3>1. worker'.pc = "abort" /\ worker'.id = worker.id /\ worker'.data = worker.data
        BY <2>3 DEF To, DirectoryInv, TypeOK, Worker
      <3>2. QED
        BY <1>16, <2>1, <2>3, <3>1
    <2>4. CASE /\ worker' = IdleWorker
               /\ UNCHANGED <<phase, injectorVars, pending, event>>
      BY <1>15, <2>1, <2>4
    <2>5. QED
      BY <1>18, <2>2, <2>3, <2>4 DEF SaveFails
  <1>19. CASE CommitSink
    <2> USE DEF DirectoryInv
    <2>1. /\ worker.pc = "commit" /\ worker'.pc = "file" /\ worker'.id = worker.id
          /\ worker'.data.status = "completed" /\ markers' = markers \cup {worker.id}
          /\ UNCHANGED <<files, dirs, limbo, lastId, pending, event, phase>>
      BY <1>19 DEF CommitSink, EndTransactionCommit, TypeOK, Worker, CheckpointData
    <2>2. worker.id \in Ids /\ worker.id <= lastId /\ pending[worker.id].stage = "none"
      BY <1>w, <2>1 DEF QueueOrder
    <2>3. Streaming /\ worker.id \in dirs
      BY <2>1 DEF Preparing
    <2>4. FreshIds'
      BY <2>1, <2>2, StoreAssumption DEF FreshIds, TypeOK, Ids, NoId
    <2>5. LimboHasState' /\ RestorableHasState'
      BY <2>1, <2>3 DEF LimboHasState, RestorableHasState, Present
    <2>6. QueueOrder' /\ Quiescent' /\ Preparing' /\ RetainOrder'
      BY <2>1, <2>3 DEF QueueOrder, Quiescent, Preparing, RetainOrder, Streaming
    <2>7. QED
      BY <1>t, <2>4, <2>5, <2>6
  <1>20. CASE CommitFails
    <2>1. markers' = markers \/ markers' = markers \cup {worker.id}
      BY <1>20 DEF CommitFails, EndTransactionCommit
    <2>2. QED
      BY <1>15, <1>20, <2>1 DEF CommitFails
  <1>21. CASE AbortFatal
    <2> USE DEF DirectoryInv
    <2>1. /\ worker.pc = "abort" /\ worker'.pc = "idle" /\ dirs' = dirs \ {worker.id}
          /\ UNCHANGED <<files, markers, limbo, lastId, pending, event, phase>>
      BY <1>21 DEF AbortFatal, DeleteStateDirs, IdleWorker
    <2>2. /\ Streaming /\ worker.id \notin markers /\ files[worker.id].status # "completed"
      BY <2>1 DEF Preparing
    <2>3. limbo.id \notin Ids
      BY <2>2 DEF Quiescent, Ids, NoId
    <2>4. LimboHasState' /\ RestorableHasState'
      BY <2>1, <2>2, <2>3 DEF LimboHasState, RestorableHasState, Present
    <2>5. FreshIds' /\ QueueOrder' /\ Quiescent' /\ Preparing' /\ RetainOrder'
      BY <2>1 DEF FreshIds, QueueOrder, Quiescent, Preparing, RetainOrder, Streaming
    <2>6. QED
      BY <1>t, <2>4, <2>5
  <1>22. CASE CommitOffsets
    BY <1>15, <1>22 DEF CommitOffsets
  <1>23. CASE LateCommit
    <2> USE DEF DirectoryInv
    <2>1. /\ limbo.id \in Ids /\ limbo'.id = NoId /\ markers' = markers \cup {limbo.id}
          /\ UNCHANGED <<files, dirs, lastId, pending, event, worker, phase>>
      BY <1>23 DEF LateCommit, NoLimbo, TypeOK
    <2>2. ~Streaming
      BY <2>1 DEF Quiescent, Ids, NoId
    <2>3. limbo.id <= lastId /\ pending[limbo.id].stage = "none"
      BY <2>1, StoreAssumption DEF FreshIds, TypeOK, Ids, NoId
    <2>4. FreshIds'
      BY <2>1, <2>3, StoreAssumption DEF FreshIds, TypeOK, Ids, NoId
    <2>5. LimboHasState' /\ RestorableHasState'
      BY <2>1 DEF LimboHasState, RestorableHasState, Present, Ids, NoId
    <2>6. QueueOrder' /\ Quiescent' /\ RetainOrder'
      BY <2>1, <2>2 DEF QueueOrder, Quiescent, RetainOrder, Streaming
    <2>7. Preparing'
      BY <2>1, <2>2 DEF Preparing, Streaming
    <2>8. QED
      BY <1>t, <2>4, <2>5, <2>6, <2>7
  <1>24. QED
    BY <1>1, <1>2, <1>3, <1>4, <1>5, <1>6, <1>7, <1>8, <1>9, <1>10, <1>11, <1>12, <1>13,
       <1>14, <1>17, <1>18, <1>19, <1>20, <1>21, <1>22, <1>23
    DEF Next, Recovery, Injector, Sink, Finalize

\* The invariant holds of every reachable state.
THEOREM DirectoryInvariant == Spec => []DirectoryInv
  <1>1. Init => DirectoryInv
    <2> SUFFICES ASSUME Init PROVE DirectoryInv
      OBVIOUS
    <2>1. TypeOK
      BY InitType
    <2>2. /\ \A i \in Ids : files[i].status = "absent" /\ pending[i].stage = "none"
          /\ markers = {} /\ limbo.id = NoId /\ event = NoId /\ worker.pc = "idle"
          /\ ~Streaming
      BY DEF Init, StoreInit, Absent, NoPending, NoLimbo, IdleWorker, Streaming
    <2>3. QED
      BY <2>1, <2>2 DEF DirectoryInv, WorkerHasCheckpoint, FreshIds, QueueOrder, Quiescent,
                        Preparing, RetainOrder, LimboHasState, RestorableHasState, Present,
                        Ids, NoId
  <1>2. DirectoryInv /\ [Next]_vars => DirectoryInv'
    BY DirectoryStep
  <1>3. QED
    BY <1>1, <1>2, PTL DEF Spec

\* Whatever fails and whenever the process dies, the state directory of every
\* checkpoint that recovery may restore exists (checkpoint.go
\* enforceRetentionLocked and sweepOrphansLocked, coordinator.go abortFatal).
THEOREM RestorableCheckpointsHaveState == Spec => []RestorableHasState
  <1>1. DirectoryInv => RestorableHasState
    BY DEF DirectoryInv
  <1>2. QED
    BY <1>1, DirectoryInvariant, PTL

-----------------------------------------------------------------------------
(* The newest completed checkpoint is never lost.                          *)

\* A set whose newest element is kept, or overtaken, has no older newest.
LEMMA NewestMonotone ==
    ASSUME NEW S \in SUBSET Ids, NEW T \in SUBSET Ids,
           \A i \in S : IsNewest(i, S) => \E j \in T : IsNewest(j, T) /\ i <= j
    PROVE  Newest(S) <= Newest(T)
  <1>1. \A k \in Ids : k \in Nat
    BY StoreAssumption DEF Ids
  <1>2. Newest(T) \in Nat
    <2>1. Newest(T) \in T \cup {NoId}
      BY NewestIn
    <2>2. QED
      BY <1>1, <2>1 DEF NoId
  <1>3. CASE ~\E i \in S : IsNewest(i, S)
    BY <1>2, <1>3 DEF Newest, NoId
  <1>4. CASE \E i \in S : IsNewest(i, S)
    <2>1. Newest(S) \in S /\ IsNewest(Newest(S), S)
      BY <1>4 DEF Newest
    <2>2. PICK j \in T : IsNewest(j, T) /\ Newest(S) <= j
      BY <2>1
    <2>3. Newest(T) \in T /\ IsNewest(Newest(T), T)
      BY <2>2 DEF Newest
    <2>4. j <= Newest(T)
      BY <2>3 DEF IsNewest
    <2>5. Newest(S) \in Nat /\ j \in Nat /\ Newest(T) \in Nat
      BY <1>1, <2>1, <2>2, <2>3
    <2>6. QED
      BY <2>2, <2>4, <2>5
  <1>5. QED
    BY <1>3, <1>4

\* Retention spares the newest completed checkpoint, since it keeps at least one.
LEMMA NewestIsNoVictim ==
    ASSUME NEW f, NEW i \in Completed(f), IsNewest(i, Completed(f))
    PROVE  i \notin Victims(f)
  <1>1. {j \in Completed(f) : i < j} = {}
    BY StoreAssumption DEF IsNewest, Completed, Ids
  <1>2. Cardinality({j \in Completed(f) : i < j}) = 0
    BY <1>1, FS_EmptySet
  <1>3. QED
    BY <1>2, StoreAssumption DEF Victims

\* No step goes back to an older newest completed checkpoint.
LEMMA NewestCompletedStep ==
    ASSUME DirectoryInv, [Next]_vars
    PROVE  Newest(Completed(files)) <= Newest(Completed(files'))
  <1> USE DEF storeVars, kafkaVars, engineVars, injectorVars, sinkVars, coordVars
  <1>1. Completed(files) \in SUBSET Ids /\ Completed(files') \in SUBSET Ids
    BY DEF Completed
  <1>2. CASE files' = files
    BY <1>1, <1>2, NewestMonotone, StoreAssumption DEF Ids
  <1>3. CASE \E V \in SUBSET Victims(files) : Completed(files') = Completed(files) \ V
    BY <1>1, <1>3, NewestMonotone, NewestIsNoVictim, StoreAssumption DEF IsNewest, Ids
  <1>4. CASE SaveFile
    <2>1. worker.id \in Ids /\ files' = [files EXCEPT ![worker.id] = worker.data]
      BY <1>4 DEF SaveFile, WriteCheckpoint, DirectoryInv, TypeOK, StoreTypeOK
    <2>2. CASE worker.data.status = "completed"
      <3>1. Completed(files') = Completed(files) \cup {worker.id}
        BY <2>1, <2>2 DEF Completed, DirectoryInv, TypeOK, StoreTypeOK
      <3>2. \A i \in Completed(files) : IsNewest(i, Completed(files)) =>
              \E j \in Completed(files') : IsNewest(j, Completed(files')) /\ i <= j
        <4> SUFFICES ASSUME NEW i \in Completed(files), IsNewest(i, Completed(files))
                     PROVE  \E j \in Completed(files') : IsNewest(j, Completed(files')) /\ i <= j
          OBVIOUS
        <4>1. \A j \in Ids : j \in Nat
          BY StoreAssumption DEF Ids
        <4>2. i \in Nat /\ worker.id \in Nat /\ \A j \in Completed(files) : j \in Nat /\ j <= i
          BY <1>1, <2>1, <4>1 DEF IsNewest
        <4>3. CASE i <= worker.id
          <5>1. \A j \in Completed(files') : j <= worker.id
            BY <3>1, <4>3, <4>2
          <5>2. worker.id \in Completed(files')
            BY <3>1
          <5>3. QED
            BY <4>3, <5>1, <5>2 DEF IsNewest
        <4>4. CASE worker.id <= i
          BY <1>1, <2>1, <3>1, <4>1, <4>4 DEF IsNewest
        <4>5. QED
          BY <4>2, <4>3, <4>4
      <3>3. QED
        BY <1>1, <3>2, NewestMonotone
    <2>3. CASE worker.data.status # "completed"
      <3>1. files[worker.id].status # "completed"
        BY <1>4, <2>3 DEF SaveFile, DirectoryInv, Preparing, TypeOK, Worker, CheckpointData, Statuses
      <3>2. Completed(files') = Completed(files)
        BY <2>1, <2>3, <3>1 DEF Completed, DirectoryInv, TypeOK, StoreTypeOK
      <3>3. QED
        BY <1>1, <3>2, NewestMonotone, StoreAssumption DEF Ids
    <2>4. QED
      BY <2>2, <2>3
  <1>5. CASE RetainFile
    <2>1. PICK v \in Victims(files) : RemoveCheckpoint(v)
      BY <1>5 DEF RetainFile
    <2>2. Completed(files') = Completed(files) \ {v}
      BY <2>1 DEF RemoveCheckpoint, Completed, Absent, DirectoryInv, TypeOK, StoreTypeOK
    <2>3. QED
      BY <1>3, <2>2
  <1>6. CASE Boot
    <2>1. Completed(files') = Completed(files) \ Victims(files)
      BY <1>6 DEF Boot, Maintain, Completed, Absent, DirectoryInv, TypeOK, StoreTypeOK
    <2>2. QED
      BY <1>3, <2>1
  <1>7. QED
    BY <1>2, <1>4, <1>5, <1>6
    DEF Next, Recovery, Injector, Sink, Finalize, vars, ResolveCoordinatedRecovery, ProbeFails,
        Start, Read, Tick, InjectBarrier, CtxDone, DrainEnd, SourceClosed, TapBarrier, SinkWrite,
        SinkPrepare, SinkUnwind, TakeEvent, SaveLatest, WriteLatest, SaveLatestCompleted,
        WriteLatestCompleted, RetainDir, DeleteStateDirs, SaveDone, SaveFails, CommitSink,
        CommitFails, AbortFatal, CommitOffsets, HardCancel, HardExit, CleanExit, Crash, LateCommit

\* No step of the process, of its death or of its recovery loses the newest
\* completed checkpoint: it is only ever replaced by a newer one (checkpoint.go
\* saveLocked, enforceRetentionLocked).
THEOREM NewestCompletedIsKept == Spec => NewestCompletedSurvives
  <1>1. DirectoryInv /\ [Next]_vars => [Newest(Completed(files)) <= Newest(Completed(files'))]_vars
    BY NewestCompletedStep
  <1>2. QED
    BY <1>1, DirectoryInvariant, PTL DEF Spec, NewestCompletedSurvives

-----------------------------------------------------------------------------
(* The exactly-once guarantee, for every number of partitions, records,    *)
(* barriers and restarts: the invariant of OutputInvariant is inductive,   *)
(* and the output refines ExactlyOnceOutput.                               *)

-----------------------------------------------------------------------------
(* Numbers, segments and prefixes.                                         *)

\* Identifiers and positions are integers.
LEMMA Numbers ==
    ASSUME TypeOK
    PROVE  /\ NoId = 0 /\ NoPos = -1 /\ \A i \in Ids : i \in Nat /\ i > 0
           /\ lastId \in Nat /\ sinkId \in Nat /\ sinkWait \in Nat /\ event \in Nat
           /\ latest \in Nat /\ latestCompleted \in Nat /\ restored \in Nat
           /\ worker.id \in Nat /\ \A m \in markers : m \in Nat /\ m \in Ids
           /\ \A x \in Pos : x \in Nat
           /\ NoPos \notin Pos
  BY StoreAssumption DEF TypeOK, StoreTypeOK, Worker, Ids, NoId, Pos, NoPos

\* A checkpoint with a marker is one, and only one of them is the newest.
LEMMA Markers ==
    ASSUME TypeOK
    PROVE  /\ \A i \in markers : i \in Ids /\ i \in Nat /\ i # NoId
           /\ \A i \in markers, j \in markers :
                 IsNewest(i, markers) /\ IsNewest(j, markers) => i = j
           /\ \A i : IsNewest(i, markers) => i \in markers
  <1>1. \A i \in markers : i \in Ids /\ i \in Nat /\ i # NoId
    BY Numbers
  <1>2. QED
    BY <1>1 DEF IsNewest

\* Nothing lies between a position and itself.
LEMMA SegmentEmpty ==
    ASSUME NEW f \in Frontiers
    PROVE  Segment(f, f) = {}
  BY StoreAssumption DEF Segment, Frontiers, Pos, Records, Offsets

\* A segment that starts earlier holds more.
LEMMA SegmentWider ==
    ASSUME NEW f \in Frontiers, NEW g \in Frontiers, NEW h \in Frontiers, Below(f, g)
    PROVE  Segment(g, h) \subseteq Segment(f, h)
  BY StoreAssumption DEF Segment, Frontiers, Pos, Records, Offsets, Below

\* Reading a record extends the segment that ends at the source by it.
LEMMA SegmentRead ==
    ASSUME NEW f \in Frontiers, NEW g \in Frontiers, NEW p \in Partitions,
           f[p] <= g[p], g[p] < LogEnd
    PROVE  /\ <<p, g[p]>> \in Records
           /\ Segment(f, [g EXCEPT ![p] = @ + 1]) = Segment(f, g) \cup {<<p, g[p]>>}
  <1>1. g[p] \in Offsets
    BY StoreAssumption DEF Frontiers, Pos, Offsets
  <1>2. <<p, g[p]>> \in Records
    BY <1>1 DEF Records
  <1> DEFINE h == [g EXCEPT ![p] = @ + 1]
  <1>3. \A r \in Records : /\ r[1] \in Partitions /\ r[2] \in Nat
                           /\ r = <<p, g[p]>> <=> r[1] = p /\ r[2] = g[p]
    BY StoreAssumption DEF Records, Offsets
  <1>4. \A q \in Partitions : f[q] \in Nat /\ g[q] \in Nat /\ h[q] = IF q = p THEN g[p] + 1 ELSE g[q]
    BY StoreAssumption DEF Frontiers, Pos
  <1>5. \A r \in Records : r \in Segment(f, h) <=> r \in Segment(f, g) \/ r = <<p, g[p]>>
    BY <1>3, <1>4 DEF Segment
  <1>6. Segment(f, h) \subseteq Records /\ Segment(f, g) \subseteq Records
    BY DEF Segment
  <1>7. QED
    BY <1>2, <1>5, <1>6

-----------------------------------------------------------------------------
(* The process ends, starts and recovers.                                  *)

\* The end of the process leaves what the checkpoint directory and Kafka say.
LEMMA GuaranteeGone ==
    ASSUME NEW F, NEW B, Guarantee(F, B), ProcessGone, staged' = {},
           UNCHANGED <<files, latest, latestCompleted, visible, markers, group>>,
           limbo'.id = NoId, TornUpdate => RetainCompleted = 1
    PROVE  Guarantee(F, B)'
  <1> USE DEF ProcessGone, IdleWorker, Guarantee
  <1>1. Readable(F)' /\ CommittedFiles(F)'
    BY DEF Readable, CommittedFiles, Completed, Below, Matches, IsNewest
  <1>2. Pointers'
    BY DEF Pointers, IsNewest, TornUpdate, Completed
  <1>3. Completing(F)' /\ Committing(F)' /\ Queued(F)' /\ Finalizing'
    BY DEF Completing, Committing, Queued, Finalizing, Completes, Prepares, NoPending
  <1>4. Settling' /\ Restoring' /\ Queue' /\ Positions' /\ Held(B)' /\ Stream(F, B)'
    BY DEF Settling, Restoring, Queue, Positions, Held, Stream, Live, Streaming
  <1>5. QED
    BY <1>1, <1>2, <1>3, <1>4

\* The newest committed checkpoint, once completed, is the newest completed one.
LEMMA NewestCommitted ==
    ASSUME TypeOK, NEW F, CommittedFiles(F), NEW i \in markers, IsNewest(i, markers),
           files[i].status = "completed"
    PROVE  /\ IsNewest(i, Completed(files)) /\ Newest(Completed(files)) = i
           /\ i \notin Victims(files)
  <1>1. i \in Completed(files) /\ \A j \in Completed(files) : j <= i /\ j \in Nat
    BY Numbers DEF CommittedFiles, IsNewest, Completed
  <1>2. IsNewest(i, Completed(files))
    BY <1>1 DEF IsNewest
  <1>3. \A j \in Completed(files) : IsNewest(j, Completed(files)) => j = i
    BY <1>1 DEF IsNewest
  <1>4. Newest(Completed(files)) = i
    BY <1>2, <1>1, <1>3 DEF Newest
  <1>5. QED
    BY <1>1, <1>2, <1>4, NewestIsNoVictim

\* With one retained checkpoint, only the newest completed one is no victim.
LEMMA OneRetained ==
    ASSUME TypeOK, RetainCompleted = 1, NEW i \in Completed(files), i \notin Victims(files)
    PROVE  IsNewest(i, Completed(files))
  <1> DEFINE S == {j \in Completed(files) : i < j}
  <1>1. S \subseteq 1..MaxId /\ IsFiniteSet(1..MaxId)
    BY StoreAssumption, FS_Interval DEF Completed, Ids
  <1>2. IsFiniteSet(S) /\ Cardinality(S) \in Nat
    BY <1>1, FS_Subset, FS_CardinalityType
  <1>3. Cardinality(S) = 0
    BY <1>2 DEF Victims
  <1>4. S = {}
    BY <1>2, <1>3, FS_EmptySet
  <1>5. QED
    BY <1>4, StoreAssumption DEF IsNewest, Completed, Ids

\* NewFileStorage repairs the pointers and prunes, and keeps the newest
\* committed checkpoint within reach (checkpoint.go maintainLocked).
LEMMA GuaranteeBoot ==
    ASSUME DirectoryInv, NEW F \in Frontiers, NEW B, Guarantee(F, B), Boot
    PROVE  Guarantee(F, B)'
  <1> USE DEF Guarantee, DirectoryInv
  <1>n. TypeOK /\ CommittedFiles(F)
    OBVIOUS
  <1>1. /\ phase = "down" /\ phase' = "boot" /\ ~Streaming /\ ~Streaming'
        /\ UNCHANGED <<visible, markers, staged, limbo, group, restored, hard, readPos, aligned,
                       folded, lastId, flight, sinkId, sinkWait, produceErr, pending, event, worker>>
        /\ latest' = RepairedPointer(files, latest, FALSE)
        /\ latestCompleted' = RepairedPointer(files, latestCompleted, TRUE)
        /\ \A i \in Ids : files'[i] = IF i \in Victims(files) THEN Absent ELSE files[i]
    BY DEF Boot, Maintain, kafkaVars, injectorVars, sinkVars, coordVars, Streaming
  <1>2. worker.pc = "idle" /\ event = NoId
    BY <1>1 DEF Quiescent
  <1>3. \A i \in markers : IsNewest(i, markers) => files'[i] = files[i]
    <2> SUFFICES ASSUME NEW i \in markers, IsNewest(i, markers) PROVE files'[i] = files[i]
      OBVIOUS
    <2>1. i \in Ids
      BY Numbers
    <2>2. i \notin Victims(files)
      BY <1>n, NewestCommitted DEF Victims, Completed
    <2>3. QED
      BY <1>1, <2>1, <2>2
  <1>4. Completed(files') = Completed(files) \ Victims(files)
    BY <1>1 DEF Completed, Absent
  <1>5. Readable(F)'
    BY <1>1 DEF Readable, Below
  <1>6. CommittedFiles(F)'
    <2>1. Completed(files') \subseteq markers /\ \A i \in Completed(files') : files'[i] = files[i]
      BY <1>1, <1>4 DEF CommittedFiles, Completed
    <2>2. \A i \in Completed(files') : Below(files'[i].state, F)
      BY <1>4, <2>1 DEF CommittedFiles
    <2>3. \A o, s : Matches(o, s)' <=> Matches(o, s)
      BY <1>1 DEF Matches
    <2>4. \A i \in markers : IsNewest(i, markers) =>
            files'[i].status # "absent" /\ files'[i].state = F /\ Matches(files'[i].offsets, F)
      BY <1>3 DEF CommittedFiles
    <2>5. QED
      BY <1>1, <2>1, <2>2, <2>3, <2>4 DEF CommittedFiles, Below
  <1>7. Pointers'
    <2>1. latest # NoId => latest' = latest
      <3>1. latest # NoId => latest \in Present(files)
        BY DEF Pointers, Present, TypeOK, StoreTypeOK
      <3>2. QED
        BY <1>1, <3>1 DEF RepairedPointer, LoadPointer, Usable
    <2>2. latest' = NoId => markers = {}
      BY <2>1 DEF Pointers
    <2>3. latest' # NoId => latest' \in Present(files)
      <3>1. RepairedPointer(files, latest, FALSE) \in Present(files) \cup {latest}
        BY LoadPointerIn DEF RepairedPointer, Usable
      <3>2. QED
        BY <1>1, <2>1, <3>1 DEF Pointers, Present, TypeOK, StoreTypeOK
    <2>4. latest' \in markers => IsNewest(latest', markers)
      BY <2>1 DEF Pointers
    <2>5. latest' # NoId => files'[latest'].status # "absent"
      <3> SUFFICES ASSUME latest' # NoId PROVE files'[latest'].status # "absent"
        OBVIOUS
      <3>1. latest' \in Ids /\ files[latest'].status # "absent"
        BY <2>3 DEF Present
      <3>2. latest' \in Completed(files) => latest' \in markers
        BY DEF CommittedFiles
      <3>3. latest' \notin Victims(files)
        BY <1>n, <2>4, <3>2, NewestCommitted DEF Victims, Completed
      <3>4. QED
        BY <1>1, <3>1, <3>3
    <2>6. ASSUME NEW i \in markers, IsNewest(i, markers)
          PROVE  files'[i].status = "prepared" => latest' = i
      <3>1. i # NoId
        BY Numbers
      <3>2. QED
        BY <1>3, <2>1, <2>6, <3>1 DEF Pointers
    <2>7. ASSUME NEW i \in markers, IsNewest(i, markers), files'[i].status = "completed"
          PROVE  \/ latestCompleted' = i
                 \/ RetainCompleted = 1 /\ latestCompleted' \notin Completed(files')
      <3>1. /\ i \in Completed(files) /\ files[i].status = "completed"
            /\ IsNewest(i, Completed(files)) /\ Newest(Completed(files)) = i
        BY <1>3, <1>n, <2>7, Numbers, NewestCommitted DEF Completed
      <3>2. CASE latestCompleted = i
        BY <1>1, <3>1, <3>2 DEF RepairedPointer, LoadPointer, Usable
      <3>3. CASE latestCompleted \notin Completed(files)
        BY <1>1, <3>1, <3>3, Numbers DEF RepairedPointer, LoadPointer, Usable
      <3>4. CASE RetainCompleted = 1 /\ latestCompleted \in Completed(files) /\ latestCompleted # i
        <4>1. latestCompleted' = latestCompleted
          BY <1>1, <3>4 DEF RepairedPointer, LoadPointer, Usable
        <4>2. ~IsNewest(latestCompleted, Completed(files))
          BY <3>1, <3>4, Numbers DEF IsNewest, Completed
        <4>3. latestCompleted \in Victims(files)
          BY <3>4, <4>2, OneRetained
        <4>4. QED
          BY <1>4, <3>4, <4>1, <4>3
      <3>5. QED
        BY <1>2, <2>7, <3>1, <3>2, <3>3, <3>4 DEF Pointers, TornUpdate
    <2>8. QED
      BY <1>1, <2>2, <2>4, <2>5, <2>6, <2>7 DEF Pointers
  <1>8. Completing(F)' /\ Committing(F)' /\ Queued(F)' /\ Finalizing'
    BY <1>1, <1>2 DEF Completing, Committing, Queued, Finalizing, Completes, Prepares
  <1>9. Settling' /\ Queue' /\ Positions' /\ Held(B)' /\ Stream(F, B)'
    BY <1>1 DEF Settling, Queue, Positions, Held, Stream, Live
  <1>10. Restoring'
    BY <1>1 DEF Restoring
  <1>11. QED
    BY <1>5, <1>6, <1>7, <1>8, <1>9, <1>10

\* The decision table of recovery leads to the newest committed checkpoint, or to
\* a fresh start when there is none (engine.go resolveCoordinatedRecovery).
LEMMA GuaranteeResolve ==
    ASSUME DirectoryInv, NEW F \in Frontiers, NEW B, Guarantee(F, B),
           ResolveCoordinatedRecovery
    PROVE  Guarantee(F, B)'
  <1> USE DEF Guarantee, DirectoryInv
  <1> DEFINE found == LoadPointer(files, latest, FALSE)
             done == LoadPointer(files, latestCompleted, TRUE)
  <1>n. TypeOK /\ CommittedFiles(F)
    OBVIOUS
  <1>m. /\ \A i \in markers : i \in Ids /\ i \in Nat /\ i # NoId
        /\ \A i \in markers, j \in markers :
              IsNewest(i, markers) /\ IsNewest(j, markers) => i = j
    BY Markers
  <1>1. /\ phase = "boot" /\ ~Streaming /\ ~Streaming' /\ phase' \in {"restore", "promote"}
        /\ UNCHANGED <<files, dirs, visible, markers, staged, limbo, group, hard, readPos, aligned,
                       folded, lastId, flight, sinkId, sinkWait, produceErr, pending, event>>
        /\ latest' = RepairedPointer(files, latest, FALSE)
    BY DEF ResolveCoordinatedRecovery, kafkaVars, injectorVars, sinkVars, Streaming
  <1>2. worker.pc = "idle" /\ event = NoId
    BY <1>1 DEF Quiescent
  <1>3. /\ latest # NoId => found = latest /\ latest' = latest
        /\ found # NoId => found \in Ids /\ files[found].status # "absent" /\ latest' = found
        /\ found = NoId => latest = NoId /\ latest' = NoId
    <2>1. latest # NoId => latest \in Present(files)
      BY DEF Pointers, Present, TypeOK, StoreTypeOK
    <2>2. latest # NoId => found = latest
      BY <2>1 DEF LoadPointer, Usable
    <2>3. found \in Present(files) \cup {NoId}
      BY LoadPointerIn DEF Usable
    <2>4. QED
      BY <1>1, <2>1, <2>2, <2>3 DEF RepairedPointer, Present
  <1>4. found # NoId /\ found \in markers => IsNewest(found, markers)
    <2>1. CASE latest = NoId
      BY <2>1 DEF Pointers
    <2>2. CASE latest # NoId
      BY <1>3, <2>2 DEF Pointers
    <2>3. QED
      BY <2>1, <2>2
  <1>5. found = NoId => markers = {}
    BY <1>3 DEF Pointers
  <1>6. Readable(F)' /\ CommittedFiles(F)' /\ Queued(F)'
    BY <1>1, <1>2 DEF Readable, CommittedFiles, Completed, Below, Matches, IsNewest, Queued
  <1>7. Settling' /\ Queue' /\ Positions' /\ Held(B)' /\ Stream(F, B)'
    BY <1>1 DEF Settling, Queue, Positions, Held, Stream, Live
  <1>8. flight' = {} /\ staged' = {} /\ sinkWait' = NoId /\ ~hard'
    BY <1>1 DEF Restoring
  \* The pointer part, for whichever worker and latest-completed result.
  <1>9. /\ latest' = NoId => markers' = {}
        /\ latest' # NoId => files'[latest'].status # "absent"
        /\ latest' \in markers' => IsNewest(latest', markers')
        /\ \A i \in markers : IsNewest(i, markers) /\ files[i].status = "prepared" => latest' = i
    <2>1. \A i \in markers : i # NoId
      BY Numbers
    <2>2. \A i \in markers : latest # NoId
      BY <1>3, <1>5 DEF Pointers
    <2>3. QED
      BY <1>1, <1>3, <1>4, <1>5, <2>1, <2>2 DEF Pointers
  <1>10. CASE /\ found # NoId => files[found].status = "completed"
              /\ restored' = found /\ phase' = "restore" /\ UNCHANGED <<latestCompleted, worker>>
    <2>1. found # NoId => found \in markers
      BY <1>3, <1>10 DEF CommittedFiles, Completed
    <2>2. Pointers'
      BY <1>1, <1>2, <1>9, <1>10 DEF Pointers, TornUpdate, IsNewest, Completed
    <2>3. Settled'
      <3>1. \A i \in markers : IsNewest(i, markers) => i = found /\ found # NoId
        BY <1>4, <1>5, <1>m, <2>1
      <3>2. QED
        BY <1>1, <1>10, <3>1 DEF Settled, IsNewest
    <2>4. Restoring'
      BY <1>1, <1>4, <1>5, <1>8, <1>10, <2>1, <2>3 DEF Restoring, IsNewest
    <2>5. Completing(F)' /\ Committing(F)' /\ Finalizing'
      BY <1>1, <1>2, <1>10 DEF Completing, Committing, Finalizing, Completes, Prepares
    <2>6. QED
      BY <1>6, <1>7, <2>2, <2>4, <2>5
  <1>11. CASE /\ found # NoId /\ files[found].status = "prepared" /\ found \in markers
              /\ restored' = found /\ phase' = "promote" /\ UNCHANGED latestCompleted
              /\ worker' = [pc |-> "file", id |-> found, victim |-> NoId,
                            data |-> [files[found] EXCEPT !.status = "completed"]]
    <2>1. /\ worker'.pc = "file" /\ worker'.id = found /\ worker'.data.status = "completed"
          /\ worker'.data.state = files[found].state /\ worker'.data.offsets = files[found].offsets
      BY <1>3, <1>11 DEF TypeOK, StoreTypeOK, CheckpointData
    <2>2. IsNewest(found, markers)
      BY <1>4, <1>11
    <2>3. files[found].state = F /\ found \in dirs
      BY <1>3, <1>11, <2>2 DEF CommittedFiles, RestorableHasState, Present
    <2>4. \A i \in markers : IsNewest(i, markers) => i = found
      BY <1>m, <1>11, <2>2
    <2>5. Pointers'
      BY <1>1, <1>9, <1>11, <2>4 DEF Pointers, IsNewest
    <2>6. Completing(F)' /\ Committing(F)' /\ Finalizing'
      BY <1>1, <2>1, <2>2, <2>3 DEF Completing, Committing, Finalizing, Completes, Prepares, IsNewest
    <2>7. Restoring'
      BY <1>1, <1>8, <1>11, <2>1 DEF Restoring, Completes
    <2>8. QED
      BY <1>6, <1>7, <2>5, <2>6, <2>7
  <1>12. CASE /\ found # NoId /\ files[found].status = "prepared" /\ found \notin markers
              /\ restored' = done /\ phase' = "restore" /\ UNCHANGED worker
              /\ latestCompleted' = RepairedPointer(files, latestCompleted, TRUE)
    <2>1. \A i \in markers : IsNewest(i, markers) => files[i].status = "completed"
      <3> SUFFICES ASSUME NEW i \in markers, IsNewest(i, markers)
                   PROVE  files[i].status = "completed"
        OBVIOUS
      <3>1. files[i].status # "absent" /\ files[i].status \in {"absent", "prepared", "completed"}
        BY Numbers DEF CommittedFiles, TypeOK, StoreTypeOK, CheckpointData, Statuses
      <3>2. latest # i
        BY <1>3, <1>12, <1>m
      <3>3. QED
        BY <3>1, <3>2 DEF Pointers
    <2>2. ASSUME NEW i \in markers, IsNewest(i, markers)
          PROVE  done = i /\ latestCompleted' = i
      <3>1. /\ files[i].status = "completed" /\ IsNewest(i, Completed(files))
            /\ Newest(Completed(files)) = i /\ i \in Completed(files) /\ i # NoId
        BY <1>n, <2>1, <2>2, Numbers, NewestCommitted DEF Completed
      <3>2. latestCompleted = i \/ latestCompleted \notin Completed(files)
        BY <1>1, <1>2, <2>2, <3>1 DEF Pointers, TornUpdate
      <3>3. QED
        BY <1>12, <3>1, <3>2 DEF LoadPointer, RepairedPointer, Usable
    <2>3. markers = {} => done = NoId
      BY LoadPointerIn DEF CommittedFiles, Usable
    <2>4. Pointers'
      BY <1>1, <1>9, <2>2 DEF Pointers, IsNewest
    <2>5. Restoring'
      <3>1. markers # {} => \E i \in markers : IsNewest(i, markers)
        BY DEF CommittedFiles
      <3>2. (restored' = NoId /\ markers = {}) \/ IsNewest(restored', markers)
        BY <1>12, <2>2, <2>3, <3>1
      <3>3. QED
        BY <1>1, <1>8, <1>12, <2>1, <3>2 DEF Restoring, Settled, IsNewest
    <2>6. Completing(F)' /\ Committing(F)' /\ Finalizing'
      BY <1>1, <1>2, <1>12 DEF Completing, Committing, Finalizing, Completes, Prepares
    <2>7. QED
      BY <1>6, <1>7, <2>4, <2>5, <2>6
  <1>13. QED
    BY <1>10, <1>11, <1>12 DEF ResolveCoordinatedRecovery, WasCommitted

\* The source and the operators start at the frontier (engine.go
\* restoreSourceOffset, source/kafka_offset_tracker.go restore).
LEMMA StartsAtFrontier ==
    ASSUME DirectoryInv, Tolerated, NEW F \in Frontiers, NEW B, Guarantee(F, B), Start
    PROVE  readPos' = F /\ folded' = F /\ group' = F
  <1> USE DEF Guarantee, DirectoryInv
  <1>1. phase = "restore" /\ GroupMode
    BY DEF Start, Tolerated
  <1>2. \A p \in Partitions : F[p] \in Pos /\ group[p] \in Pos
    BY DEF Frontiers, TypeOK
  <1>3. ASSUME NEW p \in Partitions
        PROVE  StartPosition(restored, p) = F[p]
    <2>1. CASE restored = NoId /\ markers = {}
      <3>1. F[p] = 0 /\ group[p] <= F[p] /\ group[p] \in Nat
        BY <1>2, <2>1, Numbers DEF Readable, Below
      <3>2. SavedPositions(restored)[p] = NoPos
        BY <2>1 DEF SavedPositions, NoPositions
      <3>3. QED
        BY <1>1, <3>1, <3>2 DEF StartPosition
    <2>2. CASE IsNewest(restored, markers)
      <3>1. restored \in markers /\ restored # NoId
        BY <2>2, Markers
      <3>2. \/ files[restored].offsets[p] = F[p]
            \/ files[restored].offsets[p] = NoPos /\ group[p] = F[p]
        BY <2>2, <3>1 DEF CommittedFiles, Matches
      <3>3. F[p] # NoPos
        BY <1>2, Numbers
      <3>4. QED
        BY <1>1, <3>1, <3>2, <3>3 DEF StartPosition, SavedPositions
    <2>3. QED
      BY <1>1, <2>1, <2>2 DEF Restoring
  <1>4. F = [p \in Partitions |-> F[p]]
    BY DEF Frontiers
  <1>5. readPos' = F /\ group' = F
    BY <1>1, <1>3, <1>4 DEF Start
  <1>6. folded' = F
    <2>1. CASE restored = NoId /\ markers = {}
      BY <1>4, <2>1 DEF Start, NoState, Readable
    <2>2. CASE IsNewest(restored, markers)
      BY <2>2, Markers DEF Start, CommittedFiles
    <2>3. QED
      BY <1>1, <2>1, <2>2 DEF Restoring
  <1>7. QED
    BY <1>5, <1>6

\* Every goroutine starts on an empty stream whose barriers begin at lastId.
LEMMA GuaranteeStart ==
    ASSUME DirectoryInv, Tolerated, NEW F \in Frontiers, NEW B \in [Ids \cup {NoId} -> Frontiers],
           Guarantee(F, B), Start,
           NEW C, C = [B EXCEPT ![lastId] = F]
    PROVE  Guarantee(F, C)'
  <1> USE DEF Guarantee, DirectoryInv
  <1>1. /\ phase = "restore" /\ ~Streaming /\ phase' = "run" /\ Streaming'
        /\ readPos' = F /\ folded' = F /\ group' = F /\ aligned' = NoPositions
        /\ sinkId' = lastId /\ limbo'.id = NoId
        /\ UNCHANGED <<files, latest, latestCompleted, dirs, visible, markers, staged, restored, hard,
                       lastId, flight, sinkWait, produceErr, pending, event, worker>>
    BY StartsAtFrontier DEF Start, Streaming, NoLimbo, storeVars, coordVars
  <1>2. /\ worker.pc = "idle" /\ event = NoId /\ \A i \in Ids : pending[i].stage = "none"
        /\ flight = {} /\ staged = {} /\ sinkWait = NoId /\ ~hard /\ Settled
    BY <1>1 DEF Quiescent, Restoring
  <1>3. \A p \in Partitions : F[p] \in Nat
    BY Numbers DEF Frontiers
  <1>4. Readable(F)'
    BY <1>1, <1>3 DEF Readable, Below
  <1>5. CommittedFiles(F)'
    <2>1. \A i \in markers : IsNewest(i, markers) => Matches(files[i].offsets, F)'
      BY <1>1 DEF CommittedFiles, Matches
    <2>2. QED
      BY <1>1, <2>1 DEF CommittedFiles, Completed, Below, IsNewest
  <1>6. Pointers'
    BY <1>1 DEF Pointers, TornUpdate, IsNewest, Completed
  <1>7. Completing(F)' /\ Committing(F)' /\ Queued(F)' /\ Finalizing'
    BY <1>1, <1>2 DEF Completing, Committing, Queued, Finalizing, Completes, Prepares
  <1>8. Settling' /\ Restoring'
    BY <1>1, <1>2 DEF Settling, Restoring, Settled, IsNewest
  <1>9. Queue'
    <2>1. lastId <= lastId
      BY Numbers
    <2>2. QED
      BY <1>1, <1>2, <2>1 DEF Queue
  <1>10. Positions'
    BY <1>1, <1>2 DEF Positions, Matches, NoPositions
  <1>11. lastId \in Nat /\ lastId \in Ids \cup {NoId} /\ \A m \in markers : m <= lastId
    <2>1. lastId \in Nat /\ lastId \in Ids \cup {NoId}
      BY Numbers DEF TypeOK
    <2>2. QED
      BY <2>1, Markers DEF FreshIds
  <1>12. Held(C)'
    <2>1. \A i \in Ids : ~(lastId < i /\ i <= lastId)
      BY <1>11, Numbers
    <2>2. QED
      BY <1>1, <1>2, <1>11, <2>1 DEF Held, Prepares
  <1>13. Stream(F, C)'
    <2>1. C[lastId] = F /\ Upper(C, lastId)' = F
      BY <1>1, <1>11 DEF Upper
    <2>2. Segment(F, F) = {} /\ Below(F, F)
      BY <1>3, SegmentEmpty DEF Below
    <2>3. \A i \in Ids \cup {NoId} : lastId <= i /\ i <= lastId => i = lastId
      BY <1>11, Numbers
    <2>4. Flying(lastId)' = {}
      BY <1>1, <1>2 DEF Flying
    <2>5. Segment(F, F)' = {} /\ Below(F, F)'
      BY <2>2 DEF Segment, Below
    <2>6. QED
      BY <1>1, <1>2, <1>11, <2>1, <2>2, <2>3, <2>4, <2>5 DEF Stream, Fills
  <1>14. QED
    BY <1>4, <1>5, <1>6, <1>7, <1>8, <1>9, <1>10, <1>12, <1>13

-----------------------------------------------------------------------------
(* The source, the stages and the sink's data path.                        *)

\* A step that changes neither the directory, nor Kafka, nor the worker.
LEMMA DurableFrame ==
    ASSUME NEW F, NEW B, Guarantee(F, B),
           UNCHANGED <<files, latest, latestCompleted, visible, markers, group, limbo, worker>>,
           phase' = phase \/ (Streaming /\ Streaming')
    PROVE  Readable(F)' /\ CommittedFiles(F)' /\ Pointers' /\ Completing(F)'
  <1> USE DEF Guarantee
  <1>1. Readable(F)' /\ CommittedFiles(F)'
    BY DEF Readable, CommittedFiles, Completed, Below, Matches, IsNewest
  <1>2. Pointers'
    BY DEF Pointers, TornUpdate, IsNewest, Completed, Streaming
  <1>3. Completing(F)'
    BY DEF Completing, Completes, IsNewest
  <1>4. QED
    BY <1>1, <1>2, <1>3

\* While the sink waits for a verdict that will come, a barrier lies ahead of it.
LEMMA WaitsBehindBarrier ==
    ASSUME DirectoryInv, NEW F, NEW B, Guarantee(F, B), Live, sinkWait # NoId
    PROVE  sinkId < lastId
  <1> USE DEF Guarantee, DirectoryInv
  <1>1. Streaming /\ sinkWait = sinkId + 1
    BY DEF Live, Queue
  <1>2. CASE event # NoId
    <2>1. event = sinkId + 1 /\ pending[event].stage = "tapped" /\ event \in Ids
      BY <1>1, <1>2 DEF Queue, QueueOrder, TypeOK
    <2>2. ~(lastId < event)
      BY <2>1 DEF QueueOrder
    <2>3. QED
      BY <2>1, <2>2, Numbers
  <1>3. CASE event = NoId
    <2>1. worker.pc # "idle" /\ worker.id = sinkWait
      BY <1>3 DEF Live, Stuck, Prepares
    <2>2. worker.id <= lastId
      BY <2>1 DEF QueueOrder
    <2>3. QED
      BY <1>1, <2>1, <2>2, Numbers
  <1>4. QED
    BY <1>2, <1>3

\* A record passes the injector (engine.go injectBarriers).
LEMMA GuaranteeRead ==
    ASSUME DirectoryInv, NEW F \in Frontiers, NEW B \in [Ids \cup {NoId} -> Frontiers],
           Guarantee(F, B), NEW p \in Partitions, Read(p)
    PROVE  Guarantee(F, B)'
  <1> USE DEF Guarantee, DirectoryInv
  <1>1. /\ phase \in {"run", "drain"} /\ ~hard /\ readPos[p] < LogEnd
        /\ readPos' = [readPos EXCEPT ![p] = @ + 1]
        /\ aligned' = [aligned EXCEPT ![p] = readPos[p] + 1]
        /\ folded' = [folded EXCEPT ![p] = @ + 1]
        /\ flight' = flight \cup {[rec |-> <<p, readPos[p]>>, after |-> lastId]}
        /\ UNCHANGED <<files, latest, latestCompleted, dirs, visible, markers, staged, limbo, group,
                       phase, restored, hard, lastId, sinkId, sinkWait, produceErr, pending, event, worker>>
    BY DEF Read, storeVars, kafkaVars, engineVars, coordVars
  <1>2. Readable(F)' /\ CommittedFiles(F)' /\ Pointers' /\ Completing(F)'
    BY <1>1, DurableFrame
  <1>3. Streaming /\ Streaming'
    BY <1>1 DEF Streaming
  <1>4. Committing(F)' /\ Queued(F)' /\ Finalizing'
    BY <1>1 DEF Committing, Queued, Finalizing, Prepares, Below, Fills, Segment, Settled, IsNewest
  <1>5. Settling' /\ Restoring' /\ Queue' /\ Held(B)'
    BY <1>1, <1>3 DEF Settling, Restoring, Queue, Held, Live, Stuck, Completes, Prepares, Settled,
                      IsNewest, Streaming
  <1>6. readPos \in Frontiers /\ \A q \in Partitions : readPos[q] \in Nat
    BY Numbers DEF TypeOK, Frontiers
  <1>7. Positions'
    <2>1. folded = readPos /\ Matches(aligned, readPos)
      BY <1>3 DEF Positions
    <2>2. folded' = readPos' /\ Matches(aligned, readPos)'
      BY <1>1, <1>6, <2>1 DEF Matches, TypeOK
    <2>3. \A q \in Partitions : aligned'[q] = NoPos => aligned[q] = NoPos
      BY <1>1, <1>6 DEF TypeOK, NoPos
    <2>4. QED
      BY <1>1, <1>3, <2>2, <2>3 DEF Positions, Matches
  <1>8. Stream(F, B)'
    <2> SUFFICES ASSUME Live' PROVE Stream(F, B)'
      BY DEF Stream
    <2>1. Live
      BY <1>1, <1>3 DEF Live, Stuck, Prepares
    <2>2. /\ B[sinkId] = F /\ \A f \in flight : f.after <= lastId
          /\ sinkWait # NoId => Delivered
          /\ \A i \in Ids \cup {NoId} : sinkId <= i /\ i <= lastId =>
               /\ Below(B[i], Upper(B, i))
               /\ i # sinkId => Fills(Flying(i), Segment(B[i], Upper(B, i)))
          /\ Fills(staged \cup Flying(sinkId), Segment(F, Upper(B, sinkId)))
      BY <2>1 DEF Stream
    <2>3. lastId \in Nat /\ sinkId \in Nat /\ sinkId <= lastId /\ lastId \in Ids \cup {NoId}
      BY <1>3, Numbers DEF Queue, TypeOK
    <2>4. \A f \in flight' : f.after <= lastId
      BY <1>1, <2>2, <2>3
    <2>5. sinkWait # NoId => Delivered'
      BY <1>1, <2>1, <2>2, <2>3, WaitsBehindBarrier DEF Delivered
    <2>6. \A i : i # lastId => Flying(i)' = Flying(i) /\ Upper(B, i)' = Upper(B, i)
      BY <1>1 DEF Flying, Upper
    <2>7. /\ Upper(B, lastId) = readPos /\ Upper(B, lastId)' = readPos'
          /\ B[lastId] \in Frontiers /\ Below(B[lastId], readPos)
      BY <1>1, <2>2, <2>3 DEF Upper
    <2>8. /\ <<p, readPos[p]>> \in Records
          /\ Segment(B[lastId], readPos') = Segment(B[lastId], readPos) \cup {<<p, readPos[p]>>}
      <3>1. B[lastId][p] <= readPos[p] /\ readPos[p] < LogEnd
        BY <1>1, <2>7 DEF Below
      <3>2. /\ <<p, readPos[p]>> \in Records
            /\ Segment(B[lastId], [readPos EXCEPT ![p] = @ + 1])
                 = Segment(B[lastId], readPos) \cup {<<p, readPos[p]>>}
        BY <1>6, <2>7, <3>1, SegmentRead
      <3>3. QED
        BY <1>1, <3>2
    <2>9. Flying(lastId)' = Flying(lastId) \cup {<<p, readPos[p]>>}
      BY <1>1, <2>8 DEF Flying
    <2>10. Below(B[lastId], readPos')
      <3>1. \A q \in Partitions : B[lastId][q] \in Nat /\ B[lastId][q] <= readPos[q]
        BY <2>7, Numbers DEF Below, Frontiers
      <3>2. \A q \in Partitions : readPos'[q] \in Nat /\ readPos[q] <= readPos'[q]
        BY <1>1, <1>6 DEF TypeOK
      <3>3. QED
        BY <1>6, <3>1, <3>2 DEF Below
    <2>11. \A R, S, x : Fills(R, S) => Fills(R \cup {x}, S \cup {x})
      BY DEF Fills
    <2>12. ASSUME NEW i \in Ids \cup {NoId}, sinkId <= i, i <= lastId
           PROVE  /\ Below(B[i], Upper(B, i))'
                  /\ i # sinkId => Fills(Flying(i), Segment(B[i], Upper(B, i)))'
      <3>1. CASE i = lastId
        <4>1. Below(B[i], Upper(B, i))'
          BY <1>1, <2>7, <2>10, <3>1 DEF Below
        <4>2. ASSUME i # sinkId PROVE Fills(Flying(i), Segment(B[i], Upper(B, i)))'
          <5>1. Fills(Flying(lastId), Segment(B[lastId], readPos))
            BY <2>2, <2>7, <2>12, <3>1, <4>2
          <5>2. Fills(Flying(lastId) \cup {<<p, readPos[p]>>},
                      Segment(B[lastId], readPos) \cup {<<p, readPos[p]>>})
            BY <2>11, <5>1
          <5>3. QED
            BY <1>1, <2>7, <2>8, <2>9, <3>1, <5>2 DEF Fills, Segment
        <4>3. QED
          BY <4>1, <4>2
      <3>2. CASE i # lastId
        BY <2>2, <2>6, <2>12, <3>2 DEF Below, Fills, Segment
      <3>3. QED
        BY <3>1, <3>2
    <2>13. Fills(staged \cup Flying(sinkId), Segment(F, Upper(B, sinkId)))'
      <3>1. CASE sinkId = lastId
        <4>1. Fills((staged \cup Flying(sinkId)) \cup {<<p, readPos[p]>>},
                    Segment(F, readPos) \cup {<<p, readPos[p]>>})
          BY <2>2, <2>7, <2>11, <3>1
        <4>2. staged \cup Flying(sinkId)' = (staged \cup Flying(sinkId)) \cup {<<p, readPos[p]>>}
          BY <1>1, <2>9, <3>1
        <4>3. Segment(F, Upper(B, sinkId))' = Segment(F, readPos) \cup {<<p, readPos[p]>>}
          BY <1>1, <2>2, <2>7, <2>8, <3>1 DEF Segment
        <4>4. QED
          BY <1>1, <4>1, <4>2, <4>3 DEF Fills
      <3>2. CASE sinkId # lastId
        BY <1>1, <2>2, <2>6, <3>2 DEF Fills, Segment
      <3>3. QED
        BY <3>1, <3>2
    <2>14. QED
      BY <1>1, <2>2, <2>4, <2>5, <2>12, <2>13 DEF Stream
  <1>9. QED
    BY <1>2, <1>4, <1>5, <1>7, <1>8

\* A barrier enters the stream with the aligned positions and the state behind it
\* (engine.go injectBarriers, registerAlignedOffsets).
LEMMA GuaranteeInject ==
    ASSUME DirectoryInv, NEW F \in Frontiers, NEW B \in [Ids \cup {NoId} -> Frontiers],
           Guarantee(F, B), InjectBarrier, Streaming, Streaming', ~hard,
           UNCHANGED <<storeVars, kafkaVars, restored, hard, sinkVars>>,
           NEW C, C = [B EXCEPT ![lastId + 1] = readPos]
    PROVE  Guarantee(F, C)'
  <1> USE DEF Guarantee, DirectoryInv
  <1>1. /\ lastId \in Nat /\ lastId + 1 \in Ids /\ lastId' = lastId + 1
        /\ sinkId \in Nat /\ sinkId <= lastId
    <2>1. lastId \in Nat /\ sinkId \in Nat
      BY Numbers
    <2>2. lastId < MaxId /\ lastId' = lastId + 1
      BY DEF InjectBarrier
    <2>3. lastId + 1 \in Ids
      BY <2>1, <2>2, StoreAssumption DEF Ids
    <2>4. sinkId <= lastId
      BY DEF Queue
    <2>5. QED
      BY <2>1, <2>2, <2>3, <2>4
  <1>2. /\ pending'[lastId + 1] = [stage |-> "injected", offsets |-> aligned, state |-> folded,
                                   sinkErr |-> FALSE]
        /\ \A i \in Ids : i # lastId + 1 => pending'[i] = pending[i]
        /\ UNCHANGED <<readPos, aligned, folded, event, worker>>
    BY <1>1 DEF InjectBarrier, TypeOK
  <1>3. UNCHANGED <<files, latest, latestCompleted, dirs, visible, markers, staged, limbo, group,
                    flight, sinkId, sinkWait, produceErr>>
    BY DEF storeVars, kafkaVars, sinkVars
  <1>4. \A i \in Ids : pending[i].stage # "none" => i <= lastId
    BY <1>1, Numbers DEF QueueOrder
  <1>5. Readable(F)' /\ CommittedFiles(F)' /\ Pointers' /\ Completing(F)'
    BY <1>2, <1>3, DurableFrame
  <1>6. event # NoId => event \in Ids /\ event # lastId + 1 /\ pending'[event] = pending[event]
    <2>1. event # NoId => event \in Ids /\ pending[event].stage # "none"
      BY DEF QueueOrder, TypeOK
    <2>2. QED
      BY <1>1, <1>2, <1>4, <2>1
  <1>7. Committing(F)' /\ Queued(F)' /\ Finalizing'
    <2>1. Committing(F)'
      BY <1>2, <1>3 DEF Committing, Prepares, Below, Fills, Segment, Settled, IsNewest
    <2>2. Queued(F)'
      BY <1>2, <1>3, <1>6 DEF Queued, Below, Fills, Segment
    <2>3. Finalizing'
      BY <1>1, <1>2, <1>3 DEF Finalizing, Streaming
    <2>4. QED
      BY <2>1, <2>2, <2>3
  <1>8. Settling' /\ Restoring'
    BY <1>2, <1>3 DEF Settling, Restoring, Completes, Settled, IsNewest, Streaming
  <1>9. Queue'
    <2>1. \A i \in Ids : pending'[i].stage # "none" => sinkId < i
      BY <1>1, <1>2 DEF Queue
    <2>2. \A i \in Ids : pending'[i].stage = "tapped" => i \in dirs
      BY <1>1, <1>2 DEF Queue
    <2>3. QED
      BY <1>1, <1>2, <1>3, <2>1, <2>2 DEF Queue
  <1>10. folded = readPos /\ readPos \in Frontiers /\ Matches(aligned, readPos)
    BY DEF Positions, TypeOK, Frontiers
  <1>11. Positions'
    <2>1. \A o, s : Matches(o, s)' <=> Matches(o, s)
      BY <1>3 DEF Matches
    <2>2. Matches(aligned, readPos)'
      BY <1>2, <1>3, <1>10 DEF Matches
    <2>3. worker.pc # "idle" =>
            /\ Matches(worker.data.offsets, worker.data.state)'
            /\ \A p \in Partitions : aligned[p] = NoPos => worker.data.offsets[p] = NoPos
      BY <1>2, <1>3 DEF Positions, Matches
    <2>4. ASSUME NEW i \in Ids, pending'[i].stage # "none"
          PROVE  /\ Matches(pending[i].offsets, pending[i].state)'
                 /\ \A p \in Partitions :
                      /\ aligned[p] = NoPos => pending'[i].offsets[p] = NoPos
                      /\ \A j \in Ids :
                           j < i /\ pending'[j].stage # "none" /\ pending'[i].offsets[p] = NoPos
                             => pending'[j].offsets[p] = NoPos
                      /\ worker.pc # "idle" /\ pending'[i].offsets[p] = NoPos
                             => worker.data.offsets[p] = NoPos
      <3>1. CASE i = lastId + 1
        <4>1. pending'[i].offsets = aligned /\ pending'[i].state = readPos
          BY <1>2, <1>10, <3>1
        <4>2. Matches(pending[i].offsets, pending[i].state)'
          BY <1>3, <1>10, <4>1 DEF Matches
        <4>3. \A j \in Ids : j < i => pending'[j] = pending[j]
          BY <1>1, <1>2, <3>1, Numbers
        <4>4. QED
          BY <2>3, <4>1, <4>2, <4>3 DEF Positions
      <3>2. CASE i # lastId + 1
        <4>1. pending'[i] = pending[i] /\ i <= lastId /\ i \in Nat
          BY <1>2, <1>4, <2>4, <3>2, Numbers
        <4>2. \A j \in Ids : j < i => pending'[j] = pending[j]
          BY <1>1, <1>2, <4>1, Numbers
        <4>3. Matches(pending[i].offsets, pending[i].state)'
          BY <1>3, <2>4, <4>1 DEF Matches, Positions
        <4>4. QED
          BY <2>4, <4>1, <4>2, <4>3 DEF Positions
      <3>3. QED
        BY <3>1, <3>2
    <2>5. QED
      BY <1>2, <1>10, <2>2, <2>3, <2>4 DEF Positions
  <1>12. Live' => Live
    BY <1>2, <1>3 DEF Live, Stuck, Prepares
  <1>13. /\ C[lastId + 1] = readPos
         /\ \A i \in Ids \cup {NoId} : i # lastId + 1 => C[i] = B[i]
    BY <1>1
  <1>14. Held(C)'
    <2> SUFFICES ASSUME Live' PROVE Held(C)'
      BY DEF Held
    <2>1. /\ \A m \in markers : m <= sinkId
          /\ Prepares => sinkWait = worker.id
          /\ \A i \in Ids : sinkId < i /\ i <= lastId =>
               \/ pending[i].stage # "none" /\ pending[i].state = B[i]
               \/ Prepares /\ worker.id = i /\ worker.data.state = B[i]
      BY <1>12 DEF Held
    <2>2. ASSUME NEW i \in Ids, sinkId < i, i <= lastId + 1
          PROVE  \/ pending'[i].stage # "none" /\ pending'[i].state = C[i]
                 \/ Prepares /\ worker.id = i /\ worker.data.state = C[i]
      <3>1. CASE i = lastId + 1
        BY <1>2, <1>10, <1>13, <3>1
      <3>2. CASE i # lastId + 1
        <4>1. i <= lastId
          BY <1>1, <2>2, <3>2, Numbers
        <4>2. QED
          BY <1>2, <1>13, <2>1, <2>2, <3>2, <4>1
      <3>3. QED
        BY <3>1, <3>2
    <2>3. QED
      BY <1>1, <1>2, <1>3, <2>1, <2>2 DEF Held, Prepares
  <1>15. Stream(F, C)'
    <2> SUFFICES ASSUME Live' PROVE Stream(F, C)'
      BY DEF Stream
    <2>1. /\ B[sinkId] = F /\ \A f \in flight : f.after <= lastId
          /\ sinkWait # NoId => Delivered
          /\ \A i \in Ids \cup {NoId} : sinkId <= i /\ i <= lastId =>
               /\ Below(B[i], Upper(B, i))
               /\ i # sinkId => Fills(Flying(i), Segment(B[i], Upper(B, i)))
          /\ Fills(staged \cup Flying(sinkId), Segment(F, Upper(B, sinkId)))
      BY <1>12 DEF Stream
    <2>2. \A i \in Ids \cup {NoId} : i \in Nat
      BY Numbers
    <2>3. \A f \in flight : f.after \in Nat
      BY <2>2 DEF TypeOK, InFlight
    <2>4. \A f \in flight : f.after <= lastId + 1 /\ f.after # lastId + 1
      BY <1>1, <2>1, <2>3
    <2>5. \A i \in Ids \cup {NoId} : i <= lastId => Upper(C, i)' = Upper(B, i) /\ C[i] = B[i]
      <3> SUFFICES ASSUME NEW i \in Ids \cup {NoId}, i <= lastId
                   PROVE  Upper(C, i)' = Upper(B, i) /\ C[i] = B[i]
        OBVIOUS
      <3>1. i \in Nat /\ i + 1 \in Ids
        BY <1>1, <2>2, StoreAssumption DEF Ids
      <3>2. C[i] = B[i]
        BY <1>1, <1>13, <2>2
      <3>3. CASE i = lastId
        BY <1>1, <1>13, <3>3 DEF Upper
      <3>4. CASE i # lastId
        BY <1>1, <1>13, <3>1, <3>4 DEF Upper
      <3>5. QED
        BY <3>2, <3>3, <3>4
    <2>6. \A i : i = lastId + 1 => Upper(C, i)' = readPos
      BY <1>1, <1>2 DEF Upper
    <2>7. \A i : Flying(i)' = Flying(i) /\ (i = lastId + 1 => Flying(i)' = {})
      BY <1>1, <1>3, <2>4 DEF Flying
    <2>8. Segment(readPos, readPos) = {} /\ Below(readPos, readPos)
      <3>1. \A p \in Partitions : readPos[p] <= readPos[p]
        BY <1>10, Numbers DEF Frontiers
      <3>2. QED
        BY <1>10, <3>1, SegmentEmpty DEF Below
    <2>9. ASSUME NEW i \in Ids \cup {NoId}, sinkId <= i, i <= lastId + 1
          PROVE  /\ Below(C[i], Upper(C, i)')
                 /\ i # sinkId => Fills(Flying(i)', Segment(C[i], Upper(C, i)'))
      <3>1. CASE i = lastId + 1
        BY <1>13, <2>6, <2>7, <2>8, <3>1 DEF Fills
      <3>2. CASE i # lastId + 1
        <4>1. i <= lastId
          BY <1>1, <2>2, <2>9, <3>2
        <4>2. Upper(C, i)' = Upper(B, i) /\ C[i] = B[i] /\ Flying(i)' = Flying(i)
          BY <2>5, <2>7, <4>1
        <4>3. QED
          BY <2>1, <2>9, <4>1, <4>2
      <3>3. QED
        BY <3>1, <3>2
    <2>10. sinkId \in Ids \cup {NoId} /\ Upper(C, sinkId)' = Upper(B, sinkId) /\ C[sinkId] = B[sinkId]
      <3>1. sinkId \in Ids \cup {NoId}
        BY DEF TypeOK
      <3>2. QED
        BY <1>1, <1>3, <2>5, <3>1
    <2>11. Fills(staged \cup Flying(sinkId), Segment(F, Upper(C, sinkId)'))
      BY <2>1, <2>10
    <2>12. \A f \in flight' : f.after <= lastId'
      BY <1>1, <1>3, <2>4
    <2>13. sinkWait' # NoId => Delivered'
      BY <1>3, <2>1 DEF Delivered
    <2>14. QED
      BY <1>1, <1>3, <2>1, <2>7, <2>9, <2>10, <2>11, <2>12, <2>13
      DEF Stream, Below, Fills, Segment
  <1>16. QED
    BY <1>5, <1>7, <1>8, <1>9, <1>11, <1>14, <1>15

\* A step that moves no record and no barrier past the sink.
LEMMA StreamFrame ==
    ASSUME NEW F, NEW B, Stream(F, B), Live' => Live,
           UNCHANGED <<sinkId, flight, lastId, sinkWait, staged, readPos>>
    PROVE  Stream(F, B)'
  BY DEF Stream, Upper, Flying, Delivered, Below, Fills, Segment

\* The source ends, the process is told to stop, or nothing happens.
LEMMA GuaranteeStops ==
    ASSUME NEW F, NEW B, Guarantee(F, B),
           UNCHANGED <<storeVars, kafkaVars, restored, injectorVars, sinkVars, coordVars>>,
           \/ UNCHANGED <<phase, hard>>
           \/ Streaming /\ Streaming' /\ (hard => hard')
    PROVE  Guarantee(F, B)'
  <1> USE DEF Guarantee, storeVars, kafkaVars, injectorVars, sinkVars, coordVars
  <1>1. Readable(F)' /\ CommittedFiles(F)' /\ Pointers' /\ Completing(F)'
    BY DurableFrame
  <1>2. Committing(F)' /\ Queued(F)' /\ Finalizing'
    BY DEF Committing, Queued, Finalizing, Prepares, Below, Fills, Segment, Settled, IsNewest,
           Streaming
  <1>3. Settling'
    BY DEF Settling, Completes, Settled, IsNewest, Streaming
  <1>4. Restoring'
    BY DEF Restoring, Completes, Settled, IsNewest, Streaming
  <1>5. Queue'
    BY DEF Queue, Streaming
  <1>6. Positions'
    BY DEF Positions, Matches, Streaming
  <1>7. Live' => Live
    BY DEF Live, Stuck, Prepares, Streaming
  <1>8. Held(B)' /\ Stream(F, B)'
    BY <1>7, StreamFrame DEF Held, Prepares
  <1>9. QED
    BY <1>1, <1>2, <1>3, <1>4, <1>5, <1>6, <1>8

\* The tap hands the state snapshot to the coordinator (engine.go barrierDetect).
LEMMA GuaranteeTap ==
    ASSUME DirectoryInv, NEW F, NEW B, Guarantee(F, B), NEW id \in Ids, TapBarrier(id)
    PROVE  Guarantee(F, B)'
  <1> USE DEF Guarantee, DirectoryInv
  <1>1. /\ Streaming /\ Streaming' /\ pending[id].stage = "injected"
        /\ dirs' = dirs \cup {id}
        /\ UNCHANGED <<files, latest, latestCompleted, visible, markers, staged, limbo, group,
                       phase, restored, hard, readPos, aligned, folded, lastId, flight, sinkId,
                       sinkWait, produceErr, event, worker>>
    BY DEF TapBarrier, kafkaVars, engineVars, injectorVars, sinkVars, Streaming
  <1>2. \A i \in Ids : /\ pending'[i].stage = IF i = id THEN "tapped" ELSE pending[i].stage
                       /\ pending'[i].offsets = pending[i].offsets
                       /\ pending'[i].state = pending[i].state
                       /\ pending'[i].sinkErr = pending[i].sinkErr
    BY DEF TapBarrier, TypeOK, PendingCheckpoint
  <1>3. event # NoId => event \in Ids
    BY DEF TypeOK
  <1>4. Readable(F)' /\ CommittedFiles(F)' /\ Pointers' /\ Completing(F)'
    BY <1>1, DurableFrame
  <1>5. Committing(F)' /\ Finalizing'
    BY <1>1, <1>2 DEF Committing, Finalizing, Prepares, Below, Fills, Segment, Settled, IsNewest
  <1>6. Queued(F)'
    BY <1>1, <1>2, <1>3 DEF Queued, Below, Fills, Segment
  <1>7. Settling' /\ Restoring'
    BY <1>1 DEF Settling, Restoring, Completes, Settled, IsNewest, Streaming
  <1>8. Queue'
    BY <1>1, <1>2 DEF Queue
  <1>9. Positions'
    <2>1. \A i \in Ids : pending'[i].stage # "none" => pending[i].stage # "none"
      BY <1>1, <1>2
    <2>2. QED
      BY <1>1, <1>2, <2>1 DEF Positions, Matches
  <1>10. Live' => Live
    BY <1>1 DEF Live, Stuck, Prepares, Streaming
  <1>11. Held(B)' /\ Stream(F, B)'
    <2>1. Held(B)'
      BY <1>1, <1>2, <1>10 DEF Held, Prepares
    <2>2. QED
      BY <1>1, <1>10, <2>1, StreamFrame
  <1>12. QED
    BY <1>4, <1>5, <1>6, <1>7, <1>8, <1>9, <1>11

\* A record goes into the open transaction, or is lost to a failed produce
\* (sink/kafka_txn.go Write).
LEMMA GuaranteeWrite ==
    ASSUME DirectoryInv, NEW F, NEW B, Guarantee(F, B), NEW f \in flight, SinkWrite(f)
    PROVE  Guarantee(F, B)'
  <1> USE DEF Guarantee, DirectoryInv
  <1>1. /\ Streaming /\ Streaming' /\ sinkWait = NoId /\ f.after = sinkId /\ ~hard
        /\ flight' = flight \ {f}
        /\ \/ staged' = staged \cup {f.rec} /\ UNCHANGED produceErr
           \/ ~Lossless /\ UNCHANGED staged
        /\ UNCHANGED <<files, latest, latestCompleted, dirs, visible, markers, limbo, group,
                       phase, restored, hard, readPos, aligned, folded, lastId, sinkId,
                       sinkWait, pending, event, worker>>
    BY DEF SinkWrite, storeVars, engineVars, injectorVars, coordVars, Streaming, Lossless
  <1>2. Readable(F)' /\ CommittedFiles(F)' /\ Pointers' /\ Completing(F)'
    BY <1>1, DurableFrame
  <1>3. worker.pc # "idle" => worker.id # NoId
    BY DEF WorkerHasCheckpoint
  <1>4. Committing(F)' /\ Finalizing' /\ Queued(F)'
    <2>1. Committing(F)'
      BY <1>1, <1>3 DEF Committing, Prepares, Below, Settled, IsNewest
    <2>2. Queued(F)'
      BY <1>1 DEF Queued, Below
    <2>3. Finalizing'
      BY <1>1 DEF Finalizing
    <2>4. QED
      BY <2>1, <2>2, <2>3
  <1>5. Settling' /\ Restoring' /\ Queue' /\ Positions'
    BY <1>1 DEF Settling, Restoring, Queue, Positions, Matches, Completes, Settled, IsNewest, Streaming
  <1>6. Live' => Live
    BY <1>1 DEF Live, Stuck, Prepares, Streaming
  <1>7. Held(B)'
    BY <1>1, <1>6 DEF Held, Prepares
  <1>8. Stream(F, B)'
    <2> SUFFICES ASSUME Live' PROVE Stream(F, B)'
      BY DEF Stream
    <2>1. f.rec \in Records /\ f = [rec |-> f.rec, after |-> sinkId]
      BY <1>1 DEF TypeOK, InFlight
    <2>2. \A i : /\ i # sinkId => Flying(i)' = Flying(i)
                 /\ Upper(B, i)' = Upper(B, i)
      BY <1>1, <2>1 DEF Flying, Upper
    <2>3. Flying(sinkId)' = Flying(sinkId) \ {f.rec} /\ f.rec \in Flying(sinkId)
      BY <1>1, <2>1 DEF Flying
    <2>4. Fills((staged \cup Flying(sinkId))', Segment(F, Upper(B, sinkId)))
      <3>1. Fills(staged \cup Flying(sinkId), Segment(F, Upper(B, sinkId)))
        BY <1>6 DEF Stream
      <3>2. CASE staged' = staged \cup {f.rec}
        <4>1. (staged \cup Flying(sinkId))' = staged \cup Flying(sinkId)
          BY <2>3, <3>2
        <4>2. QED
          BY <3>1, <4>1
      <3>3. CASE ~Lossless /\ staged' = staged
        BY <2>3, <3>1, <3>3 DEF Fills
      <3>4. QED
        BY <1>1, <3>2, <3>3
    <2>5. \A g \in flight' : g.after <= lastId
      BY <1>1, <1>6 DEF Stream
    <2>6. \A i \in Ids \cup {NoId} : sinkId <= i /\ i <= lastId =>
             /\ Below(B[i], Upper(B, i))
             /\ i # sinkId => Fills(Flying(i)', Segment(B[i], Upper(B, i)))
      BY <1>6, <2>2 DEF Stream
    <2>7. B[sinkId] = F
      BY <1>6 DEF Stream
    <2>8. QED
      BY <1>1, <2>2, <2>4, <2>5, <2>6, <2>7 DEF Stream, Fills, Segment, Below
  <1>9. QED
    BY <1>2, <1>4, <1>5, <1>7, <1>8

\* A barrier reaches Write: everything ahead of it is in the open transaction
\* (sink/kafka_txn.go Write, coordinator.go OnSinkPrepared).
LEMMA GuaranteePrepare ==
    ASSUME DirectoryInv, NEW F \in Frontiers, NEW B, Guarantee(F, B), SinkPrepare
    PROVE  Guarantee(F, B)'
  <1> USE DEF Guarantee, DirectoryInv
  <1>1. /\ Streaming /\ Streaming' /\ sinkWait = NoId /\ ~hard /\ Delivered
        /\ sinkId + 1 <= lastId /\ pending[sinkId + 1].stage = "tapped"
        /\ sinkWait' = sinkId + 1 /\ event' = sinkId + 1
        /\ UNCHANGED <<files, latest, latestCompleted, dirs, visible, markers, staged, limbo, group,
                       phase, restored, hard, readPos, aligned, folded, lastId, flight, sinkId,
                       produceErr, worker>>
    BY DEF SinkPrepare, NextBarrier, storeVars, kafkaVars, engineVars, injectorVars, Streaming
  <1>2. sinkId \in Nat /\ sinkId + 1 \in Ids /\ sinkId + 1 # NoId /\ lastId \in Nat
    BY <1>1, Numbers, StoreAssumption DEF TypeOK, Ids, NoId
  <1>3. \A i \in Ids : /\ pending'[i].stage = pending[i].stage
                       /\ pending'[i].offsets = pending[i].offsets
                       /\ pending'[i].state = pending[i].state
    BY <1>2 DEF SinkPrepare, NextBarrier, TypeOK, PendingCheckpoint
  <1>4. Lossless => \A i \in Ids : ~pending'[i].sinkErr
    <2> SUFFICES ASSUME Lossless PROVE \A i \in Ids : ~pending'[i].sinkErr
      OBVIOUS
    <2>1. /\ produceErr = FALSE /\ \A i \in Ids : pending[i].sinkErr = FALSE
          /\ "produce" \notin Faults
      BY DEF Finalizing, Lossless, TypeOK, PendingCheckpoint
    <2>2. PICK flushErr \in {FALSE} \cup {x \in {TRUE} : "produce" \in Faults} :
             pending' = [pending EXCEPT ![NextBarrier].sinkErr = produceErr \/ flushErr]
      BY DEF SinkPrepare
    <2>3. flushErr = FALSE
      BY <2>1
    <2>4. (produceErr \/ flushErr) = FALSE
      BY <2>1, <2>3, Zenon
    <2>5. pending' = [pending EXCEPT ![NextBarrier].sinkErr = FALSE]
      BY <2>2, <2>4, Zenon
    <2>6. \A i \in Ids : pending'[i].sinkErr = FALSE
      BY <1>2, <2>1, <2>5 DEF NextBarrier, TypeOK, PendingCheckpoint
    <2>7. QED
      BY <2>6
  <1>5. Live /\ ~Prepares
    <2>1. Live
      BY <1>1 DEF Live, Stuck
    <2>2. QED
      BY <1>1, <2>1 DEF Held, Prepares, WorkerHasCheckpoint
  <1>6. Readable(F)' /\ CommittedFiles(F)' /\ Pointers' /\ Completing(F)'
    BY <1>1, DurableFrame
  <1>7. Committing(F)' /\ Finalizing'
    BY <1>1, <1>4, <1>5 DEF Committing, Finalizing, Prepares
  <1>8. pending[sinkId + 1].state = B[sinkId + 1]
    BY <1>1, <1>2, <1>5 DEF Held
  <1>9. Queued(F)'
    <2>1. \A m \in markers : m < sinkId + 1
      BY <1>2, <1>5, Markers DEF Held
    <2>2. Upper(B, sinkId) = B[sinkId + 1]
      BY <1>1, <1>2 DEF Upper
    <2>3. sinkId \in Ids \cup {NoId} /\ sinkId <= sinkId /\ sinkId <= lastId
      BY <1>1, <1>2 DEF TypeOK
    <2>4. Below(F, pending[sinkId + 1].state)
      BY <1>5, <1>8, <2>2, <2>3 DEF Stream
    <2>5. Flying(sinkId) = {}
      BY <1>1 DEF Flying, Delivered
    <2>6. Fills(staged, Segment(F, pending[sinkId + 1].state))
      BY <1>5, <1>8, <2>2, <2>5 DEF Stream, Fills
    <2>7. QED
      BY <1>1, <1>2, <1>3, <2>1, <2>4, <2>6 DEF Queued, Below, Fills, Segment
  <1>10. Settling'
    BY <1>1, <1>2 DEF Settling, Completes, Settled, IsNewest
  <1>11. Restoring'
    BY <1>1 DEF Restoring, Streaming
  <1>12. Queue'
    BY <1>1, <1>2, <1>3 DEF Queue
  <1>13. Positions'
    BY <1>1, <1>3 DEF Positions, Matches
  <1>14. Held(B)'
    BY <1>1, <1>3, <1>5 DEF Held, Prepares
  <1>15. Stream(F, B)'
    <2>1. Delivered'
      BY <1>1 DEF Delivered
    <2>2. QED
      BY <1>1, <1>5, <2>1 DEF Stream, Upper, Flying, Below, Fills, Segment
  <1>16. QED
    BY <1>6, <1>7, <1>9, <1>10, <1>11, <1>12, <1>13, <1>14, <1>15

\* Write returns on a forced stop and its transaction is aborted
\* (sink/kafka_txn.go Write).
LEMMA GuaranteeUnwind ==
    ASSUME DirectoryInv, NEW F, NEW B, Guarantee(F, B), SinkUnwind
    PROVE  Guarantee(F, B)'
  <1> USE DEF Guarantee, DirectoryInv
  <1>1. /\ hard /\ hard' /\ sinkWait' = NoId /\ staged' = {}
        /\ UNCHANGED <<files, latest, latestCompleted, dirs, visible, markers, limbo, group,
                       phase, restored, readPos, aligned, folded, lastId, flight, sinkId,
                       produceErr, pending, event, worker>>
    BY DEF SinkUnwind, storeVars, engineVars, injectorVars, coordVars
  <1>2. Readable(F)' /\ CommittedFiles(F)' /\ Pointers' /\ Completing(F)'
    BY <1>1, DurableFrame
  <1>3. Committing(F)' /\ Queued(F)' /\ Finalizing'
    BY <1>1 DEF Committing, Queued, Finalizing, Prepares, Below, Settled, IsNewest, WorkerHasCheckpoint
  <1>4. Settling' /\ Restoring' /\ Queue' /\ Positions'
    BY <1>1 DEF Settling, Restoring, Queue, Positions, Matches, Completes, Settled, IsNewest, Streaming
  <1>5. Held(B)' /\ Stream(F, B)'
    BY <1>1 DEF Held, Stream, Live
  <1>6. QED
    BY <1>2, <1>3, <1>4, <1>5

-----------------------------------------------------------------------------
(* The finalize worker.                                                    *)

\* The worker takes the checkpoint of the barrier the sink waits on
\* (coordinator.go finalize).
LEMMA GuaranteeTake ==
    ASSUME DirectoryInv, NEW F, NEW B, Guarantee(F, B), TakeEvent
    PROVE  Guarantee(F, B)'
  <1> USE DEF Guarantee, DirectoryInv
  <1>1. /\ Streaming /\ Streaming' /\ worker.pc = "idle" /\ event # NoId /\ event' = NoId
        /\ UNCHANGED <<files, latest, latestCompleted, dirs, visible, markers, staged, limbo, group,
                       phase, restored, hard, readPos, aligned, folded, lastId, flight, sinkId,
                       sinkWait, produceErr>>
    BY DEF TakeEvent, storeVars, kafkaVars, engineVars, injectorVars, sinkVars, Streaming
  <1>2. event \in Ids /\ pending[event].stage = "tapped" /\ event = sinkId + 1
    BY <1>1 DEF QueueOrder, TypeOK, Queue
  <1>3. /\ pending'[event] = NoPending
        /\ \A i \in Ids : i # event => pending'[i] = pending[i]
    BY <1>2 DEF TakeEvent, TypeOK
  <1>4. /\ worker'.pc = (IF pending[event].sinkErr THEN "abort" ELSE "file")
        /\ worker'.id = event /\ worker'.data.status = "prepared"
        /\ worker'.data.offsets = pending[event].offsets
        /\ worker'.data.state = pending[event].state
    BY DEF TakeEvent
  <1>5. Settled
    BY <1>1 DEF Settling, Completes
  <1>6. ~Completes /\ ~Prepares /\ ~Completes' /\ Prepares'
    BY <1>1, <1>4 DEF Completes, Prepares
  <1>7. Readable(F)' /\ CommittedFiles(F)'
    BY <1>1 DEF Readable, CommittedFiles, Completed, Below, Matches, IsNewest
  <1>8. Pointers'
    BY <1>1, <1>4 DEF Pointers, TornUpdate, IsNewest, Completed
  <1>9. Completing(F)' /\ Queued(F)'
    BY <1>1, <1>6 DEF Completing, Queued
  <1>10. Committing(F)'
    BY <1>1, <1>4, <1>5 DEF Committing, Queued, Below, Fills, Segment, Settled, IsNewest
  <1>11. Finalizing'
    <2>1. event \in dirs
      BY <1>1, <1>2 DEF Queue
    <2>2. Lossless => \A i \in Ids : ~pending'[i].sinkErr
      BY <1>3 DEF Finalizing, NoPending
    <2>3. QED
      BY <1>1, <1>2, <1>4, <2>1, <2>2 DEF Finalizing
  <1>12. Settling' /\ Restoring'
    BY <1>1, <1>5 DEF Settling, Restoring, Settled, IsNewest, Streaming
  <1>13. Queue'
    <2>1. \A i \in Ids : pending'[i].stage # "none" => i # event /\ pending'[i] = pending[i]
      BY <1>3 DEF NoPending
    <2>2. QED
      BY <1>1, <2>1 DEF Queue
  <1>14. Positions'
    <2>1. \A i \in Ids : pending'[i].stage # "none" =>
             /\ pending'[i] = pending[i] /\ pending[i].stage # "none" /\ event < i
      <3>1. \A i \in Ids : pending'[i].stage # "none" =>
               pending'[i] = pending[i] /\ pending[i].stage # "none" /\ i # event
        BY <1>3 DEF NoPending
      <3>2. \A i \in Ids : pending[i].stage # "none" => sinkId < i
        BY <1>1 DEF Queue
      <3>3. QED
        BY <1>2, <3>1, <3>2, Numbers
    <2>2. \A o, s : Matches(o, s)' <=> Matches(o, s)
      BY <1>1 DEF Matches
    <2>3. /\ Matches(worker.data.offsets, worker.data.state)'
          /\ \A p \in Partitions : aligned[p] = NoPos => worker'.data.offsets[p] = NoPos
      BY <1>1, <1>2, <1>4 DEF Positions, Matches
    <2>4. \A i \in Ids : pending'[i].stage # "none" =>
            \A p \in Partitions : pending[i].offsets[p] = NoPos => worker'.data.offsets[p] = NoPos
      BY <1>1, <1>2, <1>4, <2>1 DEF Positions
    <2>5. QED
      BY <1>1, <2>1, <2>3, <2>4 DEF Positions, Matches
  <1>15. Live' => Live /\ sinkWait = event
    BY <1>1 DEF Live, Stuck, Streaming, Queue
  <1>16. Held(B)'
    <2> SUFFICES ASSUME Live' PROVE Held(B)'
      BY DEF Held
    <2>1. \A i \in Ids : sinkId < i /\ i <= lastId => pending[i].stage # "none" /\ pending[i].state = B[i]
      BY <1>6, <1>15 DEF Held
    <2>2. ~(lastId < event)
      BY <1>2 DEF QueueOrder
    <2>3. event \in Nat /\ lastId \in Nat /\ sinkId \in Nat
      BY Numbers
    <2>4. pending[event].state = B[event]
      BY <1>2, <2>1, <2>2, <2>3
    <2>5. \A m \in markers : m <= sinkId
      BY <1>15 DEF Held
    <2>6. QED
      BY <1>1, <1>3, <1>4, <1>6, <1>15, <2>1, <2>4, <2>5 DEF Held
  <1>17. Stream(F, B)'
    BY <1>1, <1>15, StreamFrame
  <1>18. QED
    BY <1>7, <1>8, <1>9, <1>10, <1>11, <1>12, <1>13, <1>14, <1>16, <1>17

\* The worker goes on with its checkpoint: nothing outside the directory changes.
LEMMA WorkerFrame ==
    ASSUME DirectoryInv, NEW F, NEW B, Guarantee(F, B), worker.pc # "idle", worker'.pc # "idle",
           worker'.id = worker.id, worker'.data = worker.data,
           UNCHANGED <<visible, markers, staged, limbo, group, phase, restored, hard, readPos,
                       aligned, folded, lastId, flight, sinkId, sinkWait, produceErr, pending, event>>
    PROVE  /\ Readable(F)' /\ Queued(F)' /\ Positions' /\ Held(B)' /\ Stream(F, B)'
           /\ (Prepares <=> Prepares') /\ (Completes <=> Completes')
           /\ phase \in {"run", "drain", "ended", "promote"}
           /\ dirs' = dirs => Queue'
  <1> USE DEF Guarantee, DirectoryInv
  <1>1. Readable(F)' /\ Queued(F)'
    BY DEF Readable, Queued, Below, Fills, Segment
  <1>2. Positions'
    BY DEF Positions, Matches, Streaming
  <1>3. (Prepares <=> Prepares') /\ (Completes <=> Completes') /\ (Live' => Live)
    BY DEF Live, Stuck, Prepares, Completes, Streaming
  <1>4. Held(B)' /\ Stream(F, B)'
    BY <1>3, StreamFrame DEF Held
  <1>5. phase \in {"run", "drain", "ended", "promote"}
    BY DEF Quiescent, Streaming
  <1>6. dirs' = dirs => Queue'
    BY DEF Queue, Streaming
  <1>7. QED
    BY <1>1, <1>2, <1>3, <1>4, <1>5, <1>6

\* saveLocked writes the checkpoint file, prepared or completed.
LEMMA GuaranteeSaveFile ==
    ASSUME DirectoryInv, NEW F \in Frontiers, NEW B, Guarantee(F, B), SaveFile
    PROVE  Guarantee(F, B)'
  <1> USE DEF Guarantee, DirectoryInv
  <1>1. /\ worker.pc = "file" /\ worker.id \in dirs /\ worker.id \in Ids
        /\ files'[worker.id] = worker.data
        /\ \A i \in Ids : i # worker.id => files'[i] = files[i]
        /\ worker'.pc = "latest" /\ worker'.id = worker.id /\ worker'.data = worker.data
        /\ UNCHANGED <<latest, latestCompleted, dirs, visible, markers, staged, limbo, group,
                       phase, restored, hard, readPos, aligned, folded, lastId, flight, sinkId,
                       sinkWait, produceErr, pending, event>>
    BY DEF SaveFile, WriteCheckpoint, To, TypeOK, StoreTypeOK, Worker, kafkaVars, engineVars,
           injectorVars, sinkVars
  <1>2. /\ Readable(F)' /\ Queued(F)' /\ Positions' /\ Held(B)' /\ Stream(F, B)' /\ Queue'
        /\ (Prepares <=> Prepares') /\ (Completes <=> Completes')
        /\ phase \in {"run", "drain", "ended", "promote"}
    BY <1>1, WorkerFrame
  <1>3. Finalizing'
    BY <1>1 DEF Finalizing
  <1>4. Prepares \/ Completes
    BY <1>1 DEF Preparing, Prepares, Completes, TypeOK, Worker, CheckpointData, Statuses
  <1>m. \A i \in markers : i \in Ids
    BY Markers
  <1>5. CASE Prepares
    <2>1. worker.data.status = "prepared" /\ worker.id \notin markers /\ files[worker.id].status # "completed"
      BY <1>5 DEF Prepares, Preparing
    <2>2. \A i \in markers : files'[i] = files[i]
      BY <1>1, <1>m, <2>1
    <2>3. Completed(files') = Completed(files) /\ \A i \in Completed(files) : files'[i] = files[i]
      BY <1>1, <2>1 DEF Completed
    <2>4. CommittedFiles(F)'
      BY <1>1, <2>2, <2>3 DEF CommittedFiles, Below, Matches, IsNewest
    <2>5. Pointers'
      <3>1. latest # NoId => files'[latest].status # "absent"
        BY <1>1, <2>1 DEF Pointers, TypeOK, StoreTypeOK
      <3>2. QED
        BY <1>1, <2>1, <2>2, <2>3, <3>1 DEF Pointers, TornUpdate, IsNewest
    <2>6. Completing(F)'
      BY <1>1, <2>1 DEF Completing, Completes
    <2>7. Settled'
      BY <1>1, <1>5, <2>2 DEF Committing, Settled, IsNewest
    <2>8. Committing(F)'
      BY <1>1, <1>5, <2>7 DEF Committing, Below, Fills, Segment
    <2>9. Settling' /\ Restoring'
      BY <1>1, <1>2, <2>7 DEF Settling, Restoring, Streaming
    <2>10. QED
      BY <1>2, <1>3, <2>4, <2>5, <2>6, <2>8, <2>9
  <1>6. CASE Completes
    <2>1. /\ worker.data.status = "completed" /\ IsNewest(worker.id, markers) /\ worker.id \in markers
          /\ worker.data.state = F /\ worker.data.offsets = files[worker.id].offsets
          /\ files'[worker.id].status = "completed" /\ files'[worker.id].state = F
          /\ files'[worker.id].offsets = files[worker.id].offsets
      BY <1>1, <1>6, Markers DEF Completing, Completes
    <2>2. \A i \in markers : IsNewest(i, markers) => i = worker.id
      BY <2>1, Markers
    <2>3. Completed(files') = Completed(files) \cup {worker.id}
      BY <1>1, <2>1 DEF Completed
    <2>4. CommittedFiles(F)'
      <3>1. Below(F, F)
        BY Numbers DEF Below, Frontiers
      <3>2. \A i \in Completed(files') : Below(files'[i].state, F)
        BY <1>1, <2>1, <2>3, <3>1 DEF CommittedFiles, Completed
      <3>3. Matches(files'[worker.id].offsets, F)
        BY <2>1 DEF CommittedFiles
      <3>4. QED
        BY <1>1, <2>1, <2>2, <2>3, <3>2, <3>3 DEF CommittedFiles, Below, Matches, IsNewest
    <2>5. Pointers'
      <3>1. latest # NoId => files'[latest].status # "absent"
        BY <1>1, <2>1 DEF Pointers, TypeOK, StoreTypeOK
      <3>2. TornUpdate'
        BY <1>1, <2>1 DEF TornUpdate
      <3>3. QED
        BY <1>1, <2>1, <2>2, <3>1, <3>2 DEF Pointers, IsNewest
    <2>6. Completing(F)' /\ Committing(F)'
      BY <1>1, <2>1 DEF Completing, Committing, Completes, Prepares, IsNewest
    <2>7. Settling' /\ Restoring'
      BY <1>1, <1>2, <1>6 DEF Settling, Restoring, Streaming
    <2>8. QED
      BY <1>2, <1>3, <2>4, <2>5, <2>6, <2>7
  <1>7. QED
    BY <1>4, <1>5, <1>6

\* saveLocked moves the two pointers.
LEMMA GuaranteeSavePointers ==
    ASSUME DirectoryInv, NEW F \in Frontiers, NEW B, Guarantee(F, B),
           SaveLatest \/ SaveLatestCompleted
    PROVE  Guarantee(F, B)'
  <1> USE DEF Guarantee, DirectoryInv
  <1>1. /\ worker.pc \in {"latest", "latestDone"} /\ worker'.pc \in {"latestDone", "retain"}
        /\ worker'.id = worker.id /\ worker'.data = worker.data
        /\ UNCHANGED <<files, dirs, visible, markers, staged, limbo, group,
                       phase, restored, hard, readPos, aligned, folded, lastId, flight, sinkId,
                       sinkWait, produceErr, pending, event>>
        /\ \/ /\ worker.pc = "latest" /\ latest' = worker.id /\ UNCHANGED latestCompleted
              /\ worker'.pc = (IF worker.data.status = "completed" THEN "latestDone" ELSE "retain")
           \/ /\ worker.pc = "latestDone" /\ latestCompleted' = worker.id /\ UNCHANGED latest
              /\ worker'.pc = "retain"
    BY DEF SaveLatest, SaveLatestCompleted, WriteLatest, WriteLatestCompleted, To, TypeOK,
           StoreTypeOK, Worker, kafkaVars, engineVars, injectorVars, sinkVars
  <1>2. /\ Readable(F)' /\ Queued(F)' /\ Positions' /\ Held(B)' /\ Stream(F, B)' /\ Queue'
        /\ (Prepares <=> Prepares') /\ (Completes <=> Completes')
        /\ phase \in {"run", "drain", "ended", "promote"}
    BY <1>1, WorkerFrame
  <1>3. Finalizing' /\ CommittedFiles(F)'
    BY <1>1 DEF Finalizing, CommittedFiles, Completed, Below, Matches, IsNewest
  <1>4. Prepares \/ Completes
    BY <1>1 DEF Preparing, Prepares, Completes, TypeOK, Worker, CheckpointData, Statuses
  <1>5. worker.id \in Ids /\ worker.id # NoId
    BY <1>1 DEF WorkerHasCheckpoint, TypeOK, Worker
  <1>6. CASE Prepares
    <2>1. /\ worker.data.status = "prepared" /\ worker.id \notin markers
          /\ worker.pc = "latest" /\ worker'.pc = "retain" /\ latest' = worker.id
          /\ UNCHANGED latestCompleted
          /\ files[worker.id] = worker.data
      BY <1>1, <1>6 DEF Prepares, Preparing, Finalizing, Committing
    <2>2. Settled /\ Settled'
      BY <1>1, <1>6 DEF Committing, Settled, IsNewest
    <2>3. Pointers'
      BY <1>1, <1>5, <2>1, <2>2 DEF Pointers, TornUpdate, IsNewest, Completed, Settled
    <2>4. Completing(F)'
      BY <1>1, <2>1 DEF Completing, Completes
    <2>5. Committing(F)'
      BY <1>1, <1>6, <2>1, <2>2 DEF Committing, Below, Fills, Segment
    <2>6. Settling' /\ Restoring'
      BY <1>1, <1>2, <2>2 DEF Settling, Restoring, Streaming
    <2>7. QED
      BY <1>2, <1>3, <2>3, <2>4, <2>5, <2>6
  <1>7. CASE Completes
    <2>1. /\ worker.data.status = "completed" /\ IsNewest(worker.id, markers) /\ worker.id \in markers
          /\ files[worker.id].status = "completed"
      BY <1>1, <1>7, Markers DEF Completing, Completes
    <2>2. \A i \in markers : IsNewest(i, markers) => i = worker.id
      BY <2>1, Markers
    <2>3. Pointers'
      <3>1. CASE worker.pc = "latest" /\ latest' = worker.id /\ worker'.pc = "latestDone"
        <4>1. TornUpdate'
          BY <1>1, <2>1, <3>1 DEF TornUpdate
        <4>2. QED
          BY <1>1, <1>5, <2>1, <2>2, <3>1, <4>1 DEF Pointers, IsNewest
      <3>2. CASE latestCompleted' = worker.id /\ UNCHANGED latest
        BY <1>1, <2>1, <2>2, <3>2 DEF Pointers, IsNewest
      <3>3. QED
        BY <1>1, <2>1, <3>1, <3>2
    <2>4. Completing(F)' /\ Committing(F)'
      BY <1>1, <1>7, <2>1 DEF Completing, Committing, Completes, Prepares, IsNewest
    <2>5. Settling' /\ Restoring'
      BY <1>1, <1>2, <1>7 DEF Settling, Restoring, Streaming
    <2>6. QED
      BY <1>2, <1>3, <2>3, <2>4, <2>5
  <1>8. QED
    BY <1>4, <1>6, <1>7

\* Retention removes an old checkpoint, never the newest committed one and never
\* the one in the worker's hands (checkpoint.go enforceRetentionLocked).
LEMMA GuaranteeRetainFile ==
    ASSUME DirectoryInv, NEW F \in Frontiers, NEW B, Guarantee(F, B), RetainFile
    PROVE  Guarantee(F, B)'
  <1> USE DEF Guarantee, DirectoryInv
  <1>1. PICK v \in Victims(files) :
          RemoveCheckpoint(v) /\ worker' = [worker EXCEPT !.pc = "retainDir", !.victim = v]
    BY DEF RetainFile
  <1>2. v \in Ids /\ v \in Completed(files) /\ v \in markers
    BY DEF Victims, Completed, CommittedFiles
  <1>3. /\ worker.pc = "retain" /\ worker'.pc = "retainDir" /\ worker'.victim = v
        /\ worker'.id = worker.id /\ worker'.data = worker.data
        /\ files'[v] = Absent
        /\ \A i \in Ids : i # v => files'[i] = files[i]
        /\ UNCHANGED <<latest, latestCompleted, dirs, visible, markers, staged, limbo, group,
                       phase, restored, hard, readPos, aligned, folded, lastId, flight, sinkId,
                       sinkWait, produceErr, pending, event>>
    BY <1>1, <1>2 DEF RetainFile, RemoveCheckpoint, TypeOK, StoreTypeOK, Worker, kafkaVars,
                      engineVars, injectorVars, sinkVars
  <1>4. /\ Readable(F)' /\ Queued(F)' /\ Positions' /\ Held(B)' /\ Stream(F, B)' /\ Queue'
        /\ (Prepares <=> Prepares') /\ (Completes <=> Completes')
        /\ phase \in {"run", "drain", "ended", "promote"}
    BY <1>3, WorkerFrame
  <1>5. ~IsNewest(v, markers)
    <2>1. TypeOK /\ CommittedFiles(F)
      OBVIOUS
    <2>2. files[v].status = "completed"
      BY <1>2 DEF Completed
    <2>3. QED
      BY <1>1, <1>2, <2>1, <2>2, NewestCommitted
  <1>6. \A i \in markers : IsNewest(i, markers) => files'[i] = files[i]
    BY <1>3, <1>5, Markers
  <1>7. Completed(files') = Completed(files) \ {v} /\ \A i \in Completed(files') : files'[i] = files[i]
    BY <1>2, <1>3 DEF Completed, Absent
  <1>8. CommittedFiles(F)'
    BY <1>3, <1>6, <1>7 DEF CommittedFiles, Below, Matches, IsNewest
  <1>9. Pointers'
    <2>1. latest # NoId => latest \in Ids /\ latest # v
      BY <1>2, <1>5 DEF Pointers, TypeOK, StoreTypeOK
    <2>2. QED
      BY <1>3, <1>6, <1>7, <2>1 DEF Pointers, TornUpdate, IsNewest
  <1>10. worker.id \in Ids /\ worker.id # v /\ files'[worker.id] = files[worker.id]
    <2>1. worker.id \in Ids
      BY <1>3 DEF WorkerHasCheckpoint, TypeOK, Worker
    <2>2. worker.id # v
      <3>1. Prepares => worker.id \notin markers
        BY DEF Prepares, Preparing
      <3>2. Completes => IsNewest(worker.id, markers)
        BY DEF Completing
      <3>3. Prepares \/ Completes
        BY <1>3 DEF Preparing, Prepares, Completes, TypeOK, Worker, CheckpointData, Statuses
      <3>4. QED
        BY <1>2, <1>5, <3>1, <3>2, <3>3
    <2>3. QED
      BY <1>3, <2>1, <2>2
  <1>11. Settled => Settled'
    BY <1>3, <1>6 DEF Settled, IsNewest
  <1>12. Completing(F)'
    BY <1>3, <1>4, <1>10 DEF Completing, IsNewest
  <1>13. Committing(F)'
    BY <1>3, <1>4, <1>10, <1>11 DEF Committing, Below, Fills, Segment
  <1>14. Settling'
    BY <1>3, <1>4, <1>11 DEF Settling, Streaming
  <1>15. Finalizing' /\ Restoring'
    BY <1>2, <1>3, <1>4 DEF Finalizing, Restoring, Streaming
  <1>16. QED
    BY <1>4, <1>8, <1>9, <1>12, <1>13, <1>14, <1>15

\* Retention removes the state directory of the checkpoint it dropped.
LEMMA GuaranteeRetainDir ==
    ASSUME DirectoryInv, NEW F \in Frontiers, NEW B, Guarantee(F, B), RetainDir
    PROVE  Guarantee(F, B)'
  <1> USE DEF Guarantee, DirectoryInv
  <1>1. /\ worker.pc = "retainDir" /\ worker'.pc = "retain"
        /\ worker'.id = worker.id /\ worker'.data = worker.data
        /\ dirs' = dirs \ {worker.victim}
        /\ UNCHANGED <<files, latest, latestCompleted, visible, markers, staged, limbo, group,
                       phase, restored, hard, readPos, aligned, folded, lastId, flight, sinkId,
                       sinkWait, produceErr, pending, event>>
    BY DEF RetainDir, DeleteStateDirs, TypeOK, Worker, kafkaVars, engineVars, injectorVars, sinkVars
  <1>2. /\ Readable(F)' /\ Queued(F)' /\ Positions' /\ Held(B)' /\ Stream(F, B)'
        /\ (Prepares <=> Prepares') /\ (Completes <=> Completes')
        /\ phase \in {"run", "drain", "ended", "promote"}
    BY <1>1, WorkerFrame
  <1>3. CommittedFiles(F)' /\ Pointers'
    BY <1>1 DEF CommittedFiles, Pointers, TornUpdate, Completed, Below, Matches, IsNewest
  <1>4. Queue'
    <2>1. worker.victim \in markers
      BY <1>1 DEF Finalizing
    <2>2. \A i \in Ids : pending[i].stage = "tapped" => i # worker.victim
      BY <2>1 DEF FreshIds
    <2>3. QED
      BY <1>1, <2>2 DEF Queue, Streaming
  <1>5. Settled <=> Settled'
    BY <1>1 DEF Settled, IsNewest
  <1>6. Completing(F)' /\ Committing(F)'
    BY <1>1, <1>2, <1>5 DEF Completing, Committing, IsNewest, Below, Fills, Segment
  <1>7. Settling' /\ Finalizing' /\ Restoring'
    BY <1>1, <1>2, <1>5 DEF Settling, Finalizing, Restoring, Streaming
  <1>8. QED
    BY <1>2, <1>3, <1>4, <1>6, <1>7

\* Save or UpdateStatus is done: on to the commit, to the offsets or, in recovery,
\* to the restore.
LEMMA GuaranteeSaveDone ==
    ASSUME DirectoryInv, NEW F \in Frontiers, NEW B, Guarantee(F, B), SaveDone
    PROVE  Guarantee(F, B)'
  <1> USE DEF Guarantee, DirectoryInv
  <1>1. /\ worker.pc = "retain"
        /\ UNCHANGED <<files, latest, latestCompleted, dirs, visible, markers, staged, limbo, group,
                       restored, hard, readPos, aligned, folded, lastId, flight, sinkId,
                       sinkWait, produceErr, pending, event>>
    BY DEF SaveDone, storeVars, kafkaVars, injectorVars, sinkVars
  <1>2. Prepares \/ Completes
    BY <1>1 DEF Preparing, Prepares, Completes, TypeOK, Worker, CheckpointData, Statuses
  <1>3. CASE phase = "promote"
    <2>1. phase' = "restore" /\ worker'.pc = "idle" /\ ~Streaming /\ ~Streaming'
      BY <1>3 DEF SaveDone, IdleWorker, Streaming
    <2>2. /\ Completes /\ restored = worker.id /\ IsNewest(worker.id, markers)
          /\ worker.id \in markers /\ files[worker.id].status = "completed"
      BY <1>1, <1>3, Markers DEF Restoring, Completing
    <2>3. Settled'
      <3>1. \A i \in markers : IsNewest(i, markers) => i = worker.id
        BY <2>2, Markers
      <3>2. QED
        BY <1>1, <2>2, <3>1 DEF Settled, IsNewest
    <2>4. Readable(F)' /\ CommittedFiles(F)'
      BY <1>1 DEF Readable, CommittedFiles, Completed, Below, Matches, IsNewest
    <2>5. Pointers'
      BY <1>1, <1>3, <2>1 DEF Pointers, TornUpdate, IsNewest, Completed
    <2>6. Completing(F)' /\ Committing(F)' /\ Queued(F)' /\ Finalizing'
      BY <1>1, <2>1 DEF Completing, Committing, Queued, Finalizing, Completes, Prepares,
                        Quiescent, Below, Fills, Segment
    <2>7. Settling' /\ Queue' /\ Positions' /\ Held(B)' /\ Stream(F, B)'
      BY <2>1 DEF Settling, Queue, Positions, Held, Stream, Live
    <2>8. Restoring'
      BY <1>1, <2>1, <2>2, <2>3 DEF Restoring, IsNewest
    <2>9. QED
      BY <2>4, <2>5, <2>6, <2>7, <2>8
  <1>4. CASE phase # "promote"
    <2>1. /\ phase' = phase /\ worker'.pc = (IF worker.data.status = "completed" THEN "offsets" ELSE "commit")
          /\ worker'.id = worker.id /\ worker'.data = worker.data /\ worker'.pc # "idle"
      BY <1>4 DEF SaveDone, To, AfterSave, TypeOK, Worker
    <2>2. /\ Readable(F)' /\ Queued(F)' /\ Positions' /\ Held(B)' /\ Stream(F, B)' /\ Queue'
          /\ (Prepares <=> Prepares') /\ (Completes <=> Completes')
          /\ phase \in {"run", "drain", "ended", "promote"}
      BY <1>1, <2>1, WorkerFrame
    <2>3. CommittedFiles(F)' /\ Pointers'
      BY <1>1, <2>1 DEF CommittedFiles, Pointers, TornUpdate, Completed, Below, Matches, IsNewest
    <2>4. Settled <=> Settled'
      BY <1>1 DEF Settled, IsNewest
    <2>5. Completing(F)' /\ Committing(F)'
      BY <1>1, <2>1, <2>2, <2>4 DEF Completing, Committing, IsNewest, Below, Fills, Segment
    <2>6. Settling' /\ Finalizing' /\ Restoring'
      BY <1>1, <1>4, <2>1, <2>2, <2>4 DEF Settling, Finalizing, Restoring, Streaming
    <2>7. QED
      BY <2>2, <2>3, <2>5, <2>6
  <1>5. QED
    BY <1>3, <1>4

\* Only the Save of a prepared checkpoint can fail here, and it leads to an abort
\* (coordinator.go finalize).
LEMMA GuaranteeSaveFails ==
    ASSUME DirectoryInv, Tolerated, NEW F \in Frontiers, NEW B, Guarantee(F, B), SaveFails
    PROVE  Guarantee(F, B)'
  <1> USE DEF Guarantee, DirectoryInv
  <1>1. worker.pc \in {"file", "latest", "latestDone", "retain", "retainDir"} /\ worker.pc # "idle"
    BY DEF SaveFails
  <1>2. worker.data.status = "prepared" /\ "save" \in Faults
    <2>1. ~(worker.pc = "file" /\ worker.id \notin dirs)
      BY DEF Finalizing
    <2>2. "update" \notin Faults
      BY DEF Tolerated
    <2>3. QED
      BY <2>1, <2>2 DEF SaveFails
  <1>3. phase # "promote" /\ ~Lossless
    BY <1>2 DEF Restoring, Completes, Lossless
  <1>4. /\ worker'.pc = "abort" /\ worker'.id = worker.id /\ worker'.data = worker.data
        /\ UNCHANGED <<files, latest, latestCompleted, dirs, visible, markers, staged, limbo, group,
                       phase, restored, hard, readPos, aligned, folded, lastId, flight, sinkId,
                       sinkWait, produceErr, pending, event>>
    BY <1>2, <1>3 DEF SaveFails, To, TypeOK, Worker, storeVars, kafkaVars, engineVars,
                      injectorVars, sinkVars
  <1>5. /\ Readable(F)' /\ Queued(F)' /\ Positions' /\ Held(B)' /\ Stream(F, B)' /\ Queue'
        /\ (Prepares <=> Prepares') /\ (Completes <=> Completes')
        /\ phase \in {"run", "drain", "ended", "promote"}
    BY <1>1, <1>4, WorkerFrame
  <1>6. CommittedFiles(F)' /\ Pointers'
    BY <1>2, <1>4 DEF CommittedFiles, Pointers, TornUpdate, Completed, Below, Matches, IsNewest
  <1>7. Settled <=> Settled'
    BY <1>4 DEF Settled, IsNewest
  <1>8. Completing(F)' /\ Committing(F)'
    BY <1>2, <1>4, <1>5, <1>7 DEF Completing, Committing, Completes, IsNewest, Below, Fills, Segment
  <1>9. Settling' /\ Finalizing' /\ Restoring'
    <2>1. Settling'
      BY <1>1, <1>4, <1>5, <1>7 DEF Settling, Streaming
    <2>2. Finalizing'
      BY <1>3, <1>4 DEF Finalizing
    <2>3. Restoring'
      BY <1>3, <1>4, <1>5 DEF Restoring, Streaming
    <2>4. QED
      BY <2>1, <2>2, <2>3
  <1>10. QED
    BY <1>5, <1>6, <1>8, <1>9

-----------------------------------------------------------------------------
(* Commit, abort and the advisory offsets.                                 *)

\* The commit makes exactly the segment up to the worker's state readable, and the
\* worker's checkpoint the newest committed one (sink/kafka_txn.go Commit).
LEMMA CommitAdvances ==
    ASSUME DirectoryInv, NEW F \in Frontiers, NEW B, Guarantee(F, B),
           worker.pc = "commit", sinkWait = worker.id, EndTransactionCommit,
           UNCHANGED <<storeVars, limbo, group, phase>>, worker'.data.status # "prepared" \/ worker'.pc = "idle",
           NEW G, G = worker.data.state
    PROVE  /\ G \in Frontiers /\ Below(F, G)
           /\ Readable(G)' /\ CommittedFiles(G)' /\ Pointers'
           /\ IsNewest(worker.id, markers') /\ Streaming /\ Prepares
           /\ files[worker.id] = worker.data /\ worker.id \in Ids /\ worker.id \in dirs
           /\ \A i \in markers' : i <= worker.id
  <1> USE DEF Guarantee, DirectoryInv, storeVars
  <1>1. /\ Prepares /\ Streaming /\ worker.id \notin markers /\ worker.id \in dirs
        /\ worker.id \in Ids /\ worker.id \in Nat /\ worker.id # NoId
    BY Numbers DEF Preparing, Prepares, WorkerHasCheckpoint, TypeOK, Worker
  <1>2. /\ \A m \in markers : m < worker.id
        /\ files[worker.id] = worker.data /\ latest = worker.id
        /\ Below(F, G) /\ Fills(staged, Segment(F, G))
        /\ files[worker.id].status = "prepared"
    BY <1>1 DEF Committing, Prepares
  <1>3. Matches(worker.data.offsets, G)
    BY <1>1 DEF Positions
  <1>4. G \in Frontiers
    <2>1. G \in [Partitions -> Nat] /\ worker.data.offsets \in [Partitions -> Pos \cup {NoPos}]
      BY DEF TypeOK, Worker, CheckpointData
    <2>2. \A p \in Partitions : G[p] \in Pos
      <3> SUFFICES ASSUME NEW p \in Partitions PROVE G[p] \in Pos
        OBVIOUS
      <3>1. CASE worker.data.offsets[p] = G[p]
        BY <2>1, <3>1, Numbers DEF NoPos
      <3>2. CASE group[p] = G[p]
        BY <3>2 DEF TypeOK
      <3>3. QED
        BY <1>3, <3>1, <3>2 DEF Matches
    <2>3. QED
      BY <2>1, <2>2 DEF Frontiers
  <1>5. /\ \A r \in Records : visible'[r] = visible[r] + (IF r \in staged THEN 1 ELSE 0)
        /\ markers' = markers \cup {worker.id} /\ staged' = {}
    BY DEF EndTransactionCommit, Publish
  <1>6. \A p \in Partitions : F[p] \in Nat /\ G[p] \in Nat /\ F[p] <= G[p] /\ group[p] \in Nat /\ group[p] <= F[p]
    BY <1>2, <1>4, Numbers DEF Frontiers, Below, TypeOK, Readable
  <1>7. \A r \in Records : r[1] \in Partitions /\ r[2] \in Nat /\ visible[r] \in Nat
    BY StoreAssumption DEF Records, Offsets, TypeOK
  <1>8. Readable(G)'
    <2>1. ASSUME NEW r \in Records
          PROVE  /\ visible'[r] <= (IF r[2] < G[r[1]] THEN 1 ELSE 0)
                 /\ Lossless => visible'[r] = (IF r[2] < G[r[1]] THEN 1 ELSE 0)
      <3>1. /\ visible[r] <= (IF r[2] < F[r[1]] THEN 1 ELSE 0)
            /\ Lossless => visible[r] = (IF r[2] < F[r[1]] THEN 1 ELSE 0)
        BY DEF Readable
      <3>2. r \in Segment(F, G) <=> F[r[1]] <= r[2] /\ r[2] < G[r[1]]
        BY DEF Segment
      <3>3. /\ r \in staged => r \in Segment(F, G)
            /\ Lossless /\ r \in Segment(F, G) => r \in staged
        BY <1>2 DEF Fills
      <3>4. CASE r \in staged
        BY <1>5, <1>6, <1>7, <3>1, <3>2, <3>3, <3>4
      <3>5. CASE r \notin staged
        BY <1>5, <1>6, <1>7, <3>1, <3>2, <3>3, <3>5
      <3>6. QED
        BY <3>4, <3>5
    <2>2. \A p \in Partitions : group'[p] <= G[p]
      BY <1>6
    <2>3. markers' # {} /\ limbo'.id = NoId
      BY <1>5 DEF Readable
    <2>4. QED
      BY <2>1, <2>2, <2>3 DEF Readable, Below
  <1>9. /\ IsNewest(worker.id, markers')
        /\ \A i \in markers' : i <= worker.id
        /\ \A i \in markers' : IsNewest(i, markers') => i = worker.id
    <2>1. \A i \in markers' : i \in Nat /\ i <= worker.id
      BY <1>1, <1>2, <1>5, Markers
    <2>2. QED
      BY <1>1, <1>5, <2>1 DEF IsNewest
  <1>10. CommittedFiles(G)'
    <2>1. \A i \in Completed(files) : Below(files[i].state, G)
      <3>1. \A i \in Completed(files) : files[i].state \in [Partitions -> Nat] /\ Below(files[i].state, F)
        BY DEF CommittedFiles, Completed, TypeOK, StoreTypeOK, CheckpointData
      <3>2. QED
        BY <1>6, <3>1 DEF Below
    <2>2. \A o : Matches(o, G) => Matches(o, G)'
      BY DEF Matches
    <2>3. files[worker.id].state = G /\ files[worker.id].status # "absent"
      BY <1>2
    <2>4. Completed(files) \subseteq markers'
      BY <1>5 DEF CommittedFiles
    <2>5. \A i \in markers' : IsNewest(i, markers') => Matches(files[i].offsets, G)'
      BY <1>2, <1>3, <1>9, <2>2
    <2>6. QED
      BY <1>5, <1>9, <2>1, <2>3, <2>4, <2>5 DEF CommittedFiles, Completed, Below
  <1>11. Pointers'
    BY <1>1, <1>2, <1>5, <1>9 DEF Pointers
  <1>12. QED
    BY <1>1, <1>2, <1>4, <1>8, <1>9, <1>10, <1>11

\* CommitSink: the sink goes on behind the committed barrier.
LEMMA GuaranteeCommit ==
    ASSUME DirectoryInv, NEW F \in Frontiers, NEW B, Guarantee(F, B), CommitSink,
           NEW G, G = worker.data.state
    PROVE  G \in Frontiers /\ Below(F, G) /\ Guarantee(G, B)'
  <1> USE DEF Guarantee, DirectoryInv
  <1>1. /\ worker.pc = "commit" /\ sinkWait = worker.id /\ ~hard /\ EndTransactionCommit
        /\ staged' = {} /\ sinkWait' = NoId /\ sinkId' = worker.id /\ produceErr' = FALSE
        /\ worker'.pc = "file" /\ worker'.id = worker.id /\ worker'.data.status = "completed"
        /\ worker'.data.state = worker.data.state /\ worker'.data.offsets = worker.data.offsets
        /\ UNCHANGED <<files, latest, latestCompleted, dirs, limbo, group, phase, restored, hard,
                       readPos, aligned, folded, lastId, flight, pending, event>>
    BY DEF CommitSink, Signal, EndTransactionCommit, TypeOK, Worker, CheckpointData, storeVars,
           engineVars, injectorVars
  <1>2. /\ G \in Frontiers /\ Below(F, G)
        /\ Readable(G)' /\ CommittedFiles(G)' /\ Pointers'
        /\ IsNewest(worker.id, markers') /\ Streaming /\ Prepares
        /\ files[worker.id] = worker.data /\ worker.id \in Ids /\ worker.id \in dirs
        /\ \A i \in markers' : i <= worker.id
    BY <1>1, CommitAdvances DEF storeVars
  <1>3. Streaming' /\ Completes' /\ ~Prepares'
    BY <1>1, <1>2 DEF Streaming, Completes, Prepares
  <1>4. /\ event = NoId /\ worker.id = sinkId + 1 /\ worker.id <= lastId
        /\ pending[worker.id].stage = "none" /\ worker.id \in Nat /\ sinkId \in Nat /\ lastId \in Nat
    BY <1>1, <1>2, Numbers DEF Committing, Queue, QueueOrder, WorkerHasCheckpoint
  <1>5. Completing(G)' /\ Committing(G)' /\ Queued(G)' /\ Finalizing'
    BY <1>1, <1>2, <1>3, <1>4 DEF Completing, Committing, Queued, Finalizing
  <1>6. Settling' /\ Restoring'
    BY <1>1, <1>2, <1>3 DEF Settling, Restoring, Streaming
  <1>7. Queue'
    <2>1. \A i \in Ids : pending[i].stage # "none" => worker.id < i
      BY <1>2, <1>4, Numbers DEF Queue
    <2>2. QED
      BY <1>1, <1>2, <1>4, <2>1 DEF Queue
  <1>8. Positions'
    BY <1>1, <1>2, <1>3 DEF Positions, Matches
  <1>9. Live
    BY <1>1, <1>2 DEF Live, Stuck
  <1>10. Held(B)'
    <2>1. \A i \in Ids : worker.id < i /\ i <= lastId => pending[i].stage # "none" /\ pending[i].state = B[i]
      BY <1>4, <1>9, Numbers DEF Held
    <2>2. QED
      BY <1>1, <1>2, <1>3, <2>1 DEF Held
  <1>11. Stream(G, B)'
    <2>1. B[worker.id] = G
      BY <1>2, <1>4, <1>9 DEF Held
    <2>2. \A i \in Ids \cup {NoId} : worker.id <= i => sinkId <= i /\ i # sinkId
      BY <1>4, Numbers
    <2>3. \A i : Upper(B, i)' = Upper(B, i) /\ Flying(i)' = Flying(i)
      BY <1>1 DEF Upper, Flying
    <2>4. \A i \in Ids \cup {NoId} : worker.id <= i /\ i <= lastId =>
            Below(B[i], Upper(B, i)) /\ Fills(Flying(i), Segment(B[i], Upper(B, i)))
      BY <1>9, <2>2 DEF Stream
    <2>5. worker.id <= worker.id
      BY <1>4
    <2>6. Fills({} \cup Flying(worker.id), Segment(G, Upper(B, worker.id)))
      BY <1>2, <1>4, <2>1, <2>4, <2>5 DEF Fills
    <2>7. \A f \in flight : f.after <= lastId
      BY <1>9 DEF Stream
    <2>8. Flying(sinkId)' = Flying(worker.id) /\ Upper(B, sinkId)' = Upper(B, worker.id)
      BY <1>1 DEF Flying, Upper
    <2>9. QED
      BY <1>1, <2>1, <2>3, <2>4, <2>6, <2>7, <2>8 DEF Stream, Below, Fills, Segment
  <1>12. QED
    BY <1>2, <1>5, <1>6, <1>7, <1>8, <1>10, <1>11

\* A failed commit or abort that leaves Write waiting, or a forced stop: nothing
\* moves past the sink any more.
LEMMA NothingMoves ==
    ASSUME DirectoryInv, NEW F, NEW B, Guarantee(F, B), Prepares,
           worker'.pc = "idle", UNCHANGED <<phase, hard, sinkWait, event>>
    PROVE  ~Live' /\ Held(B)' /\ \A G : Stream(G, B)'
  <1> USE DEF Guarantee, DirectoryInv
  <1>1. ~Prepares' /\ event = NoId /\ worker.id # NoId
    BY DEF Prepares, Committing, WorkerHasCheckpoint
  <1>2. ~Live'
    BY <1>1 DEF Live, Stuck, Streaming, Held
  <1>3. QED
    BY <1>2 DEF Held, Stream

\* The outcome of the commit is unknown to the worker.
LEMMA GuaranteeCommitFails ==
    ASSUME DirectoryInv, NEW F \in Frontiers, NEW B, Guarantee(F, B), CommitFails,
           NEW G, G = worker.data.state
    PROVE  \/ Guarantee(F, B)' /\ UNCHANGED visible
           \/ G \in Frontiers /\ Below(F, G) /\ Guarantee(G, B)'
  <1> USE DEF Guarantee, DirectoryInv
  <1>1. /\ worker.pc = "commit" /\ worker'.pc = "idle"
        /\ UNCHANGED <<files, latest, latestCompleted, dirs, limbo, group, phase, restored, hard,
                       readPos, aligned, folded, lastId, flight, sinkId, sinkWait, produceErr,
                       pending, event>>
    BY DEF CommitFails, IdleWorker, storeVars, injectorVars, sinkVars
  <1>2. /\ Prepares /\ Streaming /\ Streaming' /\ ~Prepares' /\ ~Completes' /\ ~Completes
        /\ worker.id # NoId /\ event = NoId
    BY <1>1 DEF Preparing, Prepares, Completes, Streaming, WorkerHasCheckpoint, Committing
  <1>3. Held(B)' /\ \A H : Stream(H, B)'
    BY <1>1, <1>2, NothingMoves
  <1>4. Queue' /\ Restoring'
    BY <1>1, <1>2 DEF Queue, Restoring, Streaming
  <1>5. Positions'
    BY <1>1, <1>2 DEF Positions, Matches
  <1>6. \A H : Completing(H)' /\ Committing(H)' /\ Queued(H)'
    BY <1>1, <1>2 DEF Completing, Committing, Queued
  <1>7. Finalizing'
    BY <1>1 DEF Finalizing
  <1>8. CASE UNCHANGED <<visible, markers, staged>>
    <2>1. Readable(F)' /\ CommittedFiles(F)'
      BY <1>1, <1>8 DEF Readable, CommittedFiles, Completed, Below, Matches, IsNewest
    <2>2. Pointers'
      BY <1>1, <1>2, <1>8 DEF Pointers, TornUpdate, IsNewest, Completed, Prepares
    <2>3. Settling'
      BY <1>1, <1>2, <1>8 DEF Settling, Committing, Settled, IsNewest
    <2>4. QED
      BY <1>3, <1>4, <1>5, <1>6, <1>7, <1>8, <2>1, <2>2, <2>3
  <1>9. CASE sinkWait = worker.id /\ EndTransactionCommit
    <2>1. G \in Frontiers /\ Below(F, G) /\ Readable(G)' /\ CommittedFiles(G)' /\ Pointers'
      BY <1>1, <1>9, CommitAdvances DEF storeVars
    <2>2. Settling'
      BY <1>1, <1>2, <1>9 DEF Settling
    <2>3. QED
      BY <1>3, <1>4, <1>5, <1>6, <1>7, <2>1, <2>2
  <1>10. QED
    BY <1>8, <1>9 DEF CommitFails

\* abortFatal drops the transaction; the segment behind the aborted barrier now
\* starts at the frontier, and the records in between are lost (coordinator.go
\* abortFatal).
LEMMA GuaranteeAbort ==
    ASSUME DirectoryInv, NEW F \in Frontiers, NEW B \in [Ids \cup {NoId} -> Frontiers],
           Guarantee(F, B), AbortFatal, NEW C, C = [B EXCEPT ![worker.id] = F]
    PROVE  Guarantee(F, B)' \/ Guarantee(F, C)'
  <1> USE DEF Guarantee, DirectoryInv
  <1>1. /\ worker.pc = "abort" /\ worker'.pc = "idle" /\ dirs' = dirs \ {worker.id}
        /\ UNCHANGED <<files, latest, latestCompleted, visible, markers, limbo, group, phase,
                       restored, hard, readPos, aligned, folded, lastId, flight, pending, event>>
    BY DEF AbortFatal, IdleWorker, DeleteStateDirs, injectorVars
  <1>2. /\ Prepares /\ Streaming /\ Streaming' /\ ~Prepares' /\ ~Completes' /\ ~Completes
        /\ worker.id \in Ids /\ worker.id # NoId /\ event = NoId /\ ~Lossless /\ Settled
        /\ pending[worker.id].stage = "none" /\ worker.id <= lastId
    BY <1>1, Numbers DEF Preparing, Prepares, Completes, Streaming, WorkerHasCheckpoint, Committing,
                Finalizing, QueueOrder, TypeOK, Worker
  <1>3. /\ worker.id \in Nat /\ sinkId \in Nat /\ lastId \in Nat
        /\ \A i \in Ids : i \in Nat /\ i > 0
        /\ NoId = 0
    BY <1>2, Numbers
  <1>4. Readable(F)' /\ CommittedFiles(F)'
    BY <1>1 DEF Readable, CommittedFiles, Completed, Below, Matches, IsNewest
  <1>5. Pointers'
    BY <1>1, <1>2 DEF Pointers, TornUpdate, IsNewest, Completed, Prepares
  <1>6. Completing(F)' /\ Committing(F)' /\ Queued(F)' /\ Finalizing'
    BY <1>1, <1>2 DEF Completing, Committing, Queued, Finalizing
  <1>7. Settling' /\ Restoring'
    BY <1>1, <1>2 DEF Settling, Restoring, Settled, IsNewest, Streaming
  <1>8. Positions'
    BY <1>1, <1>2 DEF Positions, Matches
  <1>9. \A i \in Ids : pending[i].stage # "none" => i # worker.id
    BY <1>2
  <1>10. CASE UNCHANGED <<staged, sinkId, sinkWait, produceErr>>
    <2>1. Queue'
      BY <1>1, <1>2, <1>9, <1>10 DEF Queue
    <2>2. Held(B)' /\ Stream(F, B)'
      BY <1>1, <1>2, <1>10, NothingMoves
    <2>3. QED
      BY <1>4, <1>5, <1>6, <1>7, <1>8, <2>1, <2>2
  <1>11. CASE sinkWait = worker.id /\ staged' = {} /\ Signal(worker.id)
    <2>1. /\ staged' = {} /\ sinkWait' = NoId /\ sinkId' = worker.id /\ worker.id = sinkId + 1
      BY <1>2, <1>11 DEF Signal, Queue
    <2>2. Queue'
      <3>1. \A i \in Ids : pending[i].stage # "none" => worker.id < i
        BY <1>2, <1>3, <1>9, <2>1 DEF Queue
      <3>2. QED
        BY <1>1, <1>2, <1>3, <1>9, <2>1, <3>1 DEF Queue
    <2>3. Live' => Live
      BY <1>1, <1>2, <1>11 DEF Live, Stuck
    <2>4. /\ C[worker.id] = F
          /\ \A i \in Ids \cup {NoId} : i # worker.id => C[i] = B[i]
          /\ \A i \in Ids \cup {NoId} : B[i] \in Frontiers
      BY <1>2
    <2>5. CASE ~Live'
      <3>1. Held(B)' /\ Stream(F, B)'
        BY <2>5 DEF Held, Stream
      <3>2. QED
        BY <1>4, <1>5, <1>6, <1>7, <1>8, <2>2, <3>1
    <2>6. CASE Live'
      <3> USE <2>3, <2>6
      <3>1. Held(C)'
        <4>1. \A i \in Ids : worker.id < i /\ i <= lastId =>
                pending[i].stage # "none" /\ pending[i].state = C[i]
          BY <1>3, <2>1, <2>4 DEF Held
        <4>2. \A m \in markers : m <= worker.id
          BY <1>2, <1>3, Numbers DEF Committing
        <4>3. QED
          BY <1>1, <1>2, <2>1, <4>1, <4>2 DEF Held
      <3>2. /\ worker.id # sinkId /\ sinkId <= worker.id
            /\ Below(B[worker.id], Upper(B, worker.id))
            /\ Fills(Flying(worker.id), Segment(B[worker.id], Upper(B, worker.id)))
        BY <1>2, <1>3, <2>1 DEF Stream
      <3>3. Below(F, B[worker.id])
        <4>1. worker.data.state = B[worker.id]
          BY <1>2, <1>3, <2>1 DEF Held
        <4>2. QED
          BY <1>2, <4>1 DEF Committing
      <3>4. Upper(B, worker.id) \in Frontiers
        <4>1. readPos \in Frontiers
          BY DEF TypeOK, Frontiers
        <4>2. worker.id # lastId => worker.id + 1 \in Ids
          BY <1>2, <1>3, StoreAssumption DEF TypeOK, Ids
        <4>3. QED
          BY <2>4, <4>1, <4>2 DEF Upper
      <3>5. Below(F, Upper(B, worker.id))
        <4>1. \A p \in Partitions : F[p] \in Nat /\ B[worker.id][p] \in Nat
                                    /\ Upper(B, worker.id)[p] \in Nat
          BY <1>2, <2>4, <3>4, StoreAssumption DEF Frontiers, Pos
        <4>2. QED
          BY <3>2, <3>3, <4>1 DEF Below
      <3>6. Fills({} \cup Flying(worker.id), Segment(F, Upper(B, worker.id)))
        <4>1. Segment(B[worker.id], Upper(B, worker.id)) \subseteq Segment(F, Upper(B, worker.id))
          BY <1>2, <2>4, <3>3, <3>4, SegmentWider
        <4>2. QED
          BY <1>2, <3>2, <4>1 DEF Fills
      <3>7. \A i \in Ids \cup {NoId} : worker.id <= i /\ i <= lastId => Upper(C, i) = Upper(B, i)
        <4>1. SUFFICES ASSUME NEW i \in Ids \cup {NoId}, worker.id <= i, i <= lastId, i # lastId
                       PROVE  C[i + 1] = B[i + 1]
          BY DEF Upper
        <4>2. i \in Nat /\ i + 1 \in Ids /\ i + 1 # worker.id
          BY <1>3, <4>1, StoreAssumption DEF TypeOK, Ids, NoId
        <4>3. QED
          BY <2>4, <4>2
      <3>8. \A i : Upper(C, i)' = Upper(C, i) /\ Flying(i)' = Flying(i)
        BY <1>1 DEF Upper, Flying
      <3>9. \A i \in Ids \cup {NoId} : worker.id <= i /\ i <= lastId =>
              /\ Below(C[i], Upper(C, i))
              /\ i # worker.id => Fills(Flying(i), Segment(C[i], Upper(C, i)))
        <4>1. SUFFICES ASSUME NEW i \in Ids \cup {NoId}, worker.id <= i, i <= lastId
                       PROVE  /\ Below(C[i], Upper(C, i))
                              /\ i # worker.id => Fills(Flying(i), Segment(C[i], Upper(C, i)))
          OBVIOUS
        <4>2. CASE i = worker.id
          BY <2>4, <3>5, <3>7, <4>1, <4>2
        <4>3. CASE i # worker.id
          <5>1. C[i] = B[i] /\ Upper(C, i) = Upper(B, i)
            BY <2>4, <3>7, <4>1, <4>3
          <5>2. i \in Nat
            BY <1>3
          <5>3. sinkId <= i /\ i # sinkId
            BY <1>3, <2>1, <4>1, <5>2
          <5>4. QED
            BY <4>1, <5>1, <5>3 DEF Stream
        <4>4. QED
          BY <4>2, <4>3
      <3>10. /\ Flying(sinkId)' = Flying(worker.id) /\ Upper(C, sinkId)' = Upper(B, worker.id)
        <4>1. Upper(C, sinkId)' = Upper(C, worker.id)
          BY <1>1, <2>1 DEF Upper
        <4>2. Upper(C, worker.id) = Upper(B, worker.id)
          <5>1. worker.id <= worker.id
            BY <1>3
          <5>2. QED
            BY <1>2, <3>7, <5>1
        <4>3. Flying(sinkId)' = Flying(worker.id)
          BY <1>1, <2>1 DEF Flying
        <4>4. QED
          BY <4>1, <4>2, <4>3
      <3>11. \A f \in flight : f.after <= lastId
        BY DEF Stream
      <3>12. Stream(F, C)'
        BY <1>1, <2>1, <2>4, <3>6, <3>8, <3>9, <3>10, <3>11, ZenonT(60) DEF Stream, Below, Fills, Segment
      <3>13. QED
        BY <1>4, <1>5, <1>6, <1>7, <1>8, <2>2, <3>1, <3>12
    <2>7. QED
      BY <2>5, <2>6
  <1>12. QED
    BY <1>10, <1>11 DEF AbortFatal

\* The advisory commit moves the group to positions of the newest committed
\* checkpoint, which is the frontier (source/kafka.go CommitOffsets).
LEMMA GuaranteeOffsets ==
    ASSUME DirectoryInv, NEW F \in Frontiers, NEW B, Guarantee(F, B), CommitOffsets
    PROVE  Guarantee(F, B)'
  <1> USE DEF Guarantee, DirectoryInv
  <1>1. /\ worker.pc = "offsets" /\ worker'.pc = "idle"
        /\ \/ UNCHANGED group
           \/ group' = [p \in Partitions |-> IF worker.data.offsets[p] = NoPos THEN group[p]
                                             ELSE worker.data.offsets[p]]
        /\ UNCHANGED <<files, latest, latestCompleted, dirs, visible, markers, staged, limbo, phase,
                       restored, hard, readPos, aligned, folded, lastId, flight, sinkId, sinkWait,
                       produceErr, pending, event>>
    BY DEF CommitOffsets, IdleWorker, storeVars, engineVars, injectorVars, sinkVars
  <1>2. /\ Completes /\ ~Prepares /\ ~Prepares' /\ ~Completes' /\ Streaming /\ Streaming'
        /\ IsNewest(worker.id, markers) /\ worker.data.state = F
        /\ worker.data.offsets = files[worker.id].offsets
        /\ files[worker.id].status = "completed"
    BY <1>1 DEF Finalizing, Completes, Prepares, Completing, Quiescent, Streaming
  <1>3. Settled /\ Settled'
    BY <1>1, <1>2, Markers DEF Settled, IsNewest
  <1>4. Matches(worker.data.offsets, F)
    BY <1>2, Markers DEF CommittedFiles
  <1>5. \A p \in Partitions :
          /\ group'[p] = group[p] \/ (worker.data.offsets[p] # NoPos /\ group'[p] = F[p])
          /\ group[p] <= F[p] /\ F[p] <= F[p]
    <2>1. \A p \in Partitions : F[p] \in Nat
      BY Numbers DEF Frontiers
    <2>2. QED
      BY <1>1, <1>4, <2>1 DEF Matches, Readable, Below
  <1>6. Readable(F)'
    BY <1>1, <1>5 DEF Readable, Below
  <1>7. \A o, s : Matches(o, s) /\ (\A p \in Partitions : o[p] = NoPos => worker.data.offsets[p] = NoPos)
                    => Matches(o, s)'
    BY <1>1, <1>5 DEF Matches
  <1>8. CommittedFiles(F)'
    <2>1. \A i \in markers : IsNewest(i, markers) => Matches(files[i].offsets, F)'
      <3>1. \A i \in markers : IsNewest(i, markers) => i = worker.id
        BY <1>2, Markers
      <3>2. \A i : i = worker.id => Matches(files[i].offsets, F)'
        BY <1>1, <1>2, <1>4, <1>7
      <3>3. QED
        BY <3>1, <3>2
    <2>2. QED
      BY <1>1, <2>1 DEF CommittedFiles, Completed, Below, IsNewest
  <1>9. Pointers'
    BY <1>1 DEF Pointers, TornUpdate, IsNewest, Completed
  <1>10. Completing(F)' /\ Committing(F)' /\ Queued(F)' /\ Finalizing'
    BY <1>1, <1>2 DEF Completing, Committing, Queued, Finalizing, Below, Fills, Segment
  <1>11. Settling' /\ Restoring' /\ Queue'
    BY <1>1, <1>2, <1>3 DEF Settling, Restoring, Queue, Streaming
  <1>12. Positions'
    <2>1. Matches(aligned, readPos)'
      BY <1>1, <1>2, <1>7 DEF Positions, Completes
    <2>2. \A i \in Ids : pending[i].stage # "none" => Matches(pending[i].offsets, pending[i].state)'
      <3>1. \A i \in Ids : pending[i].stage # "none" =>
              /\ Matches(pending[i].offsets, pending[i].state)
              /\ \A p \in Partitions : pending[i].offsets[p] = NoPos => worker.data.offsets[p] = NoPos
        BY <1>2 DEF Positions, Completes
      <3>2. \A i \in Ids : Matches(pending[i].offsets, pending[i].state)
              /\ (\A p \in Partitions : pending[i].offsets[p] = NoPos => worker.data.offsets[p] = NoPos)
              => Matches(pending[i].offsets, pending[i].state)'
        BY <1>1, <1>7
      <3>3. QED
        BY <3>1, <3>2
    <2>3. QED
      BY <1>1, <1>2, <2>1, <2>2 DEF Positions
  <1>13. Live' => Live
    BY <1>1, <1>2 DEF Live, Stuck
  <1>14. Held(B)' /\ Stream(F, B)'
    BY <1>1, <1>2, <1>13, StreamFrame DEF Held
  <1>15. QED
    BY <1>6, <1>8, <1>9, <1>10, <1>11, <1>12, <1>14

-----------------------------------------------------------------------------
(* Every step, and every behaviour.                                        *)

\* The process ends, by a crash at any point, a failed probe or a return of
\* Execute.
LEMMA GuaranteeEnds ==
    ASSUME DirectoryInv, Tolerated, NEW F, NEW B, Guarantee(F, B),
           ProbeFails \/ HardExit \/ CleanExit \/ Crash
    PROVE  Guarantee(F, B)' /\ UNCHANGED visible
  <1> USE DEF Guarantee, DirectoryInv
  <1>1. ProcessGone /\ UNCHANGED <<files, latest, latestCompleted, visible, markers, group>>
    BY DEF ProbeFails, HardExit, CleanExit, Crash, storeVars, kafkaVars
  <1>2. staged' = {}
    BY DEF ProbeFails, HardExit, CleanExit, Crash, kafkaVars, Restoring, Streaming
  <1>3. limbo'.id = NoId
    BY DEF ProbeFails, HardExit, CleanExit, Crash, kafkaVars, Readable, Tolerated
  <1>4. TornUpdate => RetainCompleted = 1
    <2>1. CASE ProbeFails
      BY <2>1 DEF ProbeFails, Quiescent, Streaming, TornUpdate
    <2>2. CASE HardExit \/ CleanExit
      BY <2>2 DEF HardExit, CleanExit, TornUpdate
    <2>3. CASE Crash
      BY <2>3 DEF Crash, Tolerated
    <2>4. QED
      BY <2>1, <2>2, <2>3
  <1>5. QED
    BY <1>1, <1>2, <1>3, <1>4, GuaranteeGone

\* Every step keeps the guarantee, and moves the frontier forward if it changes
\* the output at all.
LEMMA GuaranteeStep ==
    ASSUME Tolerated, DirectoryInv, NEW F \in Frontiers, NEW B \in [Ids \cup {NoId} -> Frontiers],
           Guarantee(F, B), [Next]_vars
    PROVE  \E G \in Frontiers, C \in [Ids \cup {NoId} -> Frontiers] :
             Guarantee(G, C)' /\ (UNCHANGED visible \/ Below(F, G))
  <1>1. CASE Boot
    BY <1>1, GuaranteeBoot DEF Boot, kafkaVars
  <1>2. CASE ResolveCoordinatedRecovery
    BY <1>2, GuaranteeResolve DEF ResolveCoordinatedRecovery, kafkaVars
  <1>3. CASE ProbeFails \/ HardExit \/ CleanExit \/ Crash
    BY <1>3, GuaranteeEnds
  <1>4. CASE Start
    <2>1. PICK C : C = [B EXCEPT ![lastId] = F]
      OBVIOUS
    <2>2. C \in [Ids \cup {NoId} -> Frontiers]
      BY <2>1
    <2>3. Guarantee(F, C)'
      BY <1>4, <2>1, GuaranteeStart
    <2>4. QED
      BY <1>4, <2>2, <2>3 DEF Start
  <1>5. CASE \E p \in Partitions : Read(p)
    BY <1>5, GuaranteeRead DEF Read, kafkaVars
  <1>6. CASE Tick \/ CtxDone \/ SourceClosed
    <2>1. /\ InjectBarrier /\ Streaming /\ Streaming' /\ ~hard
          /\ UNCHANGED <<storeVars, kafkaVars, restored, hard, sinkVars>>
      BY <1>6 DEF Tick, CtxDone, SourceClosed, engineVars, Streaming
    <2>2. PICK C : C = [B EXCEPT ![lastId + 1] = readPos]
      OBVIOUS
    <2>3. readPos \in Frontiers
      BY DEF DirectoryInv, TypeOK, Frontiers
    <2>4. C \in [Ids \cup {NoId} -> Frontiers]
      BY <2>2, <2>3
    <2>5. Guarantee(F, C)'
      BY <2>1, <2>2, GuaranteeInject
    <2>6. QED
      BY <2>1, <2>4, <2>5 DEF kafkaVars
  <1>7. CASE DrainEnd \/ HardCancel \/ UNCHANGED vars
    <2>1. /\ UNCHANGED <<storeVars, kafkaVars, restored, injectorVars, sinkVars, coordVars>>
          /\ \/ UNCHANGED <<phase, hard>>
             \/ Streaming /\ Streaming' /\ (hard => hard')
      BY <1>7 DEF DrainEnd, HardCancel, vars, engineVars, Streaming
    <2>2. Guarantee(F, B)'
      BY <2>1, GuaranteeStops
    <2>3. QED
      BY <2>1, <2>2 DEF kafkaVars
  <1>8. CASE \E id \in Ids : TapBarrier(id)
    BY <1>8, GuaranteeTap DEF TapBarrier, kafkaVars
  <1>9. CASE \E f \in flight : SinkWrite(f)
    BY <1>9, GuaranteeWrite DEF SinkWrite
  <1>10. CASE SinkPrepare
    BY <1>10, GuaranteePrepare DEF SinkPrepare, kafkaVars
  <1>11. CASE SinkUnwind
    BY <1>11, GuaranteeUnwind DEF SinkUnwind
  <1>12. CASE TakeEvent
    BY <1>12, GuaranteeTake DEF TakeEvent, kafkaVars
  <1>13. CASE SaveFile
    BY <1>13, GuaranteeSaveFile DEF SaveFile, kafkaVars
  <1>14. CASE SaveLatest \/ SaveLatestCompleted
    BY <1>14, GuaranteeSavePointers DEF SaveLatest, SaveLatestCompleted, kafkaVars
  <1>15. CASE RetainFile
    BY <1>15, GuaranteeRetainFile DEF RetainFile, kafkaVars
  <1>16. CASE RetainDir
    BY <1>16, GuaranteeRetainDir DEF RetainDir, kafkaVars
  <1>17. CASE SaveDone
    BY <1>17, GuaranteeSaveDone DEF SaveDone, kafkaVars
  <1>18. CASE SaveFails
    BY <1>18, GuaranteeSaveFails DEF SaveFails, kafkaVars
  <1>19. CASE CommitSink
    <2>1. PICK G : G = worker.data.state
      OBVIOUS
    <2>2. QED
      BY <1>19, <2>1, GuaranteeCommit
  <1>20. CASE CommitFails
    <2>1. PICK G : G = worker.data.state
      OBVIOUS
    <2>2. QED
      BY <1>20, <2>1, GuaranteeCommitFails
  <1>21. CASE AbortFatal
    <2>1. PICK C : C = [B EXCEPT ![worker.id] = F]
      OBVIOUS
    <2>2. C \in [Ids \cup {NoId} -> Frontiers]
      BY <2>1
    <2>3. Guarantee(F, B)' \/ Guarantee(F, C)'
      BY <1>21, <2>1, GuaranteeAbort
    <2>4. UNCHANGED visible
      BY <1>21 DEF AbortFatal
    <2>5. QED
      BY <2>2, <2>3, <2>4
  <1>22. CASE CommitOffsets
    BY <1>22, GuaranteeOffsets DEF CommitOffsets
  <1>23. CASE LateCommit
    BY <1>23 DEF LateCommit, Guarantee, Readable
  <1>24. QED
    BY <1>1, <1>2, <1>3, <1>4, <1>5, <1>6, <1>7, <1>8, <1>9, <1>10, <1>11, <1>12, <1>13, <1>14,
       <1>15, <1>16, <1>17, <1>18, <1>19, <1>20, <1>21, <1>22, <1>23
    DEF Next, Recovery, Injector, Sink, Finalize

\* Before the first start nothing is readable and nothing is saved.
LEMMA GuaranteeInit ==
    ASSUME Init
    PROVE  GuaranteeInv
  <1>1. NoState \in Frontiers /\ [i \in Ids \cup {NoId} |-> NoState] \in [Ids \cup {NoId} -> Frontiers]
    BY StoreAssumption DEF NoState, Frontiers, Pos
  <1>2. PICK F \in Frontiers : F = NoState
    BY <1>1
  <1>3. PICK B \in [Ids \cup {NoId} -> Frontiers] : B = [i \in Ids \cup {NoId} |-> NoState]
    BY <1>1
  <1>4. /\ \A i \in Ids : files[i].status = "absent"
        /\ \A r \in Records : visible[r] = 0
        /\ \A p \in Partitions : F[p] = 0 /\ group[p] = 0
        /\ markers = {} /\ staged = {} /\ limbo.id = NoId /\ latest = NoId /\ flight = {}
        /\ phase = "down" /\ sinkWait = NoId /\ ~hard /\ ~produceErr
        /\ event = NoId /\ worker.pc = "idle"
        /\ \A i \in Ids : pending[i].stage = "none" /\ ~pending[i].sinkErr
    BY <1>2 DEF Init, StoreInit, Absent, NoLimbo, NoPending, IdleWorker, NoState
  <1>5. ~Streaming /\ ~Prepares /\ ~Completes /\ ~Live
    BY <1>4 DEF Streaming, Prepares, Completes, Live
  <1>6. \A r \in Records : r[1] \in Partitions /\ r[2] \in Nat
    BY StoreAssumption DEF Records, Offsets
  <1>7. Readable(F)
    BY <1>4, <1>6 DEF Readable, Below
  <1>8. CommittedFiles(F) /\ Pointers
    BY <1>4 DEF CommittedFiles, Pointers, Completed
  <1>9. Completing(F) /\ Committing(F) /\ Queued(F) /\ Finalizing
    BY <1>4, <1>5 DEF Completing, Committing, Queued, Finalizing
  <1>10. Settling /\ Restoring /\ Queue /\ Positions /\ Held(B) /\ Stream(F, B)
    BY <1>4, <1>5 DEF Settling, Restoring, Queue, Positions, Held, Stream
  <1>11. QED
    BY <1>7, <1>8, <1>9, <1>10 DEF GuaranteeInv, Guarantee

\* In every deployment the guarantee is for, its invariant holds of every
\* reachable state.
THEOREM GuaranteeInvariant ==
    ASSUME Tolerated
    PROVE  Spec => [](DirectoryInv /\ GuaranteeInv)
  <1>1. Init => GuaranteeInv
    BY GuaranteeInit
  <1>2. DirectoryInv /\ GuaranteeInv /\ [Next]_vars => GuaranteeInv'
    <2> SUFFICES ASSUME DirectoryInv, GuaranteeInv, [Next]_vars PROVE GuaranteeInv'
      OBVIOUS
    <2>1. PICK F \in Frontiers, B \in [Ids \cup {NoId} -> Frontiers] : Guarantee(F, B)
      BY DEF GuaranteeInv
    <2>2. \E G \in Frontiers, C \in [Ids \cup {NoId} -> Frontiers] : Guarantee(G, C)'
      BY <2>1, GuaranteeStep
    <2>3. QED
      BY <2>2 DEF GuaranteeInv
  <1>3. QED
    BY <1>1, <1>2, DirectoryInvariant, PTL DEF Spec

-----------------------------------------------------------------------------
(* What a user of the exactly-once mode relies on.                         *)

\* No record's output is readable twice, whatever restarts, aborts and unknown
\* commit outcomes happen, in every tolerated deployment (coordinator.go
\* finalize, engine.go resolveCoordinatedRecovery).
THEOREM NoRecordTwice ==
    ASSUME Tolerated
    PROVE  Spec => []NoDuplicate
  <1>1. DirectoryInv /\ GuaranteeInv => NoDuplicate
    <2> SUFFICES ASSUME DirectoryInv, GuaranteeInv, NEW r \in Records PROVE visible[r] <= 1
      BY DEF NoDuplicate
    <2>1. PICK F \in Frontiers : Readable(F)
      BY DEF GuaranteeInv, Guarantee
    <2>2. visible[r] \in Nat /\ visible[r] <= (IF r[2] < F[r[1]] THEN 1 ELSE 0)
      BY <2>1 DEF Readable, DirectoryInv, TypeOK
    <2>3. QED
      BY <2>2
  <1>2. QED
    BY <1>1, GuaranteeInvariant, PTL

\* While the pipeline streams, the operators have folded in exactly what lies
\* below the source's position, after any recovery (engine.go
\* restoreSourceOffset, source/kafka_offset_tracker.go restore).
THEOREM PositionMatchesState ==
    ASSUME Tolerated
    PROVE  Spec => []StateMatchesPosition
  <1>1. GuaranteeInv => StateMatchesPosition
    BY DEF GuaranteeInv, Guarantee, Positions, StateMatchesPosition
  <1>2. QED
    BY <1>1, GuaranteeInvariant, PTL

\* Without an abort that the pipeline survives, everything a completed checkpoint
\* has folded in is readable (coordinator.go finalize: commit, then completed).
THEOREM CompletedMeansCommitted ==
    ASSUME Tolerated, Lossless
    PROVE  Spec => []CompletedIsCommitted
  <1>1. DirectoryInv /\ GuaranteeInv => CompletedIsCommitted
    <2> SUFFICES ASSUME DirectoryInv, GuaranteeInv, NEW id \in Completed(files),
                        NEW p \in Partitions, NEW o \in Offsets, o < files[id].state[p]
                 PROVE  visible[<<p, o>>] >= 1
      BY DEF CompletedIsCommitted
    <2>1. PICK F \in Frontiers : Readable(F) /\ CommittedFiles(F)
      BY DEF GuaranteeInv, Guarantee
    <2>2. <<p, o>> \in Records
      BY DEF Records
    <2>3. F[p] \in Nat /\ o \in Nat /\ files[id].state[p] \in Nat /\ files[id].state[p] <= F[p]
      BY <2>1, StoreAssumption DEF Frontiers, Pos, Offsets, CommittedFiles, Below, DirectoryInv,
                                   TypeOK, StoreTypeOK, CheckpointData, Completed
    <2>4. visible[<<p, o>>] = IF o < F[p] THEN 1 ELSE 0
      BY <2>1, <2>2 DEF Readable
    <2>5. QED
      BY <2>3, <2>4
  <1>2. QED
    BY <1>1, GuaranteeInvariant, PTL

\* Recovery restores exactly what is readable: the checkpoint it chose is the
\* newest committed one, whichever step the process died in (engine.go
\* resolveCoordinatedRecovery).
THEOREM RecoveryRestoresTheOutput ==
    ASSUME Tolerated, Lossless
    PROVE  Spec => []RestoredIsReadablePrefix
  <1>1. DirectoryInv /\ GuaranteeInv => RestoredIsReadablePrefix
    <2> DEFINE S == IF restored = NoId THEN NoState ELSE files[restored].state
    <2> SUFFICES ASSUME DirectoryInv, GuaranteeInv, phase = "restore"
                 PROVE  visible = Output!Prefix(S)
      BY DEF RestoredIsReadablePrefix
    <2>1. PICK F \in Frontiers : Readable(F) /\ CommittedFiles(F) /\ Restoring
      BY DEF GuaranteeInv, Guarantee
    <2>2. \A p \in Partitions : S[p] = F[p]
      <3>1. CASE restored = NoId /\ markers = {}
        BY <2>1, <3>1 DEF Readable, NoState
      <3>2. CASE IsNewest(restored, markers)
        BY <2>1, <3>2, Markers DEF CommittedFiles, DirectoryInv
      <3>3. QED
        BY <2>1, <3>1, <3>2 DEF Restoring
    <2>3. visible \in [Records -> Nat] /\ \A r \in Records : r[1] \in Partitions
      BY DEF DirectoryInv, TypeOK, Records
    <2>4. \A r \in Records : visible[r] = IF r[2] < S[r[1]] THEN 1 ELSE 0
      BY <2>1, <2>2, <2>3 DEF Readable
    <2>5. visible = [r \in Records |-> IF r[2] < S[r[1]] THEN 1 ELSE 0]
      BY <2>3, <2>4
    <2>6. QED
      BY <2>5 DEF Output!Prefix, Output!Records, Records, Offsets
  <1>2. QED
    BY <1>1, GuaranteeInvariant, PTL

\* The consumer group's offsets never run ahead of the readable output
\* (source/kafka.go CommitOffsets, coordinator.go finalize).
THEOREM GroupNeverAhead ==
    ASSUME Tolerated, Lossless
    PROVE  Spec => []GroupBehindOutput
  <1>1. DirectoryInv /\ GuaranteeInv => GroupBehindOutput
    <2> SUFFICES ASSUME DirectoryInv, GuaranteeInv, NEW p \in Partitions, NEW o \in Offsets,
                        o < group[p]
                 PROVE  visible[<<p, o>>] >= 1
      BY DEF GroupBehindOutput
    <2>1. PICK F \in Frontiers : Readable(F)
      BY DEF GuaranteeInv, Guarantee
    <2>2. <<p, o>> \in Records
      BY DEF Records
    <2>3. F[p] \in Nat /\ o \in Nat /\ group[p] \in Nat /\ group[p] <= F[p]
      BY <2>1, StoreAssumption DEF Frontiers, Pos, Offsets, Readable, Below, DirectoryInv, TypeOK
    <2>4. visible[<<p, o>>] = IF o < F[p] THEN 1 ELSE 0
      BY <2>1, <2>2 DEF Readable
    <2>5. QED
      BY <2>3, <2>4
  <1>2. QED
    BY <1>1, GuaranteeInvariant, PTL

\* A consumer of the output topic sees ExactlyOnceOutput and nothing else: every
\* step of the engine, the coordinator, the sink and recovery extends the readable
\* prefix in one go or leaves it alone.
THEOREM OutputRefines ==
    ASSUME Tolerated, Lossless
    PROVE  Spec => ExactlyOnceRefinement
  <1>1. Init => Output!Init
    BY DEF Init, Output!Init, Output!Records, Records, Offsets
  <1>2. ASSUME DirectoryInv, DirectoryInv', GuaranteeInv, [Next]_vars
        PROVE  [Output!Advance]_visible
    <2>1. PICK F \in Frontiers, B \in [Ids \cup {NoId} -> Frontiers] : Guarantee(F, B)
      BY <1>2 DEF GuaranteeInv
    <2>2. PICK G \in Frontiers, C \in [Ids \cup {NoId} -> Frontiers] :
            Guarantee(G, C)' /\ (UNCHANGED visible \/ Below(F, G))
      BY <1>2, <2>1, GuaranteeStep
    <2>3. CASE UNCHANGED visible
      BY <2>3
    <2>4. CASE Below(F, G)
      <3>1. /\ visible' \in [Records -> Nat]
            /\ \A r \in Records : /\ visible[r] = IF r[2] < F[r[1]] THEN 1 ELSE 0
                                  /\ visible'[r] = IF r[2] < G[r[1]] THEN 1 ELSE 0
        BY <1>2, <2>1, <2>2 DEF Guarantee, Readable, DirectoryInv, TypeOK
      <3>2. visible' = Output!Prefix(G)
        BY <3>1 DEF Output!Prefix, Output!Records, Records, Offsets
      <3>3. \A r \in Records : visible[r] <= visible'[r]
        <4>1. \A r \in Records : /\ r[2] \in Nat /\ F[r[1]] \in Nat /\ G[r[1]] \in Nat
                                 /\ F[r[1]] <= G[r[1]]
          BY <2>4, StoreAssumption DEF Records, Offsets, Frontiers, Pos, Below
        <4>2. QED
          BY <3>1, <4>1
      <3>4. G \in Output!Frontiers
        BY DEF Frontiers, Pos, Output!Frontiers
      <3>5. QED
        BY <3>2, <3>3, <3>4 DEF Output!Advance, Output!Records, Records, Offsets
    <2>5. QED
      BY <2>2, <2>3, <2>4
  <1>3. QED
    BY <1>1, <1>2, GuaranteeInvariant, PTL DEF Spec, ExactlyOnceRefinement, Output!Spec

=============================================================================
