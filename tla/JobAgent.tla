------------------------------ MODULE JobAgent ------------------------------
(***************************************************************************)
(* The process that hosts one job, from launch to exit: sdk.Serve restores *)
(* a savepoint, the job agent runs the engine and answers /cancel and      *)
(* /savepoint, and a stop-with-savepoint is promoted to the blobstore      *)
(* before the exit code is chosen.  Successive processes of the job share  *)
(* one checkpoint directory (CheckpointStore) and one blobstore.           *)
(*                                                                         *)
(* The engine is reduced to what the agent sees of it: it resumes from a   *)
(* checkpoint, advances, saves checkpoints and returns.  The checkpoint    *)
(* directory is opened twice, by the engine with the retention the job     *)
(* asks for and by the savepoint code with the default retention.          *)
(***************************************************************************)
EXTENDS CheckpointStore, Sequences

CONSTANTS
  Nil,
  Labels,           \* savepoint labels
  Setups,           \* [checkpointing, coordinated, blobstore] to run
  DefaultRetained,  \* DefaultRetainedCheckpoints
  MaxHistory,       \* maxCheckpoints of the agent's history
  MaxLaunches       \* bound on the processes of the job

ASSUME AgentAssumption ==
  /\ DefaultRetained \in Nat \ {0}
  /\ MaxHistory \in Nat \ {0}
  /\ MaxLaunches \in Nat
  /\ Nil \notin {"canceled", "error"}

\* The directory as NewFileStorage opens it.
Default == INSTANCE CheckpointStore WITH RetainCompleted <- DefaultRetained

VARIABLES
  setup,   \* what runs
  torn,    \* state directories an extraction was cut off in
  blobs,   \* label -> the archive stored under it, or Nil
  proc,    \* the process: where Serve is
  eng,     \* the engine inside it
  agent,   \* the job agent of the process
  used     \* checkpoints and launches so far

vars == <<storeVars, setup, torn, blobs, proc, eng, agent, used>>

-----------------------------------------------------------------------------
Terminal(phase) == phase \in {"finished", "failed"}

\* New.  accepted is the label the last POST /savepoint was granted.
FreshAgent ==
  [phase |-> "starting", cancelSet |-> FALSE, ctxDone |-> FALSE, req |-> FALSE, label |-> Nil,
   handler |-> FALSE, result |-> Nil, shutdown |-> FALSE, history |-> <<>>, accepted |-> Nil]

\* The engine: what it resumed from and its progress; the checkpoint it finalizes and
\* whether that one's transaction has committed; hardCtx, the errors of its stages, of
\* coord.Fatal and of coordErrCh, and whether the watcher between the two is done.
FreshEngine ==
  [resumed |-> NoId, began |-> NoState, pos |-> NoState, drained |-> FALSE, inFlight |-> NoId,
   committed |-> FALSE, hard |-> FALSE, stageErr |-> FALSE, fatal |-> Nil, coordErr |-> Nil,
   watched |-> FALSE]

\* seed is the archive a restore found, newer the completed checkpoints newer than it,
\* failed whether the coordinator has reported an error that is not a cancellation.
FreshProc(pc, restore) ==
  [pc |-> pc, restore |-> restore, seed |-> Nil, newer |-> 0, chosen |-> NoId, failed |-> FALSE,
   code |-> 0]

Exited(p, code) == [p EXCEPT !.pc = "exited", !.code = code]

Running(pc) == pc \notin {"down", "exited"}

Init ==
  /\ StoreInit
  /\ setup \in Setups
  /\ torn = {}
  /\ blobs = [l \in Labels |-> Nil]
  /\ proc = FreshProc("down", Nil)
  /\ eng = FreshEngine
  /\ agent = FreshAgent
  /\ used = [ids |-> 0, launches |-> 0]

Saved(id, data) == [files EXCEPT ![id] = data]

\* saveLocked, which removes the victims of its retention at the end.  The state directory
\* is written before it.
SaveWith(victims, id, data) ==
  /\ files' = [i \in Ids |-> IF i \in victims THEN Absent ELSE Saved(id, data)[i]]
  /\ latest' = id
  /\ latestCompleted' = IF data.status = "completed" THEN id ELSE latestCompleted
  /\ dirs' = (dirs \cup {id}) \ victims

\* Save of the engine's storage, and of the one the savepoint code opens.
Save(id, data) == SaveWith(Victims(Saved(id, data)), id, data)
DefaultSave(id, data) == SaveWith(Default!Victims(Saved(id, data)), id, data)

-----------------------------------------------------------------------------
(* Starting a process.                                                     *)

\* runBuild: the engine's storage is opened, and repaired, before anything else.
OpenStorage == IF setup.checkpointing THEN Maintain ELSE UNCHANGED storeVars

\* A process starts, with RESTORE_SAVEPOINT set or not.
Launch(restore) ==
  /\ ~Running(proc.pc) /\ used.launches < MaxLaunches
  /\ OpenStorage
  /\ agent' = FreshAgent
  /\ proc' = IF restore = Nil THEN FreshProc("start", Nil)
             ELSE IF setup.checkpointing THEN FreshProc("restore", restore)
             ELSE Exited(FreshProc("restore", restore), 1)
  /\ eng' = FreshEngine
  /\ used' = [used EXCEPT !.launches = @ + 1]
  /\ UNCHANGED <<setup, torn, blobs>>

\* RestoreSavepoint: a blob that is missing, or a blobstore that fails, ends the process.
OpenBlob ==
  /\ proc.pc = "restore"
  /\ Default!Maintain
  /\ \/ /\ blobs[proc.restore] # Nil
        /\ proc' = [proc EXCEPT !.pc = "extract", !.seed = blobs[proc.restore]]
     \/ proc' = Exited(proc, 1)
  /\ UNCHANGED <<setup, torn, blobs, eng, agent, used>>

\* ExtractCheckpoint writes the state files in place, over those of a checkpoint
\* with the same ID if the directory still has it.
ExtractState ==
  /\ proc.pc = "extract"
  /\ dirs' = dirs \cup {proc.seed.id}
  /\ torn' = IF proc.seed.whole THEN torn \ {proc.seed.id} ELSE torn \cup {proc.seed.id}
  /\ proc' = [proc EXCEPT !.pc = "save"]
  /\ UNCHANGED <<files, latest, latestCompleted, setup, blobs, eng, agent, used>>

\* The archive ends or the disk fills in the middle of a file; or the record cannot be saved.
ExtractFails ==
  /\ proc.pc \in {"extract", "save"}
  /\ dirs' = dirs \cup {proc.seed.id}
  /\ torn' = IF proc.pc = "extract" THEN torn \cup {proc.seed.id} ELSE torn
  /\ proc' = Exited(proc, 1)
  /\ UNCHANGED <<files, latest, latestCompleted, setup, blobs, eng, agent, used>>

NewerCompleted(id) == Cardinality({i \in Completed(files) : i > id})

\* Mutant: the record is written and nothing points at it.
SaveExtractedUnnamed ==
  /\ proc.pc = "save"
  /\ files' = [files EXCEPT ![proc.seed.id] = proc.seed.data]
  /\ proc' = [proc EXCEPT !.pc = "start", !.newer = NewerCompleted(proc.seed.id)]
  /\ UNCHANGED <<latest, latestCompleted, dirs, setup, torn, blobs, eng, agent, used>>

\* The record is saved as completed, with the default retention.
SaveExtracted ==
  /\ proc.pc = "save"
  /\ DefaultSave(proc.seed.id, [proc.seed.data EXCEPT !.status = "completed"])
  /\ proc' = [proc EXCEPT !.pc = "start", !.newer = NewerCompleted(proc.seed.id)]
  /\ UNCHANGED <<setup, torn, blobs, eng, agent, used>>

-----------------------------------------------------------------------------
(* The run: Agent.Run around Execute.                                      *)

Positions(id) == IF id = NoId THEN NoState ELSE files[id].state

\* Run sets the cancel function and the phase, and enters Execute.
Begin(id) ==
  /\ proc' = [proc EXCEPT !.pc = "run"]
  /\ eng' = [FreshEngine EXCEPT !.resumed = id, !.began = Positions(id), !.pos = Positions(id)]
  /\ agent' = [agent EXCEPT !.phase = "running", !.cancelSet = TRUE]
  /\ UNCHANGED <<setup, torn, blobs, used>>

\* Execute resumes from the latest checkpoint of either status; a coordinated run
\* does so if it completed.
Resume ==
  LET found == IF setup.checkpointing THEN LoadPointer(files, latest, FALSE) ELSE NoId
  IN  /\ proc.pc = "start"
      /\ setup.coordinated => ~(found # NoId /\ files[found].status = "prepared")
      /\ latest' = IF setup.checkpointing THEN RepairedPointer(files, latest, FALSE) ELSE latest
      /\ Begin(found)
      /\ UNCHANGED <<files, latestCompleted, dirs>>

\* resolveCoordinatedRecovery of a prepared checkpoint: the sink's marker tells whether
\* it committed.
ResumePrepared(committed) ==
  LET found == LoadPointer(files, latest, FALSE)
  IN  /\ proc.pc = "start" /\ setup.coordinated /\ setup.checkpointing
      /\ found # NoId /\ files[found].status = "prepared"
      /\ IF committed
         THEN /\ Save(found, [files[found] EXCEPT !.status = "completed"])
              /\ Begin(found)
         ELSE /\ latestCompleted' = RepairedPointer(files, latestCompleted, TRUE)
              /\ Begin(LoadPointer(files, latestCompleted, TRUE))
              /\ UNCHANGED <<files, latest, dirs>>

AtEnd == \A p \in Partitions : eng.pos[p] = LogEnd

Stopping == agent.ctxDone \/ AtEnd

Streaming == proc.pc = "run" /\ ~eng.hard

Advance(p) ==
  /\ Streaming /\ ~Stopping /\ eng.pos[p] < LogEnd
  /\ eng' = [eng EXCEPT !.pos[p] = @ + 1]
  /\ UNCHANGED <<storeVars, setup, torn, blobs, proc, agent, used>>

\* onCheckpointReport: a bounded history, newest first.
OnCheckpointReport(id) ==
  LET all == <<id>> \o agent.history
  IN  agent' = [agent EXCEPT !.history = SubSeq(all, 1, IF Len(all) < MaxHistory THEN Len(all) ELSE MaxHistory)]

Record(status) == [status |-> status, offsets |-> eng.pos, state |-> eng.pos]

\* saveCheckpoint, periodic or, once the run stops, final.
SaveCheckpoint ==
  LET id == used.ids + 1
  IN  /\ Streaming /\ setup.checkpointing /\ ~setup.coordinated
      /\ used.ids < MaxId /\ ~eng.drained
      /\ Save(id, Record("completed"))
      /\ OnCheckpointReport(id)
      /\ eng' = [eng EXCEPT !.drained = Stopping]
      /\ used' = [used EXCEPT !.ids = id]
      /\ UNCHANGED <<setup, torn, blobs, proc>>

\* finalize logs a checkpoint as prepared ...
SavePrepared ==
  LET id == used.ids + 1
  IN  /\ Streaming /\ setup.checkpointing /\ setup.coordinated
      /\ used.ids < MaxId /\ ~eng.drained /\ eng.inFlight = NoId
      /\ Save(id, Record("prepared"))
      /\ eng' = [eng EXCEPT !.inFlight = id]
      /\ used' = [used EXCEPT !.ids = id]
      /\ UNCHANGED <<setup, torn, blobs, proc, agent>>

\* ... then commits, which releases the sink ...
CommitSink ==
  /\ proc.pc \in {"run", "ended"} /\ eng.inFlight # NoId /\ ~eng.committed
  /\ eng' = [eng EXCEPT !.committed = TRUE]
  /\ UNCHANGED <<storeVars, setup, torn, blobs, proc, agent, used>>

\* ... and promotes it.
CompletePrepared ==
  /\ proc.pc \in {"run", "ended"} /\ eng.committed
  /\ Save(eng.inFlight, [files[eng.inFlight] EXCEPT !.status = "completed"])
  /\ OnCheckpointReport(eng.inFlight)
  /\ eng' = [eng EXCEPT !.inFlight = NoId, !.committed = FALSE,
                        !.drained = Stopping /\ files[eng.inFlight].state = eng.pos]
  /\ UNCHANGED <<setup, torn, blobs, proc, used>>

\* A checkpoint cannot be logged, committed or promoted; a dead hardCtx cancels a commit.
\* reportFatal keeps the first error until it is taken.
CoordinatorFails(err) ==
  /\ \/ proc.pc \in {"run", "ended"} /\ eng.inFlight # NoId
     \/ Streaming /\ setup.coordinated /\ setup.checkpointing /\ ~eng.drained
  /\ err = "canceled" => eng.hard /\ ~eng.committed
  /\ eng' = [eng EXCEPT !.inFlight = NoId, !.committed = FALSE,
                        !.fatal = IF eng.fatal = Nil THEN err ELSE @]
  /\ proc' = [proc EXCEPT !.failed = @ \/ err = "error"]
  /\ UNCHANGED <<storeVars, setup, torn, blobs, agent, used>>

\* The watcher relays the error and unwinds the pipeline, or sees the pipeline end.
WatcherRelays ==
  /\ proc.pc \in {"run", "ended"} /\ setup.coordinated /\ ~eng.watched /\ eng.fatal # Nil
  /\ eng' = [eng EXCEPT !.coordErr = eng.fatal, !.fatal = Nil, !.hard = TRUE, !.watched = TRUE]
  /\ UNCHANGED <<storeVars, setup, torn, blobs, proc, agent, used>>

WatcherSeesEnd ==
  /\ proc.pc = "ended" /\ setup.coordinated /\ ~eng.watched
  /\ eng' = [eng EXCEPT !.watched = TRUE]
  /\ UNCHANGED <<storeVars, setup, torn, blobs, proc, agent, used>>

\* A stage fails, or a stop takes longer than the shutdown timeout.
HardCancel(failed) ==
  /\ Streaming /\ (failed \/ agent.ctxDone)
  /\ eng' = [eng EXCEPT !.hard = TRUE, !.stageErr = failed]
  /\ UNCHANGED <<storeVars, setup, torn, blobs, proc, agent, used>>

\* The stages end, drained or unwound.  A drained run may lack its last checkpoint: an
\* uncoordinated one whose save failed is only logged.
StagesEnd ==
  /\ proc.pc = "run"
  /\ eng.hard \/ (Stopping /\ (eng.inFlight = NoId \/ eng.committed))
  /\ proc' = [proc EXCEPT !.pc = "ended"]
  /\ UNCHANGED <<storeVars, setup, torn, blobs, eng, agent, used>>

\* Mutant: only what the watcher relayed.
CoordErrRelayed == eng.coordErr

\* The coordinator has stopped and the watcher is done: what it relayed, or else what is
\* still in the channel.
CoordErr == IF eng.coordErr # Nil THEN eng.coordErr ELSE eng.fatal

\* A cancellation of a run that was asked to stop is no error, nor is that of a stage.
Result ==
  IF CoordErr # Nil /\ ~(CoordErr = "canceled" /\ agent.ctxDone) THEN CoordErr
  ELSE IF eng.stageErr THEN "error"
  ELSE "nil"

\* Execute settles on its result, and closes the state backends on its way out ...
ExecuteReturns ==
  /\ proc.pc = "ended"
  /\ setup.coordinated => eng.inFlight = NoId /\ eng.watched
  /\ agent' = [agent EXCEPT !.result = Result]
  /\ proc' = [proc EXCEPT !.pc = "closing"]
  /\ UNCHANGED <<storeVars, setup, torn, blobs, eng, used>>

\* ... and only then does Run look whether a shutdown was asked for.
RunNotesShutdown ==
  /\ proc.pc = "closing"
  /\ agent' = [agent EXCEPT !.shutdown = agent.ctxDone]
  /\ proc' = [proc EXCEPT !.pc = "returned"]
  /\ UNCHANGED <<storeVars, setup, torn, blobs, eng, used>>

\* A cancellation is a clean finish only if a shutdown was asked for.
CleanResult == agent.result = "nil" \/ (agent.result = "canceled" /\ agent.shutdown)

\* Run settles the phase and returns.
RunSettles ==
  /\ proc.pc = "returned"
  /\ agent' = [agent EXCEPT !.phase = IF CleanResult THEN "finished" ELSE "failed", !.ctxDone = TRUE]
  /\ proc' = [proc EXCEPT !.pc = "settled"]
  /\ UNCHANGED <<storeVars, setup, torn, blobs, eng, used>>

-----------------------------------------------------------------------------
(* The agent's HTTP surface, and signals.                                  *)

\* Later requests, and those of a server that is shutting down, find the run terminal.
Serving == proc.pc \in {"start", "run", "ended", "closing", "returned"}

Accepts == agent.cancelSet /\ ~Terminal(agent.phase)

Cancelled(a) == IF Accepts THEN [a EXCEPT !.phase = "cancelling", !.ctxDone = TRUE] ELSE a

\* POST /cancel.  Before Run it is answered and has no effect.
Cancel ==
  /\ Serving
  /\ agent' = Cancelled(agent)
  /\ UNCHANGED <<storeVars, setup, torn, blobs, proc, eng, used>>

\* POST /savepoint: the label is noted under the lock, and the lock is released ...
RequestSavepoint(label) ==
  /\ Serving /\ Accepts
  /\ agent' = [agent EXCEPT !.req = TRUE, !.label = label, !.handler = TRUE, !.accepted = label]
  /\ UNCHANGED <<storeVars, setup, torn, blobs, proc, eng, used>>

\* ... before Cancel takes it again.
RequestCancels ==
  /\ agent.handler /\ Running(proc.pc)
  /\ agent' = [Cancelled(agent) EXCEPT !.handler = FALSE]
  /\ UNCHANGED <<storeVars, setup, torn, blobs, proc, eng, used>>

\* SIGTERM reaches the run through the context Serve was given.
Terminate ==
  /\ proc.pc \in {"run", "ended", "closing"} /\ ~agent.ctxDone
  /\ agent' = [agent EXCEPT !.ctxDone = TRUE]
  /\ UNCHANGED <<storeVars, setup, torn, blobs, proc, eng, used>>

-----------------------------------------------------------------------------
(* After the run: stop-with-savepoint and the exit code.                   *)

MarkSavepointFailed == agent' = [agent EXCEPT !.phase = "failed"]

\* The exit code follows the phase.
Exit ==
  /\ proc.pc = "promoted" \/ (proc.pc = "settled" /\ ~agent.req)
  /\ proc' = Exited(proc, IF agent.phase = "failed" THEN 1 ELSE 0)
  /\ UNCHANGED <<storeVars, setup, torn, blobs, eng, agent, used>>

\* promoteSavepoint, without a checkpoint to promote: the directory is opened, and
\* maintained, before it is looked in.
NothingToPromote ==
  /\ proc.pc = "settled" /\ agent.req
  /\ IF setup.checkpointing THEN Default!Maintain ELSE UNCHANGED storeVars
  /\ setup.checkpointing => LoadPointer(files', latestCompleted', TRUE) = NoId
  /\ MarkSavepointFailed
  /\ proc' = [proc EXCEPT !.pc = "promoted"]
  /\ UNCHANGED <<setup, torn, blobs, eng, used>>

\* CreateSavepoint opens the directory again and picks the latest completed checkpoint.
CreateSavepoint ==
  LET found == LoadPointer(files', latestCompleted', TRUE)
  IN  /\ proc.pc = "settled" /\ agent.req /\ setup.checkpointing
      /\ Default!Maintain
      /\ found # NoId
      /\ proc' = [proc EXCEPT !.pc = "promote", !.chosen = found]
      /\ UNCHANGED <<setup, torn, blobs, eng, agent, used>>

\* ArchiveCheckpoint reads the checkpoint again by its ID: the record, then every file
\* of its state directories.  Nothing comes of a checkpoint that is gone.
Archive(id) ==
  IF files[id].status = "absent" THEN Nil
  ELSE [id |-> id, data |-> files[id], whole |-> id \in dirs \ torn]

\* What a Put may come to: an error may follow the rename, or the upload.
FilePut == {[stored |-> TRUE, ok |-> TRUE], [stored |-> TRUE, ok |-> FALSE], [stored |-> FALSE, ok |-> FALSE]}
S3Put == {[stored |-> TRUE, ok |-> TRUE], [stored |-> TRUE, ok |-> FALSE], [stored |-> FALSE, ok |-> FALSE]}

\* The archive is streamed into the blob, which changes whole or not at all.
PutSavepoint(put) ==
  /\ proc.pc = "promote"
  /\ put \in (IF setup.blobstore = "s3" THEN S3Put ELSE FilePut)
  /\ put.stored => Archive(proc.chosen) # Nil
  /\ blobs' = IF put.stored THEN [blobs EXCEPT ![agent.label] = Archive(proc.chosen)] ELSE blobs
  /\ IF put.ok THEN UNCHANGED agent ELSE MarkSavepointFailed
  /\ proc' = [proc EXCEPT !.pc = "promoted"]
  /\ UNCHANGED <<storeVars, setup, torn, eng, used>>

\* The process is killed.  An extraction is cut off where it is.
Crash ==
  /\ Running(proc.pc)
  /\ torn' = IF proc.pc = "extract" THEN torn \cup {proc.seed.id} ELSE torn
  /\ dirs' = IF proc.pc = "extract" THEN dirs \cup {proc.seed.id} ELSE dirs
  /\ proc' = FreshProc("down", Nil)
  /\ agent' = FreshAgent
  /\ eng' = FreshEngine
  /\ UNCHANGED <<files, latest, latestCompleted, setup, blobs, used>>

Next ==
  \/ \E l \in Labels \cup {Nil} : Launch(l)
  \/ OpenBlob \/ ExtractState \/ ExtractFails \/ SaveExtracted
  \/ Resume
  \/ \E committed \in BOOLEAN : ResumePrepared(committed)
  \/ \E p \in Partitions : Advance(p)
  \/ SaveCheckpoint \/ SavePrepared \/ CommitSink \/ CompletePrepared
  \/ \E err \in {"canceled", "error"} : CoordinatorFails(err)
  \/ WatcherRelays \/ WatcherSeesEnd
  \/ \E failed \in BOOLEAN : HardCancel(failed)
  \/ StagesEnd \/ ExecuteReturns \/ RunNotesShutdown \/ RunSettles
  \/ Cancel
  \/ \E l \in Labels : RequestSavepoint(l)
  \/ RequestCancels \/ Terminate
  \/ Exit \/ NothingToPromote \/ CreateSavepoint
  \/ \E put \in FilePut \cup S3Put : PutSavepoint(put)
  \/ Crash

Spec == Init /\ [][Next]_vars

-----------------------------------------------------------------------------
(* Properties.                                                             *)

\* A process that exits with 0 ended because its input did or because it was asked to; no
\* checkpoint of its run failed, however late the failure was reported, and no stage did,
\* unless the stop was first asked for while Execute was returning; and the savepoint it
\* last accepted a request for is stored: it is the newest checkpoint that completed, and
\* when the run drained into a final checkpoint it is that one, with every record the run
\* processed and its state whole.  Requests race the end of the run and each other, and
\* the promotion can fail at every step.
CleanExitKeepsPromises ==
  proc.pc = "exited" /\ proc.code = 0 =>
    /\ ~proc.failed
    /\ eng.stageErr => agent.result = "canceled"
    /\ agent.result = "nil" \/ agent.shutdown
    /\ agent.accepted # Nil =>
         LET stored == blobs[agent.accepted]
         IN  /\ stored # Nil
             /\ stored.id = LoadPointer(files, latestCompleted, TRUE)
             /\ eng.drained => stored.whole /\ stored.data.state = eng.pos

\* The exit code hides no stage's failure: the cancellations a failure leaves behind count
\* as clean only in a run that was asked to stop.
CleanExitHidesNoFailure == proc.pc = "exited" /\ proc.code = 0 => ~eng.stageErr

Restored ==
  /\ proc.restore # Nil
  /\ proc.pc \in {"run", "ended", "closing", "returned", "settled", "promote", "promoted"}

ResumedSeed ==
  /\ eng.resumed = proc.seed.id
  /\ eng.began = proc.seed.data.state
  /\ proc.seed.whole => proc.seed.id \notin torn

\* A run that starts from a savepoint resumes from exactly what was archived, whatever
\* earlier processes and cut-off restores left in the directory, unless retention has
\* taken the restored checkpoint for the oldest one.
RestoredIsArchived == Restored => ResumedSeed \/ proc.newer >= DefaultRetained

\* RestoreSavepoint makes the savepoint the latest completed checkpoint, so that the
\* engine resumes from it.
RestoreResumesSavepoint == Restored => eng.resumed = proc.seed.id
=============================================================================
