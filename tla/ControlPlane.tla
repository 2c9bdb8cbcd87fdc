----------------------------- MODULE ControlPlane -----------------------------
(***************************************************************************)
(* The control plane for one job: the API operations and the reconciler of *)
(* the Controller, the SQLite store it keeps job and runs in, and the      *)
(* container backend.                                                      *)
(*                                                                         *)
(* An operation holds its controller's lock for the job, so a controller   *)
(* has at most one under way (op); only Savepoint and the first half of    *)
(* Submit run outside the lock.  Every write of the store and every        *)
(* operation of the backend that changes a container is a step of its own, *)
(* the two halves of Launch included: the process may crash between any    *)
(* two, and a second controller that shares the store file may act between *)
(* any two.  Only the calls of one round of Remove, and those Delete makes *)
(* before it drops the job, are taken together.                            *)
(* Runs are numbered in the order of their rows; the container that run r  *)
(* launches is container r, and 0 is the empty container ID.               *)
(***************************************************************************)
EXTENDS Naturals, FiniteSets

CONSTANTS Controllers,          \* controller processes that share one store file
          NoController,
          MaxRuns,              \* bound on the runs ever created
          MaxAttempts,          \* RestartPolicy.MaxAttempts
          Retention,            \* TerminalRunRetention
          MaxCrashes,           \* bound on controller crashes
          Faults                \* calls that may fail, things that may happen to containers

AllFaults == {"launch", "secret", "record", "stop", "remove", "gone", "pause"}

ASSUME ControlAssumption ==
    /\ IsFiniteSet(Controllers) /\ NoController \notin Controllers
    /\ MaxRuns \in Nat \ {0} /\ MaxAttempts \in Nat
    /\ Retention \in Nat \ {0} /\ MaxCrashes \in Nat
    /\ Faults \subseteq AllFaults

VARIABLES job,          \* desired state in the job's row; "new": not submitted yet
          row,          \* the rows of table runs
          last,         \* the run created last
          ctr,          \* what the backend knows of each container
          op,           \* the operation each controller runs under its job lock
          submitting,   \* the controller between CreateJob and launch, if any
          saving,       \* controllers whose agent has accepted a savepoint
          up,           \* controllers that are running
          crashes,      \* crashes so far
          backend       \* what the controllers were started with

vars == <<job, row, last, ctr, op, submitting, saving, up, crashes, backend>>
storeVars == <<job, row, last>>
processVars == <<submitting, saving, up, crashes, backend>>

Runs == 1..MaxRuns

-----------------------------------------------------------------------------
(* The store.                                                              *)

Phases == {"none", "starting", "running", "restarting", "blocked",
           "cancelled", "finished", "failed"}

\* A row of table runs; active stands for stopped_at IS NULL.
Row == [phase : Phases, cid : 0..MaxRuns, attempt : Nat, active : BOOLEAN]

NoRow == [phase |-> "none", cid |-> 0, attempt |-> 0, active |-> FALSE]

Present == {r \in Runs : row[r] # NoRow}
Active == {r \in Runs : row[r].active}
JobExists == job \in {"running", "stopped"}

\* LatestRun: ORDER BY started_at DESC LIMIT 1.
LatestActive == {r \in Active : \A q \in Present : q <= r}

\* UpdateRun finds its row, and idx_runs_one_active_per_job admits the result.
Updatable(r, new) ==
    /\ row[r] # NoRow
    /\ new.active => Active \subseteq {r}

\* UpdateRun and UpdateRunWithTransition write every column of the caller's copy.
UpdateRun(r, new) ==
    row' = IF Updatable(r, new) THEN [row EXCEPT ![r] = new] ELSE row

ShouldRestart(attempt) == attempt < MaxAttempts

-----------------------------------------------------------------------------
(* The backend: Docker, or Kubernetes Jobs.                                *)

Backends == {"docker", "kubernetes"}

\* "ending": the Job is deleted, its pod still runs, for its grace period at most.
LiveStates == {"pending", "running", "paused"}
CtrStates == LiveStates \cup {"none", "ok", "failed", "ending", "gone"}

Live == {k \in Runs : ctr[k] \in LiveStates}
Ending == {k \in Runs : ctr[k] = "ending"}
Listed == {k \in Runs : ctr[k] \notin {"none", "ending", "gone"}}

\* Status asks for the Job, not for its pods.
Status(k) == IF ctr[k] = "ending" THEN "gone" ELSE ctr[k]

\* Docker keeps a stopped container.  Kubernetes deletes the Job and waits for its
\* pods, unless the Job is already missing.
StopOutcomes(st) ==
    IF backend = "docker"
    THEN IF st \in LiveStates THEN {"ok", "failed"} ELSE {st}
    ELSE IF st \in LiveStates \cup {"ok", "failed"} THEN {"gone"} ELSE {st}

\* The containers of ks a round of Remove calls gets rid of.
Removable(ks) == IF "remove" \in Faults THEN SUBSET ks ELSE {ks}

\* Docker kills and removes at once; Kubernetes deletes the Job and leaves its pod
\* to the garbage collector.
Removed(st) ==
    IF backend = "kubernetes" /\ st \in LiveStates \cup {"ending"} THEN "ending" ELSE "gone"

Without(ks) == [k \in Runs |-> IF k \in ks THEN Removed(ctr[k]) ELSE ctr[k]]

-----------------------------------------------------------------------------
(* Operations under the job lock.                                          *)

Idle == [pc |-> "idle", kind |-> "none", id |-> 0, copy |-> NoRow,
         st |-> "none", want |-> "none", to |-> "none"]

Kinds == {"none", "submit", "cancel", "restart", "relaunch", "reconcile", "delete"}
Pcs == {"idle", "create", "launch", "start", "unlaunched", "record", "unrecorded",
        "stop", "remove", "finish", "prune", "pruned", "desire", "drop", "observed",
        "reattached"}

TypeOK ==
    /\ job \in {"new", "running", "stopped", "deleted"}
    /\ row \in [Runs -> Row]
    /\ last \in 0..MaxRuns
    /\ ctr \in [Runs -> CtrStates]
    /\ op \in [Controllers -> [pc : Pcs, kind : Kinds, id : 0..MaxRuns, copy : Row,
                               st : CtrStates, want : {"none", "running", "stopped"},
                               to : Phases]]
    /\ submitting \in Controllers \cup {NoController}
    /\ saving \in [Controllers -> BOOLEAN]
    /\ up \in [Controllers -> BOOLEAN]
    /\ crashes \in 0..MaxCrashes
    /\ backend \in Backends

Init ==
    /\ job = "new"
    /\ row = [r \in Runs |-> NoRow]
    /\ last = 0
    /\ ctr = [k \in Runs |-> "none"]
    /\ op = [c \in Controllers |-> Idle]
    /\ submitting = NoController
    /\ saving = [c \in Controllers |-> FALSE]
    /\ up = [c \in Controllers |-> TRUE]
    /\ crashes = 0
    /\ backend \in Backends

Free(c) == up[c] /\ op[c] = Idle

Begin(c, o) == op' = [op EXCEPT ![c] = o]
Step(c, pc) == op' = [op EXCEPT ![c].pc = pc]
Return(c) == op' = [op EXCEPT ![c] = Idle]

\* Submit records the job outside the lock ...
Submit(c) ==
    /\ up[c] /\ job = "new"
    /\ job' = "running"
    /\ submitting' = c
    /\ UNCHANGED <<row, last, ctr, op, saving, up, crashes, backend>>

\* ... and launch takes it.
SubmitLaunch(c) ==
    /\ submitting = c /\ Free(c)
    /\ submitting' = NoController
    /\ Begin(c, [Idle EXCEPT !.pc = "create", !.kind = "submit"])
    /\ UNCHANGED <<storeVars, ctr, saving, up, crashes, backend>>

\* The attempt number of the run being launched: the automatic restarts count on.
NextAttempt(o) == IF o.kind = "relaunch" THEN o.copy.attempt + 1 ELSE 1

\* Mutant: no scan and no index.
CanStartRun_NoFence == last < MaxRuns

\* startRun's scan for an active run, repeated by the index on insert.  The bound
\* on runs shows as a failing insert.
CanStartRun == Active = {} /\ last < MaxRuns

StartRun(c) ==
    /\ op[c].pc = "create"
    /\ \/ LET new == [phase |-> "starting", cid |-> 0, attempt |-> NextAttempt(op[c]),
                      active |-> TRUE]
          IN  /\ CanStartRun
              /\ last' = last + 1
              /\ row' = [row EXCEPT ![last + 1] = new]
              /\ Begin(c, [op[c] EXCEPT !.pc = "launch", !.id = last + 1, !.copy = new])
       \/ ~CanStartRun /\ Return(c) /\ UNCHANGED <<row, last>>
    /\ UNCHANGED <<job, ctr, processVars>>

\* Launch creates a container, which Docker reports as exited with code 0 until it
\* is started, or a Job, whose pod the cluster starts ...
CreateContainer(c) ==
    /\ op[c].pc = "launch"
    /\ ctr' = [ctr EXCEPT ![op[c].id] = IF backend = "docker" THEN "ok" ELSE "pending"]
    /\ Step(c, "start")
    /\ UNCHANGED <<storeVars, processVars>>

\* ... and then starts the container, or adds the Service.
StartContainer(c) ==
    /\ op[c].pc = "start"
    /\ ctr' = IF backend = "docker" THEN [ctr EXCEPT ![op[c].id] = "running"] ELSE ctr
    /\ Begin(c, [op[c] EXCEPT !.pc = "record", !.copy.cid = op[c].id,
                              !.copy.phase = "running"])
    /\ UNCHANGED <<storeVars, processVars>>

\* Launch removes what it has created before it reports an error.
LaunchFails(c) ==
    /\ op[c].pc \in {"launch", "start"} /\ "launch" \in Faults
    /\ \E ks \in Removable(IF op[c].pc = "start" THEN {op[c].id} ELSE {}) : ctr' = Without(ks)
    /\ Step(c, "unlaunched")
    /\ UNCHANGED <<storeVars, processVars>>

\* A transient failure is retried while the policy allows, a permanent one is not.
LaunchGivesUp(c) ==
    /\ op[c].pc = "unlaunched"
    /\ \/ /\ ShouldRestart(op[c].copy.attempt)
          /\ UpdateRun(op[c].id, [op[c].copy EXCEPT !.phase = "restarting"])
       \/ UpdateRun(op[c].id, [op[c].copy EXCEPT !.phase = "failed", !.active = FALSE])
    /\ Return(c)
    /\ UNCHANGED <<job, last, ctr, processVars>>

\* launchEnv cannot resolve a secret reference.
LaunchBlocked(c) ==
    /\ op[c].pc = "launch" /\ "secret" \in Faults
    /\ UpdateRun(op[c].id, [op[c].copy EXCEPT !.phase = "blocked"])
    /\ Return(c)
    /\ UNCHANGED <<job, last, ctr, processVars>>

RecordRun(c) ==
    /\ op[c].pc = "record"
    /\ Updatable(op[c].id, op[c].copy)
    /\ UpdateRun(op[c].id, op[c].copy)
    /\ Return(c)
    /\ UNCHANGED <<job, last, ctr, processVars>>

\* Mutant: the container is forgotten, not removed.
RecordFails_KeepsContainer(c) ==
    /\ op[c].pc = "record"
    /\ "record" \in Faults \/ ~Updatable(op[c].id, op[c].copy)
    /\ Step(c, "unrecorded")
    /\ UNCHANGED <<storeVars, ctr, processVars>>

\* The container launched cannot be recorded: remove it ...
RecordFails(c) ==
    /\ op[c].pc = "record"
    /\ "record" \in Faults \/ ~Updatable(op[c].id, op[c].copy)
    /\ \E ks \in Removable({op[c].id}) : ctr' = Without(ks)
    /\ Step(c, "unrecorded")
    /\ UNCHANGED <<storeVars, processVars>>

\* ... and mark the run failed, which may fail for the same reason.
MarkLaunchRecordFailure(c) ==
    /\ op[c].pc = "unrecorded"
    /\ \/ UpdateRun(op[c].id, [op[c].copy EXCEPT !.phase = "failed", !.cid = 0, !.active = FALSE])
       \/ "record" \in Faults /\ UNCHANGED row
    /\ Return(c)
    /\ UNCHANGED <<job, last, ctr, processVars>>

Cancel(c) ==
    /\ Free(c) /\ JobExists
    /\ job' = "stopped"
    /\ \/ \E r \in LatestActive :
            Begin(c, [Idle EXCEPT !.pc = "stop", !.kind = "cancel", !.id = r,
                                  !.copy = row[r], !.to = "cancelled"])
       \/ LatestActive = {} /\ UNCHANGED op
    /\ UNCHANGED <<row, last, ctr, processVars>>

Restart(c) ==
    /\ Free(c) /\ JobExists
    /\ \/ \E r \in LatestActive :
            Begin(c, [Idle EXCEPT !.pc = "stop", !.kind = "restart", !.id = r,
                                  !.copy = row[r], !.to = "cancelled"])
       \/ /\ LatestActive = {}
          /\ Begin(c, [Idle EXCEPT !.pc = "desire", !.kind = "restart"])
    /\ UNCHANGED <<storeVars, ctr, processVars>>

Stop(c) ==
    /\ op[c].pc = "stop" /\ op[c].copy.cid # 0
    /\ \E st \in StopOutcomes(ctr[op[c].copy.cid]) :
         ctr' = [ctr EXCEPT ![op[c].copy.cid] = st]
    /\ Step(c, IF op[c].kind = "restart" THEN "remove" ELSE "finish")
    /\ UNCHANGED <<storeVars, processVars>>

\* Restart also removes the container it has stopped.
RemoveStopped(c) ==
    /\ op[c].pc = "remove"
    /\ \E ks \in Removable({op[c].copy.cid}) : ctr' = Without(ks)
    /\ Step(c, "finish")
    /\ UNCHANGED <<storeVars, processVars>>

\* Backends refuse an empty container ID, and a pod may outlive the wait for it.
\* Restart gives up without a write.
StopFails(c) ==
    /\ op[c].pc = "stop"
    /\ op[c].copy.cid = 0 \/ "stop" \in Faults
    /\ IF op[c].kind = "restart" THEN UNCHANGED row ELSE UpdateRun(op[c].id, op[c].copy)
    /\ Return(c)
    /\ UNCHANGED <<job, last, ctr, processVars>>

\* Terminal runs beyond the newest Retention ones.
Victims ==
    LET terminal == {r \in Present : ~row[r].active}
    IN  {v \in terminal : Cardinality({r \in terminal : r > v}) >= Retention}

\* finishRun: the terminal row ...
FinishRun(c) ==
    /\ op[c].pc = "finish"
    /\ LET new == [op[c].copy EXCEPT !.phase = op[c].to, !.active = FALSE]
       IN  /\ UpdateRun(op[c].id, new)
           /\ IF Updatable(op[c].id, new) THEN Step(c, "prune") ELSE Return(c)
    /\ UNCHANGED <<job, last, ctr, processVars>>

\* What follows finishRun in each operation.
AfterFinish(o) ==
    CASE o.kind = "restart"  -> [Idle EXCEPT !.pc = "desire", !.kind = o.kind]
      [] o.kind = "relaunch" -> [Idle EXCEPT !.pc = "create", !.kind = o.kind, !.copy = o.copy]
      [] OTHER               -> Idle

\* ... then pruneTerminalRuns, which has nothing to do, or removes the containers
\* of the victims ...
PruneContainers(c) ==
    /\ op[c].pc = "prune"
    /\ \E ks \in Removable({row[v].cid : v \in Victims} \ {0}) : ctr' = Without(ks)
    /\ IF Victims = {} THEN Begin(c, AfterFinish(op[c])) ELSE Step(c, "pruned")
    /\ UNCHANGED <<storeVars, processVars>>

\* ... and then their rows, as the store now sees them.
PruneTerminalRuns(c) ==
    /\ op[c].pc = "pruned"
    /\ row' = [r \in Runs |-> IF r \in Victims THEN NoRow ELSE row[r]]
    /\ Begin(c, AfterFinish(op[c]))
    /\ UNCHANGED <<job, last, ctr, processVars>>

\* Restart's SetDesired, which fails once the job is gone.
SetDesiredRunning(c) ==
    /\ op[c].pc = "desire"
    /\ IF JobExists THEN job' = "running" /\ Step(c, "create")
                    ELSE Return(c) /\ UNCHANGED job
    /\ UNCHANGED <<row, last, ctr, processVars>>

\* Delete stops the active run's container and removes every container a row names;
\* after a failure the job is kept so that the call can be repeated.
Delete(c) ==
    /\ Free(c) /\ JobExists
    /\ LET known == {row[r].cid : r \in Present} \ {0}
           stopped == {row[r].cid : r \in Active} \ {0}
       IN  \E st \in [stopped -> CtrStates], ks \in Removable(known) :
             LET left == [k \in Runs |-> IF k \in stopped THEN st[k] ELSE ctr[k]]
                 clean == \A k \in stopped : st[k] \in StopOutcomes(ctr[k])
             IN  /\ \A k \in stopped : st[k] \in StopOutcomes(ctr[k]) \cup {ctr[k]}
                 /\ ctr' = [k \in Runs |-> IF k \in ks THEN Removed(left[k]) ELSE left[k]]
                 /\ \/ /\ clean /\ ks = known
                       /\ Begin(c, [Idle EXCEPT !.pc = "drop", !.kind = "delete"])
                    \/ /\ Faults \cap {"stop", "remove"} # {}
                       /\ UNCHANGED op
    /\ UNCHANGED <<storeVars, processVars>>

DeleteJob(c) ==
    /\ op[c].pc = "drop"
    /\ row' = [r \in Runs |-> NoRow]
    /\ job' = "deleted"
    /\ Return(c)
    /\ UNCHANGED <<last, ctr, processVars>>

-----------------------------------------------------------------------------
(* The reconciler.  Each active run is read again under the lock.          *)

\* maybeUnblock (the references resolve now) and maybeRestart (the backoff has
\* elapsed): finish the run, launch the next one.
Relaunch(c, r) ==
    /\ Free(c) /\ job = "running" /\ row[r].active
    /\ \/ row[r].phase = "blocked"
       \/ row[r].phase = "restarting" /\ ShouldRestart(row[r].attempt)
    /\ Begin(c, [Idle EXCEPT !.pc = "finish", !.kind = "relaunch", !.id = r,
                             !.copy = row[r], !.to = "failed"])
    /\ UNCHANGED <<storeVars, ctr, processVars>>

Attached(r) ==
    /\ row[r].active /\ JobExists
    /\ row[r].phase \notin {"blocked", "restarting"}

Observe(c, r) ==
    /\ Free(c) /\ Attached(r)
    /\ row[r].cid # 0
    /\ Begin(c, [Idle EXCEPT !.pc = "observed", !.kind = "reconcile", !.id = r,
                             !.copy = row[r], !.st = Status(row[r].cid), !.want = job])
    /\ UNCHANGED <<storeVars, ctr, processVars>>

\* The job's newest container, whatever run it was launched for.
ManagedContainer == {k \in Listed : \A j \in Listed : j <= k}

\* reattachUnrecordedBackendRun.
Reattach(c, r) ==
    /\ Free(c) /\ Attached(r)
    /\ row[r].cid = 0
    /\ \E k \in ManagedContainer :
         Begin(c, [Idle EXCEPT !.pc = "reattached", !.kind = "reconcile", !.id = r,
                               !.copy = [row[r] EXCEPT !.cid = k], !.st = Status(k), !.want = job])
    /\ UNCHANGED <<storeVars, ctr, processVars>>

\* Mutant: the backend's phase goes into the row.
PhaseOf_Raw(st) == st

PhaseOf(st) == IF st = "pending" THEN "starting" ELSE "running"

\* A run that was reattached is recorded whatever is desired.
ReattachLive(c) ==
    /\ op[c].pc = "reattached" /\ op[c].st \in {"pending", "running"}
    /\ UpdateRun(op[c].id, [op[c].copy EXCEPT !.phase = PhaseOf(op[c].st)])
    /\ Return(c)
    /\ UNCHANGED <<job, last, ctr, processVars>>

ReattachOther(c) ==
    /\ op[c].pc = "reattached" /\ op[c].st \notin {"pending", "running"}
    /\ Step(c, "observed")
    /\ UNCHANGED <<storeVars, ctr, processVars>>

\* reconcileRun on a live container that should run.  A paused one is marked
\* unhealthy, which leaves the phase alone.  The row is written when one of its
\* columns changes, the ones not modelled (error, host port) included.
KeepRunning(c) ==
    /\ op[c].pc = "observed" /\ op[c].st \in LiveStates /\ op[c].want = "running"
    /\ LET phase == IF op[c].st = "paused" THEN op[c].copy.phase ELSE PhaseOf(op[c].st)
       IN  \/ UpdateRun(op[c].id, [op[c].copy EXCEPT !.phase = phase])
           \/ op[c].copy.phase = phase /\ UNCHANGED row
    /\ Return(c)
    /\ UNCHANGED <<job, last, ctr, processVars>>

\* Mutant: a paused container is not stopped.
StopWanted_RunningOnly(o) == o.want = "stopped" /\ o.st = "running"

\* reconcileRun stops whatever is live when the job should be stopped.
StopWanted(o) == o.want = "stopped" /\ o.st \in LiveStates

ReconcileStop(c) ==
    /\ op[c].pc = "observed"
    /\ StopWanted(op[c])
    /\ Begin(c, [op[c] EXCEPT !.pc = "stop", !.st = "none", !.want = "none",
                              !.to = "cancelled"])
    /\ UNCHANGED <<storeVars, ctr, processVars>>

\* The terminal phase of a run whose container is no longer live.
ExitPhase(o) ==
    CASE o.want = "stopped" -> "cancelled"
      [] o.want = "running" /\ o.st = "ok" -> "finished"
      [] OTHER -> "failed"

\* Mutant: one restart too many is scheduled, which maybeRestart then refuses.
Retried_OneMore(o) == ExitPhase(o) = "failed" /\ o.copy.attempt <= MaxAttempts

Retried(o) == ExitPhase(o) = "failed" /\ ShouldRestart(o.copy.attempt)

\* handleExit, and reconcileRun on a container that is gone.
HandleExit(c) ==
    /\ op[c].pc = "observed" /\ op[c].st \notin LiveStates
    /\ \/ /\ Retried(op[c])
          /\ UpdateRun(op[c].id, [op[c].copy EXCEPT !.phase = "restarting"])
          /\ Return(c)
       \/ /\ ~Retried(op[c])
          /\ Begin(c, [op[c] EXCEPT !.pc = "finish", !.st = "none", !.want = "none",
                                    !.to = ExitPhase(op[c])])
          /\ UNCHANGED row
    /\ UNCHANGED <<job, last, ctr, processVars>>

-----------------------------------------------------------------------------
(* Savepoints, crashes and start-up.                                       *)

\* The agent of the live container accepts the request; no lock is taken.
SavepointAccepted(c) ==
    /\ up[c] /\ ~saving[c] /\ JobExists
    /\ \E r \in LatestActive : row[r].cid # 0 /\ ctr[row[r].cid] = "running"
    /\ saving' = [saving EXCEPT ![c] = TRUE]
    /\ UNCHANGED <<storeVars, ctr, op, submitting, up, crashes, backend>>

SavepointRecorded(c) ==
    /\ saving[c]
    /\ saving' = [saving EXCEPT ![c] = FALSE]
    /\ job' = IF JobExists THEN "stopped" ELSE job
    /\ UNCHANGED <<row, last, ctr, op, submitting, up, crashes, backend>>

Crash(c) ==
    /\ up[c] /\ crashes < MaxCrashes
    /\ crashes' = crashes + 1
    /\ up' = [up EXCEPT ![c] = FALSE]
    /\ op' = [op EXCEPT ![c] = Idle]
    /\ saving' = [saving EXCEPT ![c] = FALSE]
    /\ submitting' = IF submitting = c THEN NoController ELSE submitting
    /\ UNCHANGED <<storeVars, ctr, backend>>

\* Mutant: the sweep does not look at the container's status.
Orphans_Live == Listed \ {row[r].cid : r \in Present}

\* Containers no row names that are no longer live.
Orphans == (Listed \ Live) \ {row[r].cid : r \in Present}

\* The dashboard command sweeps orphans before it serves.
Boot(c) ==
    /\ ~up[c]
    /\ up' = [up EXCEPT ![c] = TRUE]
    /\ \E ks \in Removable(Orphans) : ctr' = Without(ks)
    /\ UNCHANGED <<storeVars, op, submitting, saving, crashes, backend>>

-----------------------------------------------------------------------------
(* The containers.                                                         *)

ContainerStarts(k) ==
    /\ ctr[k] = "pending"
    /\ ctr' = [ctr EXCEPT ![k] = "running"]
    /\ UNCHANGED <<storeVars, op, processVars>>

ContainerExits(k) ==
    /\ ctr[k] = "running"
    /\ \E st \in {"ok", "failed"} : ctr' = [ctr EXCEPT ![k] = st]
    /\ UNCHANGED <<storeVars, op, processVars>>

\* docker pause and unpause, or a pod that is not ready.
ContainerPaused(k) ==
    /\ "pause" \in Faults
    /\ \/ ctr[k] = "running"
          /\ ctr' = [ctr EXCEPT ![k] = IF backend = "docker" THEN "paused" ELSE "pending"]
       \/ ctr[k] = "paused" /\ ctr' = [ctr EXCEPT ![k] = "running"]
    /\ UNCHANGED <<storeVars, op, processVars>>

\* A host reboot, or somebody else, removes the container.
ContainerVanishes(k) ==
    /\ "gone" \in Faults /\ k \in Listed
    /\ ctr' = Without({k})
    /\ UNCHANGED <<storeVars, op, processVars>>

\* The pod of a deleted Job stops, or is killed when its grace period is over.
ContainerEnds(k) ==
    /\ ctr[k] = "ending"
    /\ ctr' = [ctr EXCEPT ![k] = "gone"]
    /\ UNCHANGED <<storeVars, op, processVars>>

-----------------------------------------------------------------------------
(* The specification.                                                      *)

\* Steps of an operation under way.
Continue(c) ==
    \/ StartRun(c) \/ CreateContainer(c) \/ StartContainer(c)
    \/ LaunchFails(c) \/ LaunchGivesUp(c) \/ LaunchBlocked(c)
    \/ RecordRun(c) \/ RecordFails(c) \/ MarkLaunchRecordFailure(c)
    \/ Stop(c) \/ StopFails(c) \/ RemoveStopped(c)
    \/ FinishRun(c) \/ PruneContainers(c) \/ PruneTerminalRuns(c)
    \/ SetDesiredRunning(c) \/ DeleteJob(c)
    \/ ReattachLive(c) \/ ReattachOther(c) \/ KeepRunning(c) \/ ReconcileStop(c)
    \/ HandleExit(c)

Reconcile(c, r) == Relaunch(c, r) \/ Observe(c, r) \/ Reattach(c, r)

User(c) == Submit(c) \/ Cancel(c) \/ Restart(c) \/ Delete(c) \/ SavepointAccepted(c)

Container(k) ==
    \/ ContainerStarts(k) \/ ContainerExits(k) \/ ContainerPaused(k)
    \/ ContainerVanishes(k) \/ ContainerEnds(k)

Next ==
    \/ \E c \in Controllers :
         \/ User(c) \/ SubmitLaunch(c) \/ SavepointRecorded(c)
         \/ Continue(c)
         \/ \E r \in Runs : Reconcile(c, r)
         \/ Crash(c) \/ Boot(c)
    \/ \E k \in Runs : Container(k)

Spec == Init /\ [][Next]_vars

\* An operation under way goes on, a crashed controller is started again and a pod
\* told to end does.  The reconciler ticks for ever and a Go mutex starves nobody, so
\* the run that needs it (one is active at most) gets its turn, however often users
\* call.  Backend failures are transient.
Fairness ==
    /\ \A c \in Controllers :
        /\ WF_vars(Continue(c)) /\ WF_vars(Boot(c))
        /\ WF_vars(SubmitLaunch(c)) /\ WF_vars(SavepointRecorded(c))
        /\ SF_vars(Stop(c))
        /\ SF_vars(\E r \in Runs : Reconcile(c, r))
    /\ \A k \in Runs : WF_vars(ContainerEnds(k))

FairSpec == Spec /\ Fairness

-----------------------------------------------------------------------------
(* Properties.                                                             *)

\* Single-live-run fencing: on Docker two containers of one job never run at once;
\* on Kubernetes there is never more than one that has not been told to end, because
\* Remove does not wait for the pod (controller.go startRun, kubernetes.go cleanup).
SingleLive ==
    /\ Cardinality(Live) <= 1
    /\ backend = "docker" => Cardinality(Live \cup Ending) <= 1

\* The promise itself, for both backends (controller.go startRun: "never run two
\* containers for one job at once").
NeverTwoRunning == Cardinality(Live \cup Ending) <= 1

\* The same for two controllers on one store file, as long as nobody deletes the
\* job (controller.go startRun, store/sqlite.go idx_runs_one_active_per_job).
FencedAcrossProcesses == JobExists => Cardinality(Live) <= 1

\* While the job exists, a live container is the recorded container of the active
\* run, or the one the reconciler will attach it to: neither a crash nor a failed
\* write loses track of it (reconcile.go reattachUnrecordedBackendRun).
LiveIsTracked ==
    JobExists =>
        \A k \in Live : \E r \in Active :
            row[r].cid = k \/ (row[r].cid = 0 /\ k \in ManagedContainer)

\* Retention and the start-up sweep never remove a live container, not even one
\* that no row names yet (sweep.go SweepOrphans, controller.go pruneTerminalRuns).
CleanupSparesLive ==
    [][\A c \in Controllers :
         PruneContainers(c) \/ Boot(c) => \A k \in Live : ctr'[k] = ctr[k]]_vars

\* A job that should be stopped ends up with no container running, whatever the
\* container is doing and even if the call that stopped it failed half-way
\* (reconcile.go reconcileRun).
StopReachesContainer == (job = "stopped") ~> (job # "stopped" \/ Live \cup Ending = {})

\* A scheduled restart happens, or is overtaken by what the user wants
\* (reconcile.go maybeRestart).
RestartHappens ==
    LET BackedOff == \E r \in Active : row[r].phase = "restarting"
    IN  (job = "running" /\ BackedOff) ~> (job # "running" \/ ~BackedOff)

\* A job that should be stopped ends up with no active run (reconcile.go Reconcile:
\* "drives every active run toward its job's desired state").
StoppedSettles == (job = "stopped") ~> (job # "stopped" \/ Active = {})
=============================================================================
