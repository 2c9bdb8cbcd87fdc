-------------------------- MODULE ControlPlaneProofs --------------------------
(***************************************************************************)
(* With one controller on its store, and containers that can be removed, a *)
(* job never has two live containers and never loses track of one, for     *)
(* every number of runs, attempts and crashes and every other fault.  A    *)
(* pod that Kubernetes has been told to end is not counted as live, and    *)
(* with Docker there is none.                                              *)
(*                                                                         *)
(* SingleLive is not inductive.  Launch alone, in its two halves, makes a  *)
(* container live, so the invariant says where an operation may rely on    *)
(* there being none: before a launch, and wherever the row it writes gives *)
(* the job up.  Every clause bounds Live from above, so a step that only   *)
(* takes containers away preserves all of them (LiveShrinks).              *)
(***************************************************************************)
EXTENDS ControlPlane, FiniteSetTheorems, TLAPS

OneController == \A c, d \in Controllers : c = d

\* The container that run r, with columns x, stands for: until its ID is recorded,
\* the one launched for it.
Holder(r, x) == IF x.cid = 0 THEN r ELSE x.cid

\* Columns x of run r account for everything that is live.
Accounts(r, x) ==
    /\ Live \subseteq {Holder(r, x)}
    /\ x.phase \in {"blocked", "restarting"} => Live = {}

\* Only the newest run is active, nothing was launched beyond it, and at most one
\* container is live.
OneAtATime ==
    /\ Active \subseteq {last}
    /\ \A k \in Listed : k <= last
    /\ \A j, k \in Live : j = k

RowsAccount == \A r \in Active : Accounts(r, row[r])

\* No active run, no live container.
InactiveIsDown == JobExists /\ Active = {} => Live = {}

\* Before Submit there is nothing.
NothingYet ==
    job = "new" =>
        /\ Active = {} /\ Live = {} /\ submitting = NoController
        /\ \A c \in Controllers : op[c] = Idle

\* Delete may leave an unrecorded container, but not to a Submit under way.
DeleteLeaves ==
    job = "deleted" =>
        \A c \in Controllers :
            /\ submitting # NoController => Live = {} /\ op[c].pc = "idle"
            /\ op[c].pc = "create" => Live = {}

\* An unrecorded container needs a crash, which ends a Submit under way.
SubmitSeesRecorded ==
    submitting # NoController =>
        \A c \in Controllers, r \in Active :
            op[c].pc \in {"start", "record"} \/ row[r].cid # 0 \/ Live = {}

\* What a launching operation relies on.
LaunchInv(o) ==
    /\ o.pc \in {"launch", "start", "unlaunched", "record", "unrecorded"} =>
         /\ o.id = last /\ o.id # 0 /\ o.copy.active
         /\ row[o.id].active /\ row[o.id].cid = 0 /\ row[o.id].phase = "starting"
    /\ o.pc \in {"launch", "unlaunched", "unrecorded"} => Live = {}
    /\ o.pc \in {"start", "record"} => Live \subseteq {o.id}
    /\ o.pc = "record" => o.copy.cid = o.id /\ o.copy.phase = "running"

\* What an operation that stops or reconciles a run relies on.
HoldInv(o) ==
    /\ o.pc \in {"stop", "observed", "reattached"} =>
         /\ o.id = last /\ o.id # 0 /\ o.copy.active
         /\ Accounts(o.id, o.copy)
         /\ o.copy.cid = 0 /\ submitting # NoController => Live = {}
    /\ o.pc \in {"observed", "reattached"} =>
         /\ o.copy.cid # 0
         /\ o.st \notin LiveStates => Live = {}

\* What an operation that ends a run or a job relies on.
EndInv(o) ==
    /\ o.pc \in {"remove", "finish", "prune", "pruned"} => Live = {}
    /\ o.pc = "drop" /\ submitting # NoController => Live = {}

OpInv == \A c \in Controllers : LaunchInv(op[c]) /\ HoldInv(op[c]) /\ EndInv(op[c])

FenceInv ==
    /\ OneAtATime /\ RowsAccount /\ InactiveIsDown /\ NothingYet
    /\ DeleteLeaves /\ SubmitSeesRecorded /\ OpInv

-----------------------------------------------------------------------------
(* Types.                                                                  *)

OpRec == [pc : Pcs, kind : Kinds, id : 0..MaxRuns, copy : Row,
          st : CtrStates, want : {"none", "running", "stopped"}, to : Phases]

\* The values that the operations start from.
LEMMA BlankTypes == NoRow \in Row /\ Idle \in OpRec /\ MaxRuns \in Nat
<1>1. NoRow \in Row /\ MaxRuns \in Nat
  BY ControlAssumption DEF NoRow, Row, Phases
<1>2. QED
  BY <1>1 DEF Idle, OpRec, Pcs, Kinds, CtrStates, Phases

\* Overwriting fields of an operation with values of their types.
LEMMA OpWith ==
    ASSUME NEW o \in OpRec, NEW pc \in Pcs, NEW id \in 0..MaxRuns, NEW copy \in Row
    PROVE  /\ [o EXCEPT !.pc = pc, !.id = id, !.copy = copy] \in OpRec
           /\ \A kind \in Kinds, to \in Phases :
                [o EXCEPT !.pc = pc, !.kind = kind, !.id = id, !.copy = copy,
                          !.to = to] \in OpRec
           /\ \A kind \in Kinds, st \in CtrStates, want \in {"none", "running", "stopped"} :
                [o EXCEPT !.pc = pc, !.kind = kind, !.id = id, !.copy = copy,
                          !.st = st, !.want = want] \in OpRec
BY DEF OpRec

\* The same for a row.
LEMMA RowWith ==
    ASSUME NEW x \in Row, NEW cid \in 0..MaxRuns
    PROVE  /\ [x EXCEPT !.cid = cid] \in Row
           /\ \A phase \in Phases, active \in BOOLEAN :
                [x EXCEPT !.phase = phase, !.cid = cid, !.active = active] \in Row
BY DEF Row

\* An update keeps the table of runs well typed (store/sqlite.go UpdateRun).
LEMMA UpdateType ==
    ASSUME TypeOK, NEW r, NEW new \in Row, UpdateRun(r, new)
    PROVE  row' \in [Runs -> Row]
BY DEF TypeOK, UpdateRun

\* So does whatever is stored in an operation's record.
LEMMA BeginType ==
    ASSUME TypeOK, NEW c \in Controllers, NEW o \in OpRec, Begin(c, o)
    PROVE  op' \in [Controllers -> OpRec]
BY DEF TypeOK, Begin, OpRec

\* Returning, or going on at another place, keeps the operations well typed.
LEMMA StepType ==
    ASSUME TypeOK, NEW c \in Controllers,
           Return(c) \/ (\E pc \in Pcs : Step(c, pc))
    PROVE  op' \in [Controllers -> OpRec]
<1>1. CASE Return(c)
  BY <1>1, BlankTypes DEF TypeOK, Return, OpRec
<1>2. CASE \E pc \in Pcs : Step(c, pc)
  BY <1>2 DEF TypeOK, Step, OpRec
<1>3. QED
  BY <1>1, <1>2

\* Removing containers keeps the backend's view well typed.
LEMMA WithoutType ==
    ASSUME TypeOK, NEW ks
    PROVE  Without(ks) \in [Runs -> CtrStates]
BY DEF TypeOK, Without, Removed, CtrStates
\* Every step keeps the types.
LEMMA TypeStep ==
    ASSUME TypeOK, [Next]_vars
    PROVE  TypeOK'
<1> USE BlankTypes DEF Runs, storeVars, processVars
<1>1. CASE UNCHANGED vars
  BY <1>1 DEF TypeOK, vars
<1>2. ASSUME NEW c \in Controllers, User(c)
      PROVE  TypeOK'
  <2>1. CASE Submit(c)
    BY <2>1 DEF Submit, TypeOK
  <2>2. CASE Cancel(c)
    <3>1. job' \in {"new", "running", "stopped", "deleted"}
      BY <2>2 DEF Cancel
    <3>2. op' \in [Controllers -> OpRec]
      <4>1. ASSUME NEW r \in LatestActive
            PROVE  [Idle EXCEPT !.pc = "stop", !.kind = "cancel", !.id = r,
                                !.copy = row[r], !.to = "cancelled"] \in OpRec
        <5>1. row[r] \in Row /\ r \in 0..MaxRuns
          BY <4>1 DEF LatestActive, Active, TypeOK
        <5>2. /\ "stop" \in Pcs /\ "cancelled" \in Phases
              /\ "cancel" \in Kinds /\ "restart" \in Kinds
          BY DEF Pcs, Phases, Kinds
        <5>3. QED
          BY <5>1, <5>2, OpWith
      <4>2. QED
        BY <2>2, <4>1, BeginType DEF Cancel, TypeOK, OpRec
    <3>3. QED
      BY <2>2, <3>1, <3>2 DEF Cancel, TypeOK, OpRec
  <2>3. CASE Restart(c)
    <3>1. ASSUME NEW r \in LatestActive
          PROVE  [Idle EXCEPT !.pc = "stop", !.kind = "restart", !.id = r,
                              !.copy = row[r], !.to = "cancelled"] \in OpRec
      <4>1. row[r] \in Row /\ r \in 0..MaxRuns
        BY <3>1 DEF LatestActive, Active, TypeOK
      <4>2. /\ "stop" \in Pcs /\ "cancelled" \in Phases
            /\ "cancel" \in Kinds /\ "restart" \in Kinds
        BY DEF Pcs, Phases, Kinds
      <4>3. QED
        BY <4>1, <4>2, OpWith
    <3>2. [Idle EXCEPT !.pc = "desire", !.kind = "restart"] \in OpRec
      BY DEF Idle, OpRec, Pcs, Kinds, CtrStates, Phases
    <3>3. op' \in [Controllers -> OpRec]
      BY <2>3, <3>1, <3>2, BeginType DEF Restart
    <3>4. QED
      BY <2>3, <3>3 DEF Restart, TypeOK, OpRec
  <2>4. CASE Delete(c)
    <3>1. [Idle EXCEPT !.pc = "drop", !.kind = "delete"] \in OpRec
      BY DEF Idle, OpRec, Pcs, Kinds, CtrStates, Phases
    <3>2. op' \in [Controllers -> OpRec]
      BY <2>4, <3>1, BeginType DEF Delete, TypeOK, OpRec
    <3>3. ctr' \in [Runs -> CtrStates]
      <4> DEFINE stopped == {row[r].cid : r \in Active} \ {0}
      <4> DEFINE known == {row[r].cid : r \in Present} \ {0}
      <4>1. PICK st \in [stopped -> CtrStates], ks \in Removable(known) :
              LET left == [k \in Runs |-> IF k \in stopped THEN st[k] ELSE ctr[k]]
              IN  ctr' = [k \in Runs |-> IF k \in ks THEN Removed(left[k]) ELSE left[k]]
        BY <2>4 DEF Delete
      <4> DEFINE left == [k \in Runs |-> IF k \in stopped THEN st[k] ELSE ctr[k]]
      <4>2. \A x : Removed(x) \in CtrStates
        BY DEF Removed, CtrStates
      <4>3. left \in [Runs -> CtrStates]
        BY DEF TypeOK
      <4>4. ctr' = [k \in Runs |-> IF k \in ks THEN Removed(left[k]) ELSE left[k]]
        BY <4>1
      <4> HIDE DEF left
      <4>5. QED
        BY <4>2, <4>3, <4>4
    <3>4. QED
      BY <2>4, <3>2, <3>3 DEF Delete, TypeOK, OpRec
  <2>5. CASE SavepointAccepted(c)
    BY <2>5 DEF SavepointAccepted, TypeOK
  <2>6. QED
    BY <1>2, <2>1, <2>2, <2>3, <2>4, <2>5 DEF User
<1>3. ASSUME NEW c \in Controllers, SubmitLaunch(c)
      PROVE  TypeOK'
  <2>1. [Idle EXCEPT !.pc = "create", !.kind = "submit"] \in OpRec
    BY DEF Idle, OpRec, Pcs, Kinds, CtrStates, Phases
  <2>2. QED
    BY <1>3, <2>1, BeginType DEF SubmitLaunch, TypeOK, OpRec
<1>4. ASSUME NEW c \in Controllers, SavepointRecorded(c)
      PROVE  TypeOK'
  BY <1>4 DEF SavepointRecorded, TypeOK
<1>5. ASSUME NEW c \in Controllers, Crash(c)
      PROVE  TypeOK'
  <2>1. crashes' \in 0..MaxCrashes
    BY <1>5, ControlAssumption DEF Crash, TypeOK
  <2>2. op' \in [Controllers -> OpRec]
    BY <1>5 DEF Crash, TypeOK, OpRec
  <2>3. QED
    BY <1>5, <2>1, <2>2 DEF Crash, TypeOK, OpRec
<1>6. ASSUME NEW c \in Controllers, Boot(c)
      PROVE  TypeOK'
  BY <1>6, WithoutType DEF Boot, TypeOK
<1>7. ASSUME NEW k \in Runs, Container(k)
      PROVE  TypeOK'
  <2>1. ctr' \in [Runs -> CtrStates]
    <3>1. CASE ContainerVanishes(k)
      BY <3>1, WithoutType DEF ContainerVanishes
    <3>2. CASE ContainerStarts(k) \/ ContainerExits(k) \/ ContainerPaused(k) \/ ContainerEnds(k)
      <4>1. PICK st \in CtrStates : ctr' = [ctr EXCEPT ![k] = st]
        BY <3>2 DEF ContainerStarts, ContainerExits, ContainerPaused, ContainerEnds,
                    CtrStates, LiveStates
      <4>2. QED
        BY <4>1 DEF TypeOK
    <3>3. QED
      BY <1>7, <3>1, <3>2 DEF Container
  <2>2. QED
    BY <1>7, <2>1 DEF Container, ContainerStarts, ContainerExits, ContainerPaused,
                      ContainerVanishes, ContainerEnds, TypeOK
<1>8. ASSUME NEW c \in Controllers, NEW r \in Runs, Reconcile(c, r)
      PROVE  TypeOK'
  <2>1. CASE Relaunch(c, r)
    <3>1. [Idle EXCEPT !.pc = "finish", !.kind = "relaunch", !.id = r,
                       !.copy = row[r], !.to = "failed"] \in OpRec
      <4>1. row[r] \in Row /\ r \in 0..MaxRuns
        BY DEF TypeOK
      <4>2. "finish" \in Pcs /\ "failed" \in Phases /\ "relaunch" \in Kinds
        BY DEF Pcs, Phases, Kinds
      <4>3. QED
        BY <4>1, <4>2, OpWith
    <3>2. QED
      BY <2>1, <3>1, BeginType DEF Relaunch, TypeOK, OpRec
  <2>2. CASE Observe(c, r)
    <3>1. row[r].cid \in Runs /\ job \in {"running", "stopped"}
      BY <2>2 DEF Observe, Attached, JobExists, TypeOK, Row
    <3>2. [Idle EXCEPT !.pc = "observed", !.kind = "reconcile", !.id = r,
                       !.copy = row[r], !.st = Status(row[r].cid), !.want = job] \in OpRec
      <4>1. row[r] \in Row /\ r \in 0..MaxRuns /\ Status(row[r].cid) \in CtrStates
        BY <3>1 DEF TypeOK, Status, CtrStates
      <4>2. "observed" \in Pcs /\ "reconcile" \in Kinds
        BY DEF Pcs, Kinds
      <4>3. QED
        BY <3>1, <4>1, <4>2, OpWith, ZenonT(60)
    <3>3. QED
      BY <2>2, <3>2, BeginType DEF Observe, TypeOK, OpRec
  <2>3. CASE Reattach(c, r)
    <3>1. PICK k \in ManagedContainer :
            Begin(c, [Idle EXCEPT !.pc = "reattached", !.kind = "reconcile", !.id = r,
                                  !.copy = [row[r] EXCEPT !.cid = k], !.st = Status(k),
                                  !.want = job])
      BY <2>3 DEF Reattach
    <3>2. k \in Runs /\ job \in {"running", "stopped"}
      BY <2>3 DEF Reattach, Attached, JobExists, ManagedContainer, Listed
    <3>3. [row[r] EXCEPT !.cid = k] \in Row
      <4>1. row[r] \in Row /\ k \in 0..MaxRuns
        BY <3>2 DEF TypeOK
      <4>2. QED
        BY <4>1, RowWith
    <3>4. [Idle EXCEPT !.pc = "reattached", !.kind = "reconcile", !.id = r,
                       !.copy = [row[r] EXCEPT !.cid = k], !.st = Status(k),
                       !.want = job] \in OpRec
      <4>1. r \in 0..MaxRuns /\ Status(k) \in CtrStates
        BY <3>2 DEF TypeOK, Status, CtrStates
      <4>2. "reattached" \in Pcs /\ "reconcile" \in Kinds
        BY DEF Pcs, Kinds
      <4>3. QED
        BY <3>2, <3>3, <4>1, <4>2, OpWith, ZenonT(60)
    <3>5. QED
      BY <2>3, <3>1, <3>4, BeginType DEF Reattach, TypeOK, OpRec
  <2>4. QED
    BY <1>8, <2>1, <2>2, <2>3 DEF Reconcile
<1>9. ASSUME NEW c \in Controllers, Continue(c)
      PROVE  TypeOK'
  <2> DEFINE o == op[c]
  <2>0. /\ o \in OpRec /\ o.copy \in Row /\ o.id \in 0..MaxRuns
        /\ o.copy.phase \in Phases /\ o.copy.cid \in 0..MaxRuns
        /\ o.copy.attempt \in Nat /\ o.copy.active \in BOOLEAN
    <3>1. o \in OpRec /\ o.copy \in Row /\ o.id \in 0..MaxRuns
      BY DEF TypeOK, OpRec
    <3>2. QED
      BY <3>1 DEF Row
  <2>1. CASE StartRun(c)
    <3> DEFINE new == [phase |-> "starting", cid |-> 0, attempt |-> NextAttempt(o),
                       active |-> TRUE]
    <3>1. NextAttempt(o) \in Nat
      BY <2>0 DEF NextAttempt
    <3>2. new \in Row
      BY <3>1 DEF Row, Phases
    <3>3. CASE ~CanStartRun
      BY <2>1, <3>3, StepType DEF StartRun, TypeOK, OpRec
    <3>4. CASE CanStartRun
      <4>1. last + 1 \in 1..MaxRuns /\ last + 1 \in 0..MaxRuns /\ "launch" \in Pcs
        BY <3>4 DEF CanStartRun, TypeOK, Pcs
      <4>2. [o EXCEPT !.pc = "launch", !.id = last + 1, !.copy = new] \in OpRec
        <5> HIDE DEF new, o
        <5> QED
          BY <2>0, <3>2, <4>1, OpWith
      <4>3. /\ last' = last + 1 /\ row' = [row EXCEPT ![last + 1] = new]
            /\ Begin(c, [o EXCEPT !.pc = "launch", !.id = last + 1, !.copy = new])
            /\ UNCHANGED <<job, ctr, processVars>>
        BY <2>1, <3>4 DEF StartRun
      <4>4. op' \in [Controllers -> OpRec]
        BY <4>2, <4>3, BeginType
      <4>5. row' \in [Runs -> Row] /\ last' \in 0..MaxRuns
        BY <3>2, <4>1, <4>3 DEF TypeOK
      <4>6. QED
        BY <4>3, <4>4, <4>5 DEF TypeOK, OpRec
    <3>5. QED
      BY <3>3, <3>4
  <2>2. CASE CreateContainer(c) \/ StartContainer(c)
    <3>1. [o EXCEPT !.pc = "record", !.copy.cid = o.id, !.copy.phase = "running"] \in OpRec
      BY <2>0 DEF OpRec, Pcs, Row, Phases
    <3>2. op' \in [Controllers -> OpRec]
      BY <2>2, <3>1, BeginType, StepType DEF CreateContainer, StartContainer, Pcs
    <3>3. ctr' \in [Runs -> CtrStates]
      BY <2>2 DEF CreateContainer, StartContainer, TypeOK, CtrStates, LiveStates
    <3>4. QED
      BY <2>2, <3>2, <3>3 DEF CreateContainer, StartContainer, TypeOK, OpRec
  <2>3. CASE LaunchGivesUp(c) \/ LaunchBlocked(c)
    <3>1. /\ [o.copy EXCEPT !.phase = "restarting"] \in Row
          /\ [o.copy EXCEPT !.phase = "failed", !.active = FALSE] \in Row
          /\ [o.copy EXCEPT !.phase = "blocked"] \in Row
      BY <2>0 DEF Row, Phases
    <3>2. row' \in [Runs -> Row]
      BY <2>3, <3>1, UpdateType DEF LaunchGivesUp, LaunchBlocked
    <3>3. op' \in [Controllers -> OpRec]
      BY <2>3, StepType DEF LaunchGivesUp, LaunchBlocked
    <3>4. QED
      BY <2>3, <3>2, <3>3 DEF LaunchGivesUp, LaunchBlocked, TypeOK, OpRec
  <2>4. CASE RecordRun(c)
    <3>1. row' \in [Runs -> Row] /\ op' \in [Controllers -> OpRec]
      BY <2>0, <2>4, UpdateType, StepType DEF RecordRun
    <3>2. QED
      BY <2>4, <3>1 DEF RecordRun, TypeOK, OpRec
  <2>5. CASE MarkLaunchRecordFailure(c)
    <3>1. [o.copy EXCEPT !.phase = "failed", !.cid = 0, !.active = FALSE] \in Row
      <4>1. "failed" \in Phases /\ 0 \in 0..MaxRuns /\ FALSE \in BOOLEAN
        BY DEF Phases
      <4>2. QED
        BY <2>0, <4>1, RowWith
    <3>2. row' \in [Runs -> Row]
      BY <2>5, <3>1, UpdateType DEF MarkLaunchRecordFailure, TypeOK
    <3>3. op' \in [Controllers -> OpRec]
      BY <2>5, StepType DEF MarkLaunchRecordFailure
    <3>4. QED
      BY <2>5, <3>2, <3>3 DEF MarkLaunchRecordFailure, TypeOK, OpRec
  <2>6. CASE Stop(c)
    <3>1. PICK st \in StopOutcomes(ctr[o.copy.cid]) : ctr' = [ctr EXCEPT ![o.copy.cid] = st]
      BY <2>6 DEF Stop
    <3>2. o.copy.cid \in Runs
      BY <2>0, <2>6 DEF Stop
    <3>3. st \in CtrStates
      BY <3>1, <3>2 DEF StopOutcomes, CtrStates, TypeOK
    <3>4. ctr' \in [Runs -> CtrStates]
      BY <3>1, <3>3 DEF TypeOK
    <3>5. op' \in [Controllers -> OpRec]
      BY <2>6, StepType DEF Stop, Pcs
    <3>6. QED
      BY <2>6, <3>4, <3>5 DEF Stop, TypeOK, OpRec
  <2>16. CASE LaunchFails(c) \/ RecordFails(c) \/ RemoveStopped(c)
    <3>1. ctr' \in [Runs -> CtrStates]
      BY <2>16, WithoutType DEF LaunchFails, RecordFails, RemoveStopped
    <3>2. op' \in [Controllers -> OpRec]
      BY <2>16, StepType DEF LaunchFails, RecordFails, RemoveStopped, Pcs
    <3>3. QED
      BY <2>16, <3>1, <3>2 DEF LaunchFails, RecordFails, RemoveStopped, TypeOK, OpRec
  <2>7. CASE StopFails(c)
    <3>1. row' \in [Runs -> Row]
      BY <2>0, <2>7, UpdateType DEF StopFails, TypeOK
    <3>2. op' \in [Controllers -> OpRec]
      BY <2>7, StepType DEF StopFails
    <3>3. QED
      BY <2>7, <3>1, <3>2 DEF StopFails, TypeOK, OpRec
  <2>8. CASE FinishRun(c)
    <3> DEFINE new == [o.copy EXCEPT !.phase = o.to, !.active = FALSE]
    <3>1. new \in Row
      BY <2>0 DEF Row, OpRec
    <3>2. row' \in [Runs -> Row]
      BY <2>8, <3>1, UpdateType DEF FinishRun
    <3>3. op' \in [Controllers -> OpRec]
      BY <2>8, StepType DEF FinishRun, Pcs
    <3>4. QED
      BY <2>8, <3>2, <3>3 DEF FinishRun, TypeOK, OpRec
  <2>17. CASE PruneContainers(c) \/ PruneTerminalRuns(c)
    <3>1. AfterFinish(o) \in OpRec
      <4>1. /\ [Idle EXCEPT !.pc = "desire", !.kind = o.kind] \in OpRec
            /\ [Idle EXCEPT !.pc = "create", !.kind = o.kind, !.copy = o.copy] \in OpRec
        BY <2>0 DEF OpRec, Pcs
      <4>2. QED
        BY <4>1 DEF AfterFinish
    <3>2. op' \in [Controllers -> OpRec]
      BY <2>17, <3>1, BeginType, StepType DEF PruneContainers, PruneTerminalRuns, Pcs
    <3>3. row' \in [Runs -> Row] /\ ctr' \in [Runs -> CtrStates]
      BY <2>17, WithoutType DEF PruneContainers, PruneTerminalRuns, TypeOK
    <3>4. QED
      BY <2>17, <3>2, <3>3 DEF PruneContainers, PruneTerminalRuns, TypeOK, OpRec
  <2>9. CASE SetDesiredRunning(c)
    <3>1. op' \in [Controllers -> OpRec]
      BY <2>9, StepType DEF SetDesiredRunning, Pcs
    <3>2. job' \in {"new", "running", "stopped", "deleted"}
      BY <2>9 DEF SetDesiredRunning, TypeOK
    <3>3. QED
      BY <2>9, <3>1, <3>2 DEF SetDesiredRunning, TypeOK, OpRec
  <2>10. CASE DeleteJob(c)
    BY <2>10, StepType DEF DeleteJob, TypeOK, OpRec
  <2>11. CASE ReattachLive(c) \/ KeepRunning(c)
    <3>1. \A phase \in {o.copy.phase, PhaseOf(o.st)} : [o.copy EXCEPT !.phase = phase] \in Row
      BY <2>0 DEF PhaseOf, Row, Phases
    <3>2. row' \in [Runs -> Row]
      BY <2>0, <2>11, <3>1, UpdateType DEF ReattachLive, KeepRunning, TypeOK
    <3>3. op' \in [Controllers -> OpRec]
      BY <2>11, StepType DEF ReattachLive, KeepRunning
    <3>4. QED
      BY <2>11, <3>2, <3>3 DEF ReattachLive, KeepRunning, TypeOK, OpRec
  <2>12. CASE ReattachOther(c)
    <3>1. op' \in [Controllers -> OpRec]
      BY <2>12, StepType DEF ReattachOther, Pcs
    <3>2. QED
      BY <2>12, <3>1 DEF ReattachOther, TypeOK, OpRec
  <2>13. CASE ReconcileStop(c)
    <3>1. [o EXCEPT !.pc = "stop", !.st = "none", !.want = "none", !.to = "cancelled"] \in OpRec
      BY <2>0 DEF OpRec, Pcs, Phases, CtrStates
    <3>2. QED
      BY <2>13, <3>1, BeginType DEF ReconcileStop, TypeOK, OpRec
  <2>14. CASE HandleExit(c)
    <3>1. [o.copy EXCEPT !.phase = "restarting"] \in Row
      BY <2>0 DEF Row, Phases
    <3>2. [o EXCEPT !.pc = "finish", !.st = "none", !.want = "none",
                     !.to = ExitPhase(o)] \in OpRec
      <4>1. ExitPhase(o) \in Phases
        BY DEF ExitPhase, Phases
      <4>2. "finish" \in Pcs /\ "none" \in CtrStates
        BY DEF Pcs, CtrStates
      <4>3. QED
        BY <2>0, <4>1, <4>2 DEF OpRec
    <3>3. row' \in [Runs -> Row]
      BY <2>14, <3>1, UpdateType DEF HandleExit, TypeOK
    <3>4. op' \in [Controllers -> OpRec]
      BY <2>14, <3>2, BeginType, StepType DEF HandleExit
    <3>5. QED
      BY <2>14, <3>3, <3>4 DEF HandleExit, TypeOK, OpRec
  <2>15. QED
    BY <1>9, <2>1, <2>2, <2>3, <2>4, <2>5, <2>6, <2>7, <2>8, <2>9, <2>10, <2>11, <2>12,
       <2>13, <2>14, <2>16, <2>17 DEF Continue
<1>10. QED
  BY <1>1, <1>2, <1>3, <1>4, <1>5, <1>6, <1>7, <1>8, <1>9 DEF Next

\* Every reachable state is well typed, whatever fails and however many controllers
\* share the store: jobs, rows and operations hold only the values the controller
\* writes (controller.go, store/sqlite.go).
THEOREM ControlTypeCorrect == Spec => []TypeOK
<1>1. Init => TypeOK
  BY BlankTypes, ControlAssumption DEF Init, TypeOK, OpRec, CtrStates, Runs
<1>2. TypeOK /\ [Next]_vars => TypeOK'
  BY TypeStep
<1>3. QED
  BY <1>1, <1>2, PTL DEF Spec
-----------------------------------------------------------------------------
(* The fence.                                                              *)

\* A step that leaves rows and operations alone and launches nothing.
LEMMA LiveShrinks ==
    ASSUME FenceInv, UNCHANGED <<storeVars, op>>, submitting' \in {submitting, NoController},
           Live' \subseteq Live, Listed' \subseteq Listed
    PROVE  FenceInv'
<1> USE DEF storeVars
<1>1. Active' = Active /\ (JobExists <=> JobExists')
  BY DEF Active, JobExists
<1>2. OneAtATime' /\ RowsAccount' /\ InactiveIsDown'
  BY <1>1 DEF FenceInv, OneAtATime, RowsAccount, Accounts, Holder, InactiveIsDown
<1>3. NothingYet' /\ DeleteLeaves'
  BY <1>1 DEF FenceInv, NothingYet, DeleteLeaves
<1>4. SubmitSeesRecorded'
  BY <1>1 DEF FenceInv, SubmitSeesRecorded
<1>5. OpInv'
  BY DEF FenceInv, OpInv, LaunchInv, HoldInv, EndInv, Accounts, Holder
<1>6. QED
  BY <1>2, <1>3, <1>4, <1>5 DEF FenceInv

\* A step of the controller that writes no row: what is left to show is what the
\* operation relies on next.
LEMMA OpMoves ==
    ASSUME OneController, FenceInv, NEW c \in Controllers,
           UNCHANGED <<row, last>>, Live' \subseteq Live, Listed' \subseteq Listed,
           job' # "new", JobExists' => JobExists,
           submitting' \in {submitting, NoController},
           op[c].pc \in {"start", "record"} /\ submitting' # NoController => Live' = {},
           job' = "deleted" =>
               /\ submitting' # NoController => Live' = {} /\ op'[c].pc = "idle"
               /\ op'[c].pc = "create" => Live' = {},
           LaunchInv(op[c])', HoldInv(op[c])', EndInv(op[c])'
    PROVE  FenceInv'
<1>1. Active' = Active /\ \A d \in Controllers : d = c
  BY DEF Active, OneController
<1>2. OneAtATime' /\ RowsAccount' /\ InactiveIsDown'
  BY <1>1 DEF FenceInv, OneAtATime, RowsAccount, Accounts, Holder, InactiveIsDown
<1>3. NothingYet' /\ DeleteLeaves'
  BY <1>1 DEF NothingYet, DeleteLeaves
<1>4. SubmitSeesRecorded'
  BY <1>1 DEF FenceInv, SubmitSeesRecorded
<1>5. OpInv'
  BY <1>1 DEF OpInv
<1>6. QED
  BY <1>2, <1>3, <1>4, <1>5 DEF FenceInv

\* Nothing has to hold of an operation that is over.
LEMMA IdleHolds ==
    ASSUME TypeOK, NEW c \in Controllers, Return(c)
    PROVE  /\ op'[c] = Idle /\ op'[c].pc = "idle"
           /\ LaunchInv(op[c])' /\ HoldInv(op[c])' /\ EndInv(op[c])'
<1>1. op'[c] = Idle /\ op'[c].pc = "idle"
  BY DEF TypeOK, Return, Idle
<1>2. QED
  BY <1>1 DEF LaunchInv, HoldInv, EndInv

\* A write of the newest run's row that ends the operation.
LEMMA RowWrite ==
    ASSUME OneController, TypeOK, FenceInv, NEW c \in Controllers, NEW new \in Row,
           op[c].pc # "idle", last # 0,
           UpdateRun(last, new), Return(c), UNCHANGED <<job, last, submitting>>,
           Live' \subseteq Live, Listed' \subseteq Listed,
           new.active =>
               /\ Live' \subseteq {Holder(last, new)}
               /\ new.phase \in {"blocked", "restarting"} => Live' = {}
               /\ new.cid = 0 /\ submitting # NoController => Live' = {},
           ~new.active => Live' = {},
           op[c].pc \in {"start", "record"} => Updatable(last, new) \/ Live' = {}
    PROVE  FenceInv'
<1>1. job # "new" /\ (job = "deleted" => submitting = NoController)
  BY DEF FenceInv, NothingYet, DeleteLeaves, Idle
<1>2. /\ op'[c].pc = "idle"
      /\ LaunchInv(op[c])' /\ HoldInv(op[c])' /\ EndInv(op[c])'
  BY IdleHolds
<1>3. CASE ~Updatable(last, new)
  <2>1. row' = row
    BY <1>3 DEF UpdateRun
  <2>2. QED
    BY <1>1, <1>2, <1>3, <2>1, OpMoves DEF JobExists
<1>4. CASE Updatable(last, new)
  <2>1. last \in Runs /\ row' = [row EXCEPT ![last] = new] /\ row \in [Runs -> Row]
    BY <1>4, BlankTypes DEF UpdateRun, TypeOK, Runs
  <2>2. /\ row'[last] = new
        /\ \A r \in Runs : r # last => row'[r] = row[r]
    BY <2>1
  <2>3. Active' = IF new.active THEN {last} ELSE {}
    BY <2>1, <2>2 DEF FenceInv, OneAtATime, Active
  <2>4. \A d \in Controllers : d = c
    BY DEF OneController
  <2>5. OneAtATime' /\ RowsAccount'
    BY <2>2, <2>3 DEF FenceInv, OneAtATime, RowsAccount, Accounts, Holder
  <2>6. InactiveIsDown' /\ NothingYet'
    BY <1>1, <2>3 DEF InactiveIsDown, NothingYet
  <2>7. DeleteLeaves'
    BY <1>1, <1>2, <2>4 DEF DeleteLeaves
  <2>8. SubmitSeesRecorded'
    BY <2>2, <2>3 DEF SubmitSeesRecorded
  <2>9. OpInv'
    BY <1>2, <2>4 DEF OpInv
  <2>10. QED
    BY <2>5, <2>6, <2>7, <2>8, <2>9 DEF FenceInv
<1>5. QED
  BY <1>3, <1>4
\* Removing containers launches none, and those removed are down.
LEMMA WithoutShrinks ==
    ASSUME TypeOK, NEW ks, ctr' = Without(ks)
    PROVE  Live' \subseteq Live \ ks /\ Listed' \subseteq Listed
BY DEF TypeOK, Without, Removed, Live, Listed, LiveStates

\* Nor does leaving the containers alone.
LEMMA SameContainers ==
    ASSUME ctr' = ctr
    PROVE  Live' = Live /\ Listed' = Listed
BY DEF Live, Listed

\* Nor what containers do by themselves.
LEMMA ContainerShrinks ==
    ASSUME TypeOK, NEW k \in Runs, Container(k)
    PROVE  Live' \subseteq Live /\ Listed' \subseteq Listed
<1>1. CASE ContainerVanishes(k)
  BY <1>1, WithoutShrinks DEF ContainerVanishes
<1>2. CASE ContainerStarts(k) \/ ContainerExits(k) \/ ContainerPaused(k) \/ ContainerEnds(k)
  BY <1>2 DEF ContainerStarts, ContainerExits, ContainerPaused, ContainerEnds,
              TypeOK, Live, Listed, LiveStates
<1>3. QED
  BY <1>1, <1>2 DEF Container

\* Begin installs the record it is given.
LEMMA Begun ==
    ASSUME TypeOK, NEW c \in Controllers, NEW o, Begin(c, o)
    PROVE  op'[c] = o
BY DEF TypeOK, Begin

\* Cancel and Restart may rely on the row they read of the active run.
LEMMA StopBegins ==
    ASSUME OneController, TypeOK, FenceInv, NEW c \in Controllers,
           op[c] = Idle, JobExists, JobExists', NEW r \in LatestActive,
           op'[c].pc = "stop", op'[c].id = r, op'[c].copy = row[r],
           UNCHANGED <<row, last, ctr, submitting>>
    PROVE  FenceInv'
<1>1. r \in Active /\ r = last /\ r # 0 /\ row[r].active
  BY DEF LatestActive, Active, FenceInv, OneAtATime, Runs
<1>2. op[c].pc \notin {"start", "record"}
  BY DEF Idle
<1>3. Accounts(r, row[r]) /\ (row[r].cid = 0 /\ submitting # NoController => Live = {})
  BY <1>1, <1>2 DEF FenceInv, RowsAccount, SubmitSeesRecorded
<1>4. LaunchInv(op[c])' /\ HoldInv(op[c])' /\ EndInv(op[c])'
  BY <1>1, <1>3, SameContainers DEF LaunchInv, HoldInv, EndInv, Accounts
<1>5. QED
  BY <1>2, <1>4, SameContainers, OpMoves DEF JobExists

\* Calls of the API keep the fence.
LEMMA UserFence ==
    ASSUME OneController, TypeOK, FenceInv, NEW c \in Controllers, User(c)
    PROVE  FenceInv'
<1> USE DEF storeVars, processVars
<1>0. /\ \A d \in Controllers : d = c
      /\ NoController \notin Controllers
      /\ op[c].pc # "idle" => op[c] # Idle
  BY ControlAssumption DEF OneController, Idle
<1>1. CASE Submit(c)
  <2>1. /\ Active' = {} /\ Live' = {} /\ Listed' = Listed /\ last' = last
        /\ op'[c] = Idle /\ job' = "running"
    <3>1. Active = {} /\ Live = {} /\ op[c] = Idle
      BY <1>1 DEF Submit, FenceInv, NothingYet
    <3>2. QED
      BY <1>1, <3>1, SameContainers DEF Submit, Active
  <2>2. op'[c].pc = "idle"
    BY <2>1 DEF Idle
  <2>3. OneAtATime' /\ RowsAccount' /\ InactiveIsDown'
    BY <2>1 DEF FenceInv, OneAtATime, RowsAccount, InactiveIsDown
  <2>4. NothingYet' /\ DeleteLeaves' /\ SubmitSeesRecorded'
    BY <2>1 DEF NothingYet, DeleteLeaves, SubmitSeesRecorded
  <2>5. OpInv'
    BY <1>0, <2>2 DEF OpInv, LaunchInv, HoldInv, EndInv
  <2>6. QED
    BY <2>3, <2>4, <2>5 DEF FenceInv
<1>2. CASE Cancel(c)
  <2>1. /\ op[c] = Idle /\ JobExists /\ job' = "stopped"
        /\ UNCHANGED <<row, last, ctr, submitting>>
    BY <1>2 DEF Cancel, Free
  <2>2. CASE LatestActive = {} /\ UNCHANGED op
    BY <1>0, <2>1, <2>2, SameContainers, OpMoves
       DEF Idle, LaunchInv, HoldInv, EndInv
  <2>3. ASSUME NEW r \in LatestActive,
               Begin(c, [Idle EXCEPT !.pc = "stop", !.kind = "cancel", !.id = r,
                                     !.copy = row[r], !.to = "cancelled"])
        PROVE  FenceInv'
    <3>1. op'[c] = [Idle EXCEPT !.pc = "stop", !.kind = "cancel", !.id = r,
                                !.copy = row[r], !.to = "cancelled"]
      BY <2>3, Begun
    <3>2. op'[c].pc = "stop" /\ op'[c].id = r /\ op'[c].copy = row[r]
      BY <3>1 DEF Idle
    <3>3. QED
      BY <2>1, <3>2, StopBegins DEF JobExists
  <2>4. QED
    BY <1>2, <2>2, <2>3 DEF Cancel
<1>3. CASE Restart(c)
  <2>1. op[c] = Idle /\ JobExists /\ UNCHANGED <<job, row, last, ctr, submitting>>
    BY <1>3 DEF Restart, Free
  <2>2. CASE Begin(c, [Idle EXCEPT !.pc = "desire", !.kind = "restart"])
    <3>1. op'[c].pc = "desire"
      BY <2>2, Begun DEF Idle
    <3>2. QED
      BY <2>1, <3>1, SameContainers, OpMoves
         DEF Idle, LaunchInv, HoldInv, EndInv, JobExists
  <2>3. ASSUME NEW r \in LatestActive,
               Begin(c, [Idle EXCEPT !.pc = "stop", !.kind = "restart", !.id = r,
                                     !.copy = row[r], !.to = "cancelled"])
        PROVE  FenceInv'
    <3>1. op'[c] = [Idle EXCEPT !.pc = "stop", !.kind = "restart", !.id = r,
                                !.copy = row[r], !.to = "cancelled"]
      BY <2>3, Begun
    <3>2. op'[c].pc = "stop" /\ op'[c].id = r /\ op'[c].copy = row[r]
      BY <3>1 DEF Idle
    <3>3. QED
      BY <2>1, <3>2, StopBegins DEF JobExists
  <2>4. QED
    BY <1>3, <2>2, <2>3 DEF Restart
<1>4. CASE Delete(c)
  <2> DEFINE known == {row[r].cid : r \in Present} \ {0}
             stopped == {row[r].cid : r \in Active} \ {0}
  <2>1. op[c] = Idle /\ JobExists /\ UNCHANGED <<job, row, last, submitting>>
    BY <1>4 DEF Delete, Free
  <2>2. PICK st \in [stopped -> CtrStates], ks \in Removable(known) :
          LET left == [k \in Runs |-> IF k \in stopped THEN st[k] ELSE ctr[k]]
          IN  /\ \A k \in stopped : st[k] \in StopOutcomes(ctr[k]) \cup {ctr[k]}
              /\ ctr' = [k \in Runs |-> IF k \in ks THEN Removed(left[k]) ELSE left[k]]
              /\ \/ /\ ks = known
                    /\ Begin(c, [Idle EXCEPT !.pc = "drop", !.kind = "delete"])
                 \/ UNCHANGED op
    BY <1>4 DEF Delete
  <2>6. Live' \subseteq Live \ ks /\ Listed' \subseteq Listed
    <3>1. \A x : Removed(x) \in {"ending", "gone"}
      BY DEF Removed
    <3>2. ASSUME NEW k \in Runs, NEW x \in StopOutcomes(ctr[k]) \cup {ctr[k]}
          PROVE  /\ x \in LiveStates => ctr[k] \in LiveStates
                 /\ x \notin {"none", "ending", "gone"} =>
                      ctr[k] \notin {"none", "ending", "gone"}
      BY DEF StopOutcomes, LiveStates
    <3>3. ASSUME NEW k \in Runs
          PROVE  \/ ctr'[k] \in {"ending", "gone"}
                 \/ k \notin ks /\ ctr'[k] \in StopOutcomes(ctr[k]) \cup {ctr[k]}
      BY <2>2, <3>1
    <3>4. QED
      BY <3>2, <3>3 DEF Live, Listed, LiveStates
  <2>3. CASE UNCHANGED op
    BY <2>1, <2>3, <2>6, LiveShrinks
  <2>4. CASE /\ ks = known
             /\ Begin(c, [Idle EXCEPT !.pc = "drop", !.kind = "delete"])
    <3>1. op'[c].pc = "drop"
      BY <2>4, Begun DEF Idle
    <3>2. submitting # NoController => Live \subseteq known
      <4>1. op[c].pc \notin {"start", "record"}
        BY <2>1 DEF Idle
      <4>2. ASSUME submitting # NoController, NEW k \in Live
            PROVE  k \in known
        <5>1. PICK r \in Active : TRUE
          BY <2>1, <4>2 DEF FenceInv, InactiveIsDown
        <5>2. row[r].cid = k /\ k # 0
          BY <4>1, <4>2, <5>1
             DEF FenceInv, RowsAccount, Accounts, Holder, SubmitSeesRecorded, Live, Runs
        <5>3. r \in Present
          BY <5>1 DEF Active, Present, NoRow
        <5>4. QED
          BY <5>2, <5>3
      <4>3. QED
        BY <4>2
    <3>3. submitting # NoController => Live' = {}
      BY <2>4, <2>6, <3>2
    <3>4. LaunchInv(op[c])' /\ HoldInv(op[c])' /\ EndInv(op[c])'
      BY <2>1, <3>1, <3>3 DEF LaunchInv, HoldInv, EndInv
    <3>5. QED
      BY <2>1, <2>6, <3>1, <3>3, <3>4, OpMoves DEF Idle, JobExists
  <2>5. QED
    BY <2>2, <2>3, <2>4
<1>5. CASE SavepointAccepted(c)
  BY <1>5, SameContainers, LiveShrinks DEF SavepointAccepted
<1>6. QED
  BY <1>1, <1>2, <1>3, <1>4, <1>5 DEF User

\* So does the reconciler's choice of a run.
LEMMA ReconcileFence ==
    ASSUME OneController, TypeOK, FenceInv, NEW c \in Controllers, NEW r \in Runs,
           Reconcile(c, r)
    PROVE  FenceInv'
<1> USE DEF storeVars, processVars
<1>1. /\ op[c] = Idle /\ op[c].pc = "idle" /\ row[r].active /\ JobExists
      /\ UNCHANGED <<job, row, last, ctr, submitting>>
  <2>1. CASE Relaunch(c, r)
    BY <2>1 DEF Relaunch, Free, JobExists, Idle
  <2>2. CASE Observe(c, r)
    BY <2>2 DEF Observe, Attached, Free, Idle
  <2>3. CASE Reattach(c, r)
    BY <2>3 DEF Reattach, Attached, Free, Idle
  <2>4. QED
    BY <2>1, <2>2, <2>3 DEF Reconcile
<1>2. r \in Active /\ r = last /\ r # 0 /\ Live' = Live /\ Listed' = Listed
  BY <1>1, SameContainers DEF FenceInv, OneAtATime, Active, Runs
<1>3. Accounts(r, row[r]) /\ (row[r].cid = 0 /\ submitting # NoController => Live = {})
  BY <1>1, <1>2 DEF FenceInv, RowsAccount, SubmitSeesRecorded
<1>4. SUFFICES LaunchInv(op[c])' /\ HoldInv(op[c])' /\ EndInv(op[c])'
  BY <1>1, <1>2, OpMoves DEF JobExists
<1>5. CASE Relaunch(c, r)
  <2>1. op'[c].pc = "finish"
    <3>1. op'[c] = [Idle EXCEPT !.pc = "finish", !.kind = "relaunch", !.id = r,
                                !.copy = row[r], !.to = "failed"]
      BY <1>5, Begun DEF Relaunch
    <3>2. QED
      BY <3>1 DEF Idle
  <2>2. Live = {}
    BY <1>3, <1>5 DEF Relaunch, Accounts
  <2>3. QED
    BY <1>2, <2>1, <2>2 DEF LaunchInv, HoldInv, EndInv
<1>6. CASE Observe(c, r)
  <2>1. /\ op'[c].pc = "observed" /\ op'[c].id = r /\ op'[c].copy = row[r]
        /\ op'[c].st = Status(row[r].cid) /\ row[r].cid # 0
    <3>1. op'[c] = [Idle EXCEPT !.pc = "observed", !.kind = "reconcile", !.id = r,
                                !.copy = row[r], !.st = Status(row[r].cid), !.want = job]
      BY <1>6, Begun DEF Observe
    <3>2. row[r].cid # 0
      BY <1>6 DEF Observe
    <3>3. QED
      BY <3>1, <3>2 DEF Idle
  <2>2. Status(row[r].cid) \notin LiveStates => Live = {}
    BY <1>3, <2>1 DEF Accounts, Holder, Live, Status, LiveStates
  <2>3. QED
    BY <1>1, <1>2, <1>3, <2>1, <2>2 DEF LaunchInv, HoldInv, EndInv, Accounts
<1>7. CASE Reattach(c, r)
  <2>1. PICK k \in ManagedContainer :
          Begin(c, [Idle EXCEPT !.pc = "reattached", !.kind = "reconcile", !.id = r,
                                !.copy = [row[r] EXCEPT !.cid = k], !.st = Status(k),
                                !.want = job])
    BY <1>7 DEF Reattach
  <2>2. row[r].cid = 0 /\ row[r] \in Row /\ k \in Runs /\ k # 0
    BY <1>7 DEF Reattach, ManagedContainer, Listed, TypeOK, Runs
  <2>3. /\ op'[c].pc = "reattached" /\ op'[c].id = r /\ op'[c].st = Status(k)
        /\ op'[c].copy = [row[r] EXCEPT !.cid = k]
    <3>1. op'[c] = [Idle EXCEPT !.pc = "reattached", !.kind = "reconcile", !.id = r,
                                !.copy = [row[r] EXCEPT !.cid = k], !.st = Status(k),
                                !.want = job]
      BY <2>1, Begun
    <3>2. QED
      BY <3>1 DEF Idle
  <2>4. /\ op'[c].copy.cid = k /\ op'[c].copy.phase = row[r].phase
        /\ op'[c].copy.active
    BY <1>1, <2>2, <2>3 DEF Row
  <2>5. Live \subseteq {k}
    <3>1. Live \subseteq {last} /\ Live \subseteq Listed
      BY <1>2, <1>3, <2>2 DEF Accounts, Holder, Live, Listed, LiveStates
    <3>2. last \in Live => k = last
      BY <2>1, <3>1, BlankTypes DEF ManagedContainer, FenceInv, OneAtATime, TypeOK, Listed, Runs
    <3>3. QED
      BY <3>1, <3>2
  <2>6. Status(k) \notin LiveStates => Live = {}
    BY <2>5 DEF Live, Status, LiveStates
  <2>7. QED
    BY <1>1, <1>2, <1>3, <2>2, <2>3, <2>4, <2>5, <2>6
       DEF LaunchInv, HoldInv, EndInv, Accounts, Holder
<1>8. QED
  BY <1>5, <1>6, <1>7 DEF Reconcile
\* So does every step of an operation under the job lock.
LEMMA ContinueFence ==
    ASSUME OneController, "remove" \notin Faults, TypeOK, FenceInv,
           NEW c \in Controllers, Continue(c)
    PROVE  FenceInv'
<1> USE DEF storeVars, processVars
<1> DEFINE o == op[c]
<1>0. /\ o \in OpRec /\ o.copy \in Row /\ o.id \in 0..MaxRuns
      /\ o.copy.cid \in 0..MaxRuns /\ o.copy.active \in BOOLEAN
      /\ LaunchInv(o) /\ HoldInv(o) /\ EndInv(o)
  <2>1. o \in OpRec /\ o.copy \in Row /\ o.id \in 0..MaxRuns
    BY DEF TypeOK, OpRec
  <2>2. QED
    BY <2>1 DEF Row, FenceInv, OpInv
<1>1. ASSUME o.pc # "idle"
      PROVE  /\ job # "new"
             /\ job = "deleted" => submitting = NoController /\ (o.pc = "create" => Live = {})
  BY <1>1 DEF FenceInv, NothingYet, DeleteLeaves, Idle
<1>2. CASE StartRun(c)
  <2> DEFINE new == [phase |-> "starting", cid |-> 0, attempt |-> NextAttempt(o),
                     active |-> TRUE]
  <2>1. o.pc = "create" /\ UNCHANGED <<job, ctr, submitting>>
    BY <1>2 DEF StartRun
  <2>2. Live' = Live /\ Listed' = Listed
    BY <2>1, SameContainers
  <2>3. CASE ~CanStartRun
    <3>1. Return(c) /\ UNCHANGED <<row, last>>
      BY <1>2, <2>3 DEF StartRun
    <3>2. QED
      BY <1>1, <2>1, <2>2, <3>1, IdleHolds, OpMoves DEF JobExists
  <2>4. CASE CanStartRun
    <3>1. /\ last' = last + 1 /\ row' = [row EXCEPT ![last + 1] = new]
          /\ Begin(c, [o EXCEPT !.pc = "launch", !.id = last + 1, !.copy = new])
      BY <1>2, <2>4 DEF StartRun
    <3>2. last \in Nat /\ last + 1 \in Runs /\ Active = {}
      BY <2>4, BlankTypes DEF CanStartRun, TypeOK, Runs
    <3>3. op'[c].pc = "launch" /\ op'[c].id = last + 1 /\ op'[c].copy = new
      <4>1. op'[c] = [o EXCEPT !.pc = "launch", !.id = last + 1, !.copy = new]
        BY <3>1, Begun
      <4>2. QED
        BY <1>0, <4>1 DEF OpRec
    <3>4. row'[last + 1] = new /\ Active' = {last + 1}
      <4>1. /\ row'[last + 1] = new
            /\ \A r \in Runs : r # last + 1 => row'[r] = row[r]
        BY <3>1, <3>2 DEF TypeOK
      <4>2. QED
        BY <3>2, <4>1 DEF Active
    <3>5. Live = {}
      BY <1>1, <2>1, <3>2 DEF FenceInv, InactiveIsDown, JobExists, TypeOK
    <3>6. \A d \in Controllers : d = c
      BY DEF OneController
    <3>7. \A k \in Listed : k <= last'
      BY <3>1, <3>2, BlankTypes DEF FenceInv, OneAtATime, Listed, Runs
    <3>8. OneAtATime' /\ RowsAccount' /\ InactiveIsDown'
      BY <2>2, <3>1, <3>4, <3>5, <3>7 DEF OneAtATime, RowsAccount, Accounts, InactiveIsDown
    <3>9. NothingYet' /\ DeleteLeaves' /\ SubmitSeesRecorded'
      BY <1>1, <2>1, <2>2, <3>3, <3>5 DEF NothingYet, DeleteLeaves, SubmitSeesRecorded
    <3>10. OpInv'
      <4>1. LaunchInv(op[c])'
        BY <2>2, <3>1, <3>2, <3>3, <3>4, <3>5 DEF LaunchInv
      <4>2. HoldInv(op[c])' /\ EndInv(op[c])'
        BY <3>3 DEF HoldInv, EndInv
      <4>3. QED
        BY <3>6, <4>1, <4>2 DEF OpInv
    <3>11. QED
      BY <3>8, <3>9, <3>10 DEF FenceInv
  <2>5. QED
    BY <2>3, <2>4
<1>3. CASE CreateContainer(c) \/ StartContainer(c)
  <2>1. /\ o.pc \in {"launch", "start"} /\ Live \subseteq {o.id}
        /\ o.id = last /\ o.id # 0 /\ o.id \in Runs
        /\ row[o.id].active /\ row[o.id].cid = 0 /\ row[o.id].phase = "starting"
        /\ o.copy.active
    BY <1>0, <1>3 DEF CreateContainer, StartContainer, LaunchInv, Runs
  <2>2. Live' \subseteq {o.id} /\ Listed' \subseteq Listed \cup {o.id}
    <3>1. PICK st : ctr' = [ctr EXCEPT ![o.id] = st] \/ ctr' = ctr
      BY <1>3 DEF CreateContainer, StartContainer
    <3>2. \A k \in Runs : k # o.id => ctr'[k] = ctr[k]
      BY <3>1 DEF TypeOK
    <3>3. QED
      BY <2>1, <3>2 DEF Live, Listed
  <2>3. /\ op'[c].pc \in {"start", "record"} /\ op'[c].id = o.id /\ op'[c].copy.active
        /\ op'[c].pc = "record" => op'[c].copy.cid = o.id /\ op'[c].copy.phase = "running"
    <3>1. CASE CreateContainer(c)
      <4>1. op'[c] = [o EXCEPT !.pc = "start"]
        BY <3>1 DEF CreateContainer, Step, TypeOK
      <4>2. QED
        BY <1>0, <2>1, <4>1 DEF OpRec
    <3>2. CASE StartContainer(c)
      <4>1. op'[c] = [o EXCEPT !.pc = "record", !.copy.cid = o.id, !.copy.phase = "running"]
        BY <3>2, Begun DEF StartContainer
      <4>2. /\ op'[c].pc = "record" /\ op'[c].id = o.id
            /\ op'[c].copy = [o.copy EXCEPT !.cid = o.id, !.phase = "running"]
        BY <1>0, <4>1 DEF OpRec
      <4>3. QED
        BY <1>0, <2>1, <4>2 DEF Row
    <3>3. QED
      BY <1>3, <3>1, <3>2
  <2>4. UNCHANGED <<job, row, last, submitting>> /\ \A d \in Controllers : d = c
    BY <1>3 DEF CreateContainer, StartContainer, OneController
  <2>5. Active' = Active /\ Active = {o.id}
    BY <2>1, <2>4 DEF Active, FenceInv, OneAtATime
  <2>6. OneAtATime' /\ RowsAccount' /\ InactiveIsDown'
    <3>1. \A k \in Listed' : k <= last
      BY <2>1, <2>2, BlankTypes DEF FenceInv, OneAtATime, TypeOK
    <3>2. QED
      BY <2>1, <2>2, <2>4, <2>5, <3>1
         DEF OneAtATime, RowsAccount, Accounts, Holder, InactiveIsDown
  <2>7. NothingYet' /\ DeleteLeaves' /\ SubmitSeesRecorded'
    BY <1>1, <2>1, <2>3, <2>4 DEF NothingYet, DeleteLeaves, SubmitSeesRecorded
  <2>8. OpInv'
    <3>1. LaunchInv(op[c])' /\ HoldInv(op[c])' /\ EndInv(op[c])'
      BY <2>1, <2>2, <2>3, <2>4 DEF LaunchInv, HoldInv, EndInv
    <3>2. QED
      BY <2>4, <3>1 DEF OpInv
  <2>9. QED
    BY <2>6, <2>7, <2>8 DEF FenceInv
<1>4. CASE LaunchGivesUp(c) \/ LaunchBlocked(c)
  <2>1. /\ o.pc \in {"launch", "unlaunched"} /\ Live = {} /\ o.id = last /\ last # 0
        /\ Return(c) /\ UNCHANGED <<job, last, submitting, ctr>>
    BY <1>0, <1>4 DEF LaunchGivesUp, LaunchBlocked, LaunchInv
  <2>2. /\ [o.copy EXCEPT !.phase = "restarting"] \in Row
        /\ [o.copy EXCEPT !.phase = "failed", !.active = FALSE] \in Row
        /\ [o.copy EXCEPT !.phase = "blocked"] \in Row
    BY <1>0 DEF Row, Phases
  <2>3. \E new \in Row : UpdateRun(last, new)
    BY <1>4, <2>1, <2>2 DEF LaunchGivesUp, LaunchBlocked
  <2>4. QED
    BY <2>1, <2>3, SameContainers, RowWrite
<1>5. CASE RecordRun(c)
  <2>1. /\ o.pc = "record" /\ o.id = last /\ last # 0 /\ o.copy.cid = last
        /\ o.copy.phase = "running" /\ Live \subseteq {last}
        /\ Updatable(last, o.copy) /\ UpdateRun(last, o.copy)
        /\ Return(c) /\ UNCHANGED <<job, last, submitting, ctr>> /\ o.copy.active
    BY <1>0, <1>5 DEF RecordRun, LaunchInv
  <2>2. QED
    BY <1>0, <2>1, SameContainers, RowWrite DEF Holder
<1>6. CASE MarkLaunchRecordFailure(c)
  <2> DEFINE new == [o.copy EXCEPT !.phase = "failed", !.cid = 0, !.active = FALSE]
  <2>1. /\ o.pc = "unrecorded" /\ o.id = last /\ last # 0 /\ Live = {}
        /\ Return(c) /\ UNCHANGED <<job, last, submitting, ctr>>
    BY <1>0, <1>6 DEF MarkLaunchRecordFailure, LaunchInv
  <2>2. new \in Row
    <3>1. "failed" \in Phases /\ 0 \in 0..MaxRuns /\ FALSE \in BOOLEAN
      BY BlankTypes DEF Phases
    <3>2. QED
      BY <1>0, <3>1, RowWith
  <2>3. CASE UpdateRun(o.id, new)
    <3> HIDE DEF new
    <3> QED
      BY <2>1, <2>2, <2>3, SameContainers, RowWrite
  <2>4. CASE UNCHANGED row
    BY <1>1, <2>1, <2>4, SameContainers, IdleHolds, OpMoves DEF JobExists
  <2>5. QED
    BY <1>6, <2>3, <2>4 DEF MarkLaunchRecordFailure
<1>16. CASE LaunchFails(c) \/ RecordFails(c)
  <2>1. /\ o.pc \in {"launch", "start", "record"} /\ Live \subseteq {o.id}
        /\ o.id = last /\ o.id # 0 /\ o.copy.active
        /\ row[o.id].active /\ row[o.id].cid = 0 /\ row[o.id].phase = "starting"
        /\ UNCHANGED <<job, row, last, submitting>>
    BY <1>0, <1>16 DEF LaunchFails, RecordFails, LaunchInv
  <2>2. Live' = {} /\ Listed' \subseteq Listed
    <3>1. CASE o.pc = "launch"
      <4>1. Live = {} /\ \E ks : ctr' = Without(ks)
        BY <1>0, <1>16, <3>1 DEF LaunchFails, RecordFails, LaunchInv
      <4>2. QED
        BY <4>1, WithoutShrinks
    <3>2. CASE o.pc # "launch"
      <4>1. ctr' = Without({o.id})
        BY <1>16, <3>2 DEF LaunchFails, RecordFails, Removable
      <4>2. QED
        BY <2>1, <4>1, WithoutShrinks
    <3>3. QED
      BY <3>1, <3>2
  <2>3. /\ op'[c].pc \in {"unlaunched", "unrecorded"}
        /\ op'[c].id = o.id /\ op'[c].copy = o.copy
    <3>1. PICK pc \in {"unlaunched", "unrecorded"} : op'[c] = [o EXCEPT !.pc = pc]
      BY <1>16 DEF LaunchFails, RecordFails, Step, TypeOK
    <3>2. QED
      BY <1>0, <3>1 DEF OpRec
  <2>4. LaunchInv(op[c])' /\ HoldInv(op[c])' /\ EndInv(op[c])'
    BY <2>1, <2>2, <2>3 DEF LaunchInv, HoldInv, EndInv
  <2>5. QED
    BY <1>1, <2>1, <2>2, <2>3, <2>4, OpMoves DEF JobExists
<1>7. CASE Stop(c)
  <2>1. /\ o.pc = "stop" /\ o.copy.cid # 0 /\ o.copy.cid \in Runs
        /\ Live \subseteq {o.copy.cid}
        /\ UNCHANGED <<job, row, last, submitting>>
    BY <1>0, <1>7 DEF Stop, HoldInv, Accounts, Holder, Runs
  <2>2. PICK st \in StopOutcomes(ctr[o.copy.cid]) : ctr' = [ctr EXCEPT ![o.copy.cid] = st]
    BY <1>7 DEF Stop
  <2>3. /\ st \notin LiveStates
        /\ st \in {"none", "ending", "gone"} \/ o.copy.cid \in Listed
    BY <2>1, <2>2 DEF StopOutcomes, LiveStates, Listed
  <2>4. Live' = {} /\ Listed' \subseteq Listed
    <3>1. /\ ctr'[o.copy.cid] = st
          /\ \A k \in Runs : k # o.copy.cid => ctr'[k] = ctr[k]
      BY <2>1, <2>2 DEF TypeOK
    <3>2. QED
      BY <2>1, <2>3, <3>1 DEF Live, Listed
  <2>5. op'[c].pc \in {"remove", "finish"}
    BY <1>7 DEF Stop, Step, TypeOK
  <2>6. LaunchInv(op[c])' /\ HoldInv(op[c])' /\ EndInv(op[c])'
    BY <2>4, <2>5 DEF LaunchInv, HoldInv, EndInv
  <2>7. QED
    BY <1>1, <2>1, <2>4, <2>5, <2>6, OpMoves DEF JobExists
<1>17. CASE RemoveStopped(c)
  <2>1. /\ o.pc = "remove" /\ Live = {} /\ (\E ks : ctr' = Without(ks))
        /\ op'[c].pc = "finish" /\ UNCHANGED <<job, row, last, submitting>>
    BY <1>0, <1>17 DEF RemoveStopped, EndInv, Step, TypeOK
  <2>2. Live' = {} /\ Listed' \subseteq Listed
    BY <2>1, WithoutShrinks
  <2>3. LaunchInv(op[c])' /\ HoldInv(op[c])' /\ EndInv(op[c])'
    BY <2>1, <2>2 DEF LaunchInv, HoldInv, EndInv
  <2>4. QED
    BY <1>1, <2>1, <2>2, <2>3, OpMoves DEF JobExists
<1>8. CASE StopFails(c)
  <2>1. /\ o.pc = "stop" /\ o.id = last /\ last # 0 /\ o.copy.active
        /\ Accounts(last, o.copy)
        /\ o.copy.cid = 0 /\ submitting # NoController => Live = {}
        /\ Return(c) /\ UNCHANGED <<job, last, submitting, ctr>>
    BY <1>0, <1>8 DEF StopFails, HoldInv
  <2>2. CASE UpdateRun(o.id, o.copy)
    BY <1>0, <2>1, <2>2, SameContainers, RowWrite DEF Accounts
  <2>3. CASE UNCHANGED row
    BY <1>1, <2>1, <2>3, SameContainers, IdleHolds, OpMoves DEF JobExists
  <2>4. QED
    BY <1>8, <2>2, <2>3 DEF StopFails
<1>9. CASE FinishRun(c) \/ PruneContainers(c) \/ PruneTerminalRuns(c)
  <2>1. /\ o.pc \in {"finish", "prune", "pruned"} /\ Live = {}
        /\ UNCHANGED <<job, last, submitting>>
    BY <1>0, <1>9 DEF FinishRun, PruneContainers, PruneTerminalRuns, EndInv
  <2>2. Live' = {} /\ Listed' \subseteq Listed
    <3>1. CASE PruneContainers(c)
      BY <2>1, <3>1, WithoutShrinks DEF PruneContainers
    <3>2. CASE FinishRun(c) \/ PruneTerminalRuns(c)
      BY <2>1, <3>2, SameContainers DEF FinishRun, PruneTerminalRuns
    <3>3. QED
      BY <1>9, <3>1, <3>2
  <2>3. Active' \subseteq Active
    <3>1. CASE FinishRun(c)
      <4> DEFINE new == [o.copy EXCEPT !.phase = o.to, !.active = FALSE]
      <4>1. ~new.active /\ UpdateRun(o.id, new)
        BY <1>0, <3>1 DEF FinishRun, Row
      <4> HIDE DEF new
      <4>2. \A r \in Runs : row'[r] = row[r] \/ row'[r] = new
        BY <4>1 DEF UpdateRun, TypeOK
      <4>3. QED
        BY <4>1, <4>2 DEF Active
    <3>2. CASE PruneContainers(c)
      BY <3>2 DEF PruneContainers, Active
    <3>3. CASE PruneTerminalRuns(c)
      <4>1. \A r \in Runs : row'[r] = row[r] \/ row'[r] = NoRow
        BY <3>3 DEF PruneTerminalRuns
      <4>2. QED
        BY <4>1 DEF Active, NoRow
    <3>4. QED
      BY <1>9, <3>1, <3>2, <3>3
  <2>4. /\ op'[c].pc \in {"idle", "prune", "pruned", "desire", "create"}
        /\ \A d \in Controllers : d = c
    <3>1. AfterFinish(o).pc \in {"idle", "desire", "create"}
      BY DEF AfterFinish, Idle
    <3>2. op'[c] = AfterFinish(o) \/ op'[c].pc \in {"idle", "prune", "pruned"}
      BY <1>0, <1>9, IdleHolds, Begun
         DEF FinishRun, PruneContainers, PruneTerminalRuns, Step, TypeOK, OpRec
    <3>3. QED
      BY <3>1, <3>2 DEF OneController
  <2>5. OneAtATime'
    BY <2>1, <2>2, <2>3 DEF FenceInv, OneAtATime
  <2>6. RowsAccount' /\ InactiveIsDown'
    BY <2>2 DEF RowsAccount, Accounts, InactiveIsDown
  <2>7. NothingYet' /\ DeleteLeaves' /\ SubmitSeesRecorded'
    BY <1>1, <2>1, <2>2 DEF NothingYet, DeleteLeaves, SubmitSeesRecorded
  <2>8. OpInv'
    BY <2>2, <2>4 DEF OpInv, LaunchInv, HoldInv, EndInv
  <2>9. QED
    BY <2>5, <2>6, <2>7, <2>8 DEF FenceInv
<1>10. CASE SetDesiredRunning(c)
  <2>1. o.pc = "desire" /\ UNCHANGED <<row, last, ctr, submitting>>
    BY <1>10 DEF SetDesiredRunning
  <2>2. CASE JobExists
    <3>1. job' = "running" /\ op'[c].pc = "create"
      BY <1>10, <2>2 DEF SetDesiredRunning, Step, TypeOK
    <3>2. LaunchInv(op[c])' /\ HoldInv(op[c])' /\ EndInv(op[c])'
      BY <3>1 DEF LaunchInv, HoldInv, EndInv
    <3>3. QED
      BY <2>1, <2>2, <3>1, <3>2, SameContainers, OpMoves
  <2>3. CASE ~JobExists
    <3>1. Return(c) /\ UNCHANGED job
      BY <1>10, <2>3 DEF SetDesiredRunning
    <3>2. QED
      BY <1>1, <2>1, <3>1, SameContainers, IdleHolds, OpMoves DEF JobExists
  <2>4. QED
    BY <2>2, <2>3
<1>11. CASE DeleteJob(c)
  <2>1. /\ o.pc = "drop" /\ Return(c) /\ job' = "deleted"
        /\ submitting # NoController => Live = {}
        /\ row' = [r \in Runs |-> NoRow] /\ UNCHANGED <<last, ctr, submitting>>
    BY <1>0, <1>11 DEF DeleteJob, EndInv
  <2>2. Active' = {} /\ Live' = Live /\ Listed' = Listed
    BY <2>1, SameContainers DEF Active, NoRow
  <2>3. op'[c].pc = "idle" /\ \A d \in Controllers : d = c
    BY <2>1, IdleHolds DEF OneController
  <2>4. OneAtATime' /\ RowsAccount' /\ InactiveIsDown'
    BY <2>1, <2>2 DEF FenceInv, OneAtATime, RowsAccount, InactiveIsDown, JobExists
  <2>5. NothingYet' /\ DeleteLeaves' /\ SubmitSeesRecorded'
    BY <2>1, <2>2, <2>3 DEF NothingYet, DeleteLeaves, SubmitSeesRecorded
  <2>6. OpInv'
    BY <2>3 DEF OpInv, LaunchInv, HoldInv, EndInv
  <2>7. QED
    BY <2>4, <2>5, <2>6 DEF FenceInv
<1>12. CASE ReattachLive(c) \/ KeepRunning(c)
  <2>1. /\ o.pc \in {"reattached", "observed"} /\ o.id = last /\ last # 0
        /\ o.copy.active /\ o.copy.cid # 0 /\ Accounts(last, o.copy)
        /\ Return(c) /\ UNCHANGED <<job, last, submitting, ctr>>
    BY <1>0, <1>12 DEF ReattachLive, KeepRunning, HoldInv
  <2>2. ASSUME NEW phase \in {o.copy.phase, "starting", "running"},
               UpdateRun(o.id, [o.copy EXCEPT !.phase = phase])
        PROVE  FenceInv'
    <3> DEFINE new == [o.copy EXCEPT !.phase = phase]
    <3>1. new \in Row /\ new.cid = o.copy.cid /\ new.active /\ new.phase = phase
      BY <1>0, <2>1 DEF Row, Phases
    <3>2. /\ Live \subseteq {Holder(last, new)}
          /\ new.phase \in {"blocked", "restarting"} => Live = {}
      BY <2>1, <3>1 DEF Accounts, Holder
    <3>3. UpdateRun(last, new)
      BY <2>1, <2>2
    <3> HIDE DEF new
    <3>4. QED
      BY <2>1, <3>1, <3>2, <3>3, SameContainers, RowWrite
  <2>3. CASE UNCHANGED row
    BY <1>1, <2>1, <2>3, SameContainers, IdleHolds, OpMoves DEF JobExists
  <2>4. QED
    BY <1>12, <2>2, <2>3 DEF ReattachLive, KeepRunning, PhaseOf
<1>13. CASE ReattachOther(c) \/ ReconcileStop(c)
  <2>1. o.pc \in {"reattached", "observed"} /\ UNCHANGED <<job, row, last, ctr, submitting>>
    BY <1>13 DEF ReattachOther, ReconcileStop
  <2>2. /\ op'[c].pc \in {"observed", "stop"} /\ op'[c].id = o.id
        /\ op'[c].copy = o.copy /\ (op'[c].pc = "observed" => op'[c].st = o.st)
    <3>1. CASE ReattachOther(c)
      <4>1. op'[c] = [o EXCEPT !.pc = "observed"]
        BY <3>1 DEF ReattachOther, Step, TypeOK
      <4>2. QED
        BY <1>0, <4>1 DEF OpRec
    <3>2. CASE ReconcileStop(c)
      <4>1. op'[c] = [o EXCEPT !.pc = "stop", !.st = "none", !.want = "none",
                            !.to = "cancelled"]
        BY <3>2, Begun DEF ReconcileStop
      <4>2. QED
        BY <1>0, <4>1 DEF OpRec
    <3>3. QED
      BY <1>13, <3>1, <3>2
  <2>3. LaunchInv(op[c])' /\ HoldInv(op[c])' /\ EndInv(op[c])'
    BY <1>0, <2>1, <2>2, SameContainers DEF LaunchInv, HoldInv, EndInv, Accounts
  <2>4. QED
    BY <1>1, <2>1, <2>2, <2>3, SameContainers, OpMoves DEF JobExists
<1>14. CASE HandleExit(c)
  <2>1. /\ o.pc = "observed" /\ o.id = last /\ last # 0 /\ Live = {}
        /\ UNCHANGED <<job, last, submitting, ctr>>
    BY <1>0, <1>14 DEF HandleExit, HoldInv
  <2>2. CASE Retried(o)
    <3>1. [o.copy EXCEPT !.phase = "restarting"] \in Row
      BY <1>0 DEF Row, Phases
    <3>2. \E new \in Row : UpdateRun(last, new)
      BY <1>14, <2>1, <2>2, <3>1 DEF HandleExit
    <3>3. Return(c)
      BY <1>14, <2>2 DEF HandleExit
    <3>4. QED
      BY <2>1, <3>2, <3>3, SameContainers, RowWrite
  <2>3. CASE ~Retried(o)
    <3>1. UNCHANGED row /\ Begin(c, [o EXCEPT !.pc = "finish", !.st = "none", !.want = "none",
                                          !.to = ExitPhase(o)])
      BY <1>14, <2>3 DEF HandleExit
    <3>2. op'[c] = [o EXCEPT !.pc = "finish", !.st = "none", !.want = "none", !.to = ExitPhase(o)]
      BY <3>1, Begun
    <3>3. op'[c].pc = "finish"
      BY <1>0, <3>2 DEF OpRec
    <3>4. LaunchInv(op[c])' /\ HoldInv(op[c])' /\ EndInv(op[c])'
      BY <2>1, <3>3, SameContainers DEF LaunchInv, HoldInv, EndInv
    <3>5. QED
      BY <1>1, <2>1, <3>1, <3>3, <3>4, SameContainers, OpMoves DEF JobExists
  <2>4. QED
    BY <2>2, <2>3
<1>15. QED
  BY <1>2, <1>3, <1>4, <1>5, <1>6, <1>7, <1>8, <1>9, <1>10, <1>11, <1>12, <1>13, <1>14,
     <1>16, <1>17 DEF Continue
\* Every step keeps the fence.
LEMMA FenceStep ==
    ASSUME OneController, "remove" \notin Faults, TypeOK, FenceInv, [Next]_vars
    PROVE  FenceInv'
<1> USE DEF storeVars, processVars
<1>1. CASE UNCHANGED vars
  BY <1>1, SameContainers, LiveShrinks DEF vars
<1>2. ASSUME NEW c \in Controllers, SubmitLaunch(c)
      PROVE  FenceInv'
  <2>1. /\ submitting = c /\ submitting' = NoController /\ op[c] = Idle
        /\ UNCHANGED <<job, row, last, ctr>>
    BY <1>2 DEF SubmitLaunch, Free
  <2>2. op'[c].pc = "create"
    <3>1. op'[c] = [Idle EXCEPT !.pc = "create", !.kind = "submit"]
      BY <1>2, Begun DEF SubmitLaunch
    <3>2. QED
      BY <3>1 DEF Idle
  <2>3. submitting # NoController
    BY <2>1, ControlAssumption
  <2>4. job # "new" /\ (job = "deleted" => Live = {})
    BY <2>3 DEF FenceInv, NothingYet, DeleteLeaves
  <2>5. LaunchInv(op[c])' /\ HoldInv(op[c])' /\ EndInv(op[c])'
    BY <2>2 DEF LaunchInv, HoldInv, EndInv
  <2>6. QED
    BY <2>1, <2>2, <2>4, <2>5, SameContainers, OpMoves DEF JobExists
<1>3. ASSUME NEW c \in Controllers, SavepointRecorded(c)
      PROVE  FenceInv'
  <2>1. UNCHANGED <<row, last, ctr, op, submitting>>
    BY <1>3 DEF SavepointRecorded
  <2>2. CASE job' = job
    BY <2>1, <2>2, SameContainers, LiveShrinks
  <2>3. CASE job' = "stopped" /\ JobExists
    <3>1. /\ LaunchInv(op[c]) /\ HoldInv(op[c]) /\ EndInv(op[c])
      BY DEF FenceInv, OpInv
    <3>2. LaunchInv(op[c])' /\ HoldInv(op[c])' /\ EndInv(op[c])'
      BY <2>1, <3>1, SameContainers DEF LaunchInv, HoldInv, EndInv, Accounts
    <3>3. Active' = Active /\ Live' = Live /\ Listed' = Listed /\ \A d \in Controllers : d = c
      BY <2>1, SameContainers DEF Active, OneController
    <3>4. OneAtATime' /\ RowsAccount' /\ InactiveIsDown'
      BY <2>1, <2>3, <3>3 DEF FenceInv, OneAtATime, RowsAccount, Accounts, InactiveIsDown
    <3>5. NothingYet' /\ DeleteLeaves' /\ SubmitSeesRecorded' /\ OpInv'
      BY <2>1, <2>3, <3>2, <3>3
         DEF FenceInv, NothingYet, DeleteLeaves, SubmitSeesRecorded, OpInv
    <3>6. QED
      BY <3>4, <3>5 DEF FenceInv
  <2>4. QED
    BY <1>3, <2>2, <2>3 DEF SavepointRecorded
<1>4. ASSUME NEW c \in Controllers, Crash(c)
      PROVE  FenceInv'
  <2>1. /\ op'[c] = Idle /\ op'[c].pc = "idle" /\ \A d \in Controllers : d = c
        /\ submitting' = NoController /\ UNCHANGED <<job, row, last, ctr>>
    BY <1>4 DEF Crash, TypeOK, OneController, Idle
  <2>2. CASE job # "new"
    <3>1. LaunchInv(op[c])' /\ HoldInv(op[c])' /\ EndInv(op[c])'
      BY <2>1 DEF LaunchInv, HoldInv, EndInv
    <3>2. QED
      BY <2>1, <2>2, <3>1, SameContainers, OpMoves DEF JobExists
  <2>3. CASE job = "new"
    <3>1. op[c] = Idle
      BY <2>3 DEF FenceInv, NothingYet
    <3>2. op' = op
      BY <1>4, <3>1 DEF Crash, TypeOK
    <3>3. QED
      BY <2>1, <3>2, SameContainers, LiveShrinks
  <2>4. QED
    BY <2>2, <2>3
<1>5. ASSUME NEW c \in Controllers, Boot(c)
      PROVE  FenceInv'
  BY <1>5, WithoutShrinks, LiveShrinks DEF Boot
<1>6. ASSUME NEW k \in Runs, Container(k)
      PROVE  FenceInv'
  <2>1. UNCHANGED <<storeVars, op, submitting>>
    BY <1>6 DEF Container, ContainerStarts, ContainerExits, ContainerPaused,
                ContainerVanishes, ContainerEnds
  <2>2. QED
    BY <1>6, <2>1, ContainerShrinks, LiveShrinks
<1>7. QED
  BY <1>1, <1>2, <1>3, <1>4, <1>5, <1>6, UserFence, ContinueFence, ReconcileFence DEF Next

\* The inductive invariant of one controller whose backend can remove containers:
\* what every operation relies on at each of its calls to store and backend
\* (controller.go startRun and finishRun, reconcile.go reconcileRun).
THEOREM FenceInvariant ==
    ASSUME OneController, "remove" \notin Faults
    PROVE  Spec => [](TypeOK /\ FenceInv)
<1>1. Init => FenceInv
  <2> SUFFICES ASSUME Init PROVE FenceInv
    OBVIOUS
  <2>1. Active = {} /\ Live = {} /\ Listed = {}
    BY DEF Init, Active, NoRow, Live, LiveStates, Listed
  <2>2. \A c \in Controllers : op[c] = Idle /\ op[c].pc = "idle"
    BY DEF Init, Idle
  <2>3. QED
    BY <2>1, <2>2 DEF Init, FenceInv, OneAtATime, RowsAccount, InactiveIsDown, NothingYet,
       DeleteLeaves, SubmitSeesRecorded, OpInv, LaunchInv, HoldInv, EndInv
<1>2. TypeOK /\ FenceInv /\ [Next]_vars => FenceInv'
  BY FenceStep
<1>3. QED
  BY <1>1, <1>2, ControlTypeCorrect, PTL DEF Spec

\* What accounts for live containers: the active run of a job that exists.
LEMMA LiveHasRun ==
    ASSUME TypeOK, FenceInv, NEW k \in Live
    PROVE  \/ job = "deleted" /\ Active = {}
           \/ \E r \in Active : k = Holder(r, row[r])
<1>1. CASE Active = {}
  BY <1>1 DEF TypeOK, FenceInv, InactiveIsDown, NothingYet, JobExists
<1>2. CASE Active # {}
  BY <1>2 DEF FenceInv, RowsAccount, Accounts
<1>3. QED
  BY <1>1, <1>2
\* With Docker a container that is removed is gone (docker.go Remove).
DockerKills == backend = "docker" => Ending = {}

\* No step leaves a container of Docker ending.
LEMMA DockerStep ==
    ASSUME TypeOK, DockerKills, [Next]_vars
    PROVE  DockerKills'
<1> SUFFICES ASSUME backend = "docker", backend' = "docker"
             PROVE  Ending' = {}
  <2>1. backend' = backend
    <3> USE DEF processVars
    <3>1. ASSUME NEW c \in Controllers, Continue(c)
          PROVE  backend' = backend
      BY <3>1 DEF Continue, StartRun, CreateContainer, StartContainer, LaunchFails,
         LaunchGivesUp, LaunchBlocked, RecordRun, RecordFails, MarkLaunchRecordFailure,
         Stop, StopFails, RemoveStopped, FinishRun, PruneContainers, PruneTerminalRuns,
         SetDesiredRunning, DeleteJob, ReattachLive, ReattachOther, KeepRunning,
         ReconcileStop, HandleExit
    <3>2. ASSUME NEW c \in Controllers, User(c)
          PROVE  backend' = backend
      BY <3>2 DEF User, Submit, Cancel, Restart, Delete, SavepointAccepted
    <3>3. ASSUME NEW c \in Controllers, NEW r \in Runs, Reconcile(c, r)
          PROVE  backend' = backend
      BY <3>3 DEF Reconcile, Relaunch, Observe, Reattach
    <3>4. ASSUME NEW c \in Controllers,
                 SubmitLaunch(c) \/ SavepointRecorded(c) \/ Crash(c) \/ Boot(c)
          PROVE  backend' = backend
      BY <3>4 DEF SubmitLaunch, SavepointRecorded, Crash, Boot
    <3>5. ASSUME NEW k \in Runs, Container(k)
          PROVE  backend' = backend
      BY <3>5 DEF Container, ContainerStarts, ContainerExits, ContainerPaused,
         ContainerVanishes, ContainerEnds
    <3>6. CASE UNCHANGED vars
      BY <3>6 DEF vars
    <3>7. QED
      BY <3>1, <3>2, <3>3, <3>4, <3>5, <3>6 DEF Next
  <2>2. QED
    BY <2>1 DEF DockerKills
<1>1. \A k \in Runs : ctr[k] # "ending"
  BY DEF DockerKills, Ending
<1>2. SUFFICES \A k \in Runs : ctr'[k] # "ending"
  BY DEF Ending
<1>3. CASE ctr' = ctr
  BY <1>1, <1>3
<1>4. CASE \E ks : ctr' = Without(ks)
  BY <1>1, <1>4 DEF Without, Removed
<1>5. ASSUME NEW k, NEW st, st # "ending", ctr' = [ctr EXCEPT ![k] = st]
      PROVE  \A j \in Runs : ctr'[j] # "ending"
  BY <1>1, <1>5 DEF TypeOK
<1>6. ASSUME NEW c \in Controllers, Delete(c)
      PROVE  \A k \in Runs : ctr'[k] # "ending"
  <2>1. PICK st \in [({row[r].cid : r \in Active} \ {0}) -> CtrStates],
             ks \in Removable({row[r].cid : r \in Present} \ {0}) :
          LET stopped == {row[r].cid : r \in Active} \ {0}
              left == [k \in Runs |-> IF k \in stopped THEN st[k] ELSE ctr[k]]
          IN  /\ \A k \in stopped : st[k] \in StopOutcomes(ctr[k]) \cup {ctr[k]}
              /\ ctr' = [k \in Runs |-> IF k \in ks THEN Removed(left[k]) ELSE left[k]]
    BY <1>6 DEF Delete
  <2>2. ASSUME NEW k \in Runs
        PROVE  \/ ctr'[k] = "gone"
               \/ ctr'[k] \in StopOutcomes(ctr[k]) \cup {ctr[k]}
    BY <2>1 DEF Removed
  <2>3. \A k \in Runs : "ending" \notin StopOutcomes(ctr[k])
    BY <1>1 DEF StopOutcomes
  <2>4. QED
    BY <1>1, <2>2, <2>3
<1>7. ASSUME NEW c \in Controllers, Stop(c)
      PROVE  \A k \in Runs : ctr'[k] # "ending"
  <2>1. op[c].copy.cid \in Runs
    BY <1>7, BlankTypes DEF Stop, TypeOK, Row, Runs
  <2>2. PICK st \in StopOutcomes(ctr[op[c].copy.cid]) :
          ctr' = [ctr EXCEPT ![op[c].copy.cid] = st]
    BY <1>7 DEF Stop
  <2>3. st # "ending"
    BY <1>1, <2>1, <2>2 DEF StopOutcomes
  <2>4. QED
    BY <1>5, <2>2, <2>3
<1>8. ASSUME NEW c \in Controllers, Continue(c), ~Stop(c)
      PROVE  \A k \in Runs : ctr'[k] # "ending"
  <2>1. CASE CreateContainer(c) \/ StartContainer(c)
    <3>1. \E st \in {"ok", "running"} : ctr' = [ctr EXCEPT ![op[c].id] = st]
      BY <2>1 DEF CreateContainer, StartContainer
    <3>2. QED
      BY <1>5, <3>1
  <2>2. CASE LaunchFails(c) \/ RecordFails(c) \/ RemoveStopped(c) \/ PruneContainers(c)
    BY <1>4, <2>2 DEF LaunchFails, RecordFails, RemoveStopped, PruneContainers
  <2>3. CASE ~(CreateContainer(c) \/ StartContainer(c) \/ LaunchFails(c) \/ RecordFails(c)
               \/ RemoveStopped(c) \/ PruneContainers(c))
    <3>1. ctr' = ctr
      BY <1>8, <2>3 DEF Continue, StartRun, LaunchGivesUp, LaunchBlocked, RecordRun,
         MarkLaunchRecordFailure, StopFails, FinishRun, PruneTerminalRuns,
         SetDesiredRunning, DeleteJob, ReattachLive, ReattachOther, KeepRunning,
         ReconcileStop, HandleExit
    <3>2. QED
      BY <1>3, <3>1
  <2>4. QED
    BY <2>1, <2>2, <2>3
<1>9. ASSUME NEW k \in Runs, Container(k)
      PROVE  \A j \in Runs : ctr'[j] # "ending"
  <2>1. CASE ContainerVanishes(k)
    BY <1>4, <2>1 DEF ContainerVanishes
  <2>2. CASE ContainerStarts(k) \/ ContainerExits(k) \/ ContainerPaused(k) \/ ContainerEnds(k)
    <3>1. \E st \in {"running", "ok", "failed", "paused", "gone"} : ctr' = [ctr EXCEPT ![k] = st]
      BY <2>2 DEF ContainerStarts, ContainerExits, ContainerPaused, ContainerEnds
    <3>2. QED
      BY <1>5, <3>1
  <2>3. QED
    BY <1>9, <2>1, <2>2 DEF Container
<1>10. ASSUME NEW c \in Controllers,
              \/ User(c) /\ ~Delete(c)
              \/ SubmitLaunch(c) \/ SavepointRecorded(c) \/ Crash(c)
              \/ \E r \in Runs : Reconcile(c, r)
       PROVE  ctr' = ctr
  BY <1>10 DEF User, Submit, Cancel, Restart, SavepointAccepted, SubmitLaunch,
     SavepointRecorded, Crash, Reconcile, Relaunch, Observe, Reattach, storeVars
<1>11. ASSUME NEW c \in Controllers, Boot(c)
       PROVE  \A k \in Runs : ctr'[k] # "ending"
  BY <1>4, <1>11 DEF Boot
<1>12. CASE UNCHANGED vars
  BY <1>3, <1>12 DEF vars
<1>13. QED
  BY <1>3, <1>6, <1>7, <1>8, <1>9, <1>10, <1>11, <1>12 DEF Next

\* Single-live-run fencing holds for one controller whatever fails, except the
\* removal of a container, and wherever it crashes: for every container with Docker,
\* for those not told to end with Kubernetes (controller.go startRun).
THEOREM OneLiveRun ==
    ASSUME OneController, "remove" \notin Faults
    PROVE  Spec => []SingleLive
<1>1. TypeOK /\ FenceInv /\ DockerKills => SingleLive
  <2> SUFFICES ASSUME TypeOK, FenceInv, DockerKills PROVE SingleLive
    OBVIOUS
  <2>1. Cardinality(Live) <= 1
    <3>1. CASE Live = {}
      BY <3>1, FS_EmptySet
    <3>2. CASE Live # {}
      <4>1. PICK k \in Live : TRUE
        BY <3>2
      <4>2. Live = {k}
        BY <4>1 DEF FenceInv, OneAtATime
      <4>3. Cardinality(Live) = 1
        BY <4>2, FS_Singleton
      <4>4. QED
        BY <4>3
    <3>3. QED
      BY <3>1, <3>2
  <2>2. backend = "docker" => Live \cup Ending = Live
    BY DEF DockerKills
  <2>3. QED
    BY <2>1, <2>2 DEF SingleLive
<1>2. Init => DockerKills
  BY DEF Init, DockerKills, Ending
<1>3. TypeOK /\ DockerKills /\ [Next]_vars => DockerKills'
  BY DockerStep
<1>4. QED
  BY <1>1, <1>2, <1>3, FenceInvariant, PTL DEF Spec

\* Under the same conditions no crash and no failed write loses track of a live
\* container (reconcile.go reattachUnrecordedBackendRun).
THEOREM LiveContainersTracked ==
    ASSUME OneController, "remove" \notin Faults
    PROVE  Spec => []LiveIsTracked
<1>1. TypeOK /\ FenceInv => LiveIsTracked
  <2> SUFFICES ASSUME TypeOK, FenceInv, JobExists, NEW k \in Live
               PROVE  \E r \in Active :
                          row[r].cid = k \/ (row[r].cid = 0 /\ k \in ManagedContainer)
    BY DEF LiveIsTracked
  <2>1. PICK r \in Active : k = Holder(r, row[r])
    BY LiveHasRun DEF JobExists
  <2>2. CASE row[r].cid # 0
    BY <2>1, <2>2 DEF Holder
  <2>3. CASE row[r].cid = 0
    <3>1. k = last /\ k \in Listed
      BY <2>1, <2>3 DEF Holder, FenceInv, OneAtATime, Live, Listed, LiveStates
    <3>2. k \in ManagedContainer
      BY <3>1 DEF ManagedContainer, FenceInv, OneAtATime
    <3>3. QED
      BY <2>1, <2>3, <3>2
  <2>4. QED
    BY <2>2, <2>3
<1>2. QED
  BY <1>1, FenceInvariant, PTL

\* Under the same conditions retention and the start-up sweep spare whatever is live
\* (sweep.go SweepOrphans, controller.go pruneTerminalRuns).
THEOREM CleanupIsSafe ==
    ASSUME OneController, "remove" \notin Faults
    PROVE  Spec => CleanupSparesLive
<1>1. TypeOK /\ FenceInv /\ [Next]_vars =>
        [\A c \in Controllers :
            PruneContainers(c) \/ Boot(c) => \A k \in Live : ctr'[k] = ctr[k]]_vars
  <2> SUFFICES ASSUME TypeOK, FenceInv, NEW c \in Controllers,
                      PruneContainers(c) \/ Boot(c),
                      NEW k \in Live
               PROVE  ctr'[k] = ctr[k]
    OBVIOUS
  <2>1. CASE PruneContainers(c)
    BY <2>1 DEF PruneContainers, FenceInv, OpInv, EndInv
  <2>2. CASE Boot(c)
    <3>1. PICK ks \in Removable(Orphans) : ctr' = Without(ks)
      BY <2>2 DEF Boot
    <3>2. ks \subseteq Orphans
      BY <3>1 DEF Removable
    <3>3. k \notin ks /\ k \in Runs
      BY <3>2 DEF Orphans, Live
    <3>4. QED
      BY <3>1, <3>3 DEF Without
  <2>3. QED
    BY <2>1, <2>2
<1>2. QED
  BY <1>1, FenceInvariant, PTL DEF Spec, CleanupSparesLive
=============================================================================
