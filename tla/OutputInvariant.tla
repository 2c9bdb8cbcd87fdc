--------------------------- MODULE OutputInvariant ---------------------------
(***************************************************************************)
(* The inductive invariant behind the exactly-once guarantee of            *)
(* ExactlyOnce.  Two pieces of history carry it, and neither is a variable *)
(* of the program:                                                         *)
(*   F   the frontier: everything below it, and nothing else, may be       *)
(*       readable; it is the operator state of the newest checkpoint that  *)
(*       has a marker;                                                     *)
(*   B   what the operators had folded in when barrier i passed them.      *)
(* The records between two barriers are then the segment between two       *)
(* consecutive values of B, wherever they are.                             *)
(***************************************************************************)
EXTENDS ExactlyOnce

\* The deployments the guarantee is for: a consumer group, no failure of the
\* write that completes a checkpoint, no commit that outlives its sender, and
\* no death inside UpdateStatus unless retention keeps one checkpoint only.
\* Outside of them the guarantee fails (the cfgs of README section 5 show it).
Tolerated ==
    /\ GroupMode
    /\ Faults \cap {"update", "late"} = {}
    /\ TornCrash => RetainCompleted = 1

\* No transaction is ever aborted while the pipeline goes on: a failed produce or
\* Save drops records and a later checkpoint may commit past them.
Lossless == Faults \cap {"produce", "save"} = {}

Frontiers == [Partitions -> Pos]
Below(f, g) == \A p \in Partitions : f[p] <= g[p]

\* The records from one position on and before another.
Segment(lo, hi) == {r \in Records : lo[r[1]] <= r[2] /\ r[2] < hi[r[1]]}

\* R holds records of S only, and without aborts all of them.
Fills(R, S) == R \subseteq S /\ (Lossless => S \subseteq R)

\* Positions agree with a state; a partition without one has its position in the
\* consumer group (source/kafka.go, source/kafka_offset_tracker.go).
Matches(offs, st) ==
    \A p \in Partitions : offs[p] = st[p] \/ (offs[p] = NoPos /\ group[p] = st[p])

\* The worker is before, or after, the commit of its checkpoint.
Prepares == worker.pc # "idle" /\ worker.data.status = "prepared"
Completes == worker.pc # "idle" /\ worker.data.status = "completed"

\* The newest committed checkpoint is marked completed.
Settled == \A i \in markers : IsNewest(i, markers) => files[i].status = "completed"

-----------------------------------------------------------------------------
(* What outlives the process.                                              *)

\* The output is that of the frontier, and the group is not ahead of it.
Readable(F) ==
    /\ \A r \in Records : visible[r] <= (IF r[2] < F[r[1]] THEN 1 ELSE 0)
    /\ Lossless => \A r \in Records : visible[r] = (IF r[2] < F[r[1]] THEN 1 ELSE 0)
    /\ markers = {} => \A p \in Partitions : F[p] = 0
    /\ Below(group, F)
    /\ limbo.id = NoId

\* Completed checkpoints are committed, and the newest committed one holds the
\* frontier and the positions that belong to it.
CommittedFiles(F) ==
    /\ Completed(files) \subseteq markers
    /\ \A i \in Completed(files) : Below(files[i].state, F)
    /\ markers # {} => \E i \in markers : IsNewest(i, markers)
    /\ \A i \in markers : IsNewest(i, markers) =>
          /\ files[i].status # "absent"
          /\ files[i].state = F
          /\ Matches(files[i].offsets, F)

\* latest.json names the newest committed checkpoint or one that was never
\* committed; latest-completed.json leads to the newest committed one once that
\* is completed.
Pointers ==
    /\ latest = NoId => markers = {}
    /\ latest # NoId => files[latest].status # "absent"
    /\ latest \in markers => IsNewest(latest, markers)
    /\ \A i \in markers : IsNewest(i, markers) =>
         /\ files[i].status = "prepared" => latest = i
         /\ files[i].status = "completed" =>
              \/ TornUpdate
              \/ latestCompleted = i
              \/ /\ RetainCompleted = 1
                 /\ phase = "down" \/ latestCompleted \notin Completed(files)

-----------------------------------------------------------------------------
(* The finalize worker and recovery.                                       *)

\* After the commit the worker holds the newest committed checkpoint.
Completing(F) ==
    Completes =>
        /\ IsNewest(worker.id, markers)
        /\ worker.data.state = F
        /\ worker.data.offsets = files[worker.id].offsets
        /\ worker.pc # "file" => files[worker.id].status = "completed"

\* Before the commit it holds a newer one, the previous one is settled, and the
\* open transaction holds what lies between the frontier and its state.
Committing(F) ==
    Prepares =>
        /\ \A m \in markers : m < worker.id
        /\ Settled
        /\ event = NoId
        /\ worker.pc \notin {"file", "abort"} => files[worker.id] = worker.data
        /\ worker.pc \notin {"file", "latest", "abort"} => latest = worker.id
        /\ Below(F, worker.data.state)
        /\ sinkWait = worker.id => Fills(staged, Segment(F, worker.data.state))

\* The same for the checkpoint that waits to be finalized.
Queued(F) ==
    event # NoId =>
        /\ \A m \in markers : m < event
        /\ Below(F, pending[event].state)
        /\ sinkWait = event => Fills(staged, Segment(F, pending[event].state))

\* State directories stay while they are needed, only a committed checkpoint is
\* completed, and without aborts no error is ever recorded.
Finalizing ==
    /\ worker.pc \in {"latestDone", "offsets"} => worker.data.status = "completed"
    /\ worker.pc = "offsets" => phase # "promote"
    /\ worker.pc = "file" => worker.id \in dirs
    /\ worker.pc = "retainDir" => worker.victim \in markers
    /\ Lossless => /\ worker.pc # "abort" /\ ~produceErr
                   /\ \A i \in Ids : ~pending[i].sinkErr

\* A commit that is not yet settled is being settled, or nothing else happens
\* before the process ends.
Settling ==
    Streaming /\ ~Settled =>
        \/ Completes
        \/ worker.pc = "idle" /\ event = NoId /\ (hard \/ sinkWait # NoId)

\* Recovery picks the newest committed checkpoint, and nothing streams yet.
Restoring ==
    /\ phase = "restore" =>
         /\ Settled
         /\ (restored = NoId /\ markers = {}) \/ IsNewest(restored, markers)
    /\ phase = "promote" => Completes /\ restored = worker.id
    /\ ~Streaming => flight = {} /\ staged = {} /\ sinkWait = NoId /\ ~hard

-----------------------------------------------------------------------------
(* The stream.                                                             *)

\* Checkpoints are finalized in the order of their barriers.
Queue ==
    Streaming =>
        /\ sinkId <= lastId
        /\ event # NoId => event = sinkId + 1 /\ (hard \/ sinkWait = event)
        /\ sinkWait # NoId => sinkWait = sinkId + 1
        /\ \A i \in Ids : pending[i].stage # "none" => sinkId < i
        /\ \A i \in Ids : pending[i].stage = "tapped" => i \in dirs

\* Positions and state agree in the source, in every pending checkpoint and in
\* the worker's; once a partition has a position, every later checkpoint has it.
Positions ==
    Streaming =>
        /\ folded = readPos
        /\ Matches(aligned, readPos)
        /\ \A i \in Ids : pending[i].stage # "none" =>
             /\ Matches(pending[i].offsets, pending[i].state)
             /\ \A p \in Partitions :
                  /\ aligned[p] = NoPos => pending[i].offsets[p] = NoPos
                  /\ \A j \in Ids :
                       j < i /\ pending[j].stage # "none" /\ pending[i].offsets[p] = NoPos
                           => pending[j].offsets[p] = NoPos
                  /\ worker.pc # "idle" /\ pending[i].offsets[p] = NoPos
                           => worker.data.offsets[p] = NoPos
        /\ worker.pc # "idle" =>
             /\ Matches(worker.data.offsets, worker.data.state)
             /\ \A p \in Partitions : aligned[p] = NoPos => worker.data.offsets[p] = NoPos

\* Write waits for a verdict that will not come: a commit or an abort failed.
Stuck == sinkWait # NoId /\ event = NoId /\ ~(Prepares /\ worker.id = sinkWait)
Live == Streaming /\ ~hard /\ ~Stuck

\* Every barrier behind the sink is pending or in the worker's hands, with the
\* state it had when it was injected.
Held(B) ==
    Live =>
        /\ \A m \in markers : m <= sinkId
        /\ Prepares => sinkWait = worker.id
        /\ \A i \in Ids : sinkId < i /\ i <= lastId =>
             \/ pending[i].stage # "none" /\ pending[i].state = B[i]
             \/ Prepares /\ worker.id = i /\ worker.data.state = B[i]

\* Where the records behind barrier i end: at the next barrier, or at the source.
Upper(B, i) == IF i = lastId THEN readPos ELSE B[i + 1]
Flying(i) == {r \in Records : [rec |-> r, after |-> i] \in flight}

\* The records between two barriers are the segment between their states; those
\* behind the sink's last barrier are in flight or in the open transaction.
Stream(F, B) ==
    Live =>
        /\ B[sinkId] = F
        /\ \A f \in flight : f.after <= lastId
        /\ sinkWait # NoId => Delivered
        /\ \A i \in Ids \cup {NoId} : sinkId <= i /\ i <= lastId =>
             /\ Below(B[i], Upper(B, i))
             /\ i # sinkId => Fills(Flying(i), Segment(B[i], Upper(B, i)))
        /\ Fills(staged \cup Flying(sinkId), Segment(F, Upper(B, sinkId)))

Guarantee(F, B) ==
    /\ Readable(F) /\ CommittedFiles(F) /\ Pointers
    /\ Completing(F) /\ Committing(F) /\ Queued(F) /\ Finalizing /\ Settling /\ Restoring
    /\ Queue /\ Positions /\ Held(B) /\ Stream(F, B)

\* The exactly-once guarantee, strengthened until every step keeps it.
GuaranteeInv == \E F \in Frontiers, B \in [Ids \cup {NoId} -> Frontiers] : Guarantee(F, B)
=============================================================================
