--------------------------- MODULE CheckpointStore ---------------------------
(***************************************************************************)
(* The checkpoint directory kept by checkpoint.FileStorage: one JSON file  *)
(* per checkpoint, the two pointer files latest.json and                   *)
(* latest-completed.json, and one native state directory per checkpoint.   *)
(*                                                                         *)
(* Save and UpdateStatus write several files, each one atomically          *)
(* (temp file, fsync, rename, fsync of the directory), and the process can *)
(* die between any two of them.  The module therefore offers one operator  *)
(* per durable write, and the module that owns the writing goroutine       *)
(* sequences them.                                                         *)
(*                                                                         *)
(* A checkpoint is identified by its position in creation order.  The      *)
(* source orders files by timestamp and then by the number in the ID; with *)
(* a clock that does not step back, that is creation order.                *)
(***************************************************************************)
EXTENDS Integers, FiniteSets

CONSTANTS Partitions,       \* source partitions
          LogEnd,           \* records per source partition: offsets 0 .. LogEnd-1
          MaxId,            \* bound on the number of checkpoints ever started
          RetainCompleted   \* FileStorageOptions.RetainCompleted

ASSUME StoreAssumption ==
    /\ IsFiniteSet(Partitions) /\ Partitions # {}
    /\ LogEnd \in Nat \ {0}
    /\ MaxId \in Nat \ {0}
    /\ RetainCompleted \in Nat \ {0}

VARIABLES files,            \* checkpoint-<id>.json: what a restart can read
          latest,           \* latest.json (0: no such file)
          latestCompleted,  \* latest-completed.json (0: no such file)
          dirs              \* checkpoint-<id>.state directories that exist

storeVars == <<files, latest, latestCompleted, dirs>>

Ids == 1..MaxId
NoId == 0
Pos == 0..LogEnd            \* "next offset to read" of one partition
NoPos == -1                 \* the partition has no entry in a position map

\* CheckpointData: the status, the source positions and the operator state.
\* The state of a checkpoint is what its operators have folded in: the number
\* of records of each partition.
Statuses == {"absent", "prepared", "completed"}
CheckpointData == [status  : Statuses,
                   offsets : [Partitions -> Pos \cup {NoPos}],
                   state   : [Partitions -> Nat]]

NoPositions == [p \in Partitions |-> NoPos]
NoState == [p \in Partitions |-> 0]
Absent == [status |-> "absent", offsets |-> NoPositions, state |-> NoState]

StoreTypeOK ==
    /\ files \in [Ids -> CheckpointData]
    /\ latest \in Ids \cup {NoId}
    /\ latestCompleted \in Ids \cup {NoId}
    /\ dirs \subseteq Ids

StoreInit ==
    /\ files = [i \in Ids |-> Absent]
    /\ latest = NoId
    /\ latestCompleted = NoId
    /\ dirs = {}

-----------------------------------------------------------------------------
(* Reading the directory.                                                  *)

Present(f) == {i \in Ids : f[i].status # "absent"}
Completed(f) == {i \in Ids : f[i].status = "completed"}

\* The files a pointer may name; latest-completed.json names only completed ones.
Usable(f, completedOnly) == IF completedOnly THEN Completed(f) ELSE Present(f)

\* i is the newest checkpoint of S in scanLocked's order.
IsNewest(i, S) == i \in S /\ \A j \in S : j <= i

\* The newest checkpoint of S, or NoId when there is none.
Newest(S) == IF \E i \in S : IsNewest(i, S) THEN CHOOSE i \in S : IsNewest(i, S) ELSE NoId

\* loadPointerLocked: a pointer that names a usable file wins; otherwise the
\* newest usable file does, and the pointer is rewritten to it.
LoadPointer(f, ptr, completedOnly) ==
    IF ptr \in Usable(f, completedOnly) THEN ptr ELSE Newest(Usable(f, completedOnly))

\* What the pointer file holds after loadPointerLocked: nothing is written when
\* the scan finds nothing.
RepairedPointer(f, ptr, completedOnly) ==
    LET found == LoadPointer(f, ptr, completedOnly)
    IN  IF found = NoId THEN ptr ELSE found

\* Mutant: retention drops the newest checkpoints instead of the oldest.
Victims_Newest(f) ==
    {i \in Completed(f) : Cardinality({j \in Completed(f) : j < i}) >= RetainCompleted}

\* enforceRetentionLocked: completed checkpoints with RetainCompleted or more
\* newer completed ones.  Prepared checkpoints are never pruned.
Victims(f) ==
    {i \in Completed(f) : Cardinality({j \in Completed(f) : i < j}) >= RetainCompleted}

-----------------------------------------------------------------------------
(* Writing it: one operator per durable write of saveLocked.               *)

WriteCheckpoint(id, data) ==
    /\ files' = [files EXCEPT ![id] = data]
    /\ UNCHANGED <<latest, latestCompleted, dirs>>

WriteLatest(id) ==
    /\ latest' = id
    /\ UNCHANGED <<files, latestCompleted, dirs>>

WriteLatestCompleted(id) ==
    /\ latestCompleted' = id
    /\ UNCHANGED <<files, latest, dirs>>

\* Retention removes the JSON of a victim before its state directory.
RemoveCheckpoint(victim) ==
    /\ files' = [files EXCEPT ![victim] = Absent]
    /\ UNCHANGED <<latest, latestCompleted, dirs>>

DeleteStateDirs(id) ==
    /\ dirs' = dirs \ {id}
    /\ UNCHANGED <<files, latest, latestCompleted>>

\* maintainLocked, run by NewFileStorage before the pipeline is built: sweep
\* state directories without a JSON, repair both pointers, enforce retention.
\* Every part of it is idempotent, so a crash inside is a crash before it.
Maintain ==
    /\ latest' = RepairedPointer(files, latest, FALSE)
    /\ latestCompleted' = RepairedPointer(files, latestCompleted, TRUE)
    /\ files' = [i \in Ids |-> IF i \in Victims(files) THEN Absent ELSE files[i]]
    /\ dirs' = (dirs \cap Present(files)) \ Victims(files)
=============================================================================
