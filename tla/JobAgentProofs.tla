--------------------------- MODULE JobAgentProofs ---------------------------
(***************************************************************************)
(* Proofs about the process that hosts a job: what an exit code of 0       *)
(* promises, and what a run that starts from a savepoint resumes from, for *)
(* any number of launches, checkpoints, labels and retained checkpoints.   *)
(*                                                                         *)
(* The argument: retention as the savepoint code applies it never takes    *)
(* the checkpoint latest-completed.json names (Directory), a checkpoint in *)
(* its commit is the newest one and whole (InFlight), a drained run is the *)
(* newest completed checkpoint (Drained), and a failure stays visible      *)
(* until the phase is settled (Failures).                                  *)
(***************************************************************************)
EXTENDS JobAgent, FiniteSetTheorems, SequenceTheorems, WellFoundedInduction, TLAPS

\* What the model's variables hold.
Progress == [Partitions -> Pos]
Data == [status : Statuses, offsets : [Partitions -> Pos \cup {NoPos}], state : Progress]
Archives == [id : Ids, data : Data, whole : BOOLEAN]
Pcs == {"down", "restore", "extract", "save", "start", "run", "ended", "closing", "returned",
        "settled", "promote", "promoted", "exited"}
Errors == {Nil, "canceled", "error"}

StoreType ==
  /\ files \in [Ids -> Data]
  /\ latest \in Ids \cup {NoId}
  /\ latestCompleted \in Ids \cup {NoId}
  /\ dirs \subseteq Ids
  /\ torn \subseteq Ids
  /\ blobs \in [Labels -> Archives \cup {Nil}]

ProcessType ==
  /\ proc \in [pc : Pcs, restore : Labels \cup {Nil}, seed : Archives \cup {Nil}, newer : Nat,
               chosen : Ids \cup {NoId}, failed : BOOLEAN, code : {0, 1}]
  /\ used \in [ids : 0 .. MaxId, launches : Nat]

EngineType ==
  eng \in [resumed : Ids \cup {NoId}, began : Progress, pos : Progress, drained : BOOLEAN,
           inFlight : Ids \cup {NoId}, committed : BOOLEAN, hard : BOOLEAN, stageErr : BOOLEAN,
           fatal : Errors, coordErr : Errors, watched : BOOLEAN]

AgentType ==
  agent \in [phase : {"starting", "running", "cancelling", "finished", "failed"},
             cancelSet : BOOLEAN, ctxDone : BOOLEAN, req : BOOLEAN, label : Labels \cup {Nil},
             handler : BOOLEAN, result : {Nil, "nil", "canceled", "error"}, shutdown : BOOLEAN,
             history : Seq(Ids), accepted : Labels \cup {Nil}]

AgentTypeOK == StoreType /\ ProcessType /\ EngineType /\ AgentType

\* Checkpoint IDs are never used again, and no archive has one still to come.
Issued ==
  /\ \A i \in Present(files) \cup torn : i <= used.ids
  /\ \A l \in Labels : blobs[l] # Nil => blobs[l].id <= used.ids
  /\ proc.seed # Nil => proc.seed.id <= used.ids

\* The checkpoint latest-completed.json names is safe from the default retention, and a
\* prepared one that latest.json names is the newest.
Directory ==
  /\ latestCompleted \notin Default!Victims(files)
  /\ latest \in Present(files) /\ files[latest].status = "prepared"
       => IsNewest(latest, Present(files))

\* The checkpoint in its commit.
InFlight ==
  /\ eng.committed => eng.inFlight # NoId
  /\ eng.inFlight # NoId =>
       /\ setup.coordinated /\ setup.checkpointing
       /\ eng.inFlight = used.ids
       /\ files[eng.inFlight].status = "prepared"
       /\ eng.inFlight \in dirs \ torn
       /\ proc.pc \in {"run", "ended"}

\* i is a checkpoint of everything the run has processed, with its state.
Holds(i) == i \in Completed(files) /\ files[i].state = eng.pos /\ i \in dirs \ torn

\* A run that drained into its last checkpoint.
Drained ==
  proc.pc \in {"run", "ended", "closing", "returned", "settled"} /\ eng.drained =>
    /\ proc.pc = "run" => Stopping
    /\ Holds(latestCompleted)

\* No error is lost on its way to the phase: a cancellation is reported after everything
\* else, so it never keeps an error out of the channel.  It may stand for the failure of
\* a stage, when no shutdown was asked for.
Failures ==
  /\ proc.pc \in {"run", "ended"} =>
       /\ eng.stageErr \/ eng.coordErr # Nil \/ eng.fatal = "canceled" => eng.hard
       /\ eng.fatal = "canceled" \/ eng.coordErr = "canceled" => eng.inFlight = NoId
       /\ eng.coordErr # Nil => eng.watched
       /\ proc.failed => (IF eng.coordErr # Nil THEN eng.coordErr ELSE eng.fatal) = "error"
  /\ proc.pc \in {"closing", "returned", "settled", "promote", "promoted"} =>
       /\ proc.failed => agent.result = "error"
       /\ eng.stageErr => agent.result \in {"canceled", "error"}
  /\ proc.pc \in {"settled", "promote", "promoted"} =>
       /\ Terminal(agent.phase)
       /\ agent.phase = "finished" => CleanResult
  /\ proc.pc \in {"restore", "extract", "save", "start"} => ~proc.failed

\* The savepoint that was asked for, on its way to the blobstore.
Promotion ==
  /\ IF agent.req THEN agent.label \in Labels /\ agent.accepted = agent.label
     ELSE agent.accepted = Nil
  /\ proc.pc = "promote" =>
       /\ agent.req
       /\ proc.chosen = latestCompleted /\ proc.chosen \in Completed(files)
       /\ eng.drained => Holds(proc.chosen)
  /\ proc.pc = "promoted" /\ agent.phase = "finished" /\ agent.accepted # Nil =>
       LET stored == blobs[agent.accepted]
       IN  /\ stored # Nil
           /\ stored.id = LoadPointer(files, latestCompleted, TRUE)
           /\ eng.drained => stored.whole /\ stored.data.state = eng.pos

\* A restore on its way to the engine.
Restoring ==
  /\ Running(proc.pc) /\ proc.restore # Nil => setup.checkpointing
  /\ proc.pc = "restore" => proc.restore # Nil
  /\ proc.pc \in {"extract", "save"} => proc.restore # Nil /\ proc.seed # Nil
  /\ proc.pc = "save" /\ proc.seed.whole => proc.seed.id \notin torn
  /\ proc.pc = "start" /\ proc.restore # Nil /\ proc.newer < DefaultRetained =>
       /\ proc.seed # Nil
       /\ latest = proc.seed.id
       /\ files[latest].status = "completed" /\ files[latest].state = proc.seed.data.state
       /\ proc.seed.whole => latest \notin torn

AgentInv ==
  /\ AgentTypeOK /\ Issued /\ Directory /\ InFlight /\ Drained /\ Failures /\ Promotion
  /\ Restoring /\ CleanExitKeepsPromises /\ RestoredIsArchived

-----------------------------------------------------------------------------
(* The directory.                                                          *)

\* Every checkpoint that is named is a number above NoId.
LEMMA IdsAreNumbers == Ids \subseteq Nat /\ NoId \notin Ids /\ (\A i \in Ids : i \in 1 .. MaxId)
  BY StoreAssumption DEF Ids, NoId

\* What Newest returns.
LEMMA NewestIsOne ==
  ASSUME NEW S \in SUBSET Ids
  PROVE  /\ Newest(S) \in S \cup {NoId}
         /\ Newest(S) # NoId => IsNewest(Newest(S), S)
  <1>1. CASE \E i \in S : IsNewest(i, S)
    BY <1>1 DEF Newest
  <1>2. CASE ~\E i \in S : IsNewest(i, S)
    BY <1>2 DEF Newest
  <1>3. QED
    BY <1>1, <1>2

\* A set of checkpoints that is not empty has a newest one.
LEMMA NewestExists ==
  ASSUME NEW S \in SUBSET Ids, S # {}
  PROVE  Newest(S) # NoId
  <1> DEFINE R == OpToRel(<, Nat)
             T == {MaxId - i : i \in S}
  <1>1. IsWellFoundedOn(R, Nat)
    BY NatLessThanWellFounded, Zenon
  <1>2. T \subseteq Nat /\ T # {}
    <2>1. \A i \in S : MaxId - i \in Nat
      BY IdsAreNumbers, StoreAssumption
    <2>2. QED
      BY <2>1
  <1>3. PICK m \in T : \A n \in T : <<n, m>> \notin R
    <2> HIDE DEF R, T
    <2>1. QED
      BY <1>1, <1>2, WFMin
  <1>4. \A n \in T : ~(n < m)
    BY <1>2, <1>3 DEF OpToRel
  <1>5. PICK i \in S : m = MaxId - i
    OBVIOUS
  <1>6. IsNewest(i, S)
    <2>1. SUFFICES ASSUME NEW j \in S PROVE j <= i
      BY DEF IsNewest
    <2>2. ~(MaxId - j < MaxId - i)
      BY <1>4, <1>5
    <2>3. QED
      BY <2>2, IdsAreNumbers, StoreAssumption
  <1>7. QED
    BY <1>6, IdsAreNumbers DEF Newest

\* What a directory opened with the default retention takes for its victims.
LEMMA DefaultVictims ==
  ASSUME NEW f
  PROVE  Default!Victims(f)
           = {i \in Completed(f) : Cardinality({j \in Completed(f) : i < j}) >= DefaultRetained}
  BY Zenon DEF Completed, Default!Victims, Default!Completed, Ids, Default!Ids, Cardinality,
               Default!Cardinality

\* Neither retention takes the newest completed checkpoint.
LEMMA NewestIsSafe ==
  ASSUME NEW f, NEW i, IsNewest(i, Completed(f))
  PROVE  i \notin Victims(f) /\ i \notin Default!Victims(f)
  <1>1. \A j \in Completed(f) : j \in Nat /\ j <= i
    BY IdsAreNumbers DEF IsNewest, Completed
  <1>2. i \in Nat
    BY <1>1 DEF IsNewest
  <1>3. {j \in Completed(f) : i < j} = {}
    BY <1>1, <1>2
  <1>4. Cardinality({j \in Completed(f) : i < j}) = 0
    BY <1>3, FS_EmptySet
  <1>5. ~(0 >= RetainCompleted) /\ ~(0 >= DefaultRetained)
    BY StoreAssumption, AgentAssumption
  <1>6. i \notin Victims(f)
    BY <1>4, <1>5 DEF Victims
  <1>7. i \notin Default!Victims(f)
    BY <1>4, <1>5, DefaultVictims
  <1>8. QED
    BY <1>6, <1>7

\* A checkpoint that is safe stays safe when completed ones go.
LEMMA SafeWhenFewer ==
  ASSUME NEW f, NEW g, NEW i, Completed(g) \subseteq Completed(f), i \notin Default!Victims(f),
         i \in Completed(g) => i \in Completed(f)
  PROVE  i \notin Default!Victims(g)
  <1> DEFINE F == {j \in Completed(f) : i < j}
             G == {j \in Completed(g) : i < j}
  <1>1. IsFiniteSet(Ids)
    BY StoreAssumption, FS_Interval DEF Ids
  <1>2. IsFiniteSet(F)
    BY <1>1, FS_Subset DEF Completed
  <1>3. Cardinality(G) <= Cardinality(F) /\ IsFiniteSet(G)
    BY <1>2, FS_Subset
  <1>4. Cardinality(F) \in Nat /\ Cardinality(G) \in Nat
    BY <1>2, <1>3, FS_CardinalityType
  <1>5. SUFFICES ASSUME i \in Completed(g), Cardinality(G) >= DefaultRetained
                 PROVE  FALSE
    BY DefaultVictims
  <1>6. Cardinality(F) < DefaultRetained
    <2>1. ~(Cardinality(F) >= DefaultRetained)
      BY <1>5, DefaultVictims
    <2>2. QED
      BY <2>1, <1>4, AgentAssumption
  <1>7. QED
    BY <1>3, <1>4, <1>5, <1>6, AgentAssumption

\* What retention leaves of a directory.
LEMMA PrunedFiles ==
  ASSUME NEW f \in [Ids -> Data], NEW V \in SUBSET Completed(f), NEW g,
         g = [i \in Ids |-> IF i \in V THEN Absent ELSE f[i]]
  PROVE  /\ g \in [Ids -> Data]
         /\ Present(g) = Present(f) \ V
         /\ Completed(g) = Completed(f) \ V
         /\ \A i \in Ids : i \notin V => g[i] = f[i]
  <1>1. Absent \in Data /\ Absent.status = "absent"
    BY StoreAssumption DEF Absent, Data, Statuses, NoPositions, NoState, Progress, Pos, NoPos
  <1>2. \A i \in Ids : g[i] = IF i \in V THEN Absent ELSE f[i]
    OBVIOUS
  <1>3. g \in [Ids -> Data]
    BY <1>1
  <1>4. Present(g) = Present(f) \ V
    BY <1>1, <1>2 DEF Present
  <1>5. Completed(g) = Completed(f) \ V
    BY <1>1, <1>2 DEF Completed
  <1>6. QED
    BY <1>2, <1>3, <1>4, <1>5

\* The directory is opened, by an engine or by the savepoint code: its pointers are
\* repaired and the victims V removed.
Opening(V) ==
  /\ files' = [i \in Ids |-> IF i \in V THEN Absent ELSE files[i]]
  /\ latest' = RepairedPointer(files, latest, FALSE)
  /\ latestCompleted' = RepairedPointer(files, latestCompleted, TRUE)
  /\ dirs' = (dirs \cap Present(files)) \ V

\* Both ways to open it.
LEMMA OpenedBy ==
  /\ Maintain => Opening(Victims(files))
  /\ Default!Maintain => Opening(Default!Victims(files))
  <1>1. /\ Default!Present(files) = Present(files) /\ Default!Completed(files) = Completed(files)
        /\ Default!Ids = Ids /\ Default!NoId = NoId /\ Default!Absent = Absent
    BY Zenon DEF Present, Default!Present, Completed, Default!Completed, Ids, Default!Ids, NoId,
       Default!NoId, Absent, Default!Absent, NoPositions, Default!NoPositions, NoState,
       Default!NoState, NoPos, Default!NoPos
  <1>2. ASSUME NEW ptr, NEW b \in BOOLEAN
        PROVE  Default!RepairedPointer(files, ptr, b) = RepairedPointer(files, ptr, b)
    <2>1. Default!Usable(files, b) = Usable(files, b)
      BY <1>1 DEF Usable, Default!Usable
    <2>2. Default!Newest(Usable(files, b)) = Newest(Usable(files, b))
      BY <1>1, Zenon DEF Newest, Default!Newest, IsNewest, Default!IsNewest
    <2>3. QED
      BY <1>1, <2>1, <2>2, Zenon DEF RepairedPointer, Default!RepairedPointer, LoadPointer,
         Default!LoadPointer
  <1>3. Maintain => Opening(Victims(files))
    BY DEF Maintain, Opening
  <1>4. Default!Maintain => Opening(Default!Victims(files))
    BY <1>1, <1>2, Zenon DEF Default!Maintain, Opening
  <1>5. QED
    BY <1>3, <1>4

\* What opening it keeps.
LEMMA Opened ==
  ASSUME StoreType, Directory, NEW V \in SUBSET Completed(files), Opening(V),
         UNCHANGED <<torn, blobs>>
  PROVE  /\ StoreType' /\ Directory'
         /\ Present(files') = Present(files) \ V
         /\ Completed(files') = Completed(files) \ V
         /\ \A i \in Ids \ V : files'[i] = files[i]
         /\ \A i \in dirs \ V : i \in Present(files) => i \in dirs'
  <1>1. Opening(V)
    OBVIOUS
  <1> USE DEF Opening
  <1>3. /\ files' \in [Ids -> Data]
        /\ Present(files') = Present(files) \ V
        /\ Completed(files') = Completed(files) \ V
        /\ \A i \in Ids : i \notin V => files'[i] = files[i]
    BY PrunedFiles, ZenonT(60) DEF StoreType
  <1>4. Present(files) \subseteq Ids /\ Completed(files) \subseteq Ids
    BY DEF Present, Completed
  <1>5. /\ latest \in Present(files) => latest' = latest
        /\ latest \notin Present(files) => latest' = latest \/ IsNewest(latest', Present(files))
        /\ latest' \in {latest} \cup Present(files)
    BY <1>1, <1>4, NewestIsOne DEF RepairedPointer, LoadPointer, Usable
  <1>6. /\ latestCompleted \in Completed(files) => latestCompleted' = latestCompleted
        /\ latestCompleted \notin Completed(files) =>
             latestCompleted' = latestCompleted \/ IsNewest(latestCompleted', Completed(files))
        /\ latestCompleted' \in {latestCompleted} \cup Completed(files)
    BY <1>1, <1>4, NewestIsOne DEF RepairedPointer, LoadPointer, Usable
  <1>7. StoreType'
    BY <1>1, <1>3, <1>4, <1>5, <1>6 DEF StoreType
  <1>8. latestCompleted' \notin Default!Victims(files')
    <2>1. CASE IsNewest(latestCompleted', Completed(files))
      BY <2>1, <1>3, NewestIsSafe, SafeWhenFewer DEF IsNewest
    <2>2. CASE latestCompleted' = latestCompleted
      BY <2>2, <1>3, SafeWhenFewer DEF Directory
    <2>3. QED
      BY <1>6, <2>1, <2>2
  <1>9. ASSUME latest' \in Present(files'), files'[latest'].status = "prepared"
        PROVE  IsNewest(latest', Present(files'))
    <2>1. latest' \in Present(files) /\ files[latest'].status = "prepared"
      BY <1>3, <1>4, <1>9
    <2>2. IsNewest(latest', Present(files))
      BY <1>5, <2>1 DEF Directory
    <2>3. QED
      BY <1>3, <1>9, <2>2 DEF IsNewest
  <1>10. Directory'
    BY <1>8, <1>9 DEF Directory
  <1>11. QED
    BY <1>3, <1>7, <1>10

\* What a save leaves in the directory, whatever its victims.
LEMMA SavedStore ==
  ASSUME StoreType, NEW id \in Ids, NEW data \in Data, data.status # "absent",
         NEW V \in SUBSET Completed(Saved(id, data)), SaveWith(V, id, data),
         UNCHANGED <<torn, blobs>>
  PROVE  /\ StoreType'
         /\ Present(files') = (Present(files) \cup {id}) \ V
         /\ Completed(files') = Completed(Saved(id, data)) \ V
         /\ \A i \in Ids \ V : files'[i] = IF i = id THEN data ELSE files[i]
         /\ Completed(Saved(id, data)) \ {id} = Completed(files) \ {id}
         /\ id \in Completed(Saved(id, data)) <=> data.status = "completed"
  <1> DEFINE f == Saved(id, data)
  <1>1. f \in [Ids -> Data] /\ \A i \in Ids : f[i] = IF i = id THEN data ELSE files[i]
    BY DEF StoreType, Saved
  <1>2. Present(f) = Present(files) \cup {id}
    BY <1>1 DEF Present
  <1>3. Completed(f) \ {id} = Completed(files) \ {id} /\ (id \in Completed(f) <=> data.status = "completed")
    BY <1>1 DEF Completed
  <1>4. files' = [i \in Ids |-> IF i \in V THEN Absent ELSE f[i]]
    BY DEF SaveWith
  <1> HIDE DEF f
  <1>5. /\ files' \in [Ids -> Data]
        /\ Present(files') = Present(f) \ V
        /\ Completed(files') = Completed(f) \ V
        /\ \A i \in Ids : i \notin V => files'[i] = f[i]
    <2>1. V \in SUBSET Completed(f)
      BY DEF f
    <2>2. QED
      BY <1>1, <1>4, <2>1, PrunedFiles, ZenonT(60)
  <1>6. StoreType'
    <2>1. latest' = id /\ latestCompleted' \in {id, latestCompleted} /\ dirs' \subseteq dirs \cup {id}
      BY DEF SaveWith
    <2>2. QED
      BY <1>5, <2>1 DEF StoreType
  <1>7. QED
    BY <1>1, <1>2, <1>3, <1>5, <1>6 DEF f

\* The engine saves the newest checkpoint, prepared or completed.
LEMMA SavedNewest ==
  ASSUME StoreType, Directory, NEW id \in Ids, NEW data \in Data,
         data.status \in {"prepared", "completed"},
         \A i \in Present(files) : i <= id, Save(id, data), UNCHANGED <<torn, blobs>>
  PROVE  /\ StoreType' /\ Directory'
         /\ Present(files') \subseteq Present(files) \cup {id}
         /\ files'[id] = data
         /\ id \in dirs'
         /\ data.status = "completed" => latestCompleted' = id
  <1> DEFINE f == Saved(id, data)
             V == Victims(f)
  <1>1. V \in SUBSET Completed(f) /\ SaveWith(V, id, data)
    BY DEF Victims, Save
  <1>2. /\ StoreType'
        /\ Present(files') = (Present(files) \cup {id}) \ V
        /\ Completed(files') = Completed(f) \ V
        /\ \A i \in Ids \ V : files'[i] = IF i = id THEN data ELSE files[i]
        /\ Completed(f) \ {id} = Completed(files) \ {id}
        /\ id \in Completed(f) <=> data.status = "completed"
    BY <1>1, SavedStore
  <1>3. latest' = id /\ latestCompleted' = (IF data.status = "completed" THEN id ELSE latestCompleted)
        /\ dirs' = (dirs \cup {id}) \ V
    BY <1>1 DEF SaveWith
  <1> HIDE DEF f, V
  <1>4. data.status = "completed" => IsNewest(id, Completed(f))
    <2>1. \A i \in Completed(files) : i <= id
      BY DEF Completed, Present
    <2>2. id <= id
      BY IdsAreNumbers
    <2>3. QED
      BY <1>2, <2>1, <2>2 DEF IsNewest
  <1>5. id \notin V
    <2>1. CASE data.status = "completed"
      BY <1>4, <2>1, NewestIsSafe DEF V
    <2>2. CASE data.status # "completed"
      BY <1>1, <1>2, <2>2
    <2>3. QED
      BY <2>1, <2>2
  <1>6. latestCompleted' \notin Default!Victims(files')
    <2>1. CASE data.status = "completed"
      <3>1. id \notin Default!Victims(f) /\ id \in Completed(f)
        BY <1>2, <1>4, <2>1, NewestIsSafe
      <3>2. QED
        BY <1>2, <1>3, <2>1, <3>1, SafeWhenFewer
    <2>2. CASE data.status # "completed"
      <3>1. Completed(files') \subseteq Completed(files)
        BY <1>2, <2>2
      <3>2. QED
        BY <1>3, <2>2, <3>1, SafeWhenFewer DEF Directory
    <2>3. QED
      BY <2>1, <2>2
  <1>7. IsNewest(latest', Present(files'))
    <2>1. id <= id
      BY IdsAreNumbers
    <2>2. QED
      BY <1>2, <1>3, <1>5, <2>1 DEF IsNewest
  <1>8. Directory'
    BY <1>6, <1>7 DEF Directory
  <1>9. QED
    BY <1>2, <1>3, <1>5, <1>8

\* The savepoint code saves a restored checkpoint, which may be an old one: it is the
\* latest, unless the default retention takes it at once.
LEMMA SavedRestored ==
  ASSUME StoreType, Directory, NEW id \in Ids, NEW data \in Data, data.status = "completed",
         DefaultSave(id, data), UNCHANGED <<torn, blobs>>
  PROVE  /\ StoreType' /\ Directory'
         /\ Present(files') \subseteq Present(files) \cup {id}
         /\ latest' = id
         /\ NewerCompleted(id) \in Nat
         /\ NewerCompleted(id) < DefaultRetained => files'[id] = data
  <1> DEFINE f == Saved(id, data)
             V == Default!Victims(f)
             newer == {j \in Completed(f) : id < j}
  <1>1. V \in SUBSET Completed(f) /\ SaveWith(V, id, data)
    BY DefaultVictims DEF DefaultSave
  <1>2. /\ StoreType'
        /\ Present(files') = (Present(files) \cup {id}) \ V
        /\ Completed(files') = Completed(f) \ V
        /\ \A i \in Ids \ V : files'[i] = IF i = id THEN data ELSE files[i]
        /\ Completed(f) \ {id} = Completed(files) \ {id}
        /\ id \in Completed(f)
    BY <1>1, SavedStore
  <1>3. latest' = id /\ latestCompleted' = id
    BY <1>1 DEF SaveWith
  <1>4. newer = {i \in Completed(files) : i > id}
    <2>1. \A j \in Ids : (id < j <=> j > id) /\ ~(id < id)
      BY IdsAreNumbers
    <2>2. Completed(f) \subseteq Ids /\ Completed(files) \subseteq Ids
      BY DEF Completed
    <2>3. QED
      BY <1>2, <2>1, <2>2
  <1>5. NewerCompleted(id) = Cardinality(newer)
    BY <1>4 DEF NewerCompleted
  <1>6. Cardinality(newer) \in Nat
    <2>1. IsFiniteSet(Ids) /\ newer \subseteq Ids
      BY StoreAssumption, FS_Interval DEF Ids, Completed
    <2>2. QED
      BY <2>1, FS_Subset, FS_CardinalityType
  <1>7. V = {i \in Completed(f) : Cardinality({j \in Completed(f) : i < j}) >= DefaultRetained}
    BY DefaultVictims
  <1>8. NewerCompleted(id) < DefaultRetained => id \notin V
    <2>1. id \in V => Cardinality(newer) >= DefaultRetained
      BY <1>7
    <2>2. QED
      BY <1>5, <1>6, <2>1, AgentAssumption
  <1>9. latestCompleted' \notin Default!Victims(files')
    <2>1. CASE id \in V
      BY <1>2, <1>3, <2>1, DefaultVictims
    <2>2. CASE id \notin V
      BY <1>2, <1>3, <2>2, SafeWhenFewer
    <2>3. QED
      BY <2>1, <2>2
  <1> HIDE DEF f, V, newer
  <1>10. latest' \in Present(files') => files'[latest'].status = "completed"
    BY <1>2, <1>3
  <1>11. Directory'
    BY <1>9, <1>10 DEF Directory
  <1>12. QED
    BY <1>2, <1>3, <1>5, <1>6, <1>8, <1>11

-----------------------------------------------------------------------------
(* What most steps leave alone.                                            *)

\* Where a process runs the job.
Hosting == {"run", "ended", "closing", "returned", "settled", "promote", "promoted"}

\* Once the engine has resumed, nothing changes what it resumed from.
LEMMA RestoreSettled ==
  ASSUME Restoring, RestoredIsArchived, proc.pc \in Hosting, proc'.pc \in Hosting \cup {"exited"},
         UNCHANGED <<setup, torn>>, proc'.restore = proc.restore, proc'.seed = proc.seed,
         proc'.newer = proc.newer, eng'.resumed = eng.resumed, eng'.began = eng.began
  PROVE  Restoring' /\ RestoredIsArchived'
  <1>1. Running(proc.pc)
    BY DEF Running, Hosting
  <1>2. Restoring'
    BY <1>1 DEF Restoring, Hosting
  <1>3. RestoredIsArchived'
    BY DEF RestoredIsArchived, Restored, ResumedSeed, Hosting
  <1>4. QED
    BY <1>2, <1>3

\* A request leaves what is restored alone.
LEMMA RestoreUntouched ==
  ASSUME Restoring, RestoredIsArchived, UNCHANGED <<storeVars, setup, torn, proc, eng>>
  PROVE  Restoring' /\ RestoredIsArchived'
  BY DEF Restoring, RestoredIsArchived, Restored, ResumedSeed, Running, storeVars

\* The directory and the blobs are as they were.
LEMMA StoreUntouched ==
  ASSUME StoreType, Directory, Issued, UNCHANGED <<storeVars, torn, blobs, used>>,
         proc'.seed = proc.seed
  PROVE  StoreType' /\ Directory' /\ Issued'
  BY DEF StoreType, Directory, Issued, storeVars

-----------------------------------------------------------------------------
(* The run.                                                                *)

\* Advance: a run that has its last checkpoint does not go on.
LEMMA StepAdvance ==
  ASSUME AgentInv, NEW p \in Partitions, Advance(p)
  PROVE  AgentInv'
  <1> USE DEF AgentInv, AgentTypeOK
  <1>1. /\ UNCHANGED <<storeVars, setup, torn, blobs, proc, agent, used>>
        /\ eng' = [eng EXCEPT !.pos[p] = @ + 1]
        /\ proc.pc = "run" /\ ~Stopping /\ eng.pos[p] < LogEnd
    BY DEF Advance, Streaming
  <1>2. ~eng.drained
    BY <1>1 DEF Drained
  <1>3. EngineType'
    BY <1>1, StoreAssumption DEF EngineType, Progress, Pos
  <1>4. /\ eng'.drained = eng.drained /\ eng'.inFlight = eng.inFlight
        /\ eng'.committed = eng.committed /\ eng'.hard = eng.hard /\ eng'.stageErr = eng.stageErr
        /\ eng'.fatal = eng.fatal /\ eng'.coordErr = eng.coordErr /\ eng'.watched = eng.watched
        /\ eng'.resumed = eng.resumed /\ eng'.began = eng.began
    BY <1>1 DEF EngineType
  <1>5. StoreType' /\ Directory' /\ Issued' /\ ProcessType' /\ AgentType'
    BY <1>1, StoreUntouched DEF ProcessType, AgentType
  <1>6. InFlight' /\ Drained' /\ CleanExitKeepsPromises'
    BY <1>1, <1>2, <1>4 DEF InFlight, Drained, CleanExitKeepsPromises, storeVars
  <1>7. Failures' /\ Promotion'
    BY <1>1, <1>4 DEF Failures, Promotion, CleanResult, Terminal, storeVars
  <1>8. Restoring' /\ RestoredIsArchived'
    BY <1>1, <1>4, RestoreSettled DEF Hosting
  <1>9. QED
    BY <1>3, <1>5, <1>6, <1>7, <1>8

\* A change of the engine's flags that neither moves it nor ends its checkpoint.
LEMMA StepFlags ==
  ASSUME AgentInv, proc.pc \in {"run", "ended"}, UNCHANGED <<storeVars, setup, torn, blobs, agent, used>>,
         EngineType', Failures', ProcessType', proc'.pc \in {"run", "ended"},
         proc'.restore = proc.restore, proc'.seed = proc.seed, proc'.newer = proc.newer,
         eng'.resumed = eng.resumed, eng'.began = eng.began, eng'.pos = eng.pos,
         eng'.drained = eng.drained,
         \/ eng'.inFlight = NoId /\ ~eng'.committed
         \/ eng'.inFlight = eng.inFlight /\ (eng'.committed => eng.inFlight # NoId),
         proc'.pc = "run" => proc.pc = "run"
  PROVE  AgentInv'
  <1> USE DEF AgentInv, AgentTypeOK
  <1>1. StoreType' /\ Directory' /\ Issued' /\ AgentType'
    BY StoreUntouched DEF AgentType
  <1>2. InFlight'
    BY DEF InFlight, storeVars
  <1>3. Drained'
    BY DEF Drained, Holds, Stopping, AtEnd, storeVars
  <1>4. CleanExitKeepsPromises' /\ Promotion'
    BY DEF CleanExitKeepsPromises, Promotion
  <1>5. Restoring' /\ RestoredIsArchived'
    BY RestoreSettled DEF Hosting
  <1>6. QED
    BY <1>1, <1>2, <1>3, <1>4, <1>5

\* CommitSink, CoordinatorFails, WatcherRelays, WatcherSeesEnd, HardCancel and StagesEnd:
\* an error is on its way, and a cancellation keeps none out.
LEMMA StepEngine ==
  ASSUME AgentInv,
         \/ CommitSink
         \/ \E err \in {"canceled", "error"} : CoordinatorFails(err)
         \/ WatcherRelays \/ WatcherSeesEnd
         \/ \E failed \in BOOLEAN : HardCancel(failed)
         \/ StagesEnd
  PROVE  AgentInv'
  <1>t. EngineType /\ ProcessType /\ Failures /\ InFlight
    BY DEF AgentInv, AgentTypeOK
  <1>n. Nil # "canceled" /\ Nil # "error"
    BY AgentAssumption
  <1> USE <1>t DEF EngineType, ProcessType, Errors
  <1>1. CASE CommitSink
    <2>1. /\ proc.pc \in {"run", "ended"} /\ eng.inFlight # NoId
          /\ eng' = [eng EXCEPT !.committed = TRUE]
          /\ UNCHANGED <<storeVars, setup, torn, blobs, proc, agent, used>>
      BY <1>1 DEF CommitSink
    <2>2. EngineType' /\ ProcessType' /\ Failures'
      BY <2>1 DEF Failures
    <2>3. QED
      BY <2>1, <2>2, StepFlags
  <1>2. ASSUME NEW err \in {"canceled", "error"}, CoordinatorFails(err)
        PROVE  AgentInv'
    <2>1. /\ proc.pc \in {"run", "ended"}
          /\ eng.inFlight # NoId \/ ~eng.hard
          /\ err = "canceled" => eng.hard
          /\ eng' = [eng EXCEPT !.inFlight = NoId, !.committed = FALSE,
                                !.fatal = IF eng.fatal = Nil THEN err ELSE @]
          /\ proc' = [proc EXCEPT !.failed = @ \/ err = "error"]
          /\ UNCHANGED <<storeVars, setup, torn, blobs, agent, used>>
      BY <1>2 DEF CoordinatorFails, Streaming
    <2>2. EngineType' /\ ProcessType'
      BY <2>1 DEF NoId
    <2>3. /\ proc'.pc = proc.pc /\ proc'.restore = proc.restore /\ proc'.seed = proc.seed
          /\ proc'.newer = proc.newer /\ (proc'.failed <=> proc.failed \/ err = "error")
          /\ eng'.inFlight = NoId /\ ~eng'.committed
          /\ eng'.fatal = (IF eng.fatal = Nil THEN err ELSE eng.fatal)
          /\ eng'.hard = eng.hard /\ eng'.stageErr = eng.stageErr /\ eng'.coordErr = eng.coordErr
          /\ eng'.watched = eng.watched /\ eng'.drained = eng.drained
          /\ eng'.resumed = eng.resumed /\ eng'.began = eng.began /\ eng'.pos = eng.pos
      BY <2>1
    <2>4. eng.fatal # "canceled" /\ eng.coordErr # "canceled"
      BY <1>n, <2>1 DEF Failures
    <2>5. Failures'
      BY <1>n, <2>1, <2>3, <2>4 DEF Failures
    <2>6. QED
      BY <2>1, <2>2, <2>3, <2>5, StepFlags
  <1>3. CASE WatcherRelays
    <2>1. /\ proc.pc \in {"run", "ended"} /\ ~eng.watched /\ eng.fatal # Nil
          /\ eng' = [eng EXCEPT !.coordErr = eng.fatal, !.fatal = Nil, !.hard = TRUE, !.watched = TRUE]
          /\ UNCHANGED <<storeVars, setup, torn, blobs, proc, agent, used>>
      BY <1>3 DEF WatcherRelays
    <2>2. EngineType' /\ ProcessType'
      BY <2>1
    <2>3. eng.coordErr = Nil
      BY <2>1 DEF Failures
    <2>4. Failures'
      BY <1>n, <2>1, <2>3 DEF Failures
    <2>5. QED
      BY <2>1, <2>2, <2>4, StepFlags DEF InFlight
  <1>4. CASE WatcherSeesEnd
    <2>1. /\ proc.pc = "ended" /\ eng' = [eng EXCEPT !.watched = TRUE]
          /\ UNCHANGED <<storeVars, setup, torn, blobs, proc, agent, used>>
      BY <1>4 DEF WatcherSeesEnd
    <2>2. EngineType' /\ ProcessType' /\ Failures'
      BY <2>1 DEF Failures
    <2>3. QED
      BY <2>1, <2>2, StepFlags DEF InFlight
  <1>5. ASSUME NEW failed \in BOOLEAN, HardCancel(failed)
        PROVE  AgentInv'
    <2>1. /\ proc.pc = "run" /\ eng' = [eng EXCEPT !.hard = TRUE, !.stageErr = failed]
          /\ UNCHANGED <<storeVars, setup, torn, blobs, proc, agent, used>>
      BY <1>5 DEF HardCancel, Streaming
    <2>2. EngineType' /\ ProcessType' /\ Failures'
      BY <2>1 DEF Failures
    <2>3. QED
      BY <2>1, <2>2, StepFlags DEF InFlight
  <1>6. CASE StagesEnd
    <2>1. /\ proc.pc = "run" /\ proc' = [proc EXCEPT !.pc = "ended"]
          /\ UNCHANGED <<storeVars, setup, torn, blobs, eng, agent, used>>
      BY <1>6 DEF StagesEnd
    <2>2. EngineType' /\ ProcessType' /\ Failures'
      BY <2>1 DEF Failures, Pcs
    <2>3. QED
      BY <2>1, <2>2, StepFlags DEF InFlight
  <1>7. QED
    BY <1>1, <1>2, <1>3, <1>4, <1>5, <1>6

\* ExecuteReturns: a failure is an error, or the cancellation it left behind.
LEMMA StepReturns ==
  ASSUME AgentInv, ExecuteReturns
  PROVE  AgentInv'
  <1> USE DEF AgentInv, AgentTypeOK
  <1>n. Nil # "canceled" /\ Nil # "error"
    BY AgentAssumption
  <1>1. /\ proc.pc = "ended" /\ (setup.coordinated => eng.inFlight = NoId)
        /\ agent' = [agent EXCEPT !.result = Result]
        /\ proc' = [proc EXCEPT !.pc = "closing"]
        /\ UNCHANGED <<storeVars, setup, torn, blobs, eng, used>>
    BY DEF ExecuteReturns
  <1>2. Result \in {"nil", "canceled", "error"}
    BY DEF Result, CoordErr, EngineType, Errors
  <1>3. ProcessType' /\ AgentType' /\ EngineType'
    BY <1>1, <1>2, ZenonT(60) DEF ProcessType, AgentType, EngineType, Pcs
  <1>4. /\ proc'.pc = "closing" /\ proc'.restore = proc.restore /\ proc'.seed = proc.seed
        /\ proc'.newer = proc.newer /\ proc'.failed = proc.failed
        /\ agent'.result = Result
        /\ agent'.req = agent.req /\ agent'.label = agent.label /\ agent'.accepted = agent.accepted
    BY <1>1 DEF ProcessType, AgentType
  <1>5. StoreType' /\ Directory' /\ Issued'
    BY <1>1, <1>4, StoreUntouched
  <1>6. InFlight' /\ Drained'
    BY <1>1, <1>4 DEF InFlight, Drained, Holds, storeVars
  <1>7. proc.failed => Result = "error"
    BY <1>n, <1>1 DEF Failures, Result, CoordErr
  <1>8. eng.stageErr => Result \in {"canceled", "error"}
    BY DEF Result, CoordErr, EngineType, Errors
  <1>9. Failures' /\ Promotion' /\ CleanExitKeepsPromises'
    BY <1>1, <1>4, <1>7, <1>8 DEF Failures, Promotion, CleanExitKeepsPromises
  <1>10. Restoring' /\ RestoredIsArchived'
    BY <1>1, <1>4, RestoreSettled DEF Hosting
  <1>11. QED
    BY <1>3, <1>5, <1>6, <1>9, <1>10

\* RunNotesShutdown: the result stays as Execute returned it.
LEMMA StepNotes ==
  ASSUME AgentInv, RunNotesShutdown
  PROVE  AgentInv'
  <1> USE DEF AgentInv, AgentTypeOK
  <1>1. /\ proc.pc = "closing"
        /\ agent' = [agent EXCEPT !.shutdown = agent.ctxDone]
        /\ proc' = [proc EXCEPT !.pc = "returned"]
        /\ UNCHANGED <<storeVars, setup, torn, blobs, eng, used>>
    BY DEF RunNotesShutdown
  <1>2. ProcessType' /\ AgentType' /\ EngineType'
    BY <1>1 DEF ProcessType, AgentType, EngineType, Pcs
  <1>3. /\ proc'.pc = "returned" /\ proc'.restore = proc.restore /\ proc'.seed = proc.seed
        /\ proc'.newer = proc.newer /\ proc'.failed = proc.failed
        /\ agent'.result = agent.result
        /\ agent'.req = agent.req /\ agent'.label = agent.label /\ agent'.accepted = agent.accepted
    BY <1>1 DEF ProcessType, AgentType
  <1>4. StoreType' /\ Directory' /\ Issued'
    BY <1>1, <1>3, StoreUntouched
  <1>5. InFlight' /\ Drained'
    BY <1>1, <1>3 DEF InFlight, Drained, Holds, storeVars
  <1>6. Failures' /\ Promotion' /\ CleanExitKeepsPromises'
    BY <1>1, <1>3 DEF Failures, Promotion, CleanExitKeepsPromises
  <1>7. Restoring' /\ RestoredIsArchived'
    BY <1>1, <1>3, RestoreSettled DEF Hosting
  <1>8. QED
    BY <1>2, <1>4, <1>5, <1>6, <1>7

\* RunSettles: the phase is the result's.
LEMMA StepSettles ==
  ASSUME AgentInv, RunSettles
  PROVE  AgentInv'
  <1> USE DEF AgentInv, AgentTypeOK
  <1>1. /\ proc.pc = "returned"
        /\ agent' = [agent EXCEPT !.phase = IF CleanResult THEN "finished" ELSE "failed", !.ctxDone = TRUE]
        /\ proc' = [proc EXCEPT !.pc = "settled"]
        /\ UNCHANGED <<storeVars, setup, torn, blobs, eng, used>>
    BY DEF RunSettles
  <1>2. ProcessType' /\ AgentType' /\ EngineType'
    <2>1. PICK phase \in {"finished", "failed"} :
            agent' = [agent EXCEPT !.phase = phase, !.ctxDone = TRUE]
      BY <1>1
    <2>2. AgentType'
      BY <2>1 DEF AgentType
    <2>3. QED
      BY <1>1, <2>2 DEF ProcessType, EngineType, Pcs
  <1>3. /\ proc'.pc = "settled" /\ proc'.restore = proc.restore /\ proc'.seed = proc.seed
        /\ proc'.newer = proc.newer /\ proc'.failed = proc.failed
        /\ agent'.phase = (IF CleanResult THEN "finished" ELSE "failed")
        /\ agent'.result = agent.result /\ agent'.shutdown = agent.shutdown
        /\ agent'.req = agent.req /\ agent'.label = agent.label /\ agent'.accepted = agent.accepted
    BY <1>1 DEF ProcessType, AgentType
  <1>4. StoreType' /\ Directory' /\ Issued'
    BY <1>1, <1>3, StoreUntouched
  <1>5. InFlight' /\ Drained'
    BY <1>1, <1>3 DEF InFlight, Drained, Holds, storeVars
  <1>6. CleanResult' <=> CleanResult
    BY <1>3 DEF CleanResult
  <1>7. Failures' /\ Promotion' /\ CleanExitKeepsPromises'
    BY <1>1, <1>3, <1>6 DEF Failures, Promotion, CleanExitKeepsPromises, Terminal
  <1>8. Restoring' /\ RestoredIsArchived'
    BY <1>1, <1>3, RestoreSettled DEF Hosting
  <1>9. QED
    BY <1>2, <1>4, <1>5, <1>7, <1>8

-----------------------------------------------------------------------------
(* Requests and signals.                                                   *)

\* A request changes the agent alone, and never a phase that is settled.
LEMMA StepAgent ==
  ASSUME AgentInv, AgentType', UNCHANGED <<storeVars, setup, torn, blobs, proc, eng, used>>,
         agent.ctxDone => agent'.ctxDone,
         agent'.phase = agent.phase \/ ~Terminal(agent.phase),
         agent'.result = agent.result, agent'.shutdown = agent.shutdown,
         \/ agent'.req = agent.req /\ agent'.label = agent.label /\ agent'.accepted = agent.accepted
         \/ /\ proc.pc \in {"start", "run", "ended", "closing", "returned"}
            /\ agent'.req /\ agent'.label \in Labels /\ agent'.accepted = agent'.label,
         Running(proc.pc)
  PROVE  AgentInv'
  <1> USE DEF AgentInv, AgentTypeOK
  <1>1. StoreType' /\ Directory' /\ Issued' /\ ProcessType' /\ EngineType'
    BY StoreUntouched DEF ProcessType, EngineType
  <1>2. InFlight'
    BY DEF InFlight, storeVars
  <1>3. Drained'
    BY DEF Drained, Holds, Stopping, AtEnd, storeVars
  <1>4. CleanResult' <=> CleanResult
    BY DEF CleanResult
  <1>5. Failures'
    BY <1>4 DEF Failures
  <1>6. Promotion'
    <2>1. UNCHANGED <<files, latestCompleted, dirs, torn, blobs, proc, eng>>
      BY DEF storeVars
    <2>2. proc.pc \in {"promote", "promoted"} =>
            agent'.phase = agent.phase /\ agent'.req = agent.req /\ agent'.accepted = agent.accepted
      BY DEF Failures
    <2>3. IF agent'.req THEN agent'.label \in Labels /\ agent'.accepted = agent'.label
          ELSE agent'.accepted = Nil
      BY DEF Promotion
    <2>4. QED
      BY <2>1, <2>2, <2>3 DEF Promotion, Holds
  <1>7. CleanExitKeepsPromises'
    BY DEF CleanExitKeepsPromises, Running
  <1>8. Restoring' /\ RestoredIsArchived'
    BY RestoreUntouched
  <1>9. QED
    BY <1>1, <1>2, <1>3, <1>5, <1>6, <1>7, <1>8

\* Cancel, RequestSavepoint, RequestCancels and Terminate.
LEMMA StepRequest ==
  ASSUME AgentInv,
         Cancel \/ (\E l \in Labels : RequestSavepoint(l)) \/ RequestCancels \/ Terminate
  PROVE  AgentInv'
  <1>t. AgentType /\ ProcessType
    BY DEF AgentInv, AgentTypeOK
  <1> USE <1>t DEF AgentType
  <1>1. CASE Cancel
    <2>1. /\ proc.pc \in {"start", "run", "ended", "closing", "returned"}
          /\ UNCHANGED <<storeVars, setup, torn, blobs, proc, eng, used>>
          /\ \/ agent' = agent
             \/ agent' = [agent EXCEPT !.phase = "cancelling", !.ctxDone = TRUE] /\ ~Terminal(agent.phase)
      BY <1>1 DEF Cancel, Serving, Cancelled, Accepts
    <2>2. Running(proc.pc)
      BY <2>1 DEF Running
    <2>3. AgentType'
      BY <2>1
    <2>4. QED
      BY <2>1, <2>2, <2>3, StepAgent
  <1>2. ASSUME NEW l \in Labels, RequestSavepoint(l)
        PROVE  AgentInv'
    <2>1. /\ proc.pc \in {"start", "run", "ended", "closing", "returned"}
          /\ UNCHANGED <<storeVars, setup, torn, blobs, proc, eng, used>>
          /\ agent' = [agent EXCEPT !.req = TRUE, !.label = l, !.handler = TRUE, !.accepted = l]
      BY <1>2 DEF RequestSavepoint, Serving
    <2>2. Running(proc.pc)
      BY <2>1 DEF Running
    <2>3. AgentType'
      BY <2>1
    <2>4. QED
      BY <2>1, <2>2, <2>3, StepAgent
  <1>3. CASE RequestCancels
    <2>1. /\ Running(proc.pc)
          /\ UNCHANGED <<storeVars, setup, torn, blobs, proc, eng, used>>
          /\ \/ agent' = [agent EXCEPT !.handler = FALSE]
             \/ /\ agent' = [agent EXCEPT !.phase = "cancelling", !.ctxDone = TRUE, !.handler = FALSE]
                /\ ~Terminal(agent.phase)
      BY <1>3 DEF RequestCancels, Cancelled, Accepts
    <2>2. AgentType'
      BY <2>1
    <2>3. QED
      BY <2>1, <2>2, StepAgent
  <1>4. CASE Terminate
    <2>1. /\ proc.pc \in {"run", "ended", "closing"}
          /\ UNCHANGED <<storeVars, setup, torn, blobs, proc, eng, used>>
          /\ agent' = [agent EXCEPT !.ctxDone = TRUE]
      BY <1>4 DEF Terminate
    <2>2. Running(proc.pc) /\ AgentType'
      BY <2>1 DEF Running
    <2>3. QED
      BY <2>1, <2>2, StepAgent
  <1>5. QED
    BY <1>1, <1>2, <1>3, <1>4

-----------------------------------------------------------------------------
(* After the run.                                                          *)

\* Exit: a phase that is not "failed" is a clean result and a savepoint that is stored.
LEMMA StepExit ==
  ASSUME AgentInv, Exit
  PROVE  AgentInv'
  <1> USE DEF AgentInv, AgentTypeOK
  <1>1. /\ proc.pc = "promoted" \/ (proc.pc = "settled" /\ ~agent.req)
        /\ proc' = Exited(proc, IF agent.phase = "failed" THEN 1 ELSE 0)
        /\ UNCHANGED <<storeVars, setup, torn, blobs, eng, agent, used>>
    BY DEF Exit
  <1>2. /\ proc'.pc = "exited" /\ proc'.restore = proc.restore /\ proc'.seed = proc.seed
        /\ proc'.newer = proc.newer /\ proc'.failed = proc.failed
        /\ proc'.code = 0 => agent.phase # "failed"
    BY <1>1 DEF Exited, ProcessType
  <1>3. ProcessType' /\ AgentType' /\ EngineType'
    <2>1. PICK code \in {0, 1} : proc' = [proc EXCEPT !.pc = "exited", !.code = code]
      BY <1>1 DEF Exited
    <2>2. ProcessType
      OBVIOUS
    <2>3. used' = used
      BY <1>1
    <2>4. ProcessType'
      BY ONLY <2>1, <2>2, <2>3 DEF ProcessType, Pcs
    <2>5. QED
      BY <1>1, <2>4 DEF AgentType, EngineType
  <1>4. StoreType' /\ Directory' /\ Issued'
    BY <1>1, <1>2, StoreUntouched
  <1>5. InFlight' /\ Drained' /\ Failures'
    BY <1>1, <1>2 DEF InFlight, Drained, Failures, storeVars
  <1>6. Promotion'
    BY <1>1, <1>2 DEF Promotion
  <1>7. CleanExitKeepsPromises'
    <2>1. SUFFICES ASSUME agent.phase # "failed"
                   PROVE  /\ ~proc.failed
                          /\ eng.stageErr => agent.result = "canceled"
                          /\ agent.result = "nil" \/ agent.shutdown
                          /\ agent.accepted # Nil =>
                               /\ blobs[agent.accepted] # Nil
                               /\ blobs[agent.accepted].id = LoadPointer(files, latestCompleted, TRUE)
                               /\ eng.drained => /\ blobs[agent.accepted].whole
                                                 /\ blobs[agent.accepted].data.state = eng.pos
      BY <1>1, <1>2 DEF CleanExitKeepsPromises, storeVars
    <2>2. agent.phase = "finished" /\ CleanResult
      BY <1>1, <2>1 DEF Failures, Terminal
    <2>3. ~proc.failed /\ (eng.stageErr => agent.result = "canceled")
      BY <1>1, <2>2 DEF Failures, CleanResult
    <2>4. agent.result = "nil" \/ agent.shutdown
      BY <2>2 DEF CleanResult
    <2>5. CASE proc.pc = "promoted"
      BY <2>2, <2>3, <2>4, <2>5 DEF Promotion
    <2>6. CASE ~agent.req
      BY <2>3, <2>4, <2>6 DEF Promotion
    <2>7. QED
      BY <1>1, <2>5, <2>6
  <1>8. Restoring' /\ RestoredIsArchived'
    BY <1>1, <1>2, RestoreSettled DEF Hosting
  <1>9. QED
    BY <1>3, <1>4, <1>5, <1>6, <1>7, <1>8

\* NothingToPromote: the phase is "failed" from here on.
LEMMA StepNothing ==
  ASSUME AgentInv, NothingToPromote
  PROVE  AgentInv'
  <1> USE DEF AgentInv, AgentTypeOK
  <1>1. /\ proc.pc = "settled" /\ agent' = [agent EXCEPT !.phase = "failed"]
        /\ proc' = [proc EXCEPT !.pc = "promoted"]
        /\ Default!Maintain \/ UNCHANGED storeVars
        /\ UNCHANGED <<setup, torn, blobs, eng, used>>
    BY DEF NothingToPromote, MarkSavepointFailed
  <1>2. ProcessType' /\ AgentType' /\ EngineType'
    BY <1>1 DEF ProcessType, AgentType, EngineType, Pcs
  <1>3. /\ proc'.pc = "promoted" /\ proc'.restore = proc.restore /\ proc'.seed = proc.seed
        /\ proc'.newer = proc.newer /\ proc'.failed = proc.failed
        /\ agent'.phase = "failed" /\ agent'.result = agent.result /\ agent'.shutdown = agent.shutdown
        /\ agent'.req = agent.req /\ agent'.label = agent.label /\ agent'.accepted = agent.accepted
    BY <1>1 DEF ProcessType, AgentType
  <1>4. StoreType' /\ Directory' /\ Present(files') \subseteq Present(files)
    <2>1. CASE UNCHANGED storeVars
      BY <1>1, <2>1 DEF StoreType, Directory, storeVars
    <2>2. CASE Default!Maintain
      <3>1. Opening(Default!Victims(files)) /\ Default!Victims(files) \in SUBSET Completed(files)
        BY <2>2, OpenedBy, DefaultVictims
      <3>2. QED
        BY <1>1, <3>1, Opened
    <2>3. QED
      BY <1>1, <2>1, <2>2
  <1>5. Issued'
    BY <1>1, <1>3, <1>4 DEF Issued
  <1>6. InFlight' /\ Drained'
    BY <1>1, <1>3 DEF InFlight, Drained
  <1>7. CleanResult' <=> CleanResult
    BY <1>3 DEF CleanResult
  <1>8. Failures' /\ Promotion' /\ CleanExitKeepsPromises'
    BY <1>1, <1>3, <1>7 DEF Failures, Promotion, CleanExitKeepsPromises, Terminal
  <1>9. Restoring' /\ RestoredIsArchived'
    BY <1>1, <1>3, RestoreSettled DEF Hosting
  <1>10. QED
    BY <1>2, <1>4, <1>5, <1>6, <1>8, <1>9

\* CreateSavepoint: opening the directory again does not take the checkpoint it picks.
LEMMA StepCreate ==
  ASSUME AgentInv, CreateSavepoint
  PROVE  AgentInv'
  <1> USE DEF AgentInv, AgentTypeOK
  <1> DEFINE V == Default!Victims(files)
  <1>0. PICK found : found = LoadPointer(files', latestCompleted', TRUE)
    OBVIOUS
  <1>1. /\ proc.pc = "settled" /\ agent.req /\ found # NoId
        /\ proc' = [proc EXCEPT !.pc = "promote", !.chosen = found]
        /\ UNCHANGED <<setup, torn, blobs, eng, agent, used>>
    BY <1>0 DEF CreateSavepoint
  <1>2. Opening(V) /\ V \in SUBSET Completed(files)
    BY OpenedBy, DefaultVictims DEF CreateSavepoint
  <1>3. /\ Completed(files') = Completed(files) \ V /\ Completed(files) \in SUBSET Ids
        /\ latestCompleted' = RepairedPointer(files, latestCompleted, TRUE)
    <2> HIDE DEF V
    <2>1. Completed(files') = Completed(files) \ V
      BY <1>1, <1>2, Opened
    <2>2. QED
      BY <1>2, <2>1 DEF Opening, Completed
  <1>4. /\ found \in Completed(files) /\ found \notin V
        /\ latestCompleted' = found
        /\ latestCompleted \in Completed(files) => found = latestCompleted
    <2>1. CASE latestCompleted \in Completed(files)
      <3>1. latestCompleted' = latestCompleted
        BY <1>3, <2>1, IdsAreNumbers DEF RepairedPointer, LoadPointer, Usable
      <3>2. latestCompleted \notin V
        BY DEF Directory
      <3>3. QED
        BY <1>0, <1>3, <2>1, <3>1, <3>2 DEF LoadPointer, Usable
    <2>2. CASE latestCompleted \notin Completed(files)
      <3>1. Completed(files) # {}
        <4>1. Completed(files') \in SUBSET Ids
          BY <1>3
        <4>2. found \in Completed(files')
          BY <1>0, <1>1, <4>1, NewestIsOne DEF LoadPointer, Usable
        <4>3. QED
          BY <1>3, <4>2
      <3>2. latestCompleted' = Newest(Completed(files)) /\ Newest(Completed(files)) # NoId
        BY <1>3, <2>2, <3>1, NewestExists DEF RepairedPointer, LoadPointer, Usable
      <3>3. IsNewest(latestCompleted', Completed(files))
        BY <1>3, <3>2, NewestIsOne
      <3>4. latestCompleted' \in Completed(files')
        BY <1>3, <3>3, NewestIsSafe DEF IsNewest
      <3>5. QED
        BY <1>0, <1>3, <2>2, <3>4 DEF LoadPointer, Usable
    <2>3. QED
      BY <2>1, <2>2
  <1> HIDE DEF V
  <1>5. found \in Ids
    BY <1>4 DEF Completed
  <1>6. /\ StoreType' /\ Directory'
        /\ Present(files') = Present(files) \ V
        /\ Completed(files') = Completed(files) \ V
        /\ \A i \in Ids \ V : files'[i] = files[i]
        /\ \A i \in dirs \ V : i \in Present(files) => i \in dirs'
    BY <1>1, <1>2, Opened
  <1>7. ProcessType' /\ AgentType' /\ EngineType'
    <2>1. ProcessType /\ used' = used /\ proc' = [proc EXCEPT !.pc = "promote", !.chosen = found]
      BY <1>1
    <2>2. ProcessType'
      BY ONLY <1>5, <2>1 DEF ProcessType, Pcs
    <2>3. QED
      BY <1>1, <2>2 DEF AgentType, EngineType
  <1>8. /\ proc'.pc = "promote" /\ proc'.restore = proc.restore /\ proc'.seed = proc.seed
        /\ proc'.newer = proc.newer /\ proc'.failed = proc.failed /\ proc'.chosen = found
    BY <1>1 DEF ProcessType
  <1>9. Issued'
    BY <1>1, <1>6, <1>8 DEF Issued
  <1>10. InFlight' /\ Drained' /\ CleanExitKeepsPromises'
    BY <1>1, <1>8 DEF InFlight, Drained, CleanExitKeepsPromises
  <1>11. Failures'
    BY <1>1, <1>8 DEF Failures, CleanResult
  <1>12. eng.drained => Holds(found)'
    <2>1. SUFFICES ASSUME eng.drained
                   PROVE  /\ found \in Completed(files') /\ files'[found].state = eng.pos
                          /\ found \in dirs' \ torn
      BY <1>1 DEF Holds
    <2>2. Holds(latestCompleted)
      BY <1>1, <2>1 DEF Drained
    <2>3. found = latestCompleted /\ found \in Present(files)
      BY <1>4, <2>2 DEF Holds, Present, Completed
    <2>4. QED
      BY <1>4, <1>5, <1>6, <2>2, <2>3 DEF Holds
  <1>13. Promotion'
    <2>1. proc'.chosen \in Completed(files')
      BY <1>4, <1>6, <1>8
    <2>2. eng'.drained => Holds(proc.chosen)'
      BY <1>1, <1>8, <1>12 DEF Holds
    <2>3. QED
      BY <1>1, <1>4, <1>8, <2>1, <2>2 DEF Promotion
  <1>14. Restoring' /\ RestoredIsArchived'
    BY <1>1, <1>8, RestoreSettled DEF Hosting
  <1>15. QED
    BY <1>6, <1>7, <1>9, <1>10, <1>11, <1>13, <1>14

\* PutSavepoint: the archive is of the checkpoint that was picked.
LEMMA StepPut ==
  ASSUME AgentInv, NEW put \in FilePut \cup S3Put, PutSavepoint(put)
  PROVE  AgentInv'
  <1> USE DEF AgentInv, AgentTypeOK
  <1> DEFINE archive == [id |-> proc.chosen, data |-> files[proc.chosen],
                         whole |-> proc.chosen \in dirs \ torn]
  <1>1. /\ proc.pc = "promote" /\ proc' = [proc EXCEPT !.pc = "promoted"]
        /\ blobs' = IF put.stored THEN [blobs EXCEPT ![agent.label] = Archive(proc.chosen)] ELSE blobs
        /\ put.stored => Archive(proc.chosen) # Nil
        /\ IF put.ok THEN agent' = agent ELSE agent' = [agent EXCEPT !.phase = "failed"]
        /\ UNCHANGED <<storeVars, setup, torn, eng, used>>
    BY DEF PutSavepoint, MarkSavepointFailed
  <1>2. put.ok => put.stored
    BY DEF FilePut, S3Put
  <1>3. /\ proc.chosen = latestCompleted /\ proc.chosen \in Completed(files) /\ proc.chosen \in Ids
        /\ agent.label \in Labels /\ agent.accepted = agent.label
    BY <1>1 DEF Promotion, Completed
  <1>4. Archive(proc.chosen) = archive
    BY <1>3 DEF Archive, Completed
  <1>5. archive \in Archives /\ proc.chosen <= used.ids
    BY <1>3 DEF Archives, StoreType, Issued, Present, Completed
  <1> HIDE DEF archive
  <1>6. blobs' \in [Labels -> Archives \cup {Nil}]
    BY <1>1, <1>3, <1>4, <1>5 DEF StoreType
  <1>7. ProcessType' /\ AgentType' /\ EngineType' /\ StoreType' /\ Directory'
    BY <1>1, <1>6 DEF ProcessType, AgentType, EngineType, Pcs, StoreType, Directory, storeVars
  <1>8. /\ proc'.pc = "promoted" /\ proc'.restore = proc.restore /\ proc'.seed = proc.seed
        /\ proc'.newer = proc.newer /\ proc'.failed = proc.failed
        /\ agent'.phase = (IF put.ok THEN agent.phase ELSE "failed")
        /\ agent'.result = agent.result /\ agent'.shutdown = agent.shutdown
        /\ agent'.req = agent.req /\ agent'.label = agent.label /\ agent'.accepted = agent.accepted
    BY <1>1 DEF ProcessType, AgentType
  <1>9. Issued'
    <2>1. \A l \in Labels : blobs'[l] = blobs[l] \/ blobs'[l] = archive
      BY <1>1, <1>3, <1>4 DEF StoreType
    <2>2. archive.id = proc.chosen
      BY DEF archive
    <2>3. QED
      BY <1>1, <1>5, <1>8, <2>1, <2>2 DEF Issued, storeVars
  <1>10. InFlight' /\ Drained' /\ CleanExitKeepsPromises'
    BY <1>1, <1>8 DEF InFlight, Drained, CleanExitKeepsPromises
  <1>11. CleanResult' <=> CleanResult
    BY <1>8 DEF CleanResult
  <1>12. Failures'
    BY <1>1, <1>8, <1>11 DEF Failures, Terminal
  <1>13. Promotion'
    <2>1. put.ok => blobs'[agent.label] = archive /\ archive # Nil
      BY <1>1, <1>2, <1>3, <1>4 DEF StoreType
    <2>2. archive.id = LoadPointer(files, latestCompleted, TRUE)
      BY <1>3 DEF archive, LoadPointer, Usable
    <2>3. eng.drained => archive.whole /\ archive.data.state = eng.pos
      BY <1>1 DEF archive, Promotion, Holds
    <2>4. QED
      BY <1>1, <1>3, <1>8, <2>1, <2>2, <2>3, ZenonT(60) DEF Promotion, storeVars
  <1>14. Restoring' /\ RestoredIsArchived'
    BY <1>1, <1>8, RestoreSettled DEF Hosting
  <1>15. QED
    BY <1>7, <1>9, <1>10, <1>12, <1>13, <1>14

\* Crash, at any point of a process.
LEMMA StepCrash ==
  ASSUME AgentInv, Crash
  PROVE  AgentInv'
  <1> USE DEF AgentInv, AgentTypeOK
  <1>1. /\ torn' = IF proc.pc = "extract" THEN torn \cup {proc.seed.id} ELSE torn
        /\ dirs' = IF proc.pc = "extract" THEN dirs \cup {proc.seed.id} ELSE dirs
        /\ proc' = FreshProc("down", Nil) /\ agent' = FreshAgent /\ eng' = FreshEngine
        /\ UNCHANGED <<files, latest, latestCompleted, setup, blobs, used>>
    BY DEF Crash
  <1>2. proc.pc = "extract" => proc.seed.id \in Ids /\ proc.seed.id <= used.ids
    BY DEF Restoring, ProcessType, Archives, Issued
  <1>3. NoState \in Progress
    BY StoreAssumption DEF NoState, Progress, Pos
  <1>4. ProcessType' /\ AgentType' /\ EngineType'
    BY <1>1, <1>3 DEF ProcessType, AgentType, EngineType, FreshProc, FreshAgent, FreshEngine, Pcs,
                      Errors
  <1>5. StoreType' /\ Directory'
    BY <1>1, <1>2 DEF StoreType, Directory
  <1>6. proc'.pc = "down" /\ proc'.seed = Nil /\ ~eng'.committed /\ eng'.inFlight = NoId
        /\ ~agent'.req /\ agent'.accepted = Nil
    BY <1>1 DEF FreshProc, FreshEngine, FreshAgent
  <1>7. Issued'
    BY <1>1, <1>2, <1>6 DEF Issued
  <1>8. InFlight' /\ Drained' /\ Failures' /\ Promotion'
    BY <1>6 DEF InFlight, Drained, Failures, Promotion
  <1>9. Restoring' /\ RestoredIsArchived' /\ CleanExitKeepsPromises'
    BY <1>6 DEF Restoring, Running, RestoredIsArchived, Restored, CleanExitKeepsPromises
  <1>10. QED
    BY <1>4, <1>5, <1>7, <1>8, <1>9

-----------------------------------------------------------------------------
(* The checkpoints of the engine.                                          *)

\* The history stays a sequence of checkpoints.
LEMMA HistoryType ==
  ASSUME AgentType, NEW id \in Ids, OnCheckpointReport(id)
  PROVE  /\ AgentType'
         /\ agent'.ctxDone = agent.ctxDone /\ agent'.phase = agent.phase
         /\ agent'.result = agent.result /\ agent'.shutdown = agent.shutdown
         /\ agent'.req = agent.req /\ agent'.label = agent.label /\ agent'.accepted = agent.accepted
  <1> DEFINE all == <<id>> \o agent.history
             n == IF Len(all) < MaxHistory THEN Len(all) ELSE MaxHistory
  <1>1. agent.history \in Seq(Ids)
    BY DEF AgentType
  <1>2. all \in Seq(Ids) /\ Len(all) \in Nat
    BY <1>1
  <1>3. n \in Nat /\ n <= Len(all) /\ n >= 1
    BY <1>1, <1>2, AgentAssumption
  <1>4. agent' = [agent EXCEPT !.history = SubSeq(all, 1, n)]
    BY DEF OnCheckpointReport
  <1> HIDE DEF all, n
  <1>5. SubSeq(all, 1, n) \in Seq(Ids)
    BY <1>2, <1>3, SubSeqProperties
  <1>6. QED
    BY <1>4, <1>5 DEF AgentType

\* What the next checkpoint is given for an ID.
LEMMA NextId ==
  ASSUME ProcessType, Issued, used.ids < MaxId
  PROVE  /\ used.ids + 1 \in Ids /\ used.ids + 1 # NoId
         /\ used.ids + 1 \in 0 .. MaxId
         /\ used.ids + 1 \notin torn
         /\ \A i \in Present(files) : i <= used.ids + 1
         /\ used.ids <= used.ids + 1
  <1>1. used.ids \in 0 .. MaxId /\ MaxId \in Nat
    BY StoreAssumption DEF ProcessType
  <1>2. \A i \in Present(files) \cup torn : i <= used.ids
    BY DEF Issued
  <1>3. \A i \in Present(files) : i \in Nat
    BY IdsAreNumbers DEF Present
  <1>4. used.ids + 1 \in Ids /\ used.ids + 1 # NoId /\ used.ids + 1 \in 0 .. MaxId
    BY <1>1 DEF Ids, NoId
  <1>5. ~(used.ids + 1 <= used.ids)
    BY <1>1
  <1>6. \A i \in Present(files) : i <= used.ids + 1
    BY <1>1, <1>2, <1>3
  <1>7. QED
    BY <1>1, <1>2, <1>4, <1>5, <1>6

\* The IDs that have been issued, after one more.
LEMMA IssuedMore ==
  ASSUME AgentTypeOK, Issued, NEW id, id \in Nat, used.ids <= id, used'.ids = id,
         Present(files') \subseteq Present(files) \cup {id},
         UNCHANGED <<torn, blobs>>, proc'.seed = proc.seed
  PROVE  Issued'
  <1>1. used.ids \in Nat
    BY StoreAssumption DEF AgentTypeOK, ProcessType
  <1>2. \A i \in Ids : i \in Nat /\ (i <= used.ids => i <= id)
    BY <1>1, IdsAreNumbers
  <1>3. Present(files) \subseteq Ids /\ torn \subseteq Ids /\ id <= id
    BY DEF AgentTypeOK, StoreType, Present
  <1>4. \A i \in Present(files') \cup torn : i <= id
    BY <1>2, <1>3 DEF Issued
  <1>5. \A l \in Labels : blobs[l] # Nil => blobs[l].id \in Ids /\ blobs[l].id <= used.ids
    BY DEF Issued, AgentTypeOK, StoreType, Archives
  <1>6. proc.seed # Nil => proc.seed.id \in Ids /\ proc.seed.id <= used.ids
    BY DEF Issued, AgentTypeOK, ProcessType, Archives
  <1>7. QED
    BY <1>2, <1>4, <1>5, <1>6 DEF Issued

\* What the engine has processed makes a record of a checkpoint.
LEMMA RecordType ==
  ASSUME EngineType, NEW status \in Statuses
  PROVE  /\ Record(status) \in Data
         /\ Record(status).status = status /\ Record(status).state = eng.pos
  BY DEF EngineType, Record, Data, Progress

\* SaveCheckpoint: the final checkpoint holds everything the run has processed.
LEMMA StepSaveCheckpoint ==
  ASSUME AgentInv, SaveCheckpoint
  PROVE  AgentInv'
  <1> USE DEF AgentInv, AgentTypeOK
  <1> DEFINE id == used.ids + 1
  <1>1. /\ proc.pc = "run" /\ ~setup.coordinated /\ used.ids < MaxId
        /\ Save(id, Record("completed")) /\ OnCheckpointReport(id)
        /\ eng' = [eng EXCEPT !.drained = Stopping]
        /\ used' = [used EXCEPT !.ids = id]
        /\ UNCHANGED <<setup, torn, blobs, proc>>
    BY DEF SaveCheckpoint, Streaming
  <1>2. /\ id \in Ids /\ id # NoId /\ id \in 0 .. MaxId /\ id \notin torn
        /\ (\A i \in Present(files) : i <= id) /\ used.ids <= id
    BY <1>1, NextId
  <1>3. /\ Record("completed") \in Data
        /\ Record("completed").status = "completed" /\ Record("completed").state = eng.pos
    BY RecordType DEF Statuses
  <1>4. used'.ids = id /\ ProcessType'
    BY <1>1, <1>2 DEF ProcessType
  <1> HIDE DEF id
  <1>5. /\ StoreType' /\ Directory'
        /\ Present(files') \subseteq Present(files) \cup {id}
        /\ files'[id] = Record("completed") /\ id \in dirs' /\ latestCompleted' = id
    BY <1>1, <1>2, <1>3, SavedNewest
  <1>6. /\ AgentType'
        /\ agent'.ctxDone = agent.ctxDone /\ agent'.phase = agent.phase
        /\ agent'.result = agent.result /\ agent'.shutdown = agent.shutdown
        /\ agent'.req = agent.req /\ agent'.label = agent.label /\ agent'.accepted = agent.accepted
    BY <1>1, <1>2, HistoryType
  <1>7. Stopping \in BOOLEAN
    BY DEF Stopping, AtEnd, AgentType
  <1>8. EngineType'
    BY <1>1, <1>7 DEF EngineType
  <1>9. /\ eng'.drained = Stopping /\ eng'.pos = eng.pos /\ eng'.inFlight = eng.inFlight
        /\ eng'.committed = eng.committed /\ eng'.hard = eng.hard /\ eng'.stageErr = eng.stageErr
        /\ eng'.fatal = eng.fatal /\ eng'.coordErr = eng.coordErr /\ eng'.watched = eng.watched
        /\ eng'.resumed = eng.resumed /\ eng'.began = eng.began
    BY <1>1 DEF EngineType
  <1>10. Issued'
    BY <1>1, <1>2, <1>4, <1>5, IdsAreNumbers, IssuedMore
  <1>11. InFlight'
    BY <1>1, <1>9 DEF InFlight
  <1>12. Drained'
    <2>1. Stopping => Stopping'
      BY <1>6, <1>9 DEF Stopping, AtEnd
    <2>2. Holds(latestCompleted)'
      BY <1>1, <1>2, <1>3, <1>5, <1>9 DEF Holds, Completed
    <2>3. QED
      BY <1>9, <2>1, <2>2 DEF Drained
  <1>13. CleanExitKeepsPromises' /\ Failures' /\ Promotion'
    BY <1>1, <1>6, <1>9 DEF CleanExitKeepsPromises, Failures, Promotion
  <1>14. Restoring' /\ RestoredIsArchived'
    BY <1>1, <1>9, RestoreSettled DEF Hosting
  <1>15. QED
    BY <1>4, <1>5, <1>6, <1>8, <1>10, <1>11, <1>12, <1>13, <1>14

\* SavePrepared: the checkpoint in its commit is the newest.
LEMMA StepSavePrepared ==
  ASSUME AgentInv, SavePrepared
  PROVE  AgentInv'
  <1> USE DEF AgentInv, AgentTypeOK
  <1> DEFINE id == used.ids + 1
  <1>1. /\ proc.pc = "run" /\ ~eng.hard /\ setup.checkpointing /\ setup.coordinated
        /\ used.ids < MaxId /\ ~eng.drained /\ eng.inFlight = NoId
        /\ Save(id, Record("prepared"))
        /\ eng' = [eng EXCEPT !.inFlight = id]
        /\ used' = [used EXCEPT !.ids = id]
        /\ UNCHANGED <<setup, torn, blobs, proc, agent>>
    BY DEF SavePrepared, Streaming
  <1>2. /\ id \in Ids /\ id # NoId /\ id \in 0 .. MaxId /\ id \notin torn
        /\ (\A i \in Present(files) : i <= id) /\ used.ids <= id
    BY <1>1, NextId
  <1>3. Record("prepared") \in Data /\ Record("prepared").status = "prepared"
    BY RecordType DEF Statuses
  <1>4. used'.ids = id /\ ProcessType' /\ AgentType'
    BY <1>1, <1>2 DEF ProcessType, AgentType
  <1> HIDE DEF id
  <1>5. /\ StoreType' /\ Directory'
        /\ Present(files') \subseteq Present(files) \cup {id}
        /\ files'[id] = Record("prepared") /\ id \in dirs'
    BY <1>1, <1>2, <1>3, SavedNewest
  <1>6. EngineType'
    BY <1>1, <1>2 DEF EngineType
  <1>7. /\ eng'.drained = eng.drained /\ eng'.pos = eng.pos /\ eng'.inFlight = id
        /\ eng'.committed = eng.committed /\ eng'.hard = eng.hard /\ eng'.stageErr = eng.stageErr
        /\ eng'.fatal = eng.fatal /\ eng'.coordErr = eng.coordErr /\ eng'.watched = eng.watched
        /\ eng'.resumed = eng.resumed /\ eng'.began = eng.began
    BY <1>1 DEF EngineType
  <1>8. Issued'
    BY <1>1, <1>2, <1>4, <1>5, IdsAreNumbers, IssuedMore
  <1>9. InFlight'
    BY <1>1, <1>2, <1>3, <1>4, <1>5, <1>7 DEF InFlight
  <1>10. Drained' /\ CleanExitKeepsPromises' /\ Promotion'
    BY <1>1, <1>7 DEF Drained, CleanExitKeepsPromises, Promotion
  <1>11. Failures'
    BY <1>1, <1>7, AgentAssumption DEF Failures
  <1>12. Restoring' /\ RestoredIsArchived'
    BY <1>1, <1>7, RestoreSettled DEF Hosting
  <1>13. QED
    BY <1>4, <1>5, <1>6, <1>8, <1>9, <1>10, <1>11, <1>12

\* CompletePrepared: the checkpoint that committed is promoted, and is still the newest.
LEMMA StepCompletePrepared ==
  ASSUME AgentInv, CompletePrepared
  PROVE  AgentInv'
  <1> USE DEF AgentInv, AgentTypeOK
  <1>0. PICK id : id = eng.inFlight
    OBVIOUS
  <1> DEFINE data == [files[id] EXCEPT !.status = "completed"]
             drained == Stopping /\ files[id].state = eng.pos
  <1>1. /\ proc.pc \in {"run", "ended"} /\ eng.committed
        /\ Save(id, data) /\ OnCheckpointReport(id)
        /\ eng' = [eng EXCEPT !.inFlight = NoId, !.committed = FALSE, !.drained = drained]
        /\ UNCHANGED <<setup, torn, blobs, proc, used>>
    BY <1>0 DEF CompletePrepared
  <1>2. /\ id \in Ids /\ id = used.ids /\ id \notin torn /\ files[id].status = "prepared"
    BY <1>0, <1>1 DEF InFlight, EngineType
  <1>3. \A i \in Present(files) : i <= id
    BY <1>2 DEF Issued
  <1>4. data \in Data /\ data.status = "completed" /\ data.state = files[id].state
    BY <1>2 DEF StoreType, Data, Statuses
  <1>5. drained \in BOOLEAN
    OBVIOUS
  <1> HIDE DEF data, drained
  <1>6. /\ StoreType' /\ Directory'
        /\ Present(files') \subseteq Present(files) \cup {id}
        /\ files'[id] = data /\ id \in dirs' /\ latestCompleted' = id
    BY <1>1, <1>2, <1>3, <1>4, SavedNewest
  <1>7. /\ AgentType'
        /\ agent'.ctxDone = agent.ctxDone /\ agent'.phase = agent.phase
        /\ agent'.result = agent.result /\ agent'.shutdown = agent.shutdown
        /\ agent'.req = agent.req /\ agent'.label = agent.label /\ agent'.accepted = agent.accepted
    BY <1>1, <1>2, HistoryType
  <1>8. EngineType' /\ ProcessType'
    BY <1>1, <1>5 DEF EngineType, ProcessType, NoId
  <1>9. /\ eng'.drained = drained /\ eng'.pos = eng.pos /\ eng'.inFlight = NoId
        /\ ~eng'.committed /\ eng'.hard = eng.hard /\ eng'.stageErr = eng.stageErr
        /\ eng'.fatal = eng.fatal /\ eng'.coordErr = eng.coordErr /\ eng'.watched = eng.watched
        /\ eng'.resumed = eng.resumed /\ eng'.began = eng.began
    BY <1>1 DEF EngineType
  <1>10. Issued'
    <2>1. id \in Nat /\ used.ids <= id /\ used'.ids = id
      BY <1>1, <1>2, IdsAreNumbers
    <2>2. QED
      BY <1>1, <1>6, <2>1, IssuedMore
  <1>11. InFlight'
    BY <1>9 DEF InFlight
  <1>12. Drained'
    <2>1. Stopping => Stopping'
      BY <1>7, <1>9 DEF Stopping, AtEnd
    <2>2. drained => Stopping /\ Holds(latestCompleted)'
      BY <1>1, <1>2, <1>4, <1>6, <1>9 DEF Holds, Completed, drained
    <2>3. QED
      BY <1>9, <2>1, <2>2 DEF Drained
  <1>13. CleanExitKeepsPromises' /\ Failures' /\ Promotion'
    BY <1>1, <1>7, <1>9 DEF CleanExitKeepsPromises, Failures, Promotion
  <1>14. Restoring' /\ RestoredIsArchived'
    BY <1>1, <1>9, RestoreSettled DEF Hosting
  <1>15. QED
    BY <1>6, <1>7, <1>8, <1>10, <1>11, <1>12, <1>13, <1>14

-----------------------------------------------------------------------------
(* Starting a process.                                                     *)

\* The engine enters Execute, resuming from id.
LEMMA Begins ==
  ASSUME AgentInv, proc.pc = "start", NEW id \in Ids \cup {NoId}, Begin(id),
         StoreType', Directory', Present(files') \subseteq Present(files),
         proc.restore # Nil /\ proc.newer < DefaultRetained =>
           /\ id = proc.seed.id /\ Positions(id) = proc.seed.data.state
           /\ proc.seed.whole => id \notin torn
  PROVE  AgentInv'
  <1> USE DEF AgentInv, AgentTypeOK
  <1>0. PICK pos : pos = Positions(id)
    OBVIOUS
  <1>1. /\ proc' = [proc EXCEPT !.pc = "run"]
        /\ eng' = [FreshEngine EXCEPT !.resumed = id, !.began = pos, !.pos = pos]
        /\ agent' = [agent EXCEPT !.phase = "running", !.cancelSet = TRUE]
        /\ UNCHANGED <<setup, torn, blobs, used>>
    BY <1>0 DEF Begin
  <1>2. pos \in Progress
    BY <1>0, StoreAssumption DEF Positions, NoState, Progress, Pos, StoreType, Data
  <1>3. ProcessType' /\ AgentType'
    BY <1>1 DEF ProcessType, AgentType, Pcs
  <1>4. EngineType'
    BY <1>1, <1>2 DEF EngineType, FreshEngine, Errors
  <1>5. /\ proc'.pc = "run" /\ proc'.restore = proc.restore /\ proc'.seed = proc.seed
        /\ proc'.newer = proc.newer /\ proc'.failed = proc.failed
        /\ eng'.resumed = id /\ eng'.began = pos /\ eng'.inFlight = NoId /\ ~eng'.committed
        /\ ~eng'.drained /\ ~eng'.stageErr /\ eng'.fatal = Nil /\ eng'.coordErr = Nil
        /\ agent'.req = agent.req /\ agent'.label = agent.label /\ agent'.accepted = agent.accepted
    BY <1>1 DEF ProcessType, AgentType, FreshEngine
  <1>6. Issued'
    BY <1>1, <1>5 DEF Issued
  <1>7. InFlight' /\ Drained' /\ CleanExitKeepsPromises' /\ Promotion'
    BY <1>5 DEF InFlight, Drained, CleanExitKeepsPromises, Promotion
  <1>8. ~proc.failed
    BY DEF Failures
  <1>9. Failures'
    BY <1>5, <1>8, AgentAssumption DEF Failures
  <1>10. Restoring'
    BY <1>1, <1>5 DEF Restoring, Running
  <1>11. RestoredIsArchived'
    <2>1. proc.newer \in Nat /\ DefaultRetained \in Nat
      BY AgentAssumption DEF ProcessType
    <2>2. proc.newer < DefaultRetained \/ proc.newer >= DefaultRetained
      BY <2>1
    <2>3. QED
      BY <1>0, <1>1, <1>5, <2>2 DEF RestoredIsArchived, Restored, ResumedSeed
  <1>12. QED
    BY <1>3, <1>4, <1>6, <1>7, <1>9, <1>10, <1>11

\* Resume: a restored checkpoint is the latest, and is there.
LEMMA StepResume ==
  ASSUME AgentInv, Resume
  PROVE  AgentInv'
  <1> USE DEF AgentInv, AgentTypeOK
  <1>0. PICK found : found = IF setup.checkpointing THEN LoadPointer(files, latest, FALSE) ELSE NoId
    OBVIOUS
  <1>1. /\ proc.pc = "start" /\ Begin(found)
        /\ latest' = IF setup.checkpointing THEN RepairedPointer(files, latest, FALSE) ELSE latest
        /\ UNCHANGED <<files, latestCompleted, dirs>>
    BY <1>0 DEF Resume
  <1>2. UNCHANGED <<torn, blobs>>
    BY <1>1 DEF Begin
  <1>3. Present(files) \in SUBSET Ids
    BY DEF Present
  <1>4. found \in Ids \cup {NoId}
    BY <1>0, <1>3, NewestIsOne DEF LoadPointer, Usable
  <1>5. /\ latest' \in {latest} \cup Present(files)
        /\ latest' = latest \/ IsNewest(latest', Present(files))
    BY <1>1, <1>3, NewestIsOne DEF RepairedPointer, LoadPointer, Usable
  <1>6. StoreType' /\ Directory'
    BY <1>1, <1>2, <1>3, <1>5 DEF StoreType, Directory
  <1>7. ASSUME proc.restore # Nil, proc.newer < DefaultRetained
        PROVE  /\ found = proc.seed.id /\ Positions(found) = proc.seed.data.state
               /\ proc.seed.whole => found \notin torn
    <2>1. /\ latest = proc.seed.id /\ files[latest].status = "completed"
          /\ files[latest].state = proc.seed.data.state /\ (proc.seed.whole => latest \notin torn)
          /\ setup.checkpointing
      BY <1>1, <1>7 DEF Restoring, Running
    <2>2. latest \in Ids
      BY <1>1, <1>7, <2>1 DEF Restoring, ProcessType, Archives
    <2>3. found = latest /\ found # NoId
      BY <1>0, <2>1, <2>2, IdsAreNumbers DEF LoadPointer, Usable, Present
    <2>4. QED
      BY <2>1, <2>3 DEF Positions
  <1>8. QED
    BY <1>1, <1>4, <1>6, <1>7, Begins

\* ResumePrepared: a prepared checkpoint that is the latest is the newest, so that no
\* retention takes it once it is promoted.
LEMMA StepResumePrepared ==
  ASSUME AgentInv, NEW committed \in BOOLEAN, ResumePrepared(committed)
  PROVE  AgentInv'
  <1> USE DEF AgentInv, AgentTypeOK
  <1>0. PICK found : found = LoadPointer(files, latest, FALSE)
    OBVIOUS
  <1>1. proc.pc = "start" /\ found # NoId /\ files[found].status = "prepared"
    BY <1>0 DEF ResumePrepared
  <1>2. Present(files) \in SUBSET Ids /\ Completed(files) \in SUBSET Ids
    BY DEF Present, Completed
  <1>3. found \in Present(files) /\ \A i \in Present(files) : i <= found
    <2>1. CASE latest \in Present(files)
      BY <1>0, <1>1, <2>1 DEF LoadPointer, Usable, Directory, IsNewest
    <2>2. CASE latest \notin Present(files)
      <3>1. found = Newest(Present(files))
        BY <1>0, <2>2 DEF LoadPointer, Usable
      <3>2. QED
        BY <1>1, <1>2, <3>1, NewestIsOne DEF IsNewest
    <2>3. QED
      BY <2>1, <2>2
  <1>4. ~(proc.restore # Nil /\ proc.newer < DefaultRetained)
    <2>1. SUFFICES ASSUME proc.restore # Nil, proc.newer < DefaultRetained PROVE FALSE
      OBVIOUS
    <2>2. latest = proc.seed.id /\ files[latest].status = "completed" /\ proc.seed # Nil
      BY <1>1, <2>1 DEF Restoring
    <2>3. latest \in Present(files)
      BY <2>2 DEF ProcessType, Archives, Present
    <2>4. QED
      BY <1>0, <1>1, <2>2, <2>3 DEF LoadPointer, Usable
  <1>5. CASE committed
    <2>1. PICK data : data = [files[found] EXCEPT !.status = "completed"]
      OBVIOUS
    <2>2. Save(found, data) /\ Begin(found)
      BY <1>0, <1>5, <2>1 DEF ResumePrepared
    <2>3. found \in Ids /\ data \in Data /\ data.status = "completed"
      BY <1>2, <1>3, <2>1 DEF StoreType, Data, Statuses
    <2>4. UNCHANGED <<torn, blobs>>
      BY <2>2 DEF Begin
    <2>5. StoreType' /\ Directory' /\ Present(files') \subseteq Present(files)
      BY <1>3, <2>2, <2>3, <2>4, SavedNewest
    <2>6. QED
      BY <1>1, <1>4, <2>2, <2>3, <2>5, Begins
  <1>6. CASE ~committed
    <2>1. PICK older : older = LoadPointer(files, latestCompleted, TRUE)
      OBVIOUS
    <2>2. /\ latestCompleted' = RepairedPointer(files, latestCompleted, TRUE)
          /\ Begin(older) /\ UNCHANGED <<files, latest, dirs>>
      BY <1>6, <2>1 DEF ResumePrepared
    <2>3. older \in Ids \cup {NoId}
      BY <1>2, <2>1, NewestIsOne DEF LoadPointer, Usable
    <2>4. UNCHANGED <<torn, blobs>>
      BY <2>2 DEF Begin
    <2>5. /\ latestCompleted' \in {latestCompleted} \cup Completed(files)
          /\ latestCompleted' = latestCompleted \/ IsNewest(latestCompleted', Completed(files))
      BY <1>2, <2>2, NewestIsOne DEF RepairedPointer, LoadPointer, Usable
    <2>6. latestCompleted' \notin Default!Victims(files)
      BY <2>5, NewestIsSafe DEF Directory
    <2>7. Default!Victims(files') = Default!Victims(files)
      BY <2>2
    <2>8. StoreType' /\ Directory'
      BY <1>2, <2>2, <2>4, <2>5, <2>6, <2>7 DEF StoreType, Directory
    <2>9. QED
      BY <1>1, <1>4, <2>2, <2>3, <2>8, Begins
  <1>7. QED
    BY <1>5, <1>6

\* A process on its way to the engine, or out: nothing but the directory and what is
\* restored can be disturbed.
LEMMA StepStarting ==
  ASSUME AgentInv, StoreType', Directory', Issued', ProcessType', Restoring',
         proc'.pc \in {"restore", "extract", "save", "start", "exited"},
         proc'.pc = "exited" => proc'.code = 1, ~proc'.failed,
         \/ eng' = FreshEngine /\ agent' = FreshAgent
         \/ UNCHANGED <<eng, agent>> /\ eng.inFlight = NoId
  PROVE  AgentInv'
  <1> USE DEF AgentInv, AgentTypeOK
  <1>1. EngineType' /\ AgentType'
    <2>1. NoState \in Progress
      BY StoreAssumption DEF NoState, Progress, Pos
    <2>2. FreshEngine.resumed = NoId
      BY DEF FreshEngine
    <2>3. CASE eng' = FreshEngine /\ agent' = FreshAgent
      BY <2>1, <2>3 DEF EngineType, AgentType, FreshEngine, FreshAgent, Errors
    <2>4. CASE UNCHANGED <<eng, agent>>
      BY <2>4 DEF EngineType, AgentType
    <2>5. QED
      BY <2>3, <2>4
  <1>2. /\ eng'.inFlight = NoId /\ ~eng'.committed
        /\ IF agent'.req THEN agent'.label \in Labels /\ agent'.accepted = agent'.label
           ELSE agent'.accepted = Nil
    BY DEF FreshEngine, FreshAgent, InFlight, Promotion
  <1>3. InFlight' /\ Drained' /\ Failures' /\ Promotion'
    BY <1>2 DEF InFlight, Drained, Failures, Promotion
  <1>4. ~(proc'.pc = "exited" /\ proc'.code = 0) /\ ~Restored'
    BY DEF Restored
  <1>5. CleanExitKeepsPromises'
    BY ONLY <1>4 DEF CleanExitKeepsPromises
  <1>6. RestoredIsArchived'
    BY ONLY <1>4 DEF RestoredIsArchived
  <1>7. QED
    BY <1>1, <1>3, <1>5, <1>6

\* Launch, with a savepoint to restore or not.
LEMMA StepLaunch ==
  ASSUME AgentInv, NEW l \in Labels \cup {Nil}, Launch(l)
  PROVE  AgentInv'
  <1> USE DEF AgentInv, AgentTypeOK
  <1>1. /\ Maintain \/ UNCHANGED storeVars
        /\ agent' = FreshAgent /\ eng' = FreshEngine
        /\ used' = [used EXCEPT !.launches = @ + 1]
        /\ UNCHANGED <<setup, torn, blobs>>
    BY DEF Launch, OpenStorage
  <1>2. PICK pc, code : /\ pc = (IF l = Nil THEN "start" ELSE IF setup.checkpointing THEN "restore" ELSE "exited")
                        /\ code = IF pc = "exited" THEN 1 ELSE 0
    OBVIOUS
  <1>3. proc' = [pc |-> pc, restore |-> l, seed |-> Nil, newer |-> 0, chosen |-> NoId,
                 failed |-> FALSE, code |-> code]
    <2>1. CASE l = Nil
      BY <1>2, <2>1 DEF Launch, FreshProc
    <2>2. CASE l # Nil /\ setup.checkpointing
      BY <1>2, <2>2 DEF Launch, FreshProc
    <2>3. CASE l # Nil /\ ~setup.checkpointing
      <3>1. proc' = [FreshProc("restore", l) EXCEPT !.pc = "exited", !.code = 1]
        BY <2>3 DEF Launch, Exited
      <3>2. pc = "exited" /\ code = 1
        BY <1>2, <2>3
      <3>3. QED
        BY <3>1, <3>2 DEF FreshProc
    <2>4. QED
      BY <2>1, <2>2, <2>3
  <1>4. used'.ids = used.ids /\ ProcessType'
    <2>1. pc \in Pcs /\ code \in {0, 1}
      BY <1>2 DEF Pcs
    <2>2. ProcessType /\ used' = [used EXCEPT !.launches = @ + 1]
      BY <1>1
    <2>3. QED
      BY ONLY <1>3, <2>1, <2>2, l \in Labels \cup {Nil} DEF ProcessType
  <1>5. StoreType' /\ Directory' /\ Present(files') \subseteq Present(files)
    <2>1. CASE UNCHANGED storeVars
      BY <1>1, <2>1 DEF StoreType, Directory, storeVars
    <2>2. CASE Maintain
      <3>1. Opening(Victims(files)) /\ Victims(files) \in SUBSET Completed(files)
        BY <2>2, OpenedBy DEF Victims
      <3>2. QED
        BY <1>1, <3>1, Opened
    <2>3. QED
      BY <1>1, <2>1, <2>2
  <1>6. Issued'
    BY <1>1, <1>3, <1>4, <1>5 DEF Issued
  <1>7. Restoring'
    BY <1>1, <1>2, <1>3 DEF Restoring, Running
  <1>8. QED
    BY <1>1, <1>2, <1>3, <1>4, <1>5, <1>6, <1>7, StepStarting

\* OpenBlob: the seed is what is stored under the label.
LEMMA StepOpenBlob ==
  ASSUME AgentInv, OpenBlob
  PROVE  AgentInv'
  <1> USE DEF AgentInv, AgentTypeOK
  <1>1. /\ proc.pc = "restore" /\ Default!Maintain
        /\ \/ /\ blobs[proc.restore] # Nil
              /\ proc' = [proc EXCEPT !.pc = "extract", !.seed = blobs[proc.restore]]
           \/ proc' = [proc EXCEPT !.pc = "exited", !.code = 1]
        /\ UNCHANGED <<setup, torn, blobs, eng, agent, used>>
    BY DEF OpenBlob, Exited
  <1>2. StoreType' /\ Directory' /\ Present(files') \subseteq Present(files)
    <2>1. Opening(Default!Victims(files)) /\ Default!Victims(files) \in SUBSET Completed(files)
      BY <1>1, OpenedBy, DefaultVictims
    <2>2. QED
      BY <1>1, <2>1, Opened
  <1>3. proc.restore # Nil /\ proc.restore \in Labels /\ setup.checkpointing /\ ~proc.failed
    BY <1>1 DEF Restoring, ProcessType, Failures, Running
  <1>4. eng.inFlight = NoId
    BY <1>1 DEF InFlight
  <1>5. CASE proc' = [proc EXCEPT !.pc = "exited", !.code = 1]
    <2>1. proc'.pc = "exited" /\ proc'.code = 1 /\ proc'.seed = proc.seed /\ proc'.failed = proc.failed
      BY <1>5 DEF ProcessType
    <2>2. ProcessType /\ used' = used
      BY <1>1
    <2>3. ProcessType'
      BY ONLY <1>5, <2>2 DEF ProcessType, Pcs
    <2>4. Issued' /\ Restoring'
      BY <1>1, <1>2, <2>1 DEF Issued, Restoring, Running
    <2>5. QED
      BY <1>1, <1>2, <1>3, <1>4, <2>1, <2>3, <2>4, StepStarting
  <1>6. CASE blobs[proc.restore] # Nil /\ proc' = [proc EXCEPT !.pc = "extract", !.seed = blobs[proc.restore]]
    <2>1. PICK seed : seed = blobs[proc.restore]
      OBVIOUS
    <2>2. seed \in Archives /\ seed # Nil /\ seed.id <= used.ids
      BY <1>3, <1>6, <2>1 DEF StoreType, Issued
    <2>3. ProcessType /\ used' = used /\ proc' = [proc EXCEPT !.pc = "extract", !.seed = seed]
      BY <1>1, <1>6, <2>1
    <2>4. ProcessType'
      BY ONLY <2>2, <2>3 DEF ProcessType, Pcs
    <2>5. proc'.pc = "extract" /\ proc'.seed = seed /\ proc'.failed = proc.failed /\ proc'.restore = proc.restore
      BY <2>3 DEF ProcessType
    <2>6. Issued' /\ Restoring'
      BY <1>1, <1>2, <1>3, <2>2, <2>5 DEF Issued, Restoring, Running
    <2>7. QED
      BY <1>1, <1>2, <1>3, <1>4, <2>4, <2>5, <2>6, StepStarting
  <1>7. QED
    BY <1>1, <1>5, <1>6

\* ExtractState and ExtractFails: state files are written over those that are there.
LEMMA StepExtract ==
  ASSUME AgentInv, ExtractState \/ ExtractFails
  PROVE  AgentInv'
  <1> USE DEF AgentInv, AgentTypeOK
  <1>0. PICK id : id = proc.seed.id
    OBVIOUS
  <1>1. /\ proc.pc \in {"extract", "save"} /\ dirs' = dirs \cup {id}
        /\ torn' \in {torn, torn \cup {id}, torn \ {id}}
        /\ \/ /\ proc' = [proc EXCEPT !.pc = "save"]
              /\ proc.seed.whole => id \notin torn'
           \/ proc' = [proc EXCEPT !.pc = "exited", !.code = 1]
        /\ UNCHANGED <<files, latest, latestCompleted, setup, blobs, eng, agent, used>>
    BY <1>0 DEF ExtractState, ExtractFails, Exited
  <1>2. proc.restore # Nil /\ proc.seed # Nil /\ setup.checkpointing /\ ~proc.failed
        /\ id \in Ids /\ id <= used.ids
    BY <1>0, <1>1 DEF Restoring, Running, Failures, Issued, ProcessType, Archives
  <1>3. eng.inFlight = NoId
    BY <1>1 DEF InFlight
  <1>4. StoreType' /\ Directory'
    BY <1>1, <1>2 DEF StoreType, Directory
  <1>5. ProcessType'
    <2>1. ProcessType /\ used' = used
      BY <1>1
    <2>2. CASE proc' = [proc EXCEPT !.pc = "save"]
      BY ONLY <2>1, <2>2 DEF ProcessType, Pcs
    <2>3. CASE proc' = [proc EXCEPT !.pc = "exited", !.code = 1]
      BY ONLY <2>1, <2>3 DEF ProcessType, Pcs
    <2>4. QED
      BY <1>1, <2>2, <2>3
  <1>6. /\ proc'.pc \in {"save", "exited"} /\ proc'.seed = proc.seed /\ proc'.failed = proc.failed
        /\ proc'.restore = proc.restore
        /\ proc'.pc = "exited" => proc'.code = 1
        /\ proc'.pc = "save" /\ proc.seed.whole => proc.seed.id \notin torn'
    BY <1>0, <1>1 DEF ProcessType
  <1>7. Issued'
    BY <1>1, <1>2, <1>6 DEF Issued
  <1>8. Restoring'
    BY <1>1, <1>2, <1>6 DEF Restoring, Running
  <1>9. QED
    BY <1>1, <1>2, <1>3, <1>4, <1>5, <1>6, <1>7, <1>8, StepStarting

\* SaveExtracted: the restored checkpoint is the latest, and is there unless retention took it.
LEMMA StepSaveExtracted ==
  ASSUME AgentInv, SaveExtracted
  PROVE  AgentInv'
  <1> USE DEF AgentInv, AgentTypeOK
  <1>0. PICK id, data, n : /\ id = proc.seed.id
                           /\ data = [proc.seed.data EXCEPT !.status = "completed"]
                           /\ n = NewerCompleted(id)
    OBVIOUS
  <1>1. /\ proc.pc = "save" /\ DefaultSave(id, data)
        /\ proc' = [proc EXCEPT !.pc = "start", !.newer = n]
        /\ UNCHANGED <<setup, torn, blobs, eng, agent, used>>
    BY <1>0 DEF SaveExtracted
  <1>2. /\ proc.restore # Nil /\ proc.seed # Nil /\ setup.checkpointing /\ ~proc.failed
        /\ proc.seed \in Archives /\ id <= used.ids /\ (proc.seed.whole => id \notin torn)
    BY <1>0, <1>1 DEF Restoring, Running, Failures, Issued, ProcessType
  <1>3. id \in Ids /\ data \in Data /\ data.status = "completed" /\ data.state = proc.seed.data.state
    BY <1>0, <1>2 DEF Archives, Data, Statuses
  <1>4. eng.inFlight = NoId
    BY <1>1 DEF InFlight
  <1>5. /\ StoreType' /\ Directory'
        /\ Present(files') \subseteq Present(files) \cup {id}
        /\ latest' = id /\ n \in Nat
        /\ n < DefaultRetained => files'[id] = data
    BY <1>0, <1>1, <1>3, SavedRestored
  <1>6. ProcessType'
    <2>1. ProcessType /\ used' = used /\ proc' = [proc EXCEPT !.pc = "start", !.newer = n] /\ n \in Nat
      BY <1>1, <1>5
    <2>2. QED
      BY ONLY <2>1 DEF ProcessType, Pcs
  <1>7. /\ proc'.pc = "start" /\ proc'.seed = proc.seed /\ proc'.failed = proc.failed
        /\ proc'.restore = proc.restore /\ proc'.newer = n
    BY <1>1 DEF ProcessType
  <1>8. Issued'
    BY <1>1, <1>2, <1>5, <1>7 DEF Issued
  <1>9. Restoring'
    BY <1>0, <1>1, <1>2, <1>3, <1>5, <1>7 DEF Restoring, Running
  <1>10. QED
    BY <1>1, <1>2, <1>4, <1>5, <1>6, <1>7, <1>8, <1>9, StepStarting

-----------------------------------------------------------------------------
(* The theorems.                                                           *)

\* Every step keeps the invariant.
LEMMA AgentStep ==
  ASSUME AgentInv, [Next]_vars
  PROVE  AgentInv'
  <1>1. CASE UNCHANGED vars
    <2>1. UNCHANGED <<storeVars, setup, torn, blobs, proc, eng, agent, used>>
      BY <1>1 DEF vars
    <2>2. AgentTypeOK' /\ Issued' /\ Directory'
      BY <2>1, StoreUntouched DEF AgentInv, AgentTypeOK, ProcessType, EngineType, AgentType
    <2>3. InFlight' /\ Drained' /\ Failures' /\ Promotion'
      BY <2>1 DEF AgentInv, InFlight, Drained, Holds, Stopping, AtEnd, Failures, CleanResult,
                  Promotion, storeVars
    <2>4. Restoring' /\ RestoredIsArchived'
      BY <2>1, RestoreUntouched DEF AgentInv
    <2>5. CleanExitKeepsPromises'
      BY <2>1 DEF AgentInv, CleanExitKeepsPromises, storeVars
    <2>6. QED
      BY <2>2, <2>3, <2>4, <2>5 DEF AgentInv
  <1>2. ASSUME Next PROVE AgentInv'
    BY <1>2, StepLaunch, StepOpenBlob, StepExtract, StepSaveExtracted, StepResume,
       StepResumePrepared, StepAdvance, StepSaveCheckpoint, StepSavePrepared, StepEngine,
       StepCompletePrepared, StepReturns, StepNotes, StepSettles, StepRequest, StepExit, StepNothing,
       StepCreate, StepPut, StepCrash DEF Next
  <1>3. QED
    BY <1>1, <1>2

\* The inductive invariant, for any number of processes, checkpoints and savepoints.
THEOREM AgentInvariant == Spec => []AgentInv
  <1>1. Init => AgentInv
    <2> SUFFICES ASSUME Init PROVE AgentInv
      OBVIOUS
    <2>1. /\ files = [i \in Ids |-> Absent] /\ latest = NoId /\ latestCompleted = NoId /\ dirs = {}
          /\ torn = {} /\ blobs = [l \in Labels |-> Nil] /\ proc = FreshProc("down", Nil)
          /\ eng = FreshEngine /\ agent = FreshAgent /\ used = [ids |-> 0, launches |-> 0]
      BY DEF Init, StoreInit
    <2>2. NoState \in Progress /\ Absent \in Data /\ Absent.status = "absent"
      BY StoreAssumption DEF NoState, Progress, Pos, Absent, Data, Statuses, NoPositions, NoPos
    <2>3. StoreType
      BY <2>1, <2>2 DEF StoreType
    <2>4. ProcessType
      BY <2>1, StoreAssumption DEF ProcessType, FreshProc, Pcs
    <2>5. EngineType /\ AgentType
      BY <2>1, <2>2 DEF EngineType, AgentType, FreshEngine, FreshAgent, Errors
    <2>6. Present(files) = {} /\ Completed(files) = {}
      BY <2>1, <2>2 DEF Present, Completed
    <2>7. Issued /\ Directory
      BY <2>1, <2>6, DefaultVictims DEF Issued, Directory, FreshProc
    <2>8. InFlight /\ Drained /\ Failures /\ Promotion
      BY <2>1 DEF InFlight, Drained, Failures, Promotion, FreshProc, FreshEngine, FreshAgent
    <2>9. Restoring /\ CleanExitKeepsPromises /\ RestoredIsArchived
      BY <2>1 DEF Restoring, CleanExitKeepsPromises, RestoredIsArchived, Restored, FreshProc, Running
    <2>10. QED
      BY <2>3, <2>4, <2>5, <2>7, <2>8, <2>9 DEF AgentInv, AgentTypeOK
  <1>2. AgentInv /\ [Next]_vars => AgentInv'
    BY AgentStep
  <1>3. QED
    BY <1>1, <1>2, PTL DEF Spec

\* An exit code of 0 means that no checkpoint failed, however late the failure was
\* reported, that no stage did unless the first shutdown was asked for after Execute had
\* settled on the cancellation the failure left behind, and that the savepoint last accepted is stored and holds the run's last checkpoint
\* (Agent.Run, Execute, promoteSavepoint, Serve).
THEOREM CleanExitIsClean == Spec => []CleanExitKeepsPromises
  <1>1. AgentInv => CleanExitKeepsPromises
    BY DEF AgentInv
  <1>2. QED
    BY <1>1, AgentInvariant, PTL

\* A run that starts from a savepoint resumes from what was archived, unless the default
\* retention took the restored checkpoint at once (RestoreSavepoint, ExtractCheckpoint,
\* enforceRetentionLocked).
THEOREM RestoreResumesTheArchive == Spec => []RestoredIsArchived
  <1>1. AgentInv => RestoredIsArchived
    BY DEF AgentInv
  <1>2. QED
    BY <1>1, AgentInvariant, PTL
=============================================================================
