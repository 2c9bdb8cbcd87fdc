-------------------------- MODULE AtLeastOnceProofs --------------------------
(***************************************************************************)
(* Proofs about AtLeastOnce, for every job and every bound.                *)
(*                                                                         *)
(* What a run has read and not settled is always somewhere: in a channel,  *)
(* in the hand-off to the sink or in the sink's own hands.  A barrier has  *)
(* what it covers in front of it, so that nothing of it is left in a       *)
(* channel when the barrier is reported.  From this follow the losses a    *)
(* resume can cause (LossIsTheSinks), what a clean stop has delivered      *)
(* (CleanStopDelivers) and, with what the operator has folded, the state   *)
(* in a checkpoint (SnapshotIsTheCut).                                     *)
(***************************************************************************)
EXTENDS AtLeastOnce, TLAPS

-----------------------------------------------------------------------------
(* Types.                                                                  *)

Places == Parts \X Nat

Offsets == UNION {[S -> Nat] : S \in SUBSET Parts}

RecordBags == UNION {[S -> Nat] : S \in SUBSET Records}

RecordMessages == [type : {"record"}, rec : Records]

BarrierMessages == [type : {"barrier"}, id : Nat, offs : Offsets]

Messages == RecordMessages \cup BarrierMessages

FlightsOf == [recs : Seq(Records), done : SUBSET Records, tries : Nat]

SinkPcs == {"run", "errored", "ending", "failing", "failed", "canceled", "returned"}

Results == {None, "nil", "error"}

Controls ==
  [stop : BOOLEAN, hard : BOOLEAN, result : Results, starts : Nat, barriers : Nat,
   faults : Nat, spoiled : BOOLEAN, err : BOOLEAN]

SourceType ==
  /\ src \in [pos : [Parts -> Nat], start : [Parts -> Nat], offs : Offsets,
              readers : SUBSET Parts, last : BOOLEAN, closed : BOOLEAN]
  /\ group \in [Parts -> Nat]

PipeType ==
  /\ ch1 \in Seq(Messages) /\ ch2 \in Seq(Messages)
  /\ op \in [state : RecordBags, base : RecordBags, dead : BOOLEAN]
  /\ snaps \in UNION {[S -> RecordBags] : S \in SUBSET Nat}
  /\ stage \in [pc : {"run", "closed", "returned"}, pumped : Seq(Records)]

SinkType ==
  /\ sink \in [pc : SinkPcs, batch : Seq(Records), flights : Seq(FlightsOf),
               failed : SUBSET Records]
  /\ out \in [dest : RecordBags, dlq : SUBSET Places, dropped : SUBSET Places, adrift : SUBSET Places]

RunType ==
  /\ saved \in [offs : Offsets, state : RecordBags, hands : SUBSET Records]
  /\ ctl \in Controls
  /\ excused \in SUBSET Records

\* Every variable has its type.
TypeOK == job \in Jobs /\ SourceType /\ PipeType /\ SinkType /\ RunType

-----------------------------------------------------------------------------
(* Where a record is.                                                      *)

Recs(q) == {q[i].rec : i \in {j \in DOMAIN q : q[j].type = "record"}}

\* The records in front of place n.
RecsBefore(q, n) == {q[i].rec : i \in {j \in DOMAIN q : j < n /\ q[j].type = "record"}}

Covered(offs) == {r \in Records : r[1] \in DOMAIN offs /\ r[2] <= offs[r[1]]}

\* What has reached the sink stage and is not lost.
Held == Settled \cup InSinksHands \cup Elems(stage.pumped)

Delivered == Held \cup excused

ThisRun == {r \in Records : src.start[r[1]] < r[2] /\ r[2] <= src.pos[r[1]]}

Positions ==
  /\ \A p \in Parts : src.start[p] <= src.pos[p]
  /\ \A p \in DOMAIN src.offs : src.start[p] < src.offs[p] /\ src.offs[p] <= src.pos[p]
  /\ \A r \in ThisRun \ job.garbled : r[1] \in DOMAIN src.offs /\ r[2] <= src.offs[r[1]]

\* Without a forced shutdown, what the run has read is somewhere.
NothingVanishes == ~ctl.hard => ThisRun \subseteq Held \cup Recs(ch2) \cup Recs(ch1)

\* What a barrier covers is in front of it.
BarriersCover ==
  /\ \A i \in DOMAIN ch2 : ch2[i].type = "barrier" =>
       Covered(ch2[i].offs) \subseteq Delivered \cup RecsBefore(ch2, i)
  /\ \A i \in DOMAIN ch1 : ch1[i].type = "barrier" =>
       Covered(ch1[i].offs) \subseteq Delivered \cup Recs(ch2) \cup RecsBefore(ch1, i)

SavedCovers == Covered(saved.offs) \subseteq Settled \cup excused \cup saved.hands

\* The stages close from the source to the sink, and the sink's program counter
\* tells what it has left.
Closing ==
  /\ src.closed => src.last \/ ctl.hard
  /\ stage.pc = "closed" => src.closed /\ ch1 = <<>> /\ ch2 = <<>>
  /\ stage.pc = "returned" => ctl.hard
  /\ sink.pc = "run" => sink.failed = {}
  /\ sink.pc \in {"ending", "returned"} => sink.batch = <<>> /\ sink.failed = {}
  /\ sink.pc \in {"ending", "returned"} /\ ~ctl.hard =>
       stage.pumped = <<>> /\ stage.pc # "run"
  /\ SinkDead => sink.flights = <<>>
  /\ sink.pc = "canceled" => ctl.hard

\* Every record that was read is accounted for.
Accounted ==
  /\ Positions /\ NothingVanishes /\ BarriersCover /\ SavedCovers /\ LossIsTheSinks

DeliveryInv == TypeOK /\ Accounted /\ Closing /\ CleanStopDelivers

-----------------------------------------------------------------------------
(* What the operator has folded.                                           *)

Cut(offs) ==
  {r \in Records \ job.garbled :
     r[1] \in DOMAIN offs /\ src.start[r[1]] < r[2] /\ r[2] <= offs[r[1]]}

Plus(S) == op.base (+) SetToBag(S)

\* Barriers are numbered in the order in which they were injected.
Numbered ==
  /\ \A i \in DOMAIN ch1 : ch1[i].type = "barrier" =>
       /\ ch1[i].id <= ctl.barriers
       /\ \A c \in DOMAIN snaps : c < ch1[i].id
       /\ \A j \in DOMAIN ch1 : j < i /\ ch1[j].type = "barrier" => ch1[j].id < ch1[i].id
       /\ \A j \in DOMAIN ch2 : ch2[j].type = "barrier" => ch2[j].id < ch1[i].id
  /\ \A i \in DOMAIN ch2 : ch2[i].type = "barrier" =>
       /\ ch2[i].id <= ctl.barriers
       /\ \A j \in DOMAIN ch2 : j < i /\ ch2[j].type = "barrier" => ch2[j].id < ch2[i].id
  /\ \A c \in DOMAIN snaps : c <= ctl.barriers

\* T is what the operator has folded since the run started: the rest of what a
\* barrier cuts off is in front of it.
Folded(T) ==
  /\ op.state = Plus(T)
  /\ ~ctl.hard => ThisRun \ job.garbled = T \cup Recs(ch1)
  /\ \A i \in DOMAIN ch1 :
       /\ ch1[i].type = "record" => ch1[i].rec \notin T \cup RecsBefore(ch1, i)
       /\ ch1[i].type = "barrier" => Cut(ch1[i].offs) = T \cup RecsBefore(ch1, i)

SnapshotsCut ==
  \A i \in DOMAIN ch2 : ch2[i].type = "barrier" /\ ch2[i].id \in DOMAIN snaps =>
    snaps[ch2[i].id] = Plus(Cut(ch2[i].offs))

SnapshotInv ==
  /\ Numbered /\ SnapshotsCut
  /\ \E T \in SUBSET Records : Folded(T)

-----------------------------------------------------------------------------
(* Lemmas: the job, sequences, offsets and bags.                           *)

\* A job does not change, and neither do the sets made from it.
LEMMA JobFrame ==
  ASSUME job' = job
  PROVE  /\ Parts' = Parts /\ Records' = Records /\ Places' = Places
         /\ Offsets' = Offsets /\ RecordBags' = RecordBags
         /\ Messages' = Messages /\ RecordMessages' = RecordMessages
         /\ BarrierMessages' = BarrierMessages /\ FlightsOf' = FlightsOf
  BY DEF Parts, Records, Places, Offsets, RecordBags, Messages, RecordMessages,
         BarrierMessages, FlightsOf

\* A record is a partition and a place in it.
LEMMA RecordFacts ==
  ASSUME job \in Jobs, NEW r \in Records
  PROVE  /\ r \in Places /\ r[1] \in Parts /\ r[2] \in Nat /\ r = <<r[1], r[2]>>
         /\ r[2] >= 1 /\ r[2] <= job.log[r[1]]
  <1>1. PICK p \in Parts : r \in {p} \X (1 .. job.log[p])
    BY DEF Records
  <1>2. job.log[p] \in Nat
    BY AtLeastOnceParameters DEF Parts
  <1>3. PICK n \in 1 .. job.log[p] : r = <<p, n>>
    BY <1>1
  <1>4. QED
    BY <1>2, <1>3 DEF Places

\* Taking from and adding to a sequence.
LEMMA Ends ==
  ASSUME NEW S, NEW q \in Seq(S)
  PROVE  /\ Len(q) \in Nat /\ DOMAIN q = 1 .. Len(q) /\ \A i \in DOMAIN q : q[i] \in S
         /\ \A x \in S : /\ Append(q, x) \in Seq(S)
                         /\ DOMAIN Append(q, x) = DOMAIN q \cup {Len(q) + 1}
                         /\ \A i \in DOMAIN q : Append(q, x)[i] = q[i]
                         /\ Append(q, x)[Len(q) + 1] = x
         /\ q # <<>> => /\ Head(q) \in S /\ Tail(q) \in Seq(S)
                        /\ 1 \in DOMAIN q /\ Head(q) = q[1]
                        /\ Len(Tail(q)) = Len(q) - 1
                        /\ \A i \in DOMAIN Tail(q) : i + 1 \in DOMAIN q /\ Tail(q)[i] = q[i + 1]
                        /\ \A i \in DOMAIN q : i # 1 => i - 1 \in DOMAIN Tail(q)
  OBVIOUS

\* The elements of a sequence.
LEMMA ElemsEnds ==
  ASSUME NEW S, NEW q \in Seq(S)
  PROVE  /\ Elems(q) \subseteq S
         /\ \A x \in S : Elems(Append(q, x)) = Elems(q) \cup {x}
         /\ q # <<>> => Elems(q) = {Head(q)} \cup Elems(Tail(q))
         /\ q = <<>> => Elems(q) = {}
  <1>1. Elems(q) \subseteq S /\ (q = <<>> => Elems(q) = {})
    BY Ends DEF Elems
  <1>2. ASSUME NEW x \in S PROVE Elems(Append(q, x)) = Elems(q) \cup {x}
    BY Ends DEF Elems
  <1>3. ASSUME q # <<>> PROVE Elems(q) = {Head(q)} \cup Elems(Tail(q))
    <2>1. Head(q) \in Elems(q)
      BY <1>3, Ends DEF Elems
    <2>2. Elems(Tail(q)) \subseteq Elems(q)
      BY <1>3, Ends DEF Elems
    <2>3. ASSUME NEW i \in DOMAIN q, i # 1 PROVE q[i] \in Elems(Tail(q))
      <3>1. i - 1 \in DOMAIN Tail(q) /\ Tail(q)[i - 1] = q[i]
        BY <1>3, <2>3, Ends
      <3>2. QED
        BY <3>1 DEF Elems
    <2>4. QED
      BY <1>3, <2>1, <2>2, <2>3, Ends DEF Elems
  <1>4. QED
    BY <1>1, <1>2, <1>3

RecOf(m) == IF m.type = "record" THEN {m.rec} ELSE {}

\* The records of a channel after a send.
LEMMA RecsAppend ==
  ASSUME NEW S, NEW q \in Seq(S), NEW x \in S
  PROVE  /\ Recs(Append(q, x)) = Recs(q) \cup RecOf(x)
         /\ \A i \in DOMAIN q : RecsBefore(Append(q, x), i) = RecsBefore(q, i)
         /\ RecsBefore(Append(q, x), Len(q) + 1) = Recs(q)
  <1>1. Recs(Append(q, x)) = Recs(q) \cup RecOf(x)
    <2>1. Recs(q) \subseteq Recs(Append(q, x))
      BY Ends DEF Recs
    <2>2. RecOf(x) \subseteq Recs(Append(q, x))
      BY Ends DEF Recs, RecOf
    <2>3. Recs(Append(q, x)) \subseteq Recs(q) \cup RecOf(x)
      BY Ends DEF Recs, RecOf
    <2>4. QED
      BY <2>1, <2>2, <2>3
  <1>2. ASSUME NEW i \in DOMAIN q PROVE RecsBefore(Append(q, x), i) = RecsBefore(q, i)
    <2>1. \A j \in DOMAIN Append(q, x) : j < i <=> j \in DOMAIN q /\ j < i
      BY Ends
    <2>2. \A j \in DOMAIN q : Append(q, x)[j] = q[j] /\ j \in DOMAIN Append(q, x)
      BY Ends
    <2>3. QED
      BY <2>1, <2>2 DEF RecsBefore
  <1>3. RecsBefore(Append(q, x), Len(q) + 1) = Recs(q)
    <2>1. \A j \in DOMAIN Append(q, x) : j < Len(q) + 1 <=> j \in DOMAIN q
      BY Ends
    <2>2. \A j \in DOMAIN q : Append(q, x)[j] = q[j] /\ j \in DOMAIN Append(q, x)
      BY Ends
    <2>3. QED
      BY <2>1, <2>2 DEF RecsBefore, Recs
  <1>4. QED
    BY <1>1, <1>2, <1>3

\* The records of a channel after a receive.
LEMMA RecsTail ==
  ASSUME NEW S, NEW q \in Seq(S), q # <<>>
  PROVE  /\ Recs(q) = RecOf(Head(q)) \cup Recs(Tail(q))
         /\ \A i \in DOMAIN Tail(q) :
              RecsBefore(q, i + 1) = RecOf(Head(q)) \cup RecsBefore(Tail(q), i)
         /\ RecsBefore(q, 1) = {}
  <1>1. RecOf(Head(q)) \subseteq Recs(q)
    BY Ends DEF Recs, RecOf
  <1>2. Recs(Tail(q)) \subseteq Recs(q)
    BY Ends DEF Recs
  <1>3. ASSUME NEW j \in DOMAIN q, q[j].type = "record"
        PROVE  q[j].rec \in RecOf(Head(q)) \cup Recs(Tail(q))
    <2>1. CASE j = 1
      BY <1>3, <2>1, Ends DEF RecOf
    <2>2. CASE j # 1
      <3>1. j - 1 \in DOMAIN Tail(q) /\ Tail(q)[j - 1] = q[j]
        BY <2>2, Ends
      <3>2. QED
        BY <1>3, <3>1 DEF Recs
    <2>3. QED
      BY <2>1, <2>2
  <1>4. ASSUME NEW i \in DOMAIN Tail(q)
        PROVE  RecsBefore(q, i + 1) = RecOf(Head(q)) \cup RecsBefore(Tail(q), i)
    <2>0. i \in Nat /\ i >= 1
      BY Ends
    <2>1. RecOf(Head(q)) \subseteq RecsBefore(q, i + 1)
      BY <2>0, Ends DEF RecsBefore, RecOf
    <2>2. ASSUME NEW j \in DOMAIN Tail(q), j < i, Tail(q)[j].type = "record"
          PROVE  Tail(q)[j].rec \in RecsBefore(q, i + 1)
      <3>1. j \in Nat /\ j + 1 \in DOMAIN q /\ j + 1 < i + 1 /\ q[j + 1] = Tail(q)[j]
        BY <2>0, <2>2, Ends
      <3>2. QED
        BY <2>2, <3>1 DEF RecsBefore
    <2>3. ASSUME NEW j \in DOMAIN q, j < i + 1, q[j].type = "record"
          PROVE  q[j].rec \in RecOf(Head(q)) \cup RecsBefore(Tail(q), i)
      <3>1. CASE j = 1
        BY <2>3, <3>1, Ends DEF RecOf
      <3>2. CASE j # 1
        <4>1. j - 1 \in DOMAIN Tail(q) /\ Tail(q)[j - 1] = q[j] /\ j - 1 < i
          <5>1. j \in Nat /\ j - 1 \in DOMAIN Tail(q)
            BY <3>2, Ends
          <5>2. Tail(q)[j - 1] = q[j]
            BY <5>1, Ends
          <5>3. QED
            BY <2>0, <2>3, <5>1, <5>2
        <4>2. QED
          BY <2>3, <4>1 DEF RecsBefore
      <3>3. QED
        BY <3>1, <3>2
    <2>4. QED
      BY <2>1, <2>2, <2>3 DEF RecsBefore
  <1>5. RecsBefore(q, 1) = {}
    BY Ends DEF RecsBefore
  <1>6. Recs(q) \subseteq RecOf(Head(q)) \cup Recs(Tail(q))
    BY <1>3 DEF Recs
  <1>7. QED
    BY <1>1, <1>2, <1>4, <1>5, <1>6

\* A position that is noted.
LEMMA NotedFacts ==
  ASSUME NEW offs \in Offsets, NEW r \in Places
  PROVE  /\ Noted(offs, r) \in Offsets
         /\ DOMAIN Noted(offs, r) = DOMAIN offs \cup {r[1]}
         /\ Noted(offs, r)[r[1]] = r[2]
         /\ \A x \in DOMAIN offs : x # r[1] => Noted(offs, r)[x] = offs[x]
  <1>1. r[1] \in Parts /\ r[2] \in Nat
    BY DEF Places
  <1>2. offs \in [DOMAIN offs -> Nat] /\ DOMAIN offs \in SUBSET Parts
    BY DEF Offsets
  <1>3. Noted(offs, r) \in [DOMAIN offs \cup {r[1]} -> Nat]
    BY <1>1, <1>2 DEF Noted
  <1>4. DOMAIN offs \cup {r[1]} \in SUBSET Parts
    BY <1>1, <1>2
  <1>5. Noted(offs, r) \in Offsets
    BY <1>3, <1>4 DEF Offsets
  <1>6. QED
    BY <1>5 DEF Noted

\* A bag of records with a set of records added to it.
LEMMA BagPlus ==
  ASSUME NEW B \in RecordBags, NEW T \in SUBSET Records
  PROVE  /\ B (+) SetToBag(T) \in RecordBags
         /\ BagToSet(B (+) SetToBag(T)) = BagToSet(B) \cup T
  <1>1. BagToSet(B (+) SetToBag(T)) = BagToSet(B) \cup T
    BY DEF BagToSet, (+), SetToBag
  <1>2. B \in [DOMAIN B -> Nat] /\ DOMAIN B \cup T \in SUBSET Records
    BY DEF RecordBags
  <1>3. B (+) SetToBag(T) \in [DOMAIN B \cup T -> Nat]
    BY <1>2 DEF (+), SetToBag
  <1>4. QED
    BY <1>1, <1>2, <1>3 DEF RecordBags

-----------------------------------------------------------------------------
(* Type correctness.                                                       *)

\* The types, with the job's sets as they were.
LEMMA TypesFrame ==
  ASSUME TypeOK, job' = job
  PROVE  /\ (job \in Jobs)'
         /\ src' \in [pos : [Parts -> Nat], start : [Parts -> Nat], offs : Offsets,
                      readers : SUBSET Parts, last : BOOLEAN, closed : BOOLEAN]
            /\ group' \in [Parts -> Nat] => SourceType'
         /\ UNCHANGED <<src, group>> => SourceType'
         /\ /\ ch1' \in Seq(Messages) /\ ch2' \in Seq(Messages)
            /\ op' \in [state : RecordBags, base : RecordBags, dead : BOOLEAN]
            /\ snaps' \in UNION {[S -> RecordBags] : S \in SUBSET Nat}
            /\ stage' \in [pc : {"run", "closed", "returned"}, pumped : Seq(Records)]
            => PipeType'
         /\ UNCHANGED <<ch1, ch2, op, snaps, stage>> => PipeType'
         /\ /\ sink' \in [pc : SinkPcs, batch : Seq(Records), flights : Seq(FlightsOf),
                          failed : SUBSET Records]
            /\ out' \in [dest : RecordBags, dlq : SUBSET Places, dropped : SUBSET Places, adrift : SUBSET Places]
            => SinkType'
         /\ UNCHANGED <<sink, out>> => SinkType'
         /\ /\ saved' \in [offs : Offsets, state : RecordBags, hands : SUBSET Records]
            /\ ctl' \in Controls
            /\ excused' \in SUBSET Records
            => RunType'
         /\ UNCHANGED <<saved, ctl, excused>> => RunType'
  <1>1. /\ Parts' = Parts /\ Records' = Records /\ Places' = Places
        /\ Offsets' = Offsets /\ RecordBags' = RecordBags
        /\ Messages' = Messages /\ FlightsOf' = FlightsOf
    BY JobFrame
  <1>2. (job \in Jobs)'
    BY DEF TypeOK
  <1>3. /\ src' \in [pos : [Parts -> Nat], start : [Parts -> Nat], offs : Offsets,
                      readers : SUBSET Parts, last : BOOLEAN, closed : BOOLEAN]
            /\ group' \in [Parts -> Nat] => SourceType'
        /\ UNCHANGED <<src, group>> => SourceType'
    BY <1>1 DEF TypeOK, SourceType
  <1>4. /\ /\ ch1' \in Seq(Messages) /\ ch2' \in Seq(Messages)
           /\ op' \in [state : RecordBags, base : RecordBags, dead : BOOLEAN]
           /\ snaps' \in UNION {[S -> RecordBags] : S \in SUBSET Nat}
           /\ stage' \in [pc : {"run", "closed", "returned"}, pumped : Seq(Records)]
           => PipeType'
        /\ UNCHANGED <<ch1, ch2, op, snaps, stage>> => PipeType'
    BY <1>1 DEF TypeOK, PipeType
  <1>5. /\ /\ sink' \in [pc : SinkPcs, batch : Seq(Records), flights : Seq(FlightsOf),
                          failed : SUBSET Records]
           /\ out' \in [dest : RecordBags, dlq : SUBSET Places, dropped : SUBSET Places, adrift : SUBSET Places]
           => SinkType'
        /\ UNCHANGED <<sink, out>> => SinkType'
    BY <1>1 DEF TypeOK, SinkType
  <1>6. /\ /\ saved' \in [offs : Offsets, state : RecordBags, hands : SUBSET Records]
           /\ ctl' \in Controls
           /\ excused' \in SUBSET Records
           => RunType'
        /\ UNCHANGED <<saved, ctl, excused>> => RunType'
    BY <1>1 DEF TypeOK, RunType
  <1>7. QED
    BY <1>2, <1>3, <1>4, <1>5, <1>6

\* The parts of a typed state.
LEMMA Typed ==
  ASSUME TypeOK
  PROVE  /\ job \in Jobs
         /\ src.pos \in [Parts -> Nat] /\ src.start \in [Parts -> Nat] /\ src.offs \in Offsets
         /\ ch1 \in Seq(Messages) /\ ch2 \in Seq(Messages)
         /\ op.state \in RecordBags /\ op.base \in RecordBags
         /\ stage.pumped \in Seq(Records)
         /\ sink.batch \in Seq(Records) /\ sink.flights \in Seq(FlightsOf)
         /\ sink.failed \in SUBSET Records
         /\ out.dest \in RecordBags
         /\ saved.offs \in Offsets /\ saved.state \in RecordBags
         /\ ctl \in Controls
         /\ ctl.barriers \in Nat /\ ctl.faults \in Nat /\ ctl.starts \in Nat
  BY DEF TypeOK, SourceType, PipeType, SinkType, RunType, Controls

\* What the steps assign to the run's control state.
LEMMA ControlUpdates ==
  ASSUME TypeOK
  PROVE  /\ [ctl EXCEPT !.hard = TRUE, !.err = TRUE] \in Controls
         /\ \A b \in BOOLEAN : [ctl EXCEPT !.hard = TRUE, !.err = b] \in Controls
         /\ [ctl EXCEPT !.faults = @ + 1, !.hard = TRUE, !.err = TRUE] \in Controls
         /\ [ctl EXCEPT !.hard = TRUE, !.faults = @ + 1] \in Controls
         /\ [ctl EXCEPT !.barriers = @ + 1] \in Controls
         /\ [ctl EXCEPT !.faults = @ + 1] \in Controls
         /\ \A b \in BOOLEAN : [ctl EXCEPT !.spoiled = b] \in Controls
         /\ [ctl EXCEPT !.stop = TRUE] \in Controls
         /\ \A x \in Results : [ctl EXCEPT !.result = x] \in Controls
  <1>1. ctl \in Controls
    BY Typed
  <1>2. ctl.faults + 1 \in Nat /\ ctl.barriers + 1 \in Nat
    BY Typed
  <1>3. QED
    BY <1>1, <1>2, Zenon DEF Controls

\* What a failure policy takes is in one of its two places.
LEMMA PolicyFacts ==
  ASSUME TypeOK, NEW S \in SUBSET Places
  PROVE  /\ ByPolicy(S) \in [dest : RecordBags, dlq : SUBSET Places, dropped : SUBSET Places, adrift : SUBSET Places]
         /\ ByPolicy(S).dest = out.dest /\ ByPolicy(S).adrift = out.adrift
         /\ ByPolicy(S).dlq \cup ByPolicy(S).dropped = out.dlq \cup out.dropped \cup S
  <1>1. out \in [dest : RecordBags, dlq : SUBSET Places, dropped : SUBSET Places, adrift : SUBSET Places]
    BY DEF TypeOK, SinkType
  <1>2. CASE job.policy = "drop"
    BY <1>1, <1>2 DEF ByPolicy
  <1>3. CASE job.policy # "drop"
    BY <1>1, <1>3 DEF ByPolicy
  <1>4. QED
    BY <1>2, <1>3

\* Steps of the source and the injector keep the types.
LEMMA SourceTypes ==
  ASSUME TypeOK, job' = job,
         \/ \E p \in Parts : Read(p) \/ ReadGarbled(p) \/ CommitGroup(p) \/ Discover(p)
         \/ SourceFails \/ PeriodicBarrier \/ LastBarrier \/ SourceCloses
  PROVE  TypeOK'
  <1>1. ASSUME NEW p \in Parts, Read(p) PROVE TypeOK'
    <2> DEFINE r == <<p, src.pos[p] + 1>>
    <2>1. r \in Records
      BY <1>1 DEF Read
    <2>2. src.pos[p] + 1 \in Nat /\ r[1] = p /\ r[2] \in Nat /\ r \in Places
      <3>1. src.pos \in [Parts -> Nat]
        BY Typed
      <3>2. src.pos[p] + 1 \in Nat
        BY <3>1
      <3>3. QED
        BY <3>2 DEF Places
    <2>3. Noted(src.offs, r) \in Offsets
      BY <2>2, NotedFacts, Typed
    <2>4. SourceType'
      <3>1. /\ src' = [src EXCEPT !.pos[p] = @ + 1, !.offs = Noted(@, r)] /\ UNCHANGED group
        BY <1>1 DEF Read
      <3>2. src' \in [pos : [Parts -> Nat], start : [Parts -> Nat], offs : Offsets,
                      readers : SUBSET Parts, last : BOOLEAN, closed : BOOLEAN]
        BY <2>2, <2>3, <3>1 DEF TypeOK, SourceType
      <3>3. group' \in [Parts -> Nat]
        BY <3>1 DEF TypeOK, SourceType
      <3>4. QED
        BY <3>2, <3>3, TypesFrame
    <2>5. [type |-> "record", rec |-> r] \in Messages
      BY <2>1 DEF Messages, RecordMessages
    <2>6. ch1' \in Seq(Messages)
      <3>1. ch1' = Append(ch1, [type |-> "record", rec |-> r]) /\ ch1 \in Seq(Messages)
        BY <1>1, Typed DEF Read
      <3>2. QED
        BY <2>5, <3>1, Ends
    <2>7. PipeType'
      BY TypesFrame, <1>1, <2>6 DEF Read, TypeOK, PipeType
    <2>8. QED
      BY TypesFrame, <1>1, <2>4, <2>7 DEF Read, TypeOK
  <1>2. ASSUME NEW p \in Parts, ReadGarbled(p) PROVE TypeOK'
    <2>1. src.pos[p] + 1 \in Nat /\ <<p, src.pos[p] + 1>> \in Places
      <3>1. src.pos \in [Parts -> Nat]
        BY Typed
      <3>2. src.pos[p] + 1 \in Nat
        BY <3>1
      <3>3. QED
        BY <3>2 DEF Places
    <2>2. SourceType'
      <3>1. src' = [src EXCEPT !.pos[p] = @ + 1] /\ UNCHANGED group
        BY <1>2 DEF ReadGarbled
      <3>2. src' \in [pos : [Parts -> Nat], start : [Parts -> Nat], offs : Offsets,
                      readers : SUBSET Parts, last : BOOLEAN, closed : BOOLEAN]
        BY <2>1, <3>1 DEF TypeOK, SourceType
      <3>3. group' \in [Parts -> Nat]
        BY <3>1 DEF TypeOK, SourceType
      <3>4. QED
        BY <3>2, <3>3, TypesFrame
    <2>3. UNCHANGED out \/ out' = ByPolicy({<<p, src.pos[p] + 1>>})
      BY <1>2 DEF ReadGarbled
    <2>4. out' \in [dest : RecordBags, dlq : SUBSET Places, dropped : SUBSET Places, adrift : SUBSET Places]
      <3>1. {<<p, src.pos[p] + 1>>} \in SUBSET Places
        BY <2>1
      <3>2. ByPolicy({<<p, src.pos[p] + 1>>})
              \in [dest : RecordBags, dlq : SUBSET Places, dropped : SUBSET Places, adrift : SUBSET Places]
        BY <3>1, PolicyFacts
      <3>3. out \in [dest : RecordBags, dlq : SUBSET Places, dropped : SUBSET Places, adrift : SUBSET Places]
        BY DEF TypeOK, SinkType
      <3>4. QED
        BY <2>3, <3>2, <3>3
    <2>5. SinkType'
      BY TypesFrame, <1>2, <2>4 DEF ReadGarbled, TypeOK, SinkType
    <2>6. UNCHANGED ctl \/ ctl' = [ctl EXCEPT !.hard = TRUE, !.err = TRUE]
      BY <1>2 DEF ReadGarbled
    <2>7. RunType'
      <3>1. ctl' \in Controls
        BY <2>6, Typed, ControlUpdates, Zenon
      <3>2. QED
        BY TypesFrame, <1>2, <3>1 DEF ReadGarbled, TypeOK, RunType
    <2>8. QED
      BY TypesFrame, <1>2, <2>2, <2>5, <2>7 DEF ReadGarbled, TypeOK
  <1>3. ASSUME NEW p \in Parts, CommitGroup(p) PROVE TypeOK'
    <2>1. SourceType'
      BY TypesFrame, <1>3, Typed DEF CommitGroup, TypeOK, SourceType
    <2>2. QED
      BY TypesFrame, <1>3, <2>1 DEF CommitGroup, TypeOK
  <1>4. ASSUME NEW p \in Parts, Discover(p) PROVE TypeOK'
    <2>1. SourceType'
      BY TypesFrame, <1>4 DEF Discover, TypeOK, SourceType
    <2>2. QED
      BY TypesFrame, <1>4, <2>1 DEF Discover, TypeOK
  <1>5. CASE SourceFails
    <2>0. ctl' = [ctl EXCEPT !.faults = @ + 1, !.hard = TRUE, !.err = TRUE]
      BY <1>5 DEF SourceFails
    <2>1. RunType'
      <3>1. ctl' \in Controls
        BY <2>0, ControlUpdates, Zenon
      <3>2. QED
        BY TypesFrame, <1>5, <3>1 DEF SourceFails, TypeOK, RunType
    <2>2. QED
      BY TypesFrame, <1>5, <2>1 DEF SourceFails, TypeOK
  <1>6. Barrier \in Messages
    BY Typed DEF Barrier, Messages, BarrierMessages
  <1>7. CASE PeriodicBarrier
    <2>1. ch1' \in Seq(Messages)
      BY <1>6, <1>7, Typed, Ends DEF PeriodicBarrier
    <2>2. PipeType'
      BY TypesFrame, <1>7, <2>1 DEF PeriodicBarrier, TypeOK, PipeType
    <2>3. RunType'
      <3>1. ctl' \in Controls
        BY <1>7, ControlUpdates, Zenon DEF PeriodicBarrier
      <3>2. QED
        BY TypesFrame, <1>7, <3>1 DEF PeriodicBarrier, TypeOK, RunType
    <2>4. QED
      BY TypesFrame, <1>7, <2>2, <2>3 DEF PeriodicBarrier, TypeOK
  <1>8. CASE LastBarrier
    <2>1. ch1' \in Seq(Messages)
      BY <1>6, <1>8, Typed, Ends DEF LastBarrier
    <2>2. PipeType'
      BY TypesFrame, <1>8, <2>1 DEF LastBarrier, TypeOK, PipeType
    <2>3. RunType'
      <3>1. ctl' \in Controls
        BY <1>8, ControlUpdates, Zenon DEF LastBarrier
      <3>2. QED
        BY TypesFrame, <1>8, <3>1 DEF LastBarrier, TypeOK, RunType
    <2>4. SourceType'
      BY TypesFrame, <1>8 DEF LastBarrier, TypeOK, SourceType
    <2>5. QED
      BY TypesFrame, <1>8, <2>2, <2>3, <2>4 DEF LastBarrier, TypeOK
  <1>9. CASE SourceCloses
    <2>1. SourceType'
      BY TypesFrame, <1>9 DEF SourceCloses, TypeOK, SourceType
    <2>2. QED
      BY TypesFrame, <1>9, <2>1 DEF SourceCloses, TypeOK
  <1>10. QED
    BY <1>1, <1>2, <1>3, <1>4, <1>5, <1>7, <1>8, <1>9

-----------------------------------------------------------------------------
(* Lemmas: the sink's batches and flushes.                                 *)

SinkRecords ==
  [pc : SinkPcs, batch : Seq(Records), flights : Seq(FlightsOf), failed : SUBSET Records]

OutRecords == [dest : RecordBags, dlq : SUBSET Places, dropped : SUBSET Places, adrift : SUBSET Places]

InFlights(fs) == UNION {Left(fs[i]) : i \in DOMAIN fs}

\* The sink's hands, by their three places.
LEMMA HandsParts ==
  /\ InSinksHands = Elems(sink.batch) \cup InFlights(sink.flights) \cup sink.failed
  /\ InSinksHands' = Elems(sink'.batch) \cup InFlights(sink'.flights) \cup sink'.failed
  BY Zenon DEF InSinksHands, InFlights

\* A new flush takes the whole batch.
LEMMA FlushedFacts ==
  ASSUME TypeOK, NEW b \in Seq(Records)
  PROVE  /\ b = <<>> => Flushed(sink, b) = sink
         /\ b # <<>> => /\ Flushed(sink, b) \in SinkRecords
                        /\ Flushed(sink, b).batch = <<>>
                        /\ Flushed(sink, b).pc = sink.pc
                        /\ Flushed(sink, b).failed = sink.failed
                        /\ InFlights(Flushed(sink, b).flights) = InFlights(sink.flights) \cup Elems(b)
  <1> DEFINE f == [recs |-> b, done |-> {}, tries |-> 0]
             q == sink.flights
  <1>1. sink \in SinkRecords /\ q \in Seq(FlightsOf)
    BY Typed DEF TypeOK, SinkType, SinkRecords
  <1>2. f \in FlightsOf /\ Left(f) = Elems(b)
    BY DEF FlightsOf, Left
  <1>3. ASSUME b # <<>> PROVE Flushed(sink, b) = [sink EXCEPT !.batch = <<>>, !.flights = Append(q, f)]
    BY <1>3 DEF Flushed
  <1>4. Append(q, f) \in Seq(FlightsOf) /\ <<>> \in Seq(Records)
    BY <1>1, <1>2
  <1>5. InFlights(Append(q, f)) = InFlights(q) \cup Left(f)
    <2>1. /\ DOMAIN Append(q, f) = DOMAIN q \cup {Len(q) + 1}
          /\ \A i \in DOMAIN q : Append(q, f)[i] = q[i]
          /\ Append(q, f)[Len(q) + 1] = f
      BY <1>1, <1>2, Ends
    <2>2. QED
      BY <2>1 DEF InFlights
  <1>6. ASSUME b # <<>>
        PROVE  /\ Flushed(sink, b) \in SinkRecords
               /\ Flushed(sink, b).batch = <<>>
               /\ Flushed(sink, b).pc = sink.pc
               /\ Flushed(sink, b).failed = sink.failed
               /\ Flushed(sink, b).flights = Append(q, f)
    BY <1>1, <1>3, <1>4, <1>6 DEF SinkRecords
  <1>7. b = <<>> => Flushed(sink, b) = sink
    BY DEF Flushed
  <1>8. QED
    BY <1>2, <1>5, <1>6, <1>7

\* A flush that ends leaves the others; one that goes on has less to write.
LEMMA FlightFacts ==
  ASSUME TypeOK, NEW i \in Flights
  PROVE  /\ sink.flights[i] \in FlightsOf
         /\ Left(sink.flights[i]) \subseteq Records /\ Group(sink.flights[i]) \subseteq Left(sink.flights[i])
         /\ FlightsWithout(i) \in Seq(FlightsOf) /\ FlightsAfter(i) \in Seq(FlightsOf)
         /\ InFlights(sink.flights) \subseteq InFlights(FlightsWithout(i)) \cup Left(sink.flights[i])
         /\ InFlights(sink.flights) \subseteq InFlights(FlightsAfter(i)) \cup Group(sink.flights[i])
  <1> DEFINE q == sink.flights
             f == sink.flights[i]
             g == [f EXCEPT !.done = @ \cup Group(f), !.tries = 0]
  <1>1. q \in Seq(FlightsOf) /\ i \in 1 .. Len(q) /\ Len(q) \in Nat /\ DOMAIN q = 1 .. Len(q)
    BY Typed DEF Flights
  <1>2. f \in FlightsOf
    BY <1>1
  <1>3. Left(f) \subseteq Records
    BY <1>2, ElemsEnds DEF Left, FlightsOf
  <1>4. Group(f) \subseteq Left(f)
    BY DEF Group
  <1>5. /\ FlightsWithout(i) \in Seq(FlightsOf) /\ DOMAIN FlightsWithout(i) = 1 .. Len(q) - 1
        /\ \A j \in 1 .. Len(q) - 1 : FlightsWithout(i)[j] = IF j < i THEN q[j] ELSE q[j + 1]
    <2>1. \A j \in 1 .. Len(q) - 1 : (IF j < i THEN q[j] ELSE q[j + 1]) \in FlightsOf
      BY <1>1
    <2>2. Len(q) - 1 \in Nat
      BY <1>1
    <2>3. FlightsWithout(i) = [j \in 1 .. Len(q) - 1 |-> IF j < i THEN q[j] ELSE q[j + 1]]
      BY DEF FlightsWithout
    <2>4. QED
      BY <2>1, <2>2, <2>3
  <1>6. InFlights(q) \subseteq InFlights(FlightsWithout(i)) \cup Left(f)
    <2>1. SUFFICES ASSUME NEW k \in DOMAIN q, k # i
                   PROVE  Left(q[k]) \subseteq InFlights(FlightsWithout(i))
      BY DEF InFlights
    <2>2. CASE k < i
      <3>1. k \in 1 .. Len(q) - 1 /\ FlightsWithout(i)[k] = q[k]
        BY <1>1, <1>5, <2>2
      <3>2. QED
        BY <1>5, <3>1 DEF InFlights
    <2>3. CASE ~(k < i)
      <3>1. k - 1 \in 1 .. Len(q) - 1 /\ FlightsWithout(i)[k - 1] = q[k]
        BY <1>1, <1>5, <2>1, <2>3
      <3>2. QED
        BY <1>5, <3>1 DEF InFlights
    <2>4. QED
      BY <2>2, <2>3
  <1>7. g \in FlightsOf /\ Left(g) = Left(f) \ Group(f)
    BY <1>2, <1>3, <1>4 DEF FlightsOf, Left
  <1>8. CASE Group(f) = Left(f)
    BY <1>2, <1>3, <1>4, <1>5, <1>6, <1>8 DEF FlightsAfter
  <1>9. CASE Group(f) # Left(f)
    <2>1. FlightsAfter(i) = [q EXCEPT ![i] = g]
      BY <1>9 DEF FlightsAfter
    <2>2. [q EXCEPT ![i] = g] \in Seq(FlightsOf)
      BY <1>1, <1>7
    <2>3. InFlights(q) \subseteq InFlights([q EXCEPT ![i] = g]) \cup Group(f)
      BY <1>1, <1>7 DEF InFlights
    <2>4. QED
      BY <1>2, <1>3, <1>4, <1>5, <1>6, <2>1, <2>2, <2>3
  <1>10. QED
    BY <1>8, <1>9

-----------------------------------------------------------------------------
(* Type correctness of the steps behind the source.                        *)

\* Steps of the operator keep the types.
LEMMA OperatorTypes ==
  ASSUME TypeOK, job' = job, OpRecord \/ OpBarrier \/ OpPanics
  PROVE  TypeOK'
  <1> DEFINE h == Head(ch1)
  <1>1. ASSUME ch1 # <<>>
        PROVE  h \in Messages /\ Tail(ch1) \in Seq(Messages) /\ Append(ch2, h) \in Seq(Messages)
    <2>1. ch1 \in Seq(Messages) /\ ch2 \in Seq(Messages)
      BY Typed
    <2>2. h \in Messages /\ Tail(ch1) \in Seq(Messages)
      BY <1>1, <2>1
    <2>3. QED
      BY <2>1, <2>2
  <1>2. CASE OpRecord
    <2>1. h \in Messages /\ h.type = "record" /\ ch1' \in Seq(Messages) /\ ch2' \in Seq(Messages)
      BY <1>1, <1>2 DEF OpRecord
    <2>2. {h.rec} \in SUBSET Records
      BY <2>1 DEF Messages, RecordMessages, BarrierMessages
    <2>3. op.state (+) SetToBag({h.rec}) \in RecordBags
      BY <2>2, Typed, BagPlus
    <2>4. op' \in [state : RecordBags, base : RecordBags, dead : BOOLEAN]
      BY <1>2, <2>3 DEF OpRecord, TypeOK, PipeType
    <2>5. PipeType'
      BY TypesFrame, <1>2, <2>1, <2>4 DEF OpRecord, TypeOK, PipeType
    <2>6. QED
      BY TypesFrame, <1>2, <2>5 DEF OpRecord, TypeOK
  <1>3. CASE OpBarrier
    <2>1. h \in Messages /\ h.type = "barrier" /\ ch1' \in Seq(Messages) /\ ch2' \in Seq(Messages)
      BY <1>1, <1>3 DEF OpBarrier
    <2>2. h.id \in Nat
      BY <2>1 DEF Messages, RecordMessages, BarrierMessages
    <2>3. \/ AddBarrierSnapshot(h.id) /\ UNCHANGED ctl
          \/ ctl' = [ctl EXCEPT !.faults = @ + 1] /\ UNCHANGED snaps
      BY <1>3 DEF OpBarrier
    <2>4. snaps' \in UNION {[S -> RecordBags] : S \in SUBSET Nat}
      <3>1. snaps \in [DOMAIN snaps -> RecordBags] /\ DOMAIN snaps \in SUBSET Nat
        BY DEF TypeOK, PipeType
      <3>2. CASE UNCHANGED snaps
        BY <3>2 DEF TypeOK, PipeType
      <3>3. CASE AddBarrierSnapshot(h.id)
        <4>1. PICK keep \in SUBSET (DOMAIN snaps) :
                 snaps' = [c \in keep \cup {h.id} |-> IF c = h.id THEN op.state ELSE snaps[c]]
          BY <3>3 DEF AddBarrierSnapshot
        <4>2. snaps' \in [keep \cup {h.id} -> RecordBags]
          BY <3>1, <4>1, Typed
        <4>3. keep \cup {h.id} \in SUBSET Nat
          BY <2>2, <3>1, <4>1
        <4>4. QED
          BY <4>2, <4>3
      <3>4. QED
        BY <2>3, <3>2, <3>3
    <2>5. PipeType'
      BY TypesFrame, <1>3, <2>1, <2>4 DEF OpBarrier, TypeOK, PipeType
    <2>6. ctl' \in Controls
      BY <2>3, Typed, ControlUpdates, Zenon
    <2>7. RunType'
      BY TypesFrame, <1>3, <2>6 DEF OpBarrier, TypeOK, RunType
    <2>8. QED
      BY TypesFrame, <1>3, <2>5, <2>7 DEF OpBarrier, TypeOK
  <1>4. CASE OpPanics
    <2>1. PipeType'
      BY TypesFrame, <1>4 DEF OpPanics, TypeOK, PipeType
    <2>2. ctl' \in Controls
      BY <1>4, ControlUpdates, Zenon DEF OpPanics
    <2>3. RunType'
      BY TypesFrame, <1>4, <2>2 DEF OpPanics, TypeOK, RunType
    <2>4. QED
      BY TypesFrame, <1>4, <2>1, <2>3 DEF OpPanics, TypeOK
  <1>5. QED
    BY <1>2, <1>3, <1>4

\* What the sink holds is records.
LEMMA HandsTyped ==
  ASSUME TypeOK
  PROVE  InSinksHands \in SUBSET Records
  <1>1. Elems(sink.batch) \subseteq Records /\ sink.failed \subseteq Records
    BY Typed, ElemsEnds
  <1>2. InFlights(sink.flights) \subseteq Records
    BY FlightFacts DEF InFlights, Flights
  <1>3. QED
    BY <1>1, <1>2, HandsParts

\* Steps of the sink stage keep the types.
LEMMA StageTypes ==
  ASSUME TypeOK, job' = job,
         StageRecord \/ StageBarrier \/ StageSeesDeath \/ StageDiscards \/ StageCloses
  PROVE  TypeOK'
  <1> DEFINE h == Head(ch2)
  <1>1. ASSUME ch2 # <<>>
        PROVE  h \in Messages /\ Tail(ch2) \in Seq(Messages)
    BY <1>1, Typed
  <1>2. CASE StageRecord
    <2>1. h \in Messages /\ h.type = "record" /\ ch2' \in Seq(Messages)
      BY <1>1, <1>2 DEF StageRecord, StageTakes
    <2>2. h.rec \in Records
      BY <2>1 DEF Messages, RecordMessages, BarrierMessages
    <2>3. Append(stage.pumped, h.rec) \in Seq(Records)
      BY <2>2, Typed
    <2>4. stage' \in [pc : {"run", "closed", "returned"}, pumped : Seq(Records)]
      BY <1>2, <2>3 DEF StageRecord, TypeOK, PipeType
    <2>5. PipeType'
      BY TypesFrame, <1>2, <2>1, <2>4 DEF StageRecord, StageTakes, TypeOK, PipeType
    <2>6. QED
      BY TypesFrame, <1>2, <2>5 DEF StageRecord, StageTakes, TypeOK
  <1>3. CASE StageBarrier
    <2>1. h \in Messages /\ h.type = "barrier" /\ ch2' \in Seq(Messages)
      BY <1>1, <1>3 DEF StageBarrier, StageTakes
    <2>2. h.offs \in Offsets
      BY <2>1 DEF Messages, RecordMessages, BarrierMessages
    <2>3. snaps \in [DOMAIN snaps -> RecordBags] /\ DOMAIN snaps \in SUBSET Nat
      BY DEF TypeOK, PipeType
    <2>4. Collected(h.id) \in RecordBags
      BY <2>3, Typed DEF Collected
    <2>5. /\ snaps' = [c \in DOMAIN snaps \ {h.id} |-> snaps[c]]
          /\ \/ /\ saved' = [offs |-> h.offs, state |-> Collected(h.id), hands |-> InSinksHands]
                /\ ctl' = [ctl EXCEPT !.spoiled = h.id \notin DOMAIN snaps]
             \/ UNCHANGED saved /\ ctl' = [ctl EXCEPT !.faults = @ + 1]
      BY <1>3 DEF StageBarrier
    <2>6. snaps' \in UNION {[S -> RecordBags] : S \in SUBSET Nat}
      <3>1. snaps' \in [DOMAIN snaps \ {h.id} -> RecordBags]
        BY <2>3, <2>5
      <3>2. DOMAIN snaps \ {h.id} \in SUBSET Nat
        BY <2>3
      <3>3. QED
        BY <3>1, <3>2
    <2>7. saved' \in [offs : Offsets, state : RecordBags, hands : SUBSET Records]
      BY <2>2, <2>4, <2>5, HandsTyped DEF TypeOK, RunType
    <2>8. (h.id \notin DOMAIN snaps) \in BOOLEAN
      OBVIOUS
    <2>9. ctl' \in Controls
      BY <2>5, <2>8, ControlUpdates, Zenon
    <2>10. PipeType'
      BY TypesFrame, <1>3, <2>1, <2>6 DEF StageBarrier, StageTakes, TypeOK, PipeType
    <2>11. RunType'
      BY TypesFrame, <1>3, <2>7, <2>9 DEF StageBarrier, StageTakes, TypeOK, RunType
    <2>12. QED
      BY TypesFrame, <1>3, <2>10, <2>11 DEF StageBarrier, StageTakes, TypeOK
  <1>4. CASE StageSeesDeath
    <2>1. PipeType'
      BY TypesFrame, <1>4 DEF StageSeesDeath, TypeOK, PipeType
    <2>2. PICK b \in BOOLEAN : ctl' = [ctl EXCEPT !.hard = TRUE, !.err = b]
      <3>1. \A e : (e \/ sink.pc = "failed") \in BOOLEAN
        BY Zenon
      <3>2. QED
        BY <1>4, <3>1, Zenon DEF StageSeesDeath
    <2>3. ctl' \in Controls
      BY <2>2, ControlUpdates, Zenon
    <2>4. RunType'
      BY TypesFrame, <1>4, <2>3 DEF StageSeesDeath, TypeOK, RunType
    <2>5. QED
      BY TypesFrame, <1>4, <2>1, <2>4 DEF StageSeesDeath, TypeOK
  <1>5. CASE StageDiscards
    <2>1. <<>> \in Seq(Messages)
      OBVIOUS
    <2>2. PipeType'
      BY TypesFrame, <1>5, <2>1 DEF StageDiscards, TypeOK, PipeType
    <2>3. QED
      BY TypesFrame, <1>5, <2>2 DEF StageDiscards, TypeOK
  <1>6. CASE StageCloses
    <2>1. PipeType'
      BY TypesFrame, <1>6 DEF StageCloses, TypeOK, PipeType
    <2>2. QED
      BY TypesFrame, <1>6, <2>1 DEF StageCloses, TypeOK
  <1>7. QED
    BY <1>2, <1>3, <1>4, <1>5, <1>6

-----------------------------------------------------------------------------
(* The sink: what it takes stays with it until it is settled.              *)

\* Nothing that reached the sink stage is lost by a step.
Keeps == Settled \subseteq Settled' /\ Held \subseteq Held'

\* The types after a step of the sink, from those of what it changes.
LEMMA SinkTypesFrom ==
  ASSUME TypeOK, job' = job, sink' \in SinkRecords, out' \in OutRecords, ctl' \in Controls,
         stage' \in [pc : {"run", "closed", "returned"}, pumped : Seq(Records)],
         UNCHANGED <<src, group, ch1, op, snaps, ch2, saved, excused>>
  PROVE  TypeOK'
  <1>1. SinkType'
    BY TypesFrame DEF SinkRecords, OutRecords
  <1>2. PipeType'
    BY TypesFrame DEF TypeOK, PipeType
  <1>3. RunType'
    BY TypesFrame DEF TypeOK, RunType
  <1>4. QED
    BY <1>1, <1>2, <1>3, TypesFrame DEF TypeOK

\* The sink takes the next record from the stage.
LEMMA SinkReadsFacts ==
  ASSUME TypeOK, SinkReads
  PROVE  /\ Head(stage.pumped) \in Records
         /\ stage' \in [pc : {"run", "closed", "returned"}, pumped : Seq(Records)]
         /\ stage'.pc = stage.pc
         /\ Elems(stage.pumped) = {Head(stage.pumped)} \cup Elems(stage'.pumped)
         /\ UNCHANGED <<job, src, group, ch1, op, snaps, ch2, saved, excused>>
  <1>1. stage.pumped \in Seq(Records) /\ stage.pumped # <<>>
    BY Typed DEF SinkReads
  <1>2. Head(stage.pumped) \in Records /\ Tail(stage.pumped) \in Seq(Records)
        /\ Elems(stage.pumped) = {Head(stage.pumped)} \cup Elems(Tail(stage.pumped))
    BY <1>1, ElemsEnds
  <1>3. /\ stage' \in [pc : {"run", "closed", "returned"}, pumped : Seq(Records)]
        /\ stage'.pc = stage.pc /\ stage'.pumped = Tail(stage.pumped)
    BY <1>2 DEF SinkReads, TypeOK, PipeType
  <1>4. QED
    BY <1>2, <1>3 DEF SinkReads

\* Steps with which the sink takes a record.
LEMMA SinkIntake ==
  ASSUME TypeOK, SinkTakes \/ PostgresDeclines \/ KafkaRefuses \/ FileRefuses
  PROVE  TypeOK' /\ Keeps
  <1> DEFINE r == Head(stage.pumped)
  <1>1. SinkReads
    BY DEF SinkTakes, PostgresDeclines, KafkaRefuses, FileRefuses
  <1>2. /\ r \in Records /\ Elems(stage.pumped) = {r} \cup Elems(stage'.pumped)
        /\ stage' \in [pc : {"run", "closed", "returned"}, pumped : Seq(Records)]
        /\ UNCHANGED <<job, src, group, ch1, op, snaps, ch2, saved, excused>>
    BY <1>1, SinkReadsFacts
  <1>3. sink \in SinkRecords /\ out \in OutRecords /\ ctl \in Controls
    BY DEF TypeOK, SinkType, SinkRecords, OutRecords, RunType
  <1>4. ASSUME sink' \in SinkRecords, out' \in OutRecords, ctl' \in Controls,
               Settled \subseteq Settled',
               r \in Settled' \cup InSinksHands', InSinksHands \subseteq InSinksHands' \cup Settled'
        PROVE  TypeOK' /\ Keeps
    <2>1. TypeOK'
      BY <1>2, <1>4, SinkTypesFrom
    <2>2. Held' = Settled' \cup InSinksHands' \cup Elems(stage'.pumped)
      BY DEF Held
    <2>3. QED
      BY <1>2, <1>4, <2>1, <2>2 DEF Keeps, Held
  <1>5. CASE SinkTakes
    <2> DEFINE b == Append(sink.batch, r)
    <2>1. /\ sink' = IF Len(b) >= job.batch THEN Flushed(sink, b) ELSE [sink EXCEPT !.batch = b]
          /\ UNCHANGED <<out, ctl>>
      BY <1>5 DEF SinkTakes
    <2>2. b \in Seq(Records) /\ b # <<>> /\ Elems(b) = Elems(sink.batch) \cup {r}
      <3>1. sink.batch \in Seq(Records)
        BY Typed
      <3>2. b \in Seq(Records) /\ b # <<>>
        BY <1>2, <3>1
      <3>3. Elems(b) = Elems(sink.batch) \cup {r}
        BY <1>2, <3>1, ElemsEnds
      <3>4. QED
        BY <3>2, <3>3
    <2>3. CASE sink' = Flushed(sink, b)
      <3>1. /\ sink' \in SinkRecords /\ sink'.failed = sink.failed
            /\ InFlights(sink'.flights) = InFlights(sink.flights) \cup Elems(b)
        BY <2>2, <2>3, FlushedFacts
      <3>2. Settled' = Settled
        BY <2>1 DEF Settled
      <3>3. {r} \cup InSinksHands \subseteq InSinksHands'
        BY <2>2, <3>1, HandsParts
      <3>4. QED
        BY <1>3, <1>4, <2>1, <3>1, <3>2, <3>3
    <2>4. CASE sink' = [sink EXCEPT !.batch = b]
      <3>1. sink' \in SinkRecords /\ sink'.batch = b /\ sink'.flights = sink.flights
            /\ sink'.failed = sink.failed
        BY <1>3, <2>2, <2>4 DEF SinkRecords
      <3>2. QED
        BY <1>3, <1>4, <2>1, <2>2, <3>1, HandsParts DEF Settled
    <2>5. QED
      BY <2>1, <2>3, <2>4
  <1>6. r \in Places
    BY <1>2, RecordFacts, Typed
  <1>7. CASE PostgresDeclines
    <2>1. out' = [out EXCEPT !.dropped = @ \cup {r}] /\ UNCHANGED <<sink, ctl>>
      BY <1>7 DEF PostgresDeclines
    <2>2. /\ out' \in OutRecords /\ out'.dest = out.dest /\ out'.dlq = out.dlq
          /\ out'.dropped = out.dropped \cup {r} /\ out'.adrift = out.adrift
      BY <1>3, <1>6, <2>1 DEF OutRecords
    <2>3. InSinksHands' = InSinksHands
      BY <2>1, HandsParts
    <2>4. QED
      BY <1>3, <1>4, <2>1, <2>2, <2>3 DEF Settled
  <1>8. ASSUME sink' = SinkFails("failing", {r}), UNCHANGED out, ctl' \in Controls
        PROVE  TypeOK' /\ Keeps
    <2>1. sink' \in SinkRecords /\ sink'.batch = sink.batch /\ sink'.flights = sink.flights
          /\ sink'.failed = sink.failed \cup {r}
      BY <1>2, <1>3, <1>8 DEF SinkFails, SinkRecords, SinkPcs
    <2>2. QED
      BY <1>3, <1>4, <1>8, <2>1, HandsParts DEF Settled
  <1>9. CASE KafkaRefuses
    <2>1. \/ out' = ByPolicy({r}) /\ UNCHANGED <<sink, ctl>>
          \/ sink' = SinkFails("failing", {r}) /\ UNCHANGED <<out, ctl>>
          \/ sink' = SinkFails("failing", {r}) /\ ctl' = [ctl EXCEPT !.faults = @ + 1] /\ UNCHANGED out
      BY <1>9 DEF KafkaRefuses
    <2>2. CASE out' = ByPolicy({r}) /\ UNCHANGED <<sink, ctl>>
      <3>1. /\ out' \in OutRecords /\ out'.dest = out.dest /\ out'.adrift = out.adrift
            /\ out'.dlq \cup out'.dropped = out.dlq \cup out.dropped \cup {r}
        BY <1>6, <2>2, PolicyFacts DEF OutRecords
      <3>2. InSinksHands' = InSinksHands
        BY <2>2, HandsParts
      <3>3. QED
        BY <1>3, <1>4, <2>2, <3>1, <3>2 DEF Settled
    <2>3. [ctl EXCEPT !.faults = @ + 1] \in Controls
      BY ControlUpdates
    <2>4. QED
      BY <1>3, <1>8, <2>1, <2>2, <2>3
  <1>10. CASE FileRefuses
    BY <1>3, <1>8, <1>10 DEF FileRefuses
  <1>11. QED
    BY <1>5, <1>7, <1>9, <1>10

\* Steps of the flushes, and the end of the sink.
LEMMA SinkFlushes ==
  ASSUME TypeOK,
         \/ SinkTick \/ SinkEnds \/ SinkReturns
         \/ \E i \in Flights : FlushSucceeds(i) \/ FlushRetries(i) \/ FlushGivesUp(i) \/ FlushFails(i)
  PROVE  TypeOK' /\ Keeps
  <1>1. UNCHANGED <<job, src, group, ch1, op, snaps, ch2, stage, saved, excused>>
    BY DEF SinkTick, SinkEnds, SinkReturns, FlushSucceeds, FlushRetries, FlushGivesUp, FlushFails
  <1>2. sink \in SinkRecords /\ out \in OutRecords /\ ctl \in Controls
    BY DEF TypeOK, SinkType, SinkRecords, OutRecords, RunType
  <1>3. ASSUME sink' \in SinkRecords, out' \in OutRecords, ctl' \in Controls,
               Settled \subseteq Settled', InSinksHands \subseteq InSinksHands' \cup Settled'
        PROVE  TypeOK' /\ Keeps
    <2>1. TypeOK'
      <3>1. stage' \in [pc : {"run", "closed", "returned"}, pumped : Seq(Records)]
        BY <1>1 DEF TypeOK, PipeType
      <3>2. QED
        BY <1>1, <1>3, <3>1, SinkTypesFrom
    <2>2. Held' = Settled' \cup InSinksHands' \cup Elems(stage.pumped)
      BY <1>1 DEF Held
    <2>3. QED
      BY <1>3, <2>1, <2>2 DEF Keeps, Held
  <1>4. sink.batch \in Seq(Records)
    BY Typed
  <1>5. CASE SinkTick
    <2>1. sink' = Flushed(sink, sink.batch) /\ sink.batch # <<>> /\ UNCHANGED <<out, ctl>>
      BY <1>5 DEF SinkTick
    <2>2. /\ sink' \in SinkRecords /\ sink'.failed = sink.failed
          /\ InFlights(sink'.flights) = InFlights(sink.flights) \cup Elems(sink.batch)
      BY <1>4, <2>1, FlushedFacts
    <2>3. InSinksHands \subseteq InSinksHands' /\ Settled' = Settled
      BY <2>1, <2>2, HandsParts DEF Settled
    <2>4. QED
      BY <1>2, <1>3, <2>1, <2>2, <2>3
  <1>6. CASE SinkEnds
    <2> DEFINE s == Flushed(sink, sink.batch)
    <2>1. /\ sink' = [s EXCEPT !.pc = IF @ = "errored" THEN "failing" ELSE "ending"]
          /\ UNCHANGED <<out, ctl>>
      BY <1>6 DEF SinkEnds
    <2>2. /\ s \in SinkRecords /\ s.failed = sink.failed
          /\ InFlights(s.flights) \cup Elems(s.batch) = InFlights(sink.flights) \cup Elems(sink.batch)
      <3>1. CASE sink.batch = <<>>
        BY <1>2, <1>4, <3>1, FlushedFacts
      <3>2. CASE sink.batch # <<>>
        <4>1. /\ s \in SinkRecords /\ s.failed = sink.failed /\ s.batch = <<>>
              /\ InFlights(s.flights) = InFlights(sink.flights) \cup Elems(sink.batch)
          BY <1>4, <3>2, FlushedFacts
        <4>2. Elems(s.batch) = {}
          BY <4>1 DEF Elems
        <4>3. QED
          BY <4>1, <4>2
      <3>3. QED
        BY <3>1, <3>2
    <2>3. /\ sink' \in SinkRecords /\ sink'.failed = s.failed /\ sink'.batch = s.batch
          /\ sink'.flights = s.flights
      BY <2>1, <2>2 DEF SinkRecords, SinkPcs
    <2>4. InSinksHands' = InSinksHands /\ Settled' = Settled
      BY <2>1, <2>2, <2>3, HandsParts DEF Settled
    <2>5. QED
      BY <1>2, <1>3, <2>1, <2>3, <2>4
  <1>7. CASE SinkReturns
    <2>1. PICK x \in {"failed", "canceled", "returned"} : sink' = [sink EXCEPT !.pc = x]
      BY <1>7 DEF SinkReturns
    <2>2. UNCHANGED <<out, ctl>>
      BY <1>7 DEF SinkReturns
    <2>3. /\ sink' \in SinkRecords /\ sink'.failed = sink.failed /\ sink'.batch = sink.batch
          /\ sink'.flights = sink.flights
      BY <1>2, <2>1 DEF SinkRecords, SinkPcs
    <2>4. InSinksHands' = InSinksHands /\ Settled' = Settled
      BY <2>2, <2>3, HandsParts DEF Settled
    <2>5. QED
      BY <1>2, <1>3, <2>2, <2>3, <2>4
  <1>8. ASSUME NEW i \in Flights, FlushSucceeds(i) PROVE TypeOK' /\ Keeps
    <2> DEFINE f == sink.flights[i]
               o == IF Unfit(i) = {} THEN out ELSE ByPolicy(Unfit(i))
               taken == Group(f) \ Unfit(i)
    <2>a. PICK got \in Arriving(taken) :
            out' = [o EXCEPT !.dest = @ (+) SetToBag(got), !.adrift = @ \cup (taken \ got)]
      BY <1>8 DEF FlushSucceeds
    <2>b. got \subseteq taken
      BY DEF Arriving
    <2>1. sink' = [sink EXCEPT !.flights = FlightsAfter(i)] /\ UNCHANGED ctl
      BY <1>8 DEF FlushSucceeds
    <2>2. /\ Left(f) \subseteq Records /\ Group(f) \subseteq Left(f)
          /\ FlightsAfter(i) \in Seq(FlightsOf)
          /\ InFlights(sink.flights) \subseteq InFlights(FlightsAfter(i)) \cup Group(f)
          /\ f \in FlightsOf
      BY FlightFacts
    <2>3. Unfit(i) \in SUBSET Places
      <3>1. Elems(f.recs) \subseteq Records
        BY <2>2, ElemsEnds DEF FlightsOf
      <3>2. Records \subseteq Places
        BY RecordFacts, Typed
      <3>3. Unfit(i) \subseteq Elems(f.recs)
        BY DEF Unfit, HTTPUnfit, S3Unfit
      <3>4. QED
        BY <3>1, <3>2, <3>3
    <2>4. /\ o \in OutRecords /\ o.dest = out.dest /\ o.adrift = out.adrift
          /\ o.dlq \cup o.dropped = out.dlq \cup out.dropped \cup Unfit(i)
      BY <1>2, <2>3, PolicyFacts DEF OutRecords
    <2>5. taken \in SUBSET Records /\ taken \in SUBSET Places /\ got \in SUBSET Records
      BY <2>2, <2>b, RecordFacts, Typed
    <2>6. /\ out.dest (+) SetToBag(got) \in RecordBags
          /\ BagToSet(out.dest (+) SetToBag(got)) = BagToSet(out.dest) \cup got
      BY <2>5, Typed, BagPlus
    <2> HIDE DEF o, taken
    <2>7. /\ out' \in OutRecords /\ out'.dlq = o.dlq /\ out'.dropped = o.dropped
          /\ out'.dest = out.dest (+) SetToBag(got)
          /\ out'.adrift = out.adrift \cup (taken \ got)
      BY <2>a, <2>4, <2>5, <2>6 DEF OutRecords
    <2>c. Settled' = Settled \cup taken \cup Unfit(i)
      BY <2>4, <2>6, <2>7, <2>b DEF Settled
    <2>8. Settled' = Settled \cup Group(f) \cup Unfit(i)
      BY <2>c DEF taken
    <2>9. /\ sink' \in SinkRecords /\ sink'.failed = sink.failed /\ sink'.batch = sink.batch
          /\ sink'.flights = FlightsAfter(i)
      BY <1>2, <2>1, <2>2 DEF SinkRecords
    <2>10. InSinksHands \subseteq InSinksHands' \cup Settled'
      BY <2>2, <2>8, <2>9, HandsParts
    <2>11. QED
      BY <1>2, <1>3, <2>1, <2>7, <2>8, <2>9, <2>10
  <1>9. ASSUME NEW i \in Flights, FlushRetries(i) PROVE TypeOK' /\ Keeps
    <2> DEFINE f == sink.flights[i]
    <2>1. PICK took \in {{}, Group(f)} : out' = [out EXCEPT !.dest = @ (+) SetToBag(took)]
      BY <1>9 DEF FlushRetries
    <2>2. sink' = [sink EXCEPT !.flights[i].tries = @ + 1] /\ UNCHANGED ctl
      BY <1>9 DEF FlushRetries
    <2>3. f \in FlightsOf /\ Left(f) \subseteq Records /\ Group(f) \subseteq Left(f)
      BY FlightFacts
    <2>4. took \in SUBSET Records
      BY <2>1, <2>3
    <2>5. /\ out.dest (+) SetToBag(took) \in RecordBags
          /\ BagToSet(out.dest (+) SetToBag(took)) = BagToSet(out.dest) \cup took
      BY <2>4, Typed, BagPlus
    <2>6. /\ out' \in OutRecords /\ out'.dlq = out.dlq /\ out'.dropped = out.dropped
          /\ out'.dest = out.dest (+) SetToBag(took) /\ out'.adrift = out.adrift
      BY <1>2, <2>1, <2>5 DEF OutRecords
    <2>7. Settled \subseteq Settled'
      BY <2>5, <2>6 DEF Settled
    <2> DEFINE g == [f EXCEPT !.tries = @ + 1]
    <2>8. g \in FlightsOf /\ Left(g) = Left(f)
      BY <2>3 DEF FlightsOf, Left
    <2>9. sink.flights \in Seq(FlightsOf) /\ i \in DOMAIN sink.flights
      BY Typed DEF Flights
    <2>10. [sink.flights EXCEPT ![i] = g] \in Seq(FlightsOf)
      BY <2>8, <2>9
    <2>11. /\ sink' \in SinkRecords /\ sink'.failed = sink.failed /\ sink'.batch = sink.batch
           /\ sink'.flights = [sink.flights EXCEPT ![i] = g]
      BY <1>2, <2>2, <2>10 DEF SinkRecords
    <2>12. InFlights(sink.flights) \subseteq InFlights(sink'.flights)
      BY <2>8, <2>9, <2>11 DEF InFlights
    <2>13. InSinksHands \subseteq InSinksHands'
      BY <2>11, <2>12, HandsParts
    <2>14. QED
      BY <1>2, <1>3, <2>2, <2>6, <2>7, <2>11, <2>13
  <1>10. ASSUME NEW b, ctl' = [ctl EXCEPT !.faults = IF b THEN @ ELSE @ + 1]
         PROVE  ctl' \in Controls
    <2>1. (IF b THEN ctl.faults ELSE ctl.faults + 1) \in Nat
      BY Typed
    <2>2. QED
      BY <1>2, <1>10, <2>1, Zenon DEF Controls
  <1>11. ASSUME NEW i \in Flights, FlushGivesUp(i) PROVE TypeOK' /\ Keeps
    <2> DEFINE f == sink.flights[i]
    <2>1. /\ out' = ByPolicy(Group(f)) /\ sink' = [sink EXCEPT !.flights = FlightsAfter(i)]
          /\ ctl' = [ctl EXCEPT !.faults = IF FlushCancelled THEN @ ELSE @ + 1]
      BY <1>11 DEF FlushGivesUp
    <2>2. /\ Left(f) \subseteq Records /\ Group(f) \subseteq Left(f)
          /\ FlightsAfter(i) \in Seq(FlightsOf)
          /\ InFlights(sink.flights) \subseteq InFlights(FlightsAfter(i)) \cup Group(f)
      BY FlightFacts
    <2>3. Records \subseteq Places
      BY RecordFacts, Typed
    <2>4. /\ out' \in OutRecords /\ out'.dest = out.dest /\ out'.adrift = out.adrift
          /\ out'.dlq \cup out'.dropped = out.dlq \cup out.dropped \cup Group(f)
      BY <2>1, <2>2, <2>3, PolicyFacts DEF OutRecords
    <2>5. Settled' = Settled \cup Group(f)
      BY <2>4 DEF Settled
    <2>6. /\ sink' \in SinkRecords /\ sink'.failed = sink.failed /\ sink'.batch = sink.batch
          /\ sink'.flights = FlightsAfter(i)
      BY <1>2, <2>1, <2>2 DEF SinkRecords
    <2>7. InSinksHands \subseteq InSinksHands' \cup Settled'
      BY <2>2, <2>5, <2>6, HandsParts
    <2>8. ctl' \in Controls
      BY <1>10, <2>1
    <2>9. QED
      BY <1>3, <2>4, <2>5, <2>6, <2>7, <2>8
  <1>12. ASSUME NEW i \in Flights, FlushFails(i) PROVE TypeOK' /\ Keeps
    <2> DEFINE f == sink.flights[i]
    <2>1. PICK x \in {"errored", "failing"} :
            sink' = [SinkFails(x, Left(f)) EXCEPT !.flights = FlightsWithout(i)]
      BY <1>12 DEF FlushFails
    <2>2. /\ UNCHANGED out
          /\ UNCHANGED ctl \/ ctl' = [ctl EXCEPT !.faults = IF FlushCancelled THEN @ ELSE @ + 1]
      BY <1>12 DEF FlushFails
    <2>3. /\ Left(f) \subseteq Records /\ FlightsWithout(i) \in Seq(FlightsOf)
          /\ InFlights(sink.flights) \subseteq InFlights(FlightsWithout(i)) \cup Left(f)
      BY FlightFacts
    <2>4. /\ sink' \in SinkRecords /\ sink'.failed = sink.failed \cup Left(f)
          /\ sink'.batch = sink.batch /\ sink'.flights = FlightsWithout(i)
      BY <1>2, <2>1, <2>3 DEF SinkRecords, SinkFails, SinkPcs
    <2>5. InSinksHands \subseteq InSinksHands' /\ Settled' = Settled
      BY <2>2, <2>3, <2>4, HandsParts DEF Settled
    <2>6. ctl' \in Controls
      BY <1>2, <1>10, <2>2
    <2>7. QED
      BY <1>2, <1>3, <2>2, <2>4, <2>5, <2>6
  <1>13. QED
    BY <1>5, <1>6, <1>7, <1>8, <1>9, <1>11, <1>12

-----------------------------------------------------------------------------
(* The run: type correctness of every step.                                *)

\* Nothing but a record is skipped by a resume, and no checkpoint is lost.
LEMMA RestartFacts ==
  ASSUME TypeOK, Restart
  PROVE  /\ job' = job
         /\ [p \in Parts |-> ResumeAt(p)] \in [Parts -> Nat]
         /\ src'.pos = [p \in Parts |-> ResumeAt(p)]
         /\ src'.start = [p \in Parts |-> ResumeAt(p)]
         /\ src'.offs = <<>> /\ src'.closed = FALSE
         /\ TypeOK'
  <1> DEFINE start == [p \in Parts |-> ResumeAt(p)]
  <1>1. PICK R \in StartReaders : src' = FreshSource(start, R)
    BY DEF Restart
  <1>2. R \in SUBSET Parts
    BY DEF StartReaders
  <1>3. group \in [Parts -> Nat] /\ saved.offs \in [DOMAIN saved.offs -> Nat]
    BY Typed DEF TypeOK, SourceType, Offsets
  <1>4. start \in [Parts -> Nat]
    BY <1>3 DEF ResumeAt
  <1>5. /\ src'.pos = start /\ src'.start = start /\ src'.offs = <<>>
        /\ src'.readers = R /\ src'.last = FALSE /\ src'.closed = FALSE
    BY <1>1 DEF FreshSource
  <1>6. <<>> \in Offsets
    <2>1. <<>> \in [{} -> Nat]
      OBVIOUS
    <2>2. QED
      BY <2>1 DEF Offsets
  <1>7. src' \in [pos : [Parts -> Nat], start : [Parts -> Nat], offs : Offsets,
                  readers : SUBSET Parts, last : BOOLEAN, closed : BOOLEAN]
    BY <1>1, <1>2, <1>4, <1>6 DEF FreshSource
  <1>8. job' = job /\ UNCHANGED saved
    BY DEF Restart
  <1>a. EmptyBag \in RecordBags
    <2>1. EmptyBag \in [{} -> Nat]
      BY DEF EmptyBag, SetToBag
    <2>2. QED
      BY <2>1 DEF RecordBags
  <1>9. SourceType'
    <2>1. group' = [p \in Parts |-> IF job.source = "group" THEN start[p] ELSE group[p]]
      BY DEF Restart
    <2>2. group' \in [Parts -> Nat]
      BY <1>3, <1>4, <2>1
    <2>3. QED
      BY <1>7, <1>8, <2>2, TypesFrame
  <1>10. PipeType'
    <2>1. /\ ch1' = <<>> /\ ch2' = <<>> /\ snaps' = <<>> /\ stage' = FreshStage
          /\ op' = FreshOp(saved.state)
      BY DEF Restart
    <2>2. <<>> \in Seq(Messages) /\ <<>> \in Seq(Records)
      OBVIOUS
    <2>3. <<>> \in [{} -> RecordBags]
      OBVIOUS
    <2>4. <<>> \in UNION {[S -> RecordBags] : S \in SUBSET Nat}
      BY <2>3
    <2>5. op' \in [state : RecordBags, base : RecordBags, dead : BOOLEAN]
      BY <2>1, Typed DEF FreshOp
    <2>6. stage' \in [pc : {"run", "closed", "returned"}, pumped : Seq(Records)]
      BY <2>1, <2>2 DEF FreshStage
    <2>7. QED
      BY <1>8, <2>1, <2>2, <2>4, <2>5, <2>6, TypesFrame
  <1>11. SinkType'
    <2>1. sink' = FreshSink
      BY DEF Restart
    <2>2. sink' \in SinkRecords
      BY <2>1 DEF FreshSink, SinkRecords, SinkPcs
    <2>3. out' \in OutRecords
      <3>1. out \in OutRecords
        BY DEF TypeOK, SinkType, OutRecords
      <3>2. out' = out \/ out' = [out EXCEPT !.dest = EmptyBag]
        BY DEF Restart
      <3>3. QED
        BY <1>a, <3>1, <3>2 DEF OutRecords
    <2>4. QED
      BY <1>8, <2>2, <2>3, TypesFrame DEF SinkRecords, OutRecords
  <1>12. RunType'
    <2>1. ctl.starts + 1 \in Nat /\ 0 \in Nat
      BY Typed
    <2>2. FreshCtl(ctl.starts + 1) \in Controls
      BY <2>1, Zenon DEF FreshCtl, Controls, Results
    <2>3. ctl' \in Controls
      BY <2>2 DEF Restart
    <2>4. excused' \in SUBSET Records
      <3>1. BagToSet(out.dest) \subseteq Records
        BY Typed DEF BagToSet, RecordBags
      <3>2. QED
        BY <3>1 DEF Restart, TypeOK, RunType
    <2>5. QED
      BY <1>8, <2>3, <2>4, TypesFrame DEF TypeOK, RunType
  <1>13. QED
    BY <1>4, <1>5, <1>8, <1>9, <1>10, <1>11, <1>12, TypesFrame DEF TypeOK

\* Stopping, forcing and returning keep the types.
LEMMA ControlTypes ==
  ASSUME TypeOK, Stop \/ ShutdownTimeout \/ Return
  PROVE  TypeOK'
  <1>1. UNCHANGED <<job, src, group, ch1, op, snaps, ch2, stage, sink, out, saved, excused>>
    BY DEF Stop, ShutdownTimeout, Return
  <1>2. ctl' \in Controls
    <2>1. CASE Stop
      BY <2>1, ControlUpdates, Zenon DEF Stop
    <2>2. CASE ShutdownTimeout
      BY <2>2, ControlUpdates, Zenon DEF ShutdownTimeout
    <2>3. CASE Return
      <3>1. PICK x \in {"error", "nil"} : ctl' = [ctl EXCEPT !.result = x]
        BY <2>3 DEF Return
      <3>2. x \in Results
        BY <3>1 DEF Results
      <3>3. QED
        BY <3>1, <3>2, ControlUpdates, Zenon
    <2>4. QED
      BY <2>1, <2>2, <2>3
  <1>3. RunType'
    BY <1>1, <1>2, TypesFrame DEF TypeOK, RunType
  <1>4. QED
    BY <1>1, <1>3, TypesFrame DEF TypeOK

\* The job of a run never changes.
LEMMA JobStays ==
  ASSUME [Next]_vars
  PROVE  job' = job
  BY DEF Next, vars, Read, ReadGarbled, CommitGroup, Discover, SourceFails, PeriodicBarrier,
         LastBarrier, SourceCloses, OpRecord, OpBarrier, OpPanics, StageRecord, StageBarrier,
         StageTakes, StageSeesDeath, StageDiscards, StageCloses, SinkReads, SinkTakes,
         PostgresDeclines, KafkaRefuses, FileRefuses, SinkTick, FlushSucceeds, FlushRetries,
         FlushGivesUp, FlushFails, SinkEnds, SinkReturns, Stop, ShutdownTimeout, Return, Restart

\* Every step keeps the types.
LEMMA TypeStep ==
  ASSUME TypeOK, [Next]_vars
  PROVE  TypeOK'
  <1>1. job' = job
    BY JobStays
  <1>2. CASE UNCHANGED vars
    BY <1>2, TypesFrame DEF vars, TypeOK
  <1>3. CASE Next
    BY <1>1, <1>3, SourceTypes, OperatorTypes, StageTypes, SinkIntake, SinkFlushes, ControlTypes,
       RestartFacts DEF Next
  <1>4. QED
    BY <1>2, <1>3

\* The first run starts from nothing.
LEMMA TypeInit == Init => TypeOK
  <1> SUFFICES ASSUME Init PROVE TypeOK
    OBVIOUS
  <1>2. <<>> \in [{} -> Nat] /\ <<>> \in [{} -> RecordBags] /\ EmptyBag \in [{} -> Nat]
    BY DEF EmptyBag, SetToBag
  <1>3. <<>> \in Offsets /\ EmptyBag \in RecordBags /\ <<>> \in UNION {[S -> RecordBags] : S \in SUBSET Nat}
    BY <1>2 DEF Offsets, RecordBags
  <1>4. job \in Jobs
    BY DEF Init
  <1>5. SourceType
    <2>1. PICK R \in StartReaders : src = FreshSource([p \in Parts |-> 0], R)
      BY DEF Init
    <2>2. R \in SUBSET Parts
      BY DEF StartReaders
    <2>3. group = [p \in Parts |-> 0]
      BY DEF Init
    <2>4. QED
      BY <1>3, <2>1, <2>2, <2>3 DEF SourceType, FreshSource
  <1>6. PipeType
    <2>1. /\ ch1 = <<>> /\ ch2 = <<>> /\ snaps = <<>> /\ op = FreshOp(EmptyBag)
          /\ stage = FreshStage
      BY DEF Init
    <2>2. <<>> \in Seq(Messages) /\ <<>> \in Seq(Records)
      OBVIOUS
    <2>3. op \in [state : RecordBags, base : RecordBags, dead : BOOLEAN]
      BY <1>3, <2>1 DEF FreshOp
    <2>4. stage \in [pc : {"run", "closed", "returned"}, pumped : Seq(Records)]
      BY <2>1, <2>2 DEF FreshStage
    <2>5. QED
      BY <1>3, <2>1, <2>2, <2>3, <2>4 DEF PipeType
  <1>7. SinkType
    BY <1>3 DEF Init, SinkType, FreshSink, SinkPcs
  <1>8. RunType
    <2>1. FreshCtl(1) \in Controls
      <3>1. 1 \in Nat /\ 0 \in Nat
        OBVIOUS
      <3>2. QED
        BY <3>1, Zenon DEF FreshCtl, Controls, Results
    <2>2. QED
      BY <1>3, <2>1 DEF Init, RunType, NoCheckpoint
  <1>9. QED
    BY <1>4, <1>5, <1>6, <1>7, <1>8 DEF TypeOK

-----------------------------------------------------------------------------
(* Nothing vanishes: one lemma per kind of step.                           *)

\* The sets that the positions of a run define.
LEMMA ReadFrame ==
  ASSUME job' = job
  PROVE  /\ \A offs : Covered(offs)' = Covered(offs)
         /\ src'.pos = src.pos /\ src'.start = src.start => ThisRun' = ThisRun
         /\ src'.start = src.start => Skipped(Records)' = Skipped(Records)
  <1>1. Records' = Records
    BY JobFrame
  <1>2. \A offs : Covered(offs)' = Covered(offs)
    BY <1>1 DEF Covered
  <1>3. src'.pos = src.pos /\ src'.start = src.start => ThisRun' = ThisRun
    BY <1>1 DEF ThisRun
  <1>4. src'.start = src.start => Skipped(Records)' = Skipped(Records)
    BY <1>1 DEF Skipped
  <1>5. QED
    BY <1>2, <1>3, <1>4

\* Positions depend on the source only.
LEMMA PositionsFrame ==
  ASSUME Positions, job' = job, src'.pos = src.pos, src'.start = src.start, src'.offs = src.offs
  PROVE  Positions'
  <1>1. Parts' = Parts /\ ThisRun' = ThisRun
    BY JobFrame, ReadFrame
  <1>2. QED
    BY <1>1 DEF Positions

\* A step that touches neither the channels nor the positions, and keeps what has
\* reached the sink.
LEMMA AccountedFrame ==
  ASSUME Accounted, job' = job, src'.pos = src.pos, src'.start = src.start,
         src'.offs = src.offs, UNCHANGED <<ch1, ch2, saved, excused>>, Keeps,
         ctl.hard => ctl'.hard
  PROVE  Accounted'
  <1> USE DEF Accounted
  <1>1. /\ \A offs : Covered(offs)' = Covered(offs) /\ ThisRun' = ThisRun
        /\ Skipped(Records)' = Skipped(Records)
    BY ReadFrame
  <1>2. Positions'
    BY PositionsFrame
  <1>3. Delivered \subseteq Delivered' /\ Held \subseteq Held' /\ Settled \subseteq Settled'
    BY DEF Delivered, Keeps
  <1>4. NothingVanishes'
    BY <1>1, <1>3 DEF NothingVanishes
  <1>5. BarriersCover'
    BY <1>1, <1>3 DEF BarriersCover
  <1>6. SavedCovers'
    BY <1>1, <1>3 DEF SavedCovers
  <1>7. LossIsTheSinks'
    BY <1>1, <1>3 DEF LossIsTheSinks
  <1>8. QED
    BY <1>2, <1>4, <1>5, <1>6, <1>7

\* A step that leaves what has reached the sink as it is.
LEMMA HeldFrame ==
  ASSUME UNCHANGED <<sink, out, excused>>, stage'.pumped = stage.pumped
  PROVE  Held' = Held /\ Settled' = Settled /\ Delivered' = Delivered /\ Keeps
         /\ InSinksHands' = InSinksHands
  <1>1. InSinksHands' = InSinksHands
    BY HandsParts
  <1>2. Settled' = Settled
    BY DEF Settled
  <1>3. QED
    BY <1>1, <1>2 DEF Held, Delivered, Keeps

\* One more place of a partition has been read.
LEMMA PositionMoves ==
  ASSUME TypeOK, Positions, job' = job, NEW p \in Parts, src'.start = src.start,
         src'.pos = [src.pos EXCEPT ![p] = @ + 1]
  PROVE  ThisRun' = ThisRun \cup ({<<p, src.pos[p] + 1>>} \cap Records)
  <1> DEFINE r == <<p, src.pos[p] + 1>>
  <1>1. src.pos \in [Parts -> Nat] /\ src.start \in [Parts -> Nat]
    BY Typed
  <1>2. r[1] = p /\ r[2] = src.pos[p] + 1
    OBVIOUS
  <1>3. Records' = Records
    BY JobFrame
  <1>4. src.start[p] <= src.pos[p]
    BY DEF Positions
  <1>5. ASSUME NEW x \in Records, x # r
        PROVE  x \in ThisRun' <=> x \in ThisRun
    <2>1. x[1] \in Parts /\ x[2] \in Nat /\ x = <<x[1], x[2]>>
      BY RecordFacts, Typed
    <2>2. CASE x[1] = p
      BY <1>1, <1>3, <1>5, <2>1, <2>2 DEF ThisRun
    <2>3. CASE x[1] # p
      BY <1>1, <1>3, <2>1, <2>3 DEF ThisRun
    <2>4. QED
      BY <2>2, <2>3
  <1>6. r \in Records => r \in ThisRun'
    BY <1>1, <1>2, <1>3, <1>4 DEF ThisRun
  <1>7. ThisRun' \subseteq Records /\ ThisRun \subseteq Records
    BY <1>3 DEF ThisRun
  <1> HIDE DEF r
  <1>8. ThisRun' = ThisRun \cup ({r} \cap Records)
    BY <1>5, <1>6, <1>7
  <1>9. QED
    BY <1>8 DEF r

\* A record is read and sent to the operator.
LEMMA AccountedRead ==
  ASSUME TypeOK, Accounted, NEW p \in Parts, Read(p)
  PROVE  Accounted'
  <1> USE DEF Accounted
  <1> DEFINE r == <<p, src.pos[p] + 1>>
             m == [type |-> "record", rec |-> r]
  <1>1. /\ job' = job /\ UNCHANGED <<ch2, stage, sink, out, saved, ctl, excused>>
        /\ r \in Records /\ r \notin job.garbled /\ ~ctl.hard /\ ch1' = Append(ch1, m)
        /\ src' = [src EXCEPT !.pos[p] = @ + 1, !.offs = Noted(@, r)]
    BY DEF Read, CanFetch
  <1>2. src.pos \in [Parts -> Nat] /\ src.start \in [Parts -> Nat] /\ src.offs \in Offsets
    BY Typed
  <1>3. /\ src'.start = src.start /\ src'.pos = [src.pos EXCEPT ![p] = @ + 1]
        /\ src'.offs = Noted(src.offs, r)
    BY <1>1 DEF TypeOK, SourceType
  <1>4. src.pos[p] + 1 \in Nat /\ r[1] = p /\ r[2] = src.pos[p] + 1 /\ r \in Places
    BY <1>2 DEF Places
  <1>5. /\ DOMAIN src'.offs = DOMAIN src.offs \cup {p} /\ src'.offs[p] = r[2]
        /\ \A x \in DOMAIN src.offs : x # p => src'.offs[x] = src.offs[x]
    <2>1. /\ DOMAIN Noted(src.offs, r) = DOMAIN src.offs \cup {r[1]}
          /\ Noted(src.offs, r)[r[1]] = r[2]
          /\ \A x \in DOMAIN src.offs : x # r[1] => Noted(src.offs, r)[x] = src.offs[x]
      <3> HIDE DEF r
      <3>1. QED
        BY <1>2, <1>4, NotedFacts
    <2>2. QED
      BY <1>3, <1>4, <2>1
  <1>6. ThisRun' = ThisRun \cup {r}
    <2>1. ThisRun' = ThisRun \cup ({r} \cap Records)
      BY <1>1, <1>3, PositionMoves
    <2>2. QED
      BY <1>1, <2>1
  <1>7. Positions'
    <2>1. \A x \in Parts' : src'.start[x] <= src'.pos[x]
      BY <1>1, <1>2, <1>3, JobFrame DEF Positions
    <2>2. DOMAIN src.offs \subseteq Parts
      BY <1>2 DEF Offsets
    <2>3. \A x \in DOMAIN src'.offs : src'.start[x] < src'.offs[x] /\ src'.offs[x] <= src'.pos[x]
      <3>1. SUFFICES ASSUME NEW x \in DOMAIN src'.offs
                     PROVE  src'.start[x] < src'.offs[x] /\ src'.offs[x] <= src'.pos[x]
        OBVIOUS
      <3>2. CASE x = p
        <4>1. src.start[p] <= src.pos[p]
          BY DEF Positions
        <4>2. QED
          BY <1>2, <1>3, <1>4, <1>5, <3>2, <4>1
      <3>3. CASE x # p
        BY <1>2, <1>3, <1>5, <2>2, <3>3 DEF Positions
      <3>4. QED
        BY <3>2, <3>3
    <2>4. ASSUME NEW x \in ThisRun' \ job'.garbled
          PROVE  x[1] \in DOMAIN src'.offs /\ x[2] <= src'.offs[x[1]]
      <3>1. CASE x = r
        BY <1>4, <1>5, <3>1
      <3>2. CASE x # r
        <4>1. x \in ThisRun \ job.garbled /\ x[1] \in DOMAIN src.offs /\ x[2] <= src.offs[x[1]]
          BY <1>1, <1>6, <2>4, <3>2 DEF Positions
        <4>2. CASE x[1] = p
          <5>1. x[2] <= src.pos[p] /\ x[2] \in Nat
            BY <4>1, <4>2, RecordFacts, Typed DEF ThisRun
          <5>2. QED
            BY <1>2, <1>4, <1>5, <4>1, <4>2, <5>1
        <4>3. CASE x[1] # p
          BY <1>5, <4>1, <4>3
        <4>4. QED
          BY <4>2, <4>3
      <3>3. QED
        BY <3>1, <3>2
    <2>5. QED
      BY <2>1, <2>3, <2>4 DEF Positions
  <1>8. Held' = Held /\ Settled' = Settled /\ Delivered' = Delivered
    BY <1>1, HeldFrame
  <1>9. ch1 \in Seq(Messages) /\ m \in Messages
    BY <1>1, Typed DEF Messages, RecordMessages
  <1>10. /\ Recs(ch1') = Recs(ch1) \cup {r}
         /\ \A i \in DOMAIN ch1 : RecsBefore(ch1', i) = RecsBefore(ch1, i)
    <2>1. RecOf(m) = {r}
      BY DEF RecOf
    <2> HIDE DEF m, r
    <2>2. /\ Recs(Append(ch1, m)) = Recs(ch1) \cup RecOf(m)
          /\ \A i \in DOMAIN ch1 : RecsBefore(Append(ch1, m), i) = RecsBefore(ch1, i)
      BY <1>9, RecsAppend
    <2>3. QED
      BY <1>1, <2>1, <2>2
  <1>11. NothingVanishes'
    BY <1>1, <1>6, <1>8, <1>10 DEF NothingVanishes
  <1>12. BarriersCover'
    <2>1. /\ DOMAIN ch1' = DOMAIN ch1 \cup {Len(ch1) + 1}
          /\ \A i \in DOMAIN ch1 : ch1'[i] = ch1[i]
          /\ ch1'[Len(ch1) + 1] = m
      BY <1>1, <1>9, Ends
    <2>2. \A offs : Covered(offs)' = Covered(offs)
      BY <1>1, ReadFrame
    <2>3. m.type = "record"
      OBVIOUS
    <2> HIDE DEF m, r
    <2>4. \A i \in DOMAIN ch1' : ch1'[i].type = "barrier" =>
            i \in DOMAIN ch1 /\ ch1[i].type = "barrier" /\ ch1'[i].offs = ch1[i].offs
      BY <2>1, <2>3
    <2>5. QED
      BY <1>1, <1>8, <1>10, <2>2, <2>4 DEF BarriersCover
  <1>13. SavedCovers'
    BY <1>1, <1>8, ReadFrame DEF SavedCovers
  <1>14. LossIsTheSinks'
    BY <1>1, <1>3, <1>8, ReadFrame DEF LossIsTheSinks
  <1>15. QED
    BY <1>7, <1>11, <1>12, <1>13, <1>14

\* A record that cannot be decoded is settled by the policy, or ends the run.
LEMMA AccountedGarbled ==
  ASSUME TypeOK, Accounted, NEW p \in Parts, ReadGarbled(p)
  PROVE  Accounted'
  <1> USE DEF Accounted
  <1> DEFINE r == <<p, src.pos[p] + 1>>
  <1>1. /\ job' = job /\ UNCHANGED <<ch1, ch2, stage, sink, saved, excused>>
        /\ r \in job.garbled /\ ~ctl.hard /\ src' = [src EXCEPT !.pos[p] = @ + 1]
    BY DEF ReadGarbled, CanFetch
  <1>2. src.pos \in [Parts -> Nat] /\ src.start \in [Parts -> Nat] /\ src.offs \in Offsets
    BY Typed
  <1>3. /\ src'.start = src.start /\ src'.pos = [src.pos EXCEPT ![p] = @ + 1]
        /\ src'.offs = src.offs
    BY <1>1 DEF TypeOK, SourceType
  <1>4. ThisRun' = ThisRun \cup ({r} \cap Records)
    BY <1>1, <1>3, PositionMoves
  <1>5. /\ Settled \subseteq Settled' /\ InSinksHands' = InSinksHands
        /\ ctl'.hard \/ r \in Settled'
    <2>1. InSinksHands' = InSinksHands
      BY <1>1, HandsParts
    <2>2. CASE out' = ByPolicy({r})
      <3>1. {r} \in SUBSET Places
        BY <1>2 DEF Places
      <3>2. out'.dest = out.dest /\ out'.adrift = out.adrift /\ out'.dlq \cup out'.dropped = out.dlq \cup out.dropped \cup {r}
        <4> HIDE DEF r
        <4>1. QED
          BY <2>2, <3>1, PolicyFacts
      <3>3. QED
        BY <2>1, <3>2 DEF Settled
    <2>3. CASE out' = out /\ ctl' = [ctl EXCEPT !.hard = TRUE, !.err = TRUE]
      <3>1. ctl'.hard = TRUE
        BY <2>3, Typed, Zenon DEF Controls
      <3>2. QED
        BY <2>1, <2>3, <3>1 DEF Settled
    <2>4. QED
      BY <2>2, <2>3 DEF ReadGarbled
  <1>6. Held \subseteq Held' /\ Delivered \subseteq Delivered' /\ Settled' \subseteq Held'
    BY <1>1, <1>5 DEF Held, Delivered
  <1>7. Positions'
    <2>1. \A x \in Parts' : src'.start[x] <= src'.pos[x]
      BY <1>1, <1>2, <1>3, JobFrame DEF Positions
    <2>2. DOMAIN src.offs \subseteq Parts /\ \A x \in DOMAIN src.offs : src.offs[x] \in Nat
      BY <1>2 DEF Offsets
    <2>3. \A x \in DOMAIN src'.offs : src'.start[x] < src'.offs[x] /\ src'.offs[x] <= src'.pos[x]
      BY <1>2, <1>3, <2>2 DEF Positions
    <2>4. \A x \in ThisRun' \ job'.garbled : x[1] \in DOMAIN src'.offs /\ x[2] <= src'.offs[x[1]]
      <3> HIDE DEF r
      <3>1. ThisRun' \ job'.garbled = ThisRun \ job.garbled
        BY <1>1, <1>4
      <3>2. QED
        BY <1>3, <3>1 DEF Positions
    <2>5. QED
      BY <2>1, <2>3, <2>4 DEF Positions
  <1>8. NothingVanishes'
    <2> HIDE DEF r
    <2>1. QED
      BY <1>1, <1>4, <1>5, <1>6 DEF NothingVanishes
  <1>9. \A offs : Covered(offs)' = Covered(offs)
    BY <1>1, ReadFrame
  <1>10. BarriersCover'
    BY <1>1, <1>6, <1>9 DEF BarriersCover
  <1>11. SavedCovers'
    BY <1>1, <1>5, <1>9 DEF SavedCovers
  <1>12. LossIsTheSinks'
    BY <1>1, <1>3, <1>5, ReadFrame DEF LossIsTheSinks
  <1>13. QED
    BY <1>7, <1>8, <1>10, <1>11, <1>12

\* What the positions cover is settled, in the sink's hands or on its way: a
\* barrier may be injected at any time.
LEMMA AccountedInject ==
  ASSUME TypeOK, Accounted, PeriodicBarrier \/ LastBarrier
  PROVE  Accounted'
  <1> USE DEF Accounted
  <1>1. /\ job' = job /\ UNCHANGED <<ch2, stage, sink, out, saved, excused>>
        /\ ~ctl.hard /\ ch1' = Append(ch1, Barrier)
        /\ ctl' = [ctl EXCEPT !.barriers = @ + 1]
    BY DEF PeriodicBarrier, LastBarrier
  <1>2. src'.pos = src.pos /\ src'.start = src.start /\ src'.offs = src.offs
    BY DEF PeriodicBarrier, LastBarrier, TypeOK, SourceType
  <1>3. /\ \A offs : Covered(offs)' = Covered(offs)
        /\ ThisRun' = ThisRun /\ Skipped(Records)' = Skipped(Records)
    BY <1>1, <1>2, ReadFrame
  <1>4. Held' = Held /\ Settled' = Settled /\ Delivered' = Delivered
    BY <1>1, HeldFrame
  <1>5. ch1 \in Seq(Messages) /\ Barrier \in Messages
    <2>1. ctl.barriers + 1 \in Nat /\ src.offs \in Offsets
      BY Typed
    <2>2. QED
      BY <2>1, Typed DEF Messages, BarrierMessages, Barrier
  <1>6. Barrier.type = "barrier" /\ Barrier.offs = src.offs /\ RecOf(Barrier) = {}
    BY DEF Barrier, RecOf
  <1>7. /\ Recs(ch1') = Recs(ch1)
        /\ \A i \in DOMAIN ch1 : RecsBefore(ch1', i) = RecsBefore(ch1, i)
        /\ RecsBefore(ch1', Len(ch1) + 1) = Recs(ch1)
    <2>1. /\ Recs(Append(ch1, Barrier)) = Recs(ch1) \cup RecOf(Barrier)
          /\ \A i \in DOMAIN ch1 : RecsBefore(Append(ch1, Barrier), i) = RecsBefore(ch1, i)
          /\ RecsBefore(Append(ch1, Barrier), Len(ch1) + 1) = Recs(ch1)
      BY <1>5, RecsAppend
    <2>2. QED
      BY <1>1, <1>6, <2>1
  <1>8. /\ DOMAIN ch1' = DOMAIN ch1 \cup {Len(ch1) + 1}
        /\ \A i \in DOMAIN ch1 : ch1'[i] = ch1[i]
        /\ ch1'[Len(ch1) + 1] = Barrier
    BY <1>1, <1>5, Ends
  <1>9. Covered(src.offs) \subseteq Delivered \cup Recs(ch2) \cup Recs(ch1)
    <2>1. SUFFICES ASSUME NEW r \in Covered(src.offs)
                   PROVE  r \in Delivered \cup Recs(ch2) \cup Recs(ch1)
      OBVIOUS
    <2>2. /\ r \in Records /\ r[1] \in Parts /\ r[2] \in Nat
          /\ r[1] \in DOMAIN src.offs /\ r[2] <= src.offs[r[1]]
      BY RecordFacts, Typed DEF Covered
    <2>3. src.offs[r[1]] \in Nat /\ src.start[r[1]] \in Nat /\ src.pos[r[1]] \in Nat
      BY <2>2, Typed DEF Offsets
    <2>4. src.offs[r[1]] <= src.pos[r[1]]
      BY <2>2 DEF Positions
    <2>5. CASE r[2] <= src.start[r[1]]
      <3>1. r \in Settled \cup excused
        BY <2>2, <2>5 DEF LossIsTheSinks, Skipped
      <3>2. QED
        BY <3>1 DEF Delivered, Held
    <2>6. CASE src.start[r[1]] < r[2]
      <3>1. r \in ThisRun
        BY <2>2, <2>3, <2>4, <2>6 DEF ThisRun
      <3>2. QED
        BY <1>1, <3>1 DEF NothingVanishes, Delivered
    <2>7. QED
      BY <2>2, <2>3, <2>5, <2>6
  <1>10. NothingVanishes'
    BY <1>1, <1>3, <1>4, <1>7 DEF NothingVanishes
  <1>11. BarriersCover'
    BY <1>1, <1>3, <1>4, <1>6, <1>7, <1>8, <1>9 DEF BarriersCover
  <1>12. QED
    BY <1>1, <1>2, <1>3, <1>4, <1>10, <1>11, PositionsFrame DEF SavedCovers, LossIsTheSinks

\* The operator passes on the head of its channel.
LEMMA AccountedPassOn ==
  ASSUME TypeOK, Accounted, job' = job, UNCHANGED <<src, stage, sink, out, saved, excused>>,
         ctl.hard => ctl'.hard,
         ch1 # <<>>, ch1' = Tail(ch1), ch2' = Append(ch2, Head(ch1))
  PROVE  Accounted'
  <1> USE DEF Accounted
  <1> DEFINE m == Head(ch1)
  <1>1. ch1 \in Seq(Messages) /\ ch2 \in Seq(Messages) /\ m \in Messages /\ m = ch1[1]
        /\ 1 \in DOMAIN ch1
    BY Typed, Ends
  <1>2. /\ \A offs : Covered(offs)' = Covered(offs)
        /\ ThisRun' = ThisRun /\ Skipped(Records)' = Skipped(Records)
    BY ReadFrame
  <1>3. Held' = Held /\ Settled' = Settled /\ Delivered' = Delivered
    BY HeldFrame
  <1>4. /\ Recs(ch1) = RecOf(m) \cup Recs(ch1')
        /\ \A i \in DOMAIN ch1' : RecsBefore(ch1, i + 1) = RecOf(m) \cup RecsBefore(ch1', i)
        /\ RecsBefore(ch1, 1) = {}
    BY <1>1, RecsTail
  <1>5. /\ \A i \in DOMAIN ch1' : i + 1 \in DOMAIN ch1 /\ ch1'[i] = ch1[i + 1]
    BY <1>1, Ends
  <1> HIDE DEF m
  <1>6. /\ Recs(ch2') = Recs(ch2) \cup RecOf(m)
        /\ \A i \in DOMAIN ch2 : RecsBefore(ch2', i) = RecsBefore(ch2, i)
        /\ RecsBefore(ch2', Len(ch2) + 1) = Recs(ch2)
    <2>1. /\ Recs(Append(ch2, m)) = Recs(ch2) \cup RecOf(m)
          /\ \A i \in DOMAIN ch2 : RecsBefore(Append(ch2, m), i) = RecsBefore(ch2, i)
          /\ RecsBefore(Append(ch2, m), Len(ch2) + 1) = Recs(ch2)
      BY <1>1, RecsAppend
    <2>2. QED
      BY <2>1 DEF m
  <1>7. /\ DOMAIN ch2' = DOMAIN ch2 \cup {Len(ch2) + 1}
        /\ \A i \in DOMAIN ch2 : ch2'[i] = ch2[i]
        /\ ch2'[Len(ch2) + 1] = m
    <2>1. ch2' = Append(ch2, m)
      BY DEF m
    <2>2. QED
      BY <1>1, <2>1, Ends
  <1>8. NothingVanishes'
    BY <1>2, <1>3, <1>4, <1>6 DEF NothingVanishes
  <1>9. ASSUME NEW i \in DOMAIN ch2', ch2'[i].type = "barrier"
        PROVE  Covered(ch2'[i].offs) \subseteq Delivered \cup RecsBefore(ch2', i)
    <2>1. CASE i \in DOMAIN ch2
      BY <1>6, <1>7, <1>9, <2>1 DEF BarriersCover
    <2>2. CASE i = Len(ch2) + 1
      <3>1. Covered(m.offs) \subseteq Delivered \cup Recs(ch2) \cup RecsBefore(ch1, 1)
        BY <1>1, <1>7, <1>9, <2>2 DEF BarriersCover
      <3>2. QED
        BY <1>4, <1>6, <1>7, <2>2, <3>1
    <2>3. QED
      BY <1>7, <2>1, <2>2
  <1>10. ASSUME NEW i \in DOMAIN ch1', ch1'[i].type = "barrier"
         PROVE  Covered(ch1'[i].offs) \subseteq Delivered \cup Recs(ch2') \cup RecsBefore(ch1', i)
    <2>1. Covered(ch1[i + 1].offs) \subseteq Delivered \cup Recs(ch2) \cup RecsBefore(ch1, i + 1)
      BY <1>5, <1>10 DEF BarriersCover
    <2>2. QED
      BY <1>4, <1>5, <1>6, <2>1
  <1>11. BarriersCover'
    BY <1>2, <1>3, <1>9, <1>10 DEF BarriersCover
  <1>12. QED
    BY <1>2, <1>3, <1>8, <1>11, PositionsFrame DEF SavedCovers, LossIsTheSinks

\* The sink stage takes the head of its channel, and what the sink has or is
\* about to get keeps the record in it.
LEMMA StageTakesFacts ==
  ASSUME TypeOK, Accounted, job' = job, UNCHANGED <<src, ch1, excused>>,
         ctl.hard => ctl'.hard,
         ch2 # <<>>, ch2' = Tail(ch2), Settled' = Settled,
         Held \cup RecOf(Head(ch2)) \subseteq Held'
  PROVE  Positions' /\ NothingVanishes' /\ BarriersCover' /\ LossIsTheSinks'
  <1> USE DEF Accounted
  <1> DEFINE m == Head(ch2)
  <1>1. ch2 \in Seq(Messages) /\ m = ch2[1]
    BY Typed, Ends
  <1>2. /\ \A offs : Covered(offs)' = Covered(offs)
        /\ ThisRun' = ThisRun /\ Skipped(Records)' = Skipped(Records)
    BY ReadFrame
  <1>3. Delivered \cup RecOf(m) \subseteq Delivered'
    BY DEF Delivered
  <1>4. /\ Recs(ch2) = RecOf(m) \cup Recs(ch2')
        /\ \A i \in DOMAIN ch2' : RecsBefore(ch2, i + 1) = RecOf(m) \cup RecsBefore(ch2', i)
    BY <1>1, RecsTail
  <1>5. \A i \in DOMAIN ch2' : i + 1 \in DOMAIN ch2 /\ ch2'[i] = ch2[i + 1]
    BY <1>1, Ends
  <1>6. NothingVanishes'
    BY <1>2, <1>3, <1>4 DEF NothingVanishes
  <1>7. ASSUME NEW i \in DOMAIN ch2', ch2'[i].type = "barrier"
        PROVE  Covered(ch2'[i].offs) \subseteq Delivered' \cup RecsBefore(ch2', i)
    <2>1. Covered(ch2[i + 1].offs) \subseteq Delivered \cup RecsBefore(ch2, i + 1)
      BY <1>5, <1>7 DEF BarriersCover
    <2>2. QED
      BY <1>3, <1>4, <1>5, <2>1
  <1>8. ASSUME NEW i \in DOMAIN ch1', ch1'[i].type = "barrier"
        PROVE  Covered(ch1'[i].offs) \subseteq Delivered' \cup Recs(ch2') \cup RecsBefore(ch1', i)
    <2>1. Covered(ch1[i].offs) \subseteq Delivered \cup Recs(ch2) \cup RecsBefore(ch1, i)
      BY <1>8 DEF BarriersCover
    <2>2. QED
      BY <1>3, <1>4, <2>1
  <1>9. BarriersCover'
    BY <1>2, <1>7, <1>8 DEF BarriersCover
  <1>10. QED
    BY <1>2, <1>6, <1>9, PositionsFrame DEF LossIsTheSinks

\* The sink stage hands a record over.
LEMMA AccountedStageRecord ==
  ASSUME TypeOK, Accounted, StageRecord
  PROVE  Accounted'
  <1> USE DEF Accounted
  <1> DEFINE r == Head(ch2).rec
  <1>1. /\ job' = job /\ UNCHANGED <<src, ch1, sink, out, saved, ctl, excused>>
        /\ ch2 # <<>> /\ ch2' = Tail(ch2) /\ Head(ch2).type = "record"
        /\ stage' = [stage EXCEPT !.pumped = Append(@, r)]
    BY DEF StageRecord, StageTakes
  <1>2. stage'.pumped = Append(stage.pumped, r)
    BY <1>1 DEF TypeOK, PipeType
  <1>3. r \in Records
    <2>1. Head(ch2) \in Messages
      BY <1>1, Typed, Ends
    <2>2. QED
      BY <1>1, <2>1 DEF Messages, RecordMessages, BarrierMessages
  <1>4. Elems(stage'.pumped) = Elems(stage.pumped) \cup {r}
    <2>1. stage.pumped \in Seq(Records)
      BY Typed
    <2> HIDE DEF r
    <2>2. Elems(Append(stage.pumped, r)) = Elems(stage.pumped) \cup {r}
      BY <1>3, <2>1, ElemsEnds
    <2>3. QED
      BY <1>2, <2>2
  <1>5. Settled' = Settled /\ InSinksHands' = InSinksHands
    BY <1>1, HandsParts DEF Settled
  <1>6. Held \cup RecOf(Head(ch2)) \subseteq Held'
    BY <1>1, <1>4, <1>5 DEF Held, RecOf
  <1>7. Positions' /\ NothingVanishes' /\ BarriersCover' /\ LossIsTheSinks'
    BY <1>1, <1>5, <1>6, StageTakesFacts
  <1>8. SavedCovers'
    BY <1>1, <1>5, ReadFrame DEF SavedCovers
  <1>9. QED
    BY <1>7, <1>8

\* A barrier that is reported has nothing of what it covers behind the sink's
\* own hands: the wait of the sink stage.
LEMMA AccountedStageBarrier ==
  ASSUME TypeOK, Accounted, StageBarrier
  PROVE  Accounted'
  <1> USE DEF Accounted
  <1> DEFINE b == Head(ch2)
  <1>1. /\ job' = job /\ UNCHANGED <<src, ch1, sink, stage, out, excused>>
        /\ ch2 # <<>> /\ ch2' = Tail(ch2) /\ b.type = "barrier" /\ stage.pumped = <<>>
    BY DEF StageBarrier, StageTakes, NothingPumped
  <1>2. ctl.hard => ctl'.hard
    <2>1. \/ \E x : ctl' = [ctl EXCEPT !.spoiled = x]
          \/ ctl' = [ctl EXCEPT !.faults = @ + 1]
      BY DEF StageBarrier
    <2>2. QED
      BY <2>1, Typed, Zenon DEF Controls
  <1>3. Held' = Held /\ Settled' = Settled
    BY <1>1, HeldFrame
  <1>4. RecOf(b) = {}
    BY <1>1 DEF RecOf
  <1>5. Positions' /\ NothingVanishes' /\ BarriersCover' /\ LossIsTheSinks'
    BY <1>1, <1>2, <1>3, <1>4, StageTakesFacts
  <1>6. Covered(b.offs) \subseteq Settled \cup excused \cup InSinksHands
    <2>1. 1 \in DOMAIN ch2 /\ b = ch2[1] /\ RecsBefore(ch2, 1) = {}
      BY <1>1, Typed, Ends, RecsTail
    <2>2. Covered(b.offs) \subseteq Delivered
      BY <1>1, <2>1 DEF BarriersCover
    <2>3. Elems(stage.pumped) = {}
      BY <1>1 DEF Elems
    <2>4. QED
      BY <2>2, <2>3 DEF Delivered, Held
  <1>7. \/ saved' = saved
        \/ saved'.offs = b.offs /\ saved'.hands = InSinksHands
    BY DEF StageBarrier
  <1>8. SavedCovers'
    BY <1>1, <1>3, <1>6, <1>7, ReadFrame DEF SavedCovers
  <1>9. QED
    BY <1>5, <1>8

\* A forced shutdown may drop what is on its way.
LEMMA AccountedDiscards ==
  ASSUME TypeOK, Accounted, StageDiscards
  PROVE  Accounted'
  <1> USE DEF Accounted
  <1>1. /\ job' = job /\ UNCHANGED <<src, sink, stage, out, saved, ctl, excused>>
        /\ ctl.hard /\ ch1' = <<>> /\ ch2' = <<>>
    BY DEF StageDiscards
  <1>2. Held' = Held /\ Settled' = Settled
    BY <1>1, HeldFrame
  <1>3. NothingVanishes' /\ BarriersCover'
    BY <1>1 DEF NothingVanishes, BarriersCover
  <1>4. QED
    BY <1>1, <1>2, <1>3, ReadFrame, PositionsFrame DEF SavedCovers, LossIsTheSinks

\* What a resumed run skips is covered by the checkpoint or by the group.
LEMMA AccountedRestart ==
  ASSUME TypeOK, Accounted, Restart
  PROVE  Accounted'
  <1> USE DEF Accounted
  <1> DEFINE start == [p \in Parts |-> ResumeAt(p)]
  <1>1. /\ job' = job /\ UNCHANGED saved /\ ch1' = <<>> /\ ch2' = <<>>
        /\ out' = IF Truncates THEN [out EXCEPT !.dest = EmptyBag] ELSE out
        /\ excused' = excused \cup saved.hands
             \cup (IF Truncates THEN BagToSet(out.dest) ELSE {})
             \cup {r \in Records : r[1] \notin DOMAIN saved.offs /\ r[2] <= start[r[1]]}
    BY DEF Restart
  <1>2. /\ start \in [Parts -> Nat] /\ src'.pos = start /\ src'.start = start
        /\ src'.offs = <<>>
    BY RestartFacts
  <1>3. Records' = Records /\ Parts' = Parts /\ \A offs : Covered(offs)' = Covered(offs)
    BY <1>1, JobFrame, ReadFrame
  <1>4. \A r \in Records : r[1] \in Parts /\ r[2] \in Nat
    BY RecordFacts, Typed
  <1>5. ThisRun' = {}
    BY <1>2, <1>3, <1>4 DEF ThisRun
  <1>6. Positions'
    <2>1. \A p \in Parts' : src'.start[p] <= src'.pos[p]
      BY <1>2, <1>3
    <2>2. DOMAIN src'.offs = {}
      BY <1>2
    <2>3. QED
      BY <1>5, <2>1, <2>2 DEF Positions
  <1>7. NothingVanishes' /\ BarriersCover'
    BY <1>1, <1>5 DEF NothingVanishes, BarriersCover
  <1>8. Settled \cup excused \cup saved.hands \subseteq Settled' \cup excused'
    <2>1. CASE Truncates
      <3>1. /\ out'.dlq = out.dlq /\ out'.dropped = out.dropped /\ out'.adrift = out.adrift
        BY <1>1, <2>1 DEF TypeOK, SinkType
      <3>2. BagToSet(out.dest) \subseteq excused'
        BY <1>1, <2>1
      <3>3. QED
        BY <1>1, <3>1, <3>2 DEF Settled
    <2>2. CASE ~Truncates
      BY <1>1, <2>2 DEF Settled
    <2>3. QED
      BY <2>1, <2>2
  <1>9. SavedCovers'
    BY <1>1, <1>3, <1>8 DEF SavedCovers
  <1>10. LossIsTheSinks'
    <2>1. SUFFICES ASSUME NEW r \in Skipped(Records)' PROVE r \in Settled' \cup excused'
      BY DEF LossIsTheSinks
    <2>2. r \in Records /\ r[2] <= start[r[1]] /\ r[1] \in Parts
      BY <1>2, <1>3, <1>4, <2>1 DEF Skipped
    <2>3. CASE r[1] \in DOMAIN saved.offs
      <3>1. start[r[1]] = saved.offs[r[1]]
        BY <2>2, <2>3 DEF ResumeAt
      <3>2. r \in Covered(saved.offs)
        BY <2>2, <2>3, <3>1 DEF Covered
      <3>3. QED
        BY <1>1, <1>8, <3>2 DEF SavedCovers
    <2>4. CASE r[1] \notin DOMAIN saved.offs
      BY <1>1, <2>2, <2>4
    <2>5. QED
      BY <2>3, <2>4
  <1>11. QED
    BY <1>6, <1>7, <1>9, <1>10

-----------------------------------------------------------------------------
(* Every record is accounted for in every step.                            *)

\* Only Return writes the result of a run, only the injector numbers barriers and
\* only a restart ends a forced shutdown.
LEMMA ControlSteps ==
  ASSUME TypeOK, Next, ~Restart
  PROVE  /\ Running /\ (ctl.hard => ctl'.hard)
         /\ ctl'.result = None \/ (Return /\ ctl'.hard = ctl.hard)
         /\ ctl'.barriers = ctl.barriers \/ PeriodicBarrier \/ LastBarrier
  <1>1. ctl \in Controls
    BY Typed
  <1>2. Running
    BY DEF Next, Read, ReadGarbled, CanFetch, CommitGroup, Discover, SourceFails, PeriodicBarrier,
           LastBarrier, SourceCloses, OpRecord, OpBarrier, OpPanics, StageRecord, StageBarrier,
           StageTakes, StageSeesDeath, StageDiscards, StageCloses, SinkReads, SinkTakes,
           PostgresDeclines, KafkaRefuses, FileRefuses, SinkTick, FlushSucceeds, FlushRetries,
           FlushGivesUp, FlushFails, SinkEnds, SinkReturns, Stop, ShutdownTimeout, Return
  <1>3. ASSUME UNCHANGED ctl PROVE (ctl.hard => ctl'.hard) /\ ctl'.result = None /\ ctl'.barriers = ctl.barriers
    BY <1>2, <1>3 DEF Running
  <1>4. ASSUME NEW x, NEW y, ctl' = [ctl EXCEPT !.hard = TRUE, !.err = y] \/
                             ctl' = [ctl EXCEPT !.faults = x, !.hard = TRUE, !.err = y] \/
                             ctl' = [ctl EXCEPT !.hard = TRUE, !.faults = x]
        PROVE  (ctl.hard => ctl'.hard) /\ ctl'.result = None /\ ctl'.barriers = ctl.barriers
    BY <1>1, <1>2, <1>4, Zenon DEF Running, Controls
  <1>5. ASSUME NEW x, ctl' = [ctl EXCEPT !.faults = x] \/ ctl' = [ctl EXCEPT !.spoiled = x] \/
                      ctl' = [ctl EXCEPT !.stop = x]
        PROVE  (ctl.hard => ctl'.hard) /\ ctl'.result = None /\ ctl'.barriers = ctl.barriers
    BY <1>1, <1>2, <1>5, Zenon DEF Running, Controls
  <1>6. CASE \E p \in Parts : Read(p) \/ ReadGarbled(p) \/ CommitGroup(p) \/ Discover(p)
    <2>1. UNCHANGED ctl \/ ctl' = [ctl EXCEPT !.hard = TRUE, !.err = TRUE]
      BY <1>6 DEF Read, ReadGarbled, CommitGroup, Discover
    <2>2. QED
      BY <1>2, <1>3, <1>4, <2>1
  <1>7. CASE SourceFails \/ OpPanics
    BY <1>2, <1>4, <1>7 DEF SourceFails, OpPanics
  <1>8. CASE PeriodicBarrier \/ LastBarrier
    <2>1. \E x : ctl' = [ctl EXCEPT !.barriers = x]
      BY <1>8 DEF PeriodicBarrier, LastBarrier
    <2>2. (ctl.hard => ctl'.hard) /\ ctl'.result = None
      BY <1>1, <1>2, <2>1, Zenon DEF Running, Controls
    <2>3. QED
      BY <1>2, <1>8, <2>2
  <1>9. CASE SourceCloses \/ OpRecord \/ StageRecord \/ StageDiscards \/ StageCloses
             \/ SinkTakes \/ PostgresDeclines \/ FileRefuses \/ SinkTick \/ SinkEnds \/ SinkReturns
             \/ \E i \in Flights : FlushSucceeds(i) \/ FlushRetries(i)
    <2>1. UNCHANGED ctl
      BY <1>9 DEF SourceCloses, OpRecord, StageRecord, StageDiscards, StageCloses, SinkTakes,
                  PostgresDeclines, FileRefuses, SinkTick, SinkEnds, SinkReturns, FlushSucceeds,
                  FlushRetries
    <2>2. QED
      BY <1>2, <1>3, <2>1
  <1>10. CASE OpBarrier \/ StageBarrier \/ KafkaRefuses
              \/ \E i \in Flights : FlushGivesUp(i) \/ FlushFails(i)
    <2>1. UNCHANGED ctl \/ \E x : ctl' = [ctl EXCEPT !.faults = x] \/ ctl' = [ctl EXCEPT !.spoiled = x]
      BY <1>10 DEF OpBarrier, StageBarrier, KafkaRefuses, FlushGivesUp, FlushFails
    <2>2. QED
      BY <1>2, <1>3, <1>5, <2>1
  <1>11. CASE StageSeesDeath \/ ShutdownTimeout
    BY <1>2, <1>4, <1>11 DEF StageSeesDeath, ShutdownTimeout
  <1>12. CASE Stop
    BY <1>2, <1>5, <1>12 DEF Stop
  <1>13. CASE Return
    <2>1. \E x : ctl' = [ctl EXCEPT !.result = x]
      BY <1>13 DEF Return
    <2>2. ctl'.hard = ctl.hard /\ ctl'.barriers = ctl.barriers
      BY <1>1, <2>1, Zenon DEF Controls
    <2>3. QED
      BY <1>2, <1>13, <2>2
  <1>14. QED
    BY <1>6, <1>7, <1>8, <1>9, <1>10, <1>11, <1>12, <1>13 DEF Next

\* Every step accounts for every record.
LEMMA AccountedStep ==
  ASSUME TypeOK, Accounted, [Next]_vars
  PROVE  Accounted'
  <1>1. job' = job
    BY JobStays
  <1>2. ASSUME UNCHANGED <<src, ch1, ch2, sink, out, saved, excused>>,
               stage'.pumped = stage.pumped, ctl.hard => ctl'.hard
        PROVE  Accounted'
    BY <1>1, <1>2, HeldFrame, AccountedFrame
  <1>3. CASE UNCHANGED vars
    BY <1>2, <1>3 DEF vars
  <1>4. CASE Restart
    BY <1>4, AccountedRestart
  <1>5. ASSUME Next, ~Restart PROVE Accounted'
    <2>1. ctl.hard => ctl'.hard
      BY <1>5, ControlSteps
    <2>2. CASE \E p \in Parts : Read(p) \/ ReadGarbled(p)
      BY <2>2, AccountedRead, AccountedGarbled
    <2>3. CASE PeriodicBarrier \/ LastBarrier
      BY <2>3, AccountedInject
    <2>4. CASE (\E p \in Parts : Discover(p)) \/ SourceCloses
      <3>1. /\ UNCHANGED <<ch1, ch2, stage, sink, out, saved, excused>>
            /\ src'.pos = src.pos /\ src'.start = src.start /\ src'.offs = src.offs
        BY <2>4 DEF Discover, SourceCloses, TypeOK, SourceType
      <3>2. QED
        BY <1>1, <2>1, <3>1, HeldFrame, AccountedFrame
    <2>5. CASE OpRecord \/ OpBarrier
      BY <1>1, <2>1, <2>5, AccountedPassOn DEF OpRecord, OpBarrier
    <2>6. CASE StageRecord \/ StageBarrier \/ StageDiscards
      BY <2>6, AccountedStageRecord, AccountedStageBarrier, AccountedDiscards
    <2>7. CASE StageSeesDeath \/ StageCloses
      <3>1. UNCHANGED <<src, ch1, ch2, sink, out, saved, excused>> /\ stage'.pumped = stage.pumped
        BY <2>7 DEF StageSeesDeath, StageCloses, TypeOK, PipeType
      <3>2. QED
        BY <1>2, <2>1, <3>1
    <2>8. CASE SinkTakes \/ PostgresDeclines \/ KafkaRefuses \/ FileRefuses
      <3>1. UNCHANGED <<src, ch1, ch2, saved, excused>>
        BY <2>8 DEF SinkTakes, PostgresDeclines, KafkaRefuses, FileRefuses, SinkReads
      <3>2. QED
        BY <1>1, <2>1, <2>8, <3>1, SinkIntake, AccountedFrame
    <2>9. CASE \/ SinkTick \/ SinkEnds \/ SinkReturns
               \/ \E i \in Flights : FlushSucceeds(i) \/ FlushRetries(i) \/ FlushGivesUp(i) \/ FlushFails(i)
      <3>1. UNCHANGED <<src, ch1, ch2, saved, excused>>
        BY <2>9 DEF SinkTick, SinkEnds, SinkReturns, FlushSucceeds, FlushRetries, FlushGivesUp, FlushFails
      <3>2. QED
        BY <1>1, <2>1, <2>9, <3>1, SinkFlushes, AccountedFrame
    <2>10. CASE \/ \E p \in Parts : CommitGroup(p)
                \/ SourceFails \/ OpPanics \/ Stop \/ ShutdownTimeout \/ Return
      <3>1. UNCHANGED <<src, ch1, ch2, stage, sink, out, saved, excused>>
        BY <2>10 DEF CommitGroup, SourceFails, OpPanics, Stop, ShutdownTimeout, Return
      <3>2. QED
        BY <1>2, <2>1, <3>1
    <2>11. QED
      BY <1>5, <2>2, <2>3, <2>4, <2>5, <2>6, <2>7, <2>8, <2>9, <2>10 DEF Next
  <1>6. QED
    BY <1>3, <1>4, <1>5

-----------------------------------------------------------------------------
(* A clean stop.                                                           *)

\* What a step of the sink may do to its program counter and to what it has left.
SinkMoves ==
  /\ sink'.pc \in {"ending", "returned"} =>
       /\ sink'.batch = <<>> /\ sink'.failed = {}
       /\ \/ sink.pc \in {"ending", "returned"} /\ stage'.pumped = stage.pumped
          \/ stage'.pumped = <<>> /\ stage.pc # "run" /\ stage.pumped = <<>>
          \/ ctl'.hard
  /\ sink'.pc = "run" => sink'.failed = {}
  /\ sink'.pc \in {"failed", "canceled", "returned"} => sink'.flights = <<>>
  /\ sink'.pc = "canceled" => ctl'.hard

\* The sink's own steps.
LEMMA SinkClosing ==
  ASSUME TypeOK, Closing,
         \/ SinkTakes \/ PostgresDeclines \/ KafkaRefuses \/ FileRefuses
         \/ SinkTick \/ SinkEnds \/ SinkReturns
         \/ \E i \in Flights : FlushSucceeds(i) \/ FlushRetries(i) \/ FlushGivesUp(i) \/ FlushFails(i)
  PROVE  SinkMoves
  <1>1. sink \in SinkRecords
    BY DEF TypeOK, SinkType, SinkRecords
  <1>2. CASE SinkTakes \/ PostgresDeclines \/ KafkaRefuses \/ FileRefuses \/ SinkTick
    <2>0. SinkLoops
      BY <1>2 DEF SinkTakes, PostgresDeclines, KafkaRefuses, FileRefuses, SinkReads, SinkTick
    <2>1. sink.pc \in {"run", "errored"}
      BY <2>0 DEF SinkLoops
    <2>2. CASE UNCHANGED sink
      BY <2>1, <2>2 DEF SinkMoves, Closing
    <2>3. CASE \E recs : sink' = SinkFails("failing", recs)
      <3>1. sink'.pc = "failing"
        BY <1>1, <2>3 DEF SinkFails, SinkRecords
      <3>2. QED
        BY <3>1 DEF SinkMoves
    <2>4. ASSUME SinkTakes \/ SinkTick PROVE SinkMoves
      <3>1. sink'.pc = sink.pc /\ sink'.failed = sink.failed
        BY <1>1, <2>4 DEF SinkTakes, SinkTick, Flushed, SinkRecords
      <3>2. QED
        BY <2>1, <3>1 DEF SinkMoves, Closing
    <2>5. QED
      BY <1>2, <2>2, <2>3, <2>4 DEF PostgresDeclines, KafkaRefuses, FileRefuses
  <1>3. CASE SinkEnds
    <2>1. /\ sink.pc \in {"run", "errored"} /\ UNCHANGED <<stage, ctl>>
          /\ \/ stage.pumped = <<>> /\ stage.pc \in {"closed", "returned"}
             \/ ctl.hard
      BY <1>3 DEF SinkEnds, SinkLoops
    <2>2. /\ Flushed(sink, sink.batch).pc = sink.pc /\ Flushed(sink, sink.batch).batch = <<>>
          /\ Flushed(sink, sink.batch).failed = sink.failed
          /\ Flushed(sink, sink.batch) \in SinkRecords
      BY <1>1, Typed, FlushedFacts
    <2>3. /\ sink'.pc = IF sink.pc = "errored" THEN "failing" ELSE "ending"
          /\ sink'.batch = <<>> /\ sink'.failed = sink.failed
      BY <1>3, <2>2 DEF SinkEnds, SinkRecords
    <2>4. QED
      BY <2>1, <2>3 DEF SinkMoves, Closing
  <1>4. CASE SinkReturns
    <2>1. /\ sink.pc \in {"ending", "failing", "errored"} /\ sink.flights = <<>> /\ UNCHANGED <<stage, ctl>>
          /\ sink' = [sink EXCEPT !.pc = CASE @ # "ending" -> "failed"
                                   [] @ = "ending" /\ ctl.hard -> "canceled"
                                   [] OTHER -> "returned"]
      BY <1>4 DEF SinkReturns
    <2>2. sink'.batch = sink.batch /\ sink'.failed = sink.failed /\ sink'.flights = sink.flights
      BY <1>1, <2>1 DEF SinkRecords
    <2>3. \/ sink.pc # "ending" /\ sink'.pc = "failed"
          \/ sink.pc = "ending" /\ ctl.hard /\ sink'.pc = "canceled"
          \/ sink.pc = "ending" /\ ~ctl.hard /\ sink'.pc = "returned"
      BY <1>1, <2>1 DEF SinkRecords
    <2>4. QED
      BY <2>1, <2>2, <2>3 DEF SinkMoves, Closing
  <1>5. ASSUME NEW i \in Flights,
               FlushSucceeds(i) \/ FlushRetries(i) \/ FlushGivesUp(i) \/ FlushFails(i)
        PROVE  SinkMoves
    <2>a. sink.flights # <<>>
      BY <1>5 DEF Flights
    <2>b. UNCHANGED stage
      BY <1>5 DEF FlushSucceeds, FlushRetries, FlushGivesUp, FlushFails
    <2>1. sink.flights # <<>> /\ UNCHANGED stage
      BY <2>a, <2>b
    <2>2. sink.pc \in {"run", "errored", "ending", "failing"}
      BY <1>1, <2>1 DEF Closing, SinkDead, SinkRecords, SinkPcs
    <2>3. CASE FlushFails(i)
      <3>1. sink'.pc \in {"errored", "failing"}
        BY <1>1, <2>3 DEF FlushFails, SinkFails, SinkRecords
      <3>2. QED
        BY <3>1 DEF SinkMoves
    <2>4. CASE ~FlushFails(i)
      <3>1. sink'.pc = sink.pc /\ sink'.batch = sink.batch /\ sink'.failed = sink.failed
        BY <1>1, <1>5, <2>4 DEF FlushSucceeds, FlushRetries, FlushGivesUp, SinkRecords
      <3>2. QED
        BY <2>1, <2>2, <3>1 DEF SinkMoves, Closing
    <2>5. QED
      BY <2>3, <2>4
  <1>6. QED
    BY <1>2, <1>3, <1>4, <1>5

\* The stages close from the source to the sink.
LEMMA ClosingStep ==
  ASSUME TypeOK, Closing, [Next]_vars
  PROVE  Closing'
  <1>1. CASE UNCHANGED vars
    BY <1>1 DEF vars, Closing, SinkDead
  <1>2. CASE Restart
    <2>1. /\ src'.closed = FALSE
      BY <1>2, RestartFacts
    <2>2. stage' = FreshStage /\ sink' = FreshSink
      BY <1>2 DEF Restart
    <2>3. /\ stage'.pc = "run" /\ sink'.pc = "run" /\ sink'.failed = {}
      BY <2>2 DEF FreshStage, FreshSink
    <2>4. QED
      BY <2>1, <2>3 DEF Closing, SinkDead
  <1>3. ASSUME Next, ~Restart PROVE Closing'
    <2>1. ctl.hard => ctl'.hard
      BY <1>3, ControlSteps
    <2>2. ASSUME UNCHANGED sink, UNCHANGED <<stage>>, src'.closed => src'.last \/ ctl'.hard,
                 stage.pc = "closed" => src'.closed /\ ch1' = <<>> /\ ch2' = <<>>
          PROVE  Closing'
      BY <2>1, <2>2 DEF Closing, SinkDead
    <2>3. CASE \E p \in Parts : Read(p) \/ ReadGarbled(p) \/ CommitGroup(p) \/ Discover(p)
      <3>1. /\ UNCHANGED <<sink, stage, ch2>>
            /\ src.closed => UNCHANGED ch1
            /\ src'.closed = src.closed /\ src'.last = src.last
        BY <2>3 DEF Read, ReadGarbled, CanFetch, CommitGroup, Discover, TypeOK, SourceType
      <3>2. QED
        BY <2>1, <2>2, <3>1 DEF Closing
    <2>4. CASE PeriodicBarrier \/ LastBarrier
      <3>1. /\ UNCHANGED <<sink, stage, ch2>> /\ ~src.last /\ ~ctl.hard
            /\ src'.closed = src.closed
        BY <2>4 DEF PeriodicBarrier, LastBarrier, TypeOK, SourceType
      <3>2. ~src.closed /\ stage.pc # "closed"
        BY <3>1 DEF Closing
      <3>3. QED
        BY <2>2, <3>1, <3>2
    <2>5. CASE SourceCloses
      <3>1. /\ UNCHANGED <<sink, stage, ch1, ch2, ctl>> /\ (src.last \/ ctl.hard)
            /\ src'.closed = TRUE /\ src'.last = src.last
        BY <2>5 DEF SourceCloses, TypeOK, SourceType
      <3>2. QED
        BY <2>2, <3>1 DEF Closing
    <2>6. CASE SourceFails \/ OpPanics \/ Stop \/ ShutdownTimeout \/ Return
      <3>1. UNCHANGED <<sink, stage, src, ch1, ch2>>
        BY <2>6 DEF SourceFails, OpPanics, Stop, ShutdownTimeout, Return
      <3>2. QED
        BY <2>1, <2>2, <3>1 DEF Closing
    <2>7. CASE OpRecord \/ OpBarrier \/ StageDiscards \/ StageBarrier
      <3>1. /\ UNCHANGED <<sink, stage, src>>
            /\ stage.pc = "closed" => ch1' = <<>> /\ ch2' = <<>>
        BY <2>7 DEF OpRecord, OpBarrier, StageDiscards, StageBarrier, StageTakes, Closing
      <3>2. QED
        BY <2>1, <2>2, <3>1 DEF Closing
    <2>8. CASE StageRecord
      <3>1. UNCHANGED <<sink, src, ctl>> /\ stage.pc = "run" /\ stage'.pc = "run"
        BY <2>8 DEF StageRecord, StageTakes, TypeOK, PipeType
      <3>2. QED
        BY <3>1 DEF Closing, SinkDead
    <2>9. CASE StageSeesDeath
      <3>1. /\ UNCHANGED <<sink, src>> /\ stage'.pc = "returned" /\ stage'.pumped = stage.pumped
        BY <2>9 DEF StageSeesDeath, TypeOK, PipeType
      <3>2. ctl'.hard = TRUE
        <4>1. \E y : ctl' = [ctl EXCEPT !.hard = TRUE, !.err = y]
          BY <2>9 DEF StageSeesDeath
        <4>2. QED
          BY <4>1, Typed, Zenon DEF Controls
      <3>3. QED
        BY <3>1, <3>2 DEF Closing, SinkDead
    <2>10. CASE StageCloses
      <3>1. /\ UNCHANGED <<sink, src, ch1, ch2, ctl>> /\ stage'.pc = "closed"
            /\ stage'.pumped = stage.pumped /\ src.closed /\ ch1 = <<>> /\ ch2 = <<>>
        BY <2>10 DEF StageCloses, TypeOK, PipeType
      <3>2. QED
        BY <3>1 DEF Closing, SinkDead
    <2>11. CASE \/ SinkTakes \/ PostgresDeclines \/ KafkaRefuses \/ FileRefuses
                \/ SinkTick \/ SinkEnds \/ SinkReturns
                \/ \E i \in Flights : FlushSucceeds(i) \/ FlushRetries(i) \/ FlushGivesUp(i) \/ FlushFails(i)
      <3>1. SinkMoves
        BY <2>11, SinkClosing
      <3>2. UNCHANGED <<src, ch1, ch2>>
        BY <2>11 DEF SinkTakes, PostgresDeclines, KafkaRefuses, FileRefuses, SinkReads, SinkTick,
                     SinkEnds, SinkReturns, FlushSucceeds, FlushRetries, FlushGivesUp, FlushFails
      <3>3. stage'.pc = stage.pc
        BY <2>11 DEF SinkTakes, PostgresDeclines, KafkaRefuses, FileRefuses, SinkReads, SinkTick,
                     SinkEnds, SinkReturns, FlushSucceeds, FlushRetries, FlushGivesUp, FlushFails,
                     TypeOK, PipeType
      <3>4. QED
        BY <2>1, <3>1, <3>2, <3>3 DEF Closing, SinkMoves, SinkDead
    <2>12. QED
      BY <1>3, <2>3, <2>4, <2>5, <2>6, <2>7, <2>8, <2>9, <2>10, <2>11 DEF Next
  <1>4. QED
    BY <1>1, <1>2, <1>3

\* A run that returns without an error and was not forced has nothing left.
LEMMA CleanStopStep ==
  ASSUME TypeOK, Accounted, Closing, CleanStopDelivers, [Next]_vars
  PROVE  CleanStopDelivers'
  <1>1. Records' = Records
    BY JobStays, JobFrame
  <1>2. CASE UNCHANGED vars
    BY <1>1, <1>2 DEF vars, CleanStopDelivers, Settled
  <1>3. CASE Restart
    <2>1. ctl'.result = None
      BY <1>3 DEF Restart, FreshCtl
    <2>2. QED
      BY <2>1 DEF CleanStopDelivers, None
  <1>4. ASSUME Next, ~Restart PROVE CleanStopDelivers'
    <2>1. CASE ctl'.result = None
      BY <2>1 DEF CleanStopDelivers, None
    <2>2. ASSUME Return, ctl'.hard = ctl.hard PROVE CleanStopDelivers'
      <3>1. SUFFICES ASSUME ctl'.result = "nil", ~ctl.hard PROVE ThisRun \subseteq Settled
        <4>1. UNCHANGED <<src, out>>
          BY <2>2 DEF Return
        <4>2. Settled' = Settled
          BY <4>1 DEF Settled
        <4>3. QED
          BY <1>1, <2>2, <4>1, <4>2 DEF CleanStopDelivers, ThisRun
      <3>2. /\ stage.pc \in {"closed", "returned"} /\ SinkDead
            /\ ctl' = [ctl EXCEPT !.result = IF ctl.err \/ sink.pc = "failed" THEN "error" ELSE "nil"]
        BY <2>2 DEF Return
      <3>3. sink.pc # "failed"
        <4>1. SUFFICES ASSUME sink.pc = "failed" PROVE FALSE
          OBVIOUS
        <4>2. ctl' = [ctl EXCEPT !.result = "error"]
          BY <3>2, <4>1
        <4>3. ctl'.result = "error"
          BY <4>2, Typed, Zenon DEF Controls
        <4>4. QED
          BY <3>1, <4>3
      <3>4. sink.pc = "returned" /\ stage.pc = "closed"
        BY <3>1, <3>2, <3>3 DEF Closing, SinkDead
      <3>5. /\ ch1 = <<>> /\ ch2 = <<>> /\ stage.pumped = <<>> /\ sink.batch = <<>>
            /\ sink.failed = {} /\ sink.flights = <<>>
        BY <3>1, <3>4 DEF Closing, SinkDead
      <3>6. Recs(ch1) = {} /\ Recs(ch2) = {} /\ Elems(stage.pumped) = {} /\ Elems(sink.batch) = {}
        BY <3>5 DEF Recs, Elems
      <3>7. InFlights(sink.flights) = {}
        BY <3>5 DEF InFlights
      <3>8. Held = Settled
        BY <3>5, <3>6, <3>7, HandsParts DEF Held
      <3>9. QED
        BY <3>1, <3>6, <3>8 DEF Accounted, NothingVanishes
    <2>3. QED
      BY <1>4, <2>1, <2>2, ControlSteps
  <1>5. QED
    BY <1>2, <1>3, <1>4

\* The first run has read nothing.
LEMMA DeliveryInit == Init => DeliveryInv
  <1> SUFFICES ASSUME Init PROVE DeliveryInv
    OBVIOUS
  <1>1. TypeOK
    BY TypeInit
  <1>2. PICK R \in StartReaders : src = FreshSource([p \in Parts |-> 0], R)
    BY DEF Init
  <1>3. /\ src.pos = [p \in Parts |-> 0] /\ src.start = [p \in Parts |-> 0]
        /\ src.offs = <<>> /\ src.closed = FALSE
    BY <1>2 DEF FreshSource
  <1>4. \A r \in Records : r[1] \in Parts /\ r[2] \in Nat /\ r[2] >= 1
    BY <1>1, RecordFacts, Typed
  <1>5. ThisRun = {} /\ Skipped(Records) = {}
    BY <1>3, <1>4 DEF ThisRun, Skipped
  <1>6. Positions
    <2>1. DOMAIN src.offs = {}
      BY <1>3
    <2>2. QED
      BY <1>3, <1>5, <2>1 DEF Positions
  <1>7. NothingVanishes /\ BarriersCover /\ LossIsTheSinks
    BY <1>5 DEF Init, NothingVanishes, BarriersCover, LossIsTheSinks
  <1>8. SavedCovers
    <2>1. DOMAIN saved.offs = {}
      BY DEF Init, NoCheckpoint
    <2>2. QED
      BY <2>1 DEF SavedCovers, Covered
  <1>9. Closing
    <2>1. stage = FreshStage /\ sink = FreshSink
      BY DEF Init
    <2>2. /\ stage.pc = "run" /\ sink.pc = "run" /\ sink.failed = {}
      BY <2>1 DEF FreshStage, FreshSink
    <2>3. QED
      BY <1>3, <2>2 DEF Closing, SinkDead
  <1>10. CleanStopDelivers
    BY DEF Init, FreshCtl, CleanStopDelivers, None
  <1>11. QED
    BY <1>1, <1>6, <1>7, <1>8, <1>9, <1>10 DEF DeliveryInv, Accounted

\* The inductive invariant: types, where every record is, and what the stages have
\* left when they close.
THEOREM DeliveryInvHolds == Spec => []DeliveryInv
  <1>1. DeliveryInv /\ [Next]_vars => DeliveryInv'
    <2>1. SUFFICES ASSUME DeliveryInv, [Next]_vars PROVE DeliveryInv'
      OBVIOUS
    <2>2. TypeOK /\ Accounted /\ Closing /\ CleanStopDelivers
      BY <2>1 DEF DeliveryInv
    <2>3. TypeOK' /\ Accounted' /\ Closing' /\ CleanStopDelivers'
      BY <2>1, <2>2, TypeStep, AccountedStep, ClosingStep, CleanStopStep
    <2>4. QED
      BY <2>3 DEF DeliveryInv
  <1>2. QED
    BY <1>1, DeliveryInit, PTL DEF Spec

\* A record a resumed run does not read again was settled, was in the sink's own
\* hands when the checkpoint was saved, or was committed to the consumer group
\* without a checkpoint: for every job, capacity, batch size, number of barriers,
\* faults and restarts (SinkStage.Run, injectBarriers, Execute).
THEOREM LossIsTheSinksHolds == Spec => []LossIsTheSinks
  <1>1. DeliveryInv => LossIsTheSinks
    BY DEF DeliveryInv, Accounted
  <1>2. QED
    BY <1>1, DeliveryInvHolds, PTL

\* A run that ends without an error and was not forced has settled every record it
\* read, for every job and every bound (batchWriter.run, SinkStage.Run, Execute).
THEOREM CleanStopDeliversHolds == Spec => []CleanStopDelivers
  <1>1. DeliveryInv => CleanStopDelivers
    BY DEF DeliveryInv
  <1>2. QED
    BY <1>1, DeliveryInvHolds, PTL

-----------------------------------------------------------------------------
(* The state in a checkpoint.                                              *)

\* A record that is folded once more than it was.
LEMMA BagOneMore ==
  ASSUME NEW B \in RecordBags, NEW T \in SUBSET Records, NEW r \in Records, r \notin T
  PROVE  (B (+) SetToBag(T)) (+) SetToBag({r}) = B (+) SetToBag(T \cup {r})
  <1>1. B \in [DOMAIN B -> Nat]
    BY DEF RecordBags
  <1> DEFINE C == B (+) SetToBag(T)
             D == B (+) SetToBag(T \cup {r})
             At(A, e) == IF e \in DOMAIN A THEN A[e] ELSE 0
  <1>2. /\ DOMAIN C = DOMAIN B \cup T
        /\ \A e \in DOMAIN C : C[e] = At(B, e) + (IF e \in T THEN 1 ELSE 0)
    BY DEF (+), SetToBag
  <1>3. /\ DOMAIN D = DOMAIN B \cup T \cup {r}
        /\ \A e \in DOMAIN D : D[e] = At(B, e) + (IF e \in T \cup {r} THEN 1 ELSE 0)
    BY DEF (+), SetToBag
  <1>4. D = [e \in DOMAIN B \cup T \cup {r} |-> D[e]]
    BY <1>3 DEF (+)
  <1>5. C (+) SetToBag({r}) =
          [e \in DOMAIN C \cup {r} |-> At(C, e) + (IF e \in {r} THEN 1 ELSE 0)]
    BY DEF (+), SetToBag
  <1>6. ASSUME NEW e \in DOMAIN B \cup T \cup {r}
        PROVE  At(C, e) + (IF e \in {r} THEN 1 ELSE 0) = D[e]
    <2>1. At(B, e) \in Nat
      BY <1>1
    <2> HIDE DEF C, D
    <2>2. QED
      BY <1>2, <1>3, <2>1
  <1> HIDE DEF C, D, At
  <1>7. C (+) SetToBag({r}) = D
    BY <1>2, <1>4, <1>5, <1>6
  <1>8. QED
    BY <1>7 DEF C, D

\* Nothing added.
LEMMA BagNoMore ==
  ASSUME NEW B \in RecordBags
  PROVE  B (+) SetToBag({}) = B
  <1>1. B \in [DOMAIN B -> Nat]
    BY DEF RecordBags
  <1>2. B (+) SetToBag({}) = [e \in DOMAIN B |-> B[e] + 0]
    BY DEF (+), SetToBag
  <1>3. QED
    BY <1>1, <1>2

\* What a barrier cuts off does not change during a run.
LEMMA CutFrame ==
  ASSUME job' = job, src'.start = src.start
  PROVE  /\ \A offs : Cut(offs)' = Cut(offs)
         /\ op'.base = op.base => \A S : Plus(S)' = Plus(S)
  <1>1. Records' = Records
    BY JobFrame
  <1>2. \A offs : Cut(offs)' = Cut(offs)
    BY <1>1 DEF Cut
  <1>3. QED
    BY <1>2 DEF Plus

\* Barriers carry a number, and records are records.
LEMMA MessageFacts ==
  ASSUME NEW q \in Seq(Messages), NEW i \in DOMAIN q
  PROVE  /\ q[i] \in Messages
         /\ q[i].type = "barrier" => q[i].id \in Nat
         /\ q[i].type = "record" => q[i].rec \in Records
  <1>1. q[i] \in Messages
    BY Ends
  <1>2. QED
    BY <1>1 DEF Messages, RecordMessages, BarrierMessages

\* A step that touches neither the channels nor what the operator has folded.
LEMMA SnapshotFrame ==
  ASSUME SnapshotInv, job' = job, UNCHANGED <<ch1, ch2, snaps>>,
         src'.start = src.start, op'.state = op.state, op'.base = op.base,
         ctl.hard => ctl'.hard, ctl'.barriers = ctl.barriers,
         ThisRun' \ job'.garbled = ThisRun \ job.garbled
  PROVE  SnapshotInv'
  <1>1. Numbered'
    BY DEF SnapshotInv, Numbered
  <1>2. \A offs : Cut(offs)' = Cut(offs) /\ \A S : Plus(S)' = Plus(S)
    BY CutFrame
  <1>3. SnapshotsCut'
    BY <1>2 DEF SnapshotInv, SnapshotsCut
  <1>4. PICK T \in SUBSET Records : Folded(T)
    BY DEF SnapshotInv
  <1>5. Folded(T)'
    BY <1>2, <1>4 DEF Folded
  <1>6. Records' = Records
    BY JobFrame
  <1>7. QED
    BY <1>1, <1>3, <1>5, <1>6 DEF SnapshotInv

\* A record is read: it is new to the operator.
LEMMA SnapshotRead ==
  ASSUME TypeOK, Positions, SnapshotInv, NEW p \in Parts, Read(p)
  PROVE  SnapshotInv'
  <1> DEFINE r == <<p, src.pos[p] + 1>>
             m == [type |-> "record", rec |-> r]
  <1>1. /\ job' = job /\ UNCHANGED <<ch2, op, snaps, ctl>>
        /\ r \in Records /\ r \notin job.garbled /\ ~ctl.hard /\ ch1' = Append(ch1, m)
        /\ src' = [src EXCEPT !.pos[p] = @ + 1, !.offs = Noted(@, r)]
    BY DEF Read, CanFetch
  <1>2. src'.start = src.start /\ src'.pos = [src.pos EXCEPT ![p] = @ + 1]
    BY <1>1 DEF TypeOK, SourceType
  <1>3. ThisRun' = ThisRun \cup {r} /\ r \notin ThisRun
    <2>1. ThisRun' = ThisRun \cup ({r} \cap Records)
      BY <1>1, <1>2, PositionMoves
    <2>2. src.pos[p] \in Nat /\ r[1] = p /\ r[2] = src.pos[p] + 1
      BY Typed
    <2>3. r \notin ThisRun
      BY <2>2 DEF ThisRun
    <2>4. QED
      BY <1>1, <2>1, <2>3
  <1>4. ch1 \in Seq(Messages) /\ m \in Messages /\ RecOf(m) = {r}
        /\ m.type = "record" /\ m.rec = r
    BY <1>1, Typed DEF Messages, RecordMessages, RecOf
  <1> HIDE DEF m, r
  <1>5. /\ Recs(ch1') = Recs(ch1) \cup {r}
        /\ \A i \in DOMAIN ch1 : RecsBefore(ch1', i) = RecsBefore(ch1, i)
        /\ RecsBefore(ch1', Len(ch1) + 1) = Recs(ch1)
    <2>1. /\ Recs(Append(ch1, m)) = Recs(ch1) \cup RecOf(m)
          /\ \A i \in DOMAIN ch1 : RecsBefore(Append(ch1, m), i) = RecsBefore(ch1, i)
          /\ RecsBefore(Append(ch1, m), Len(ch1) + 1) = Recs(ch1)
      BY <1>4, RecsAppend
    <2>2. QED
      BY <1>1, <1>4, <2>1
  <1>6. /\ DOMAIN ch1' = DOMAIN ch1 \cup {Len(ch1) + 1} /\ DOMAIN ch1 = 1 .. Len(ch1)
        /\ \A i \in DOMAIN ch1 : ch1'[i] = ch1[i]
        /\ ch1'[Len(ch1) + 1] = m /\ Len(ch1) \in Nat
    BY <1>1, <1>4, Ends
  <1>7. \A offs : Cut(offs)' = Cut(offs) /\ \A S : Plus(S)' = Plus(S)
    BY <1>1, <1>2, CutFrame
  <1>8. Numbered'
    BY <1>1, <1>4, <1>6 DEF SnapshotInv, Numbered
  <1>9. SnapshotsCut'
    BY <1>1, <1>7 DEF SnapshotInv, SnapshotsCut
  <1>10. PICK T \in SUBSET Records : Folded(T)
    BY DEF SnapshotInv
  <1>11. ThisRun \ job.garbled = T \cup Recs(ch1)
    BY <1>1, <1>10 DEF Folded
  <1>12. Folded(T)'
    <2>1. (op.state = Plus(T))'
      BY <1>1, <1>7, <1>10 DEF Folded
    <2>2. ThisRun' \ job'.garbled = T \cup Recs(ch1')
      BY <1>1, <1>3, <1>5, <1>11
    <2>3. ASSUME NEW i \in DOMAIN ch1'
          PROVE  /\ ch1'[i].type = "record" => ch1'[i].rec \notin T \cup RecsBefore(ch1', i)
                 /\ ch1'[i].type = "barrier" => Cut(ch1'[i].offs) = T \cup RecsBefore(ch1', i)
      <3>1. CASE i \in DOMAIN ch1
        BY <1>5, <1>6, <1>10, <3>1 DEF Folded
      <3>2. CASE i = Len(ch1) + 1
        BY <1>3, <1>4, <1>5, <1>6, <1>11, <3>2
      <3>3. QED
        BY <1>6, <3>1, <3>2
    <2>4. QED
      BY <1>7, <2>1, <2>2, <2>3 DEF Folded
  <1>13. Records' = Records
    BY <1>1, JobFrame
  <1>14. QED
    BY <1>8, <1>9, <1>12, <1>13 DEF SnapshotInv

\* A barrier is injected: it cuts off what the run has read.
LEMMA SnapshotInject ==
  ASSUME TypeOK, Positions, SnapshotInv, PeriodicBarrier \/ LastBarrier
  PROVE  SnapshotInv'
  <1>1. /\ job' = job /\ UNCHANGED <<ch2, op, snaps>>
        /\ ~ctl.hard /\ ch1' = Append(ch1, Barrier)
        /\ ctl' = [ctl EXCEPT !.barriers = @ + 1]
    BY DEF PeriodicBarrier, LastBarrier
  <1>2. src'.pos = src.pos /\ src'.start = src.start
    BY DEF PeriodicBarrier, LastBarrier, TypeOK, SourceType
  <1>3. ctl.barriers \in Nat /\ ctl'.barriers = ctl.barriers + 1
    <2>1. ctl \in Controls /\ ctl.barriers \in Nat
      BY Typed
    <2>2. QED
      BY <1>1, <2>1, Zenon DEF Controls
  <1>4. /\ ch1 \in Seq(Messages) /\ Barrier \in Messages /\ RecOf(Barrier) = {}
        /\ Barrier.type = "barrier" /\ Barrier.offs = src.offs /\ Barrier.id = ctl.barriers + 1
    <2>1. ctl.barriers + 1 \in Nat /\ src.offs \in Offsets
      BY Typed
    <2>2. QED
      BY <2>1, Typed DEF Messages, BarrierMessages, Barrier, RecOf
  <1>5. /\ Recs(ch1') = Recs(ch1)
        /\ \A i \in DOMAIN ch1 : RecsBefore(ch1', i) = RecsBefore(ch1, i)
        /\ RecsBefore(ch1', Len(ch1) + 1) = Recs(ch1)
    <2>1. /\ Recs(Append(ch1, Barrier)) = Recs(ch1) \cup RecOf(Barrier)
          /\ \A i \in DOMAIN ch1 : RecsBefore(Append(ch1, Barrier), i) = RecsBefore(ch1, i)
          /\ RecsBefore(Append(ch1, Barrier), Len(ch1) + 1) = Recs(ch1)
      BY <1>4, RecsAppend
    <2>2. QED
      BY <1>1, <1>4, <2>1
  <1>6. /\ DOMAIN ch1' = DOMAIN ch1 \cup {Len(ch1) + 1} /\ DOMAIN ch1 = 1 .. Len(ch1)
        /\ \A i \in DOMAIN ch1 : ch1'[i] = ch1[i]
        /\ ch1'[Len(ch1) + 1] = Barrier /\ Len(ch1) \in Nat
    BY <1>1, <1>4, Ends
  <1>7. \A offs : Cut(offs)' = Cut(offs) /\ \A S : Plus(S)' = Plus(S)
    BY <1>1, <1>2, CutFrame
  <1>8. Numbered'
    <2>1. \A i \in DOMAIN ch1 : ch1[i].type = "barrier" => ch1[i].id \in Nat /\ ch1[i].id <= ctl.barriers
      BY <1>4, MessageFacts DEF SnapshotInv, Numbered
    <2>2. \A i \in DOMAIN ch2 : ch2[i].type = "barrier" => ch2[i].id \in Nat /\ ch2[i].id <= ctl.barriers
      BY MessageFacts, Typed DEF SnapshotInv, Numbered
    <2>3. \A c \in DOMAIN snaps : c \in Nat /\ c <= ctl.barriers
      BY DEF SnapshotInv, Numbered, TypeOK, PipeType
    <2>4. ASSUME NEW i \in DOMAIN ch1', ch1'[i].type = "barrier"
          PROVE  /\ ch1'[i].id <= ctl'.barriers
                 /\ \A c \in DOMAIN snaps' : c < ch1'[i].id
                 /\ \A j \in DOMAIN ch1' : j < i /\ ch1'[j].type = "barrier" => ch1'[j].id < ch1'[i].id
                 /\ \A j \in DOMAIN ch2' : ch2'[j].type = "barrier" => ch2'[j].id < ch1'[i].id
      <3>1. CASE i \in DOMAIN ch1
        <4>1. \A j \in DOMAIN ch1' : j < i => j \in DOMAIN ch1
          BY <1>6, <3>1
        <4>2. QED
          BY <1>1, <1>3, <1>6, <2>1, <2>4, <3>1, <4>1 DEF SnapshotInv, Numbered
      <3>2. CASE i = Len(ch1) + 1
        <4>1. \A j \in DOMAIN ch1' : j < i => j \in DOMAIN ch1
          BY <1>6, <3>2
        <4>2. ch1'[i].id = ctl.barriers + 1
          BY <1>4, <1>6, <3>2
        <4>3. QED
          BY <1>1, <1>3, <1>6, <2>1, <2>2, <2>3, <4>1, <4>2
      <3>3. QED
        BY <1>6, <3>1, <3>2
    <2>5. ASSUME NEW i \in DOMAIN ch2', ch2'[i].type = "barrier"
          PROVE  /\ ch2'[i].id <= ctl'.barriers
                 /\ \A j \in DOMAIN ch2' : j < i /\ ch2'[j].type = "barrier" => ch2'[j].id < ch2'[i].id
      BY <1>1, <1>3, <2>2, <2>5 DEF SnapshotInv, Numbered
    <2>6. \A c \in DOMAIN snaps' : c <= ctl'.barriers
      BY <1>1, <1>3, <2>3
    <2>7. QED
      BY <2>4, <2>5, <2>6 DEF Numbered
  <1>9. SnapshotsCut'
    BY <1>1, <1>7 DEF SnapshotInv, SnapshotsCut
  <1>10. PICK T \in SUBSET Records : Folded(T)
    BY DEF SnapshotInv
  <1>11. Cut(src.offs) = T \cup Recs(ch1)
    <2>1. ThisRun \ job.garbled = T \cup Recs(ch1)
      BY <1>1, <1>10 DEF Folded
    <2>2. ASSUME NEW r \in Records \ job.garbled
          PROVE  r \in Cut(src.offs) <=> r \in ThisRun
      <3>1. r[1] \in Parts /\ r[2] \in Nat
        BY RecordFacts, Typed
      <3>2. src.pos[r[1]] \in Nat /\ src.start[r[1]] \in Nat
        BY <3>1, Typed
      <3>3. ASSUME r[1] \in DOMAIN src.offs
            PROVE  src.offs[r[1]] \in Nat /\ src.offs[r[1]] <= src.pos[r[1]]
        BY <3>3, Typed DEF Positions, Offsets
      <3>4. ASSUME r \in Cut(src.offs) PROVE r \in ThisRun
        BY <3>1, <3>2, <3>3, <3>4 DEF Cut, ThisRun
      <3>5. ASSUME r \in ThisRun PROVE r \in Cut(src.offs)
        BY <2>2, <3>5 DEF Cut, ThisRun, Positions
      <3>6. QED
        BY <3>4, <3>5
    <2>3. Cut(src.offs) \subseteq Records \ job.garbled /\ ThisRun \subseteq Records
      BY DEF Cut, ThisRun
    <2>4. QED
      BY <2>1, <2>2, <2>3
  <1>12. Folded(T)'
    <2>1. (op.state = Plus(T))'
      BY <1>1, <1>7, <1>10 DEF Folded
    <2>2. ThisRun' = ThisRun
      BY <1>1, <1>2, ReadFrame
    <2>3. ThisRun' \ job'.garbled = T \cup Recs(ch1')
      BY <1>1, <1>5, <1>10, <2>2 DEF Folded
    <2>4. ASSUME NEW i \in DOMAIN ch1'
          PROVE  /\ ch1'[i].type = "record" => ch1'[i].rec \notin T \cup RecsBefore(ch1', i)
                 /\ ch1'[i].type = "barrier" => Cut(ch1'[i].offs) = T \cup RecsBefore(ch1', i)
      <3>1. CASE i \in DOMAIN ch1
        BY <1>5, <1>6, <1>10, <3>1 DEF Folded
      <3>2. CASE i = Len(ch1) + 1
        <4>1. ch1'[i].type = "barrier" /\ ch1'[i].offs = src.offs
          BY <1>4, <1>6, <3>2
        <4>2. Cut(ch1'[i].offs) = Cut(src.offs)
          BY <4>1
        <4>3. QED
          BY <1>5, <1>11, <3>2, <4>1, <4>2
      <3>3. QED
        BY <1>6, <3>1, <3>2
    <2>5. QED
      BY <1>7, <2>1, <2>3, <2>4 DEF Folded
  <1>13. Records' = Records
    BY <1>1, JobFrame
  <1>14. QED
    BY <1>8, <1>9, <1>12, <1>13 DEF SnapshotInv

\* The head of the operator's channel moves on: the order of the barriers is kept,
\* and what was in front of them has become folded.
LEMMA PassOnFacts ==
  ASSUME TypeOK, SnapshotInv, job' = job, UNCHANGED src, op'.base = op.base,
         ctl.hard => ctl'.hard, ctl'.barriers = ctl.barriers,
         ch1 # <<>>, ch1' = Tail(ch1), ch2' = Append(ch2, Head(ch1)),
         DOMAIN snaps' \subseteq
           DOMAIN snaps \cup (IF Head(ch1).type = "barrier" THEN {Head(ch1).id} ELSE {}),
         NEW T \in SUBSET Records, Folded(T), op'.state = Plus(T \cup RecOf(Head(ch1)))
  PROVE  /\ Numbered'
         /\ (\E U \in SUBSET Records : Folded(U))'
  <1> DEFINE m == Head(ch1)
  <1>1. /\ ch1 \in Seq(Messages) /\ ch2 \in Seq(Messages) /\ m \in Messages /\ m = ch1[1]
        /\ 1 \in DOMAIN ch1 /\ DOMAIN ch1 = 1 .. Len(ch1) /\ Len(ch1) \in Nat
    BY Typed, Ends
  <1>2. /\ Recs(ch1) = RecOf(m) \cup Recs(ch1')
        /\ \A i \in DOMAIN ch1' : RecsBefore(ch1, i + 1) = RecOf(m) \cup RecsBefore(ch1', i)
        /\ RecsBefore(ch1, 1) = {}
    BY <1>1, RecsTail
  <1>3. \A i \in DOMAIN ch1' : i \in Nat /\ i >= 1 /\ i + 1 \in DOMAIN ch1 /\ ch1'[i] = ch1[i + 1]
    BY <1>1, Ends
  <1>4. /\ m.type = "barrier" => m.id \in Nat
        /\ RecOf(m) \subseteq Records
    BY <1>1, MessageFacts DEF RecOf
  <1> HIDE DEF m
  <1>5. /\ DOMAIN ch2' = DOMAIN ch2 \cup {Len(ch2) + 1} /\ DOMAIN ch2 = 1 .. Len(ch2)
        /\ \A i \in DOMAIN ch2 : ch2'[i] = ch2[i]
        /\ ch2'[Len(ch2) + 1] = m /\ Len(ch2) \in Nat
    <2>1. ch2' = Append(ch2, m)
      BY DEF m
    <2>2. QED
      BY <1>1, <2>1, Ends
  <1>6. /\ \A offs : Cut(offs)' = Cut(offs) /\ \A S : Plus(S)' = Plus(S)
        /\ ThisRun' = ThisRun
    BY CutFrame, ReadFrame
  <1>7. DOMAIN snaps' \subseteq DOMAIN snaps \cup (IF m.type = "barrier" THEN {m.id} ELSE {})
    BY DEF m
  <1>8. Numbered'
    <2>1. m.type = "barrier" =>
            /\ m.id <= ctl.barriers
            /\ \A j \in DOMAIN ch2 : ch2[j].type = "barrier" => ch2[j].id < m.id
      BY <1>1 DEF SnapshotInv, Numbered
    <2>2. ASSUME NEW i \in DOMAIN ch1', ch1'[i].type = "barrier"
          PROVE  /\ ch1'[i].id <= ctl'.barriers
                 /\ \A c \in DOMAIN snaps' : c < ch1'[i].id
                 /\ \A j \in DOMAIN ch1' : j < i /\ ch1'[j].type = "barrier" => ch1'[j].id < ch1'[i].id
                 /\ \A j \in DOMAIN ch2' : ch2'[j].type = "barrier" => ch2'[j].id < ch1'[i].id
      <3>1. i + 1 \in DOMAIN ch1 /\ ch1[i + 1] = ch1'[i] /\ 1 < i + 1 /\ ch1[i + 1].type = "barrier"
        BY <1>3, <2>2
      <3>2. m.type = "barrier" => m.id < ch1'[i].id
        BY <1>1, <3>1 DEF SnapshotInv, Numbered
      <3>3. ch1'[i].id <= ctl'.barriers /\ \A c \in DOMAIN snaps : c < ch1'[i].id
        BY <3>1 DEF SnapshotInv, Numbered
      <3>4. \A c \in DOMAIN snaps' : c < ch1'[i].id
        BY <1>7, <3>2, <3>3
      <3>5. \A j \in DOMAIN ch1' : j < i /\ ch1'[j].type = "barrier" => ch1'[j].id < ch1'[i].id
        <4>1. ASSUME NEW j \in DOMAIN ch1', j < i, ch1'[j].type = "barrier"
              PROVE  ch1'[j].id < ch1'[i].id
          <5>1. /\ j + 1 \in DOMAIN ch1 /\ ch1[j + 1] = ch1'[j] /\ j + 1 < i + 1
                /\ ch1[j + 1].type = "barrier"
            BY <1>3, <4>1
          <5>2. QED
            BY <3>1, <5>1 DEF SnapshotInv, Numbered
        <4>2. QED
          BY <4>1
      <3>6. \A j \in DOMAIN ch2' : ch2'[j].type = "barrier" => ch2'[j].id < ch1'[i].id
        BY <1>5, <3>1, <3>2 DEF SnapshotInv, Numbered
      <3>7. QED
        BY <3>3, <3>4, <3>5, <3>6
    <2>3. ASSUME NEW i \in DOMAIN ch2', ch2'[i].type = "barrier"
          PROVE  /\ ch2'[i].id <= ctl'.barriers
                 /\ \A j \in DOMAIN ch2' : j < i /\ ch2'[j].type = "barrier" => ch2'[j].id < ch2'[i].id
      <3>1. CASE i \in DOMAIN ch2
        <4>1. \A j \in DOMAIN ch2' : j < i => j \in DOMAIN ch2
          BY <1>5, <3>1
        <4>2. QED
          BY <1>5, <2>3, <3>1, <4>1 DEF SnapshotInv, Numbered
      <3>2. CASE i = Len(ch2) + 1
        <4>1. \A j \in DOMAIN ch2' : j < i => j \in DOMAIN ch2
          BY <1>5, <3>2
        <4>2. QED
          BY <1>5, <2>1, <2>3, <3>2, <4>1
      <3>3. QED
        BY <1>5, <3>1, <3>2
    <2>4. \A c \in DOMAIN snaps' : c <= ctl'.barriers
      BY <1>7, <2>1 DEF SnapshotInv, Numbered
    <2>5. QED
      BY <2>2, <2>3, <2>4 DEF Numbered
  <1>9. PICK U \in SUBSET Records : U = T \cup RecOf(m)
    BY <1>4
  <1>10. Folded(U)'
    <2>1. (op.state = Plus(U))'
      <3>1. op'.state = Plus(U)
        BY <1>9 DEF m
      <3>2. QED
        BY <1>6, <3>1
    <2>2. ~ctl'.hard => ThisRun' \ job'.garbled = U \cup Recs(ch1')
      BY <1>2, <1>6, <1>9 DEF Folded
    <2>3. ASSUME NEW i \in DOMAIN ch1'
          PROVE  /\ ch1'[i].type = "record" => ch1'[i].rec \notin U \cup RecsBefore(ch1', i)
                 /\ ch1'[i].type = "barrier" => Cut(ch1'[i].offs) = U \cup RecsBefore(ch1', i)
      <3>1. i + 1 \in DOMAIN ch1 /\ ch1[i + 1] = ch1'[i]
        BY <1>3
      <3>2. U \cup RecsBefore(ch1', i) = T \cup RecsBefore(ch1, i + 1)
        BY <1>2, <1>9
      <3>3. QED
        BY <3>1, <3>2 DEF Folded
    <2>4. QED
      BY <1>6, <2>1, <2>2, <2>3 DEF Folded
  <1>11. Records' = Records
    BY JobFrame
  <1>12. QED
    BY <1>8, <1>10, <1>11

\* The operator folds a record.
LEMMA SnapshotOpRecord ==
  ASSUME TypeOK, SnapshotInv, OpRecord
  PROVE  SnapshotInv'
  <1> DEFINE m == Head(ch1)
  <1>1. /\ job' = job /\ UNCHANGED <<src, snaps, ctl>> /\ ch1 # <<>> /\ m.type = "record"
        /\ ch1' = Tail(ch1) /\ ch2' = Append(ch2, m)
        /\ op' = [op EXCEPT !.state = @ (+) SetToBag({m.rec})]
    BY DEF OpRecord
  <1>2. op'.base = op.base /\ op'.state = op.state (+) SetToBag({m.rec})
    BY <1>1 DEF TypeOK, PipeType
  <1>3. PICK T \in SUBSET Records : Folded(T)
    BY DEF SnapshotInv
  <1>4. /\ ch1 \in Seq(Messages) /\ ch2 \in Seq(Messages) /\ 1 \in DOMAIN ch1 /\ m = ch1[1]
        /\ m \in Messages
    BY <1>1, Typed, Ends
  <1>5. m.rec \in Records /\ m.rec \notin T /\ RecOf(m) = {m.rec}
    BY <1>1, <1>3, <1>4, MessageFacts DEF Folded, RecOf
  <1>6. op'.state = Plus(T \cup RecOf(m))
    <2>1. op.state = op.base (+) SetToBag(T) /\ op.base \in RecordBags
      BY <1>3, Typed DEF Folded, Plus
    <2> HIDE DEF m
    <2>2. (op.base (+) SetToBag(T)) (+) SetToBag({m.rec}) = op.base (+) SetToBag(T \cup {m.rec})
      BY <1>5, <2>1, BagOneMore
    <2>3. QED
      BY <1>2, <1>5, <2>1, <2>2 DEF Plus
  <1>7. Numbered' /\ (\E U \in SUBSET Records : Folded(U))'
    BY <1>1, <1>2, <1>3, <1>6, PassOnFacts
  <1>8. SnapshotsCut'
    <2>1. \A offs : Cut(offs)' = Cut(offs) /\ \A S : Plus(S)' = Plus(S)
      BY <1>1, <1>2, CutFrame
    <2>2. /\ DOMAIN ch2' = DOMAIN ch2 \cup {Len(ch2) + 1}
          /\ \A i \in DOMAIN ch2 : ch2'[i] = ch2[i]
          /\ ch2'[Len(ch2) + 1] = m
      BY <1>1, <1>4, Ends
    <2>3. QED
      BY <1>1, <2>1, <2>2 DEF SnapshotInv, SnapshotsCut
  <1>9. QED
    BY <1>7, <1>8 DEF SnapshotInv

\* The operator meets a barrier: its state is what the barrier cuts off, whether or
\* not the snapshot is kept.
LEMMA SnapshotOpBarrier ==
  ASSUME TypeOK, SnapshotInv, OpBarrier, ctl.hard => ctl'.hard, ctl'.barriers = ctl.barriers
  PROVE  SnapshotInv'
  <1> DEFINE m == Head(ch1)
  <1>1. /\ job' = job /\ UNCHANGED <<src, op>> /\ ch1 # <<>> /\ m.type = "barrier"
        /\ ch1' = Tail(ch1) /\ ch2' = Append(ch2, m)
        /\ AddBarrierSnapshot(m.id) \/ UNCHANGED snaps
    BY DEF OpBarrier
  <1>2. PICK T \in SUBSET Records : Folded(T)
    BY DEF SnapshotInv
  <1>3. /\ ch1 \in Seq(Messages) /\ ch2 \in Seq(Messages) /\ 1 \in DOMAIN ch1 /\ m = ch1[1]
        /\ m \in Messages
    BY <1>1, Typed, Ends
  <1>4. RecOf(m) = {} /\ RecsBefore(ch1, 1) = {} /\ m.id \in Nat
    BY <1>1, <1>3, RecsTail, MessageFacts DEF RecOf
  <1>5. op.state = Plus(Cut(m.offs)) /\ op'.state = Plus(T \cup RecOf(m))
    BY <1>1, <1>2, <1>3, <1>4 DEF Folded
  <1>6. /\ DOMAIN snaps' \subseteq DOMAIN snaps \cup {m.id}
        /\ \A c \in DOMAIN snaps' : c # m.id => snaps'[c] = snaps[c]
        /\ m.id \in DOMAIN snaps' => m.id \in DOMAIN snaps \/ snaps'[m.id] = op.state
    <2>1. CASE UNCHANGED snaps
      BY <2>1
    <2>2. CASE AddBarrierSnapshot(m.id)
      <3> HIDE DEF m
      <3>1. PICK keep \in SUBSET DOMAIN snaps :
              snaps' = [c \in keep \cup {m.id} |-> IF c = m.id THEN op.state ELSE snaps[c]]
        BY <2>2 DEF AddBarrierSnapshot
      <3>2. QED
        BY <3>1
    <2>3. QED
      BY <1>1, <2>1, <2>2
  <1>7. Numbered' /\ (\E U \in SUBSET Records : Folded(U))'
    BY <1>1, <1>2, <1>5, <1>6, PassOnFacts
  <1>8. SnapshotsCut'
    <2>1. \A offs : Cut(offs)' = Cut(offs) /\ \A S : Plus(S)' = Plus(S)
      BY <1>1, CutFrame
    <2>2. /\ DOMAIN ch2' = DOMAIN ch2 \cup {Len(ch2) + 1}
          /\ \A i \in DOMAIN ch2 : ch2'[i] = ch2[i]
          /\ ch2'[Len(ch2) + 1] = m
      BY <1>1, <1>3, Ends
    <2>3. m.id \notin DOMAIN snaps
      <3>1. \A c \in DOMAIN snaps : c < m.id
        BY <1>1, <1>3 DEF SnapshotInv, Numbered
      <3>2. QED
        BY <1>4, <3>1
    <2>4. ASSUME NEW i \in DOMAIN ch2', ch2'[i].type = "barrier", ch2'[i].id \in DOMAIN snaps'
          PROVE  snaps'[ch2'[i].id] = Plus(Cut(ch2'[i].offs))
      <3>1. CASE i \in DOMAIN ch2
        <4>1. ch2[i].id < m.id /\ ch2[i].id \in Nat
          BY <1>1, <1>3, <2>2, <2>4, <3>1, MessageFacts DEF SnapshotInv, Numbered
        <4>2. ch2[i].id # m.id /\ ch2[i].id \in DOMAIN snaps
          BY <1>4, <1>6, <2>2, <2>4, <3>1, <4>1
        <4>3. snaps[ch2[i].id] = Plus(Cut(ch2[i].offs))
          BY <2>2, <2>4, <3>1, <4>2 DEF SnapshotInv, SnapshotsCut
        <4>4. QED
          BY <1>6, <2>2, <2>4, <3>1, <4>2, <4>3
      <3>2. CASE i = Len(ch2) + 1
        BY <1>5, <1>6, <2>2, <2>3, <2>4, <3>2
      <3>3. QED
        BY <2>2, <3>1, <3>2
    <2>5. QED
      BY <2>1, <2>4 DEF SnapshotsCut
  <1>9. QED
    BY <1>7, <1>8 DEF SnapshotInv

\* The sink stage takes the head of its channel.
LEMMA SnapshotStageTakes ==
  ASSUME TypeOK, SnapshotInv, job' = job, UNCHANGED <<src, ch1, op>>,
         ctl.hard => ctl'.hard, ctl'.barriers = ctl.barriers,
         ch2 # <<>>, ch2' = Tail(ch2), DOMAIN snaps' \subseteq DOMAIN snaps,
         \A c \in DOMAIN snaps' : snaps'[c] = snaps[c]
  PROVE  SnapshotInv'
  <1>1. \A i \in DOMAIN ch2' : i \in Nat /\ i + 1 \in DOMAIN ch2 /\ ch2'[i] = ch2[i + 1]
    BY Typed, Ends
  <1>2. /\ \A offs : Cut(offs)' = Cut(offs) /\ \A S : Plus(S)' = Plus(S)
        /\ ThisRun' = ThisRun
    BY CutFrame, ReadFrame
  <1>3. Numbered'
    <2>1. ASSUME NEW i \in DOMAIN ch1', ch1'[i].type = "barrier"
          PROVE  /\ ch1'[i].id <= ctl'.barriers
                 /\ \A c \in DOMAIN snaps' : c < ch1'[i].id
                 /\ \A j \in DOMAIN ch1' : j < i /\ ch1'[j].type = "barrier" => ch1'[j].id < ch1'[i].id
                 /\ \A j \in DOMAIN ch2' : ch2'[j].type = "barrier" => ch2'[j].id < ch1'[i].id
      BY <1>1, <2>1 DEF SnapshotInv, Numbered
    <2>2. ASSUME NEW i \in DOMAIN ch2', ch2'[i].type = "barrier"
          PROVE  /\ ch2'[i].id <= ctl'.barriers
                 /\ \A j \in DOMAIN ch2' : j < i /\ ch2'[j].type = "barrier" => ch2'[j].id < ch2'[i].id
      <3>1. i + 1 \in DOMAIN ch2 /\ ch2[i + 1] = ch2'[i] /\ ch2[i + 1].type = "barrier"
        BY <1>1, <2>2
      <3>2. ASSUME NEW j \in DOMAIN ch2', j < i, ch2'[j].type = "barrier"
            PROVE  ch2'[j].id < ch2'[i].id
        <4>1. /\ j + 1 \in DOMAIN ch2 /\ ch2[j + 1] = ch2'[j] /\ j + 1 < i + 1
              /\ ch2[j + 1].type = "barrier"
          BY <1>1, <3>2
        <4>2. QED
          BY <3>1, <4>1 DEF SnapshotInv, Numbered
      <3>3. QED
        BY <3>1, <3>2 DEF SnapshotInv, Numbered
    <2>3. \A c \in DOMAIN snaps' : c <= ctl'.barriers
      BY DEF SnapshotInv, Numbered
    <2>4. QED
      BY <2>1, <2>2, <2>3 DEF Numbered
  <1>4. SnapshotsCut'
    <2>1. ASSUME NEW i \in DOMAIN ch2', ch2'[i].type = "barrier", ch2'[i].id \in DOMAIN snaps'
          PROVE  snaps'[ch2'[i].id] = Plus(Cut(ch2'[i].offs))
      BY <1>1, <2>1 DEF SnapshotInv, SnapshotsCut
    <2>2. QED
      BY <1>2, <2>1 DEF SnapshotsCut
  <1>5. PICK T \in SUBSET Records : Folded(T)
    BY DEF SnapshotInv
  <1>6. Folded(T)'
    BY <1>2, <1>5 DEF Folded
  <1>7. Records' = Records
    BY JobFrame
  <1>8. QED
    BY <1>3, <1>4, <1>6, <1>7 DEF SnapshotInv

\* Empty channels, and an operator that has folded T.
LEMMA SnapshotEmpty ==
  ASSUME ch1 = <<>>, ch2 = <<>>, \A c \in DOMAIN snaps : c <= ctl.barriers,
         NEW T \in SUBSET Records, op.state = Plus(T), ctl.hard \/ ThisRun \ job.garbled = T
  PROVE  SnapshotInv
  <1>1. DOMAIN ch1 = {} /\ DOMAIN ch2 = {}
    OBVIOUS
  <1>2. Recs(ch1) = {}
    BY <1>1 DEF Recs
  <1>3. Numbered /\ SnapshotsCut
    BY <1>1 DEF Numbered, SnapshotsCut
  <1>4. Folded(T)
    BY <1>1, <1>2 DEF Folded
  <1>5. QED
    BY <1>3, <1>4 DEF SnapshotInv

\* A forced shutdown drops the barriers with the records.
LEMMA SnapshotDiscards ==
  ASSUME TypeOK, SnapshotInv, StageDiscards
  PROVE  SnapshotInv'
  <1>1. /\ job' = job /\ UNCHANGED <<src, op, snaps, ctl>> /\ ctl.hard /\ ch1' = <<>> /\ ch2' = <<>>
    BY DEF StageDiscards
  <1>2. PICK T \in SUBSET Records : Folded(T)
    BY DEF SnapshotInv
  <1>3. (op.state = Plus(T))'
    BY <1>1, <1>2, CutFrame DEF Folded
  <1>4. DOMAIN ch1' = {} /\ DOMAIN ch2' = {}
    BY <1>1
  <1>5. Numbered' /\ SnapshotsCut'
    BY <1>1, <1>4 DEF SnapshotInv, Numbered, SnapshotsCut
  <1>6. Folded(T)'
    BY <1>1, <1>3, <1>4 DEF Folded
  <1>7. QED
    BY <1>1, <1>5, <1>6, JobFrame DEF SnapshotInv

\* A run starts with nothing folded on top of what it was restored from.
LEMMA SnapshotRestart ==
  ASSUME TypeOK, Restart
  PROVE  SnapshotInv'
  <1>1. /\ ch1' = <<>> /\ ch2' = <<>> /\ snaps' = <<>> /\ op' = FreshOp(saved.state) /\ job' = job
    BY DEF Restart
  <1>2. DOMAIN ch1' = {} /\ DOMAIN ch2' = {} /\ DOMAIN snaps' = {}
    BY <1>1
  <1>3. op'.state = saved.state /\ op'.base = saved.state /\ saved.state \in RecordBags
    BY <1>1, Typed DEF FreshOp
  <1>4. (op.state = Plus({}))'
    BY <1>3, BagNoMore DEF Plus
  <1>5. ThisRun' = {}
    <2>1. \A r \in Records : r[1] \in Parts /\ r[2] \in Nat
      BY RecordFacts, Typed
    <2>2. Records' = Records
      BY <1>1, JobFrame
    <2>3. \A p \in Parts : src'.start[p] \in Nat /\ src'.pos[p] = src'.start[p]
      BY RestartFacts
    <2>4. QED
      BY <2>1, <2>2, <2>3 DEF ThisRun
  <1>6. Numbered' /\ SnapshotsCut'
    BY <1>2 DEF Numbered, SnapshotsCut
  <1>7. Recs(ch1') = {}
    BY <1>2 DEF Recs
  <1>8. Folded({})'
    BY <1>2, <1>4, <1>5, <1>7 DEF Folded
  <1>9. {} \in SUBSET Records'
    OBVIOUS
  <1>10. QED
    BY <1>6, <1>8, <1>9 DEF SnapshotInv

\* The first run starts from the empty state.
LEMMA SnapshotInit == Init => SnapshotInv
  <1> SUFFICES ASSUME Init PROVE SnapshotInv
    OBVIOUS
  <1>1. TypeOK
    BY TypeInit
  <1>2. /\ ch1 = <<>> /\ ch2 = <<>> /\ snaps = <<>> /\ op = FreshOp(EmptyBag)
    BY DEF Init
  <1>3. op.state = op.base
    BY <1>2 DEF FreshOp
  <1>4. op.state = Plus({})
    BY <1>1, <1>3, Typed, BagNoMore DEF Plus
  <1>5. PICK R \in StartReaders : src = FreshSource([p \in Parts |-> 0], R)
    BY DEF Init
  <1>6. src.pos = [p \in Parts |-> 0] /\ src.start = [p \in Parts |-> 0]
    BY <1>5 DEF FreshSource
  <1>7. ThisRun = {}
    <2>1. \A r \in Records : r[1] \in Parts /\ r[2] \in Nat
      BY <1>1, RecordFacts, Typed
    <2>2. QED
      BY <1>6, <2>1 DEF ThisRun
  <1>8. DOMAIN snaps = {}
    BY <1>2
  <1>9. QED
    BY <1>2, <1>4, <1>7, <1>8, SnapshotEmpty

\* Every step keeps the snapshots at their cuts.
LEMMA SnapshotStep ==
  ASSUME TypeOK, Positions, SnapshotInv, [Next]_vars
  PROVE  SnapshotInv'
  <1>1. job' = job
    BY JobStays
  <1>2. ASSUME UNCHANGED <<ch1, ch2, snaps>>, src'.pos = src.pos, src'.start = src.start,
               op'.state = op.state, op'.base = op.base,
               ctl.hard => ctl'.hard, ctl'.barriers = ctl.barriers
        PROVE  SnapshotInv'
    BY <1>1, <1>2, ReadFrame, SnapshotFrame
  <1>3. CASE UNCHANGED vars
    BY <1>2, <1>3 DEF vars
  <1>4. CASE Restart
    BY <1>4, SnapshotRestart
  <1>5. CASE PeriodicBarrier \/ LastBarrier
    BY <1>5, SnapshotInject
  <1>6. ASSUME Next, ~Restart, ~PeriodicBarrier, ~LastBarrier PROVE SnapshotInv'
    <2>1. (ctl.hard => ctl'.hard) /\ ctl'.barriers = ctl.barriers
      BY <1>6, ControlSteps
    <2>2. CASE \E p \in Parts : Read(p)
      BY <2>2, SnapshotRead
    <2>3. ASSUME NEW p \in Parts, ReadGarbled(p) PROVE SnapshotInv'
      <3>1. /\ UNCHANGED <<ch1, ch2, snaps, op>> /\ <<p, src.pos[p] + 1>> \in job.garbled
            /\ src'.start = src.start /\ src'.pos = [src.pos EXCEPT ![p] = @ + 1]
        BY <2>3 DEF ReadGarbled, TypeOK, SourceType
      <3>2. ThisRun' = ThisRun \cup ({<<p, src.pos[p] + 1>>} \cap Records)
        BY <1>1, <3>1, PositionMoves
      <3>3. ThisRun' \ job'.garbled = ThisRun \ job.garbled
        BY <1>1, <3>1, <3>2
      <3>4. QED
        BY <1>1, <2>1, <3>1, <3>3, SnapshotFrame
    <2>4. CASE (\E p \in Parts : CommitGroup(p) \/ Discover(p)) \/ SourceCloses
      <3>1. UNCHANGED <<ch1, ch2, snaps, op>> /\ src'.start = src.start /\ src'.pos = src.pos
        BY <2>4 DEF CommitGroup, Discover, SourceCloses, TypeOK, SourceType
      <3>2. QED
        BY <1>2, <2>1, <3>1
    <2>5. CASE OpRecord \/ OpBarrier
      BY <2>1, <2>5, SnapshotOpRecord, SnapshotOpBarrier
    <2>6. CASE OpPanics
      <3>1. UNCHANGED <<ch1, ch2, snaps, src>> /\ op'.state = op.state /\ op'.base = op.base
        BY <2>6 DEF OpPanics, TypeOK, PipeType
      <3>2. QED
        BY <1>2, <2>1, <3>1
    <2>7. CASE StageRecord \/ StageBarrier
      <3>1. /\ UNCHANGED <<src, ch1, op>> /\ ch2 # <<>> /\ ch2' = Tail(ch2)
            /\ UNCHANGED snaps \/ snaps' = [c \in DOMAIN snaps \ {Head(ch2).id} |-> snaps[c]]
        BY <2>7 DEF StageRecord, StageBarrier, StageTakes
      <3>2. DOMAIN snaps' \subseteq DOMAIN snaps /\ \A c \in DOMAIN snaps' : snaps'[c] = snaps[c]
        BY <3>1
      <3>3. QED
        BY <1>1, <2>1, <3>1, <3>2, SnapshotStageTakes
    <2>8. CASE StageDiscards
      BY <2>8, SnapshotDiscards
    <2>9. CASE \/ StageSeesDeath \/ StageCloses \/ SourceFails \/ Stop \/ ShutdownTimeout \/ Return
               \/ SinkTakes \/ PostgresDeclines \/ KafkaRefuses \/ FileRefuses
               \/ SinkTick \/ SinkEnds \/ SinkReturns
               \/ \E i \in Flights : FlushSucceeds(i) \/ FlushRetries(i) \/ FlushGivesUp(i) \/ FlushFails(i)
      <3>1. UNCHANGED <<src, ch1, ch2, op, snaps>>
        BY <2>9 DEF StageSeesDeath, StageCloses, SourceFails, Stop, ShutdownTimeout, Return,
                    SinkTakes, PostgresDeclines, KafkaRefuses, FileRefuses, SinkReads, SinkTick,
                    SinkEnds, SinkReturns, FlushSucceeds, FlushRetries, FlushGivesUp, FlushFails
      <3>2. QED
        BY <1>2, <2>1, <3>1
    <2>10. QED
      BY <1>6, <2>2, <2>3, <2>4, <2>5, <2>6, <2>7, <2>8, <2>9 DEF Next
  <1>7. QED
    BY <1>3, <1>4, <1>5, <1>6

\* What a checkpoint gets from a barrier's snapshot is what the barrier cuts off.
LEMMA SavedIsTheCut ==
  ASSUME TypeOK, SnapshotInv, StageBarrier, saved' # saved, ~ctl'.spoiled
  PROVE  saved'.state = Plus(Cut(saved'.offs))
  <1> DEFINE b == Head(ch2)
  <1>1. /\ ch2 # <<>> /\ b.type = "barrier"
        /\ saved' = [offs |-> b.offs, state |-> Collected(b.id), hands |-> InSinksHands]
        /\ ctl' = [ctl EXCEPT !.spoiled = b.id \notin DOMAIN snaps]
    BY DEF StageBarrier, StageTakes
  <1>2. saved'.offs = b.offs /\ saved'.state = Collected(b.id)
    BY <1>1
  <1>3. b.id \in DOMAIN snaps
    <2>1. ctl'.spoiled = (b.id \notin DOMAIN snaps)
      BY <1>1, Typed, Zenon DEF Controls
    <2>2. QED
      BY <2>1
  <1>4. 1 \in DOMAIN ch2 /\ b = ch2[1]
    BY <1>1, Typed, Ends
  <1>5. snaps[b.id] = Plus(Cut(b.offs))
    BY <1>1, <1>3, <1>4 DEF SnapshotInv, SnapshotsCut
  <1>6. QED
    BY <1>2, <1>3, <1>5 DEF Collected

\* The state in a checkpoint is the state the run started from and the records up to
\* the checkpoint's positions, each once, whatever the operator has taken since: for
\* every job, every number of barriers under way and every limit on the snapshots
\* that are kept (addBarrierSnapshot, collectSnapshots).
THEOREM SnapshotIsTheCutHolds == Spec => SnapshotIsTheCut
  <1>1. DeliveryInv /\ SnapshotInv /\ [Next]_vars => SnapshotInv'
    BY SnapshotStep DEF DeliveryInv, Accounted
  <1>2. Spec => []SnapshotInv
    BY <1>1, SnapshotInit, DeliveryInvHolds, PTL DEF Spec
  <1>3. DeliveryInv /\ SnapshotInv =>
          [(StageBarrier /\ saved' # saved /\ ~ctl'.spoiled) =>
             saved'.state = op.base (+)
               SetToBag({r \in Records \ job.garbled :
                           /\ r[1] \in DOMAIN saved'.offs
                           /\ src.start[r[1]] < r[2] /\ r[2] <= saved'.offs[r[1]]})]_vars
    BY SavedIsTheCut DEF DeliveryInv, Plus, Cut
  <1>4. QED
    BY <1>2, <1>3, DeliveryInvHolds, PTL DEF SnapshotIsTheCut

=============================================================================
