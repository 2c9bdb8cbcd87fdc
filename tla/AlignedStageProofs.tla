-------------------------- MODULE AlignedStageProofs --------------------------
(***************************************************************************)
(* The alignment of markers in a parallel stage, proved for every number   *)
(* of workers, every channel capacity and every input: nothing overtakes a *)
(* marker, and the snapshots of a barrier are one cut of the input.        *)
(***************************************************************************)
EXTENDS AlignedStage, FiniteSetTheorems, SequenceTheorems, TLAPS

-----------------------------------------------------------------------------
(* The input side: the router, the queues of the workers, their state.     *)

\* The last marker the router has sent to worker w.
Sent(w) == IF w < cast THEN round ELSE round - 1

\* A cut lies behind what has been routed, and while a marker is being sent to
\* the workers no record is.
Cuts ==
    /\ cast \in Workers => round >= 1 /\ cutAt[round] = routed
    /\ \A m \in 1..round : cutAt[m] <= routed

\* An item in the queue of worker w: a marker it has not seen, or a record behind
\* all that it has seen.
Ahead(w, x) ==
    \/ x.kind = "marker" /\ seen[w] < x.epoch /\ x.epoch <= Sent(w)
    \/ x.kind = "data" /\ x.n <= routed /\ \A m \in 1..seen[w] : cutAt[m] < x.n

\* Item x comes before item y: markers in order, records on the right side of them.
InOrder(x, y) ==
    /\ x.kind = "marker" /\ y.kind = "marker" => x.epoch < y.epoch
    /\ x.kind = "marker" /\ y.kind = "data" => cutAt[x.epoch] < y.n
    /\ x.kind = "data" /\ y.kind = "marker" => x.n <= cutAt[y.epoch]

\* The queue of worker w holds every marker it has not seen, in order.
Queue(w) ==
    /\ seen[w] <= Sent(w)
    /\ \A i \in 1..Len(wIn[w]) : Ahead(w, wIn[w][i])
    /\ \A m \in Markers : seen[w] < m /\ m <= Sent(w) => \E i \in 1..Len(wIn[w]) : wIn[w][i] = Marker(m)
    /\ \A i \in 1..Len(wIn[w]), j \in 1..Len(wIn[w]) : i < j => InOrder(wIn[w][i], wIn[w][j])

\* What worker w has folded in lies ahead of every marker it has not seen, and
\* each of its snapshots is the part of it ahead of that marker.
Folds(w) ==
    /\ \A n \in folded[w] : /\ n <= routed
                            /\ \A m \in 1..round : seen[w] < m => n <= cutAt[m]
    /\ \A m \in 1..seen[w] : snap[m][w] = {n \in folded[w] : n <= cutAt[m]}

\* No routed record is lost inside the stage.
Nowhere(n) ==
    \A w \in Workers :
        n \notin folded[w] /\ \A i \in 1..Len(wIn[w]) : wIn[w][i] # Data(n)

InputInv ==
    /\ TypeOK /\ Cuts
    /\ \A w \in Workers : Queue(w) /\ Folds(w)
    /\ \A n \in 1..routed : ~Nowhere(n)

-----------------------------------------------------------------------------
(* The output side.                                                        *)

\* The number of markers that have left the stage.
Emitted == MarkersEmitted(Len(out))

\* The items of s lead from epoch a to epoch b.
Chain(s, a, b) ==
    /\ \A i \in 1..Len(s) :
         /\ s[i].epoch <= b
         /\ s[i].epoch = (IF i = 1 THEN a ELSE s[i - 1].epoch)
                            + (IF s[i].kind = "marker" THEN 1 ELSE 0)
    /\ b = IF Len(s) = 0 THEN a ELSE s[Len(s)].epoch

\* D[w] markers have come through reader w: all that have left the stage, and at
\* most one more, behind which the reader waits for its token.
At(D, w) ==
    /\ D[w] \in {Emitted, Emitted + 1} /\ D[w] <= passed[w]
    /\ reader[w] \in {"read", "parked"} => Chain(wOut[w], D[w], passed[w])
    /\ D[w] = Emitted + 1 => reader[w] # "read"
    /\ reader[w] = "read" \/ D[w] = Emitted + 1 => w \notin resume /\ w \notin toResume

Readers(D) == (\A w \in Workers : At(D, w)) /\ resume \cap toResume = {}

\* The items of f, of which worker O[i] sent the i-th, when e markers have left: the
\* results of epoch e and copies of marker e + 1, a worker's results before its copy,
\* and none of the copies that A has already counted.
Holds(f, D, A, O, e) ==
    \A i \in 1..Len(f) :
        /\ f[i].kind = "marker" => f[i].epoch = e + 1 /\ O[i] \notin A /\ D[O[i]] = e + 1
        /\ f[i].kind # "marker" =>
             /\ f[i].epoch = e
             /\ \/ D[O[i]] = e
                \/ \E j \in 1..Len(f) : i < j /\ f[j].kind = "marker" /\ O[j] = O[i]
        /\ \A j \in 1..Len(f) : i # j /\ f[i].kind = "marker" /\ f[j].kind = "marker" => O[i] # O[j]

\* A is the set of the workers whose copy of the next marker is counted, O names the
\* worker each item in fanIn came from.
Waiting(D, A, O) ==
    /\ Cardinality(A) = arrived
    /\ \A w \in A : D[w] = Emitted + 1
    /\ Holds(fanIn, D, A, O, Emitted)

\* The markers that have left are numbered from 1.
Left == \A i \in 1..Len(out) : out[i].kind = "marker" => 1 <= out[i].epoch /\ out[i].epoch <= Emitted

MergeInv ==
    /\ NoOvertaking /\ Left
    /\ \E D \in [Workers -> 0..MaxMarkers], A \in SUBSET Workers, O \in [1..Len(fanIn) -> Workers] :
         Readers(D) /\ Waiting(D, A, O)

\* A worker passes on every marker it takes in until its chain breaks, and none after.
Passes == \A w \in Workers : passed[w] <= seen[w] /\ (w \notin broken => passed[w] = seen[w])

StageInv == InputInv /\ Passes /\ MergeInv

-----------------------------------------------------------------------------
(* Items, channels and types.                                              *)

\* What the kind of an item says of it, and the items the actions build.
LEMMA ItemFacts ==
    /\ \A x \in Items : /\ x.kind \in {"data", "result", "marker"}
                        /\ x.epoch \in 0..MaxMarkers /\ x.epoch \in Nat
                        /\ x.kind = "marker" => x.epoch \in Markers /\ x = Marker(x.epoch)
                        /\ x.kind = "data" => x.n \in 1..MaxRecords /\ x.n \in Nat /\ x = Data(x.n)
    /\ \A n \in 1..MaxRecords : Data(n) \in Items
    /\ \A m \in Markers : Marker(m) \in Items
    /\ TypeOK => \A w \in Workers : Result(w) \in Items
  <1> USE StageAssumption DEF Items, Markers
  <1>1. \A x \in Items : /\ x.kind \in {"data", "result", "marker"}
                         /\ x.epoch \in 0..MaxMarkers /\ x.epoch \in Nat
                         /\ x.kind = "marker" => x.epoch \in Markers /\ x = Marker(x.epoch)
    BY DEF Marker
  <1>2. \A x \in Items : x.kind = "data" => x.n \in 1..MaxRecords /\ x.n \in Nat /\ x = Data(x.n)
    BY DEF Data
  <1>3. \A n \in 1..MaxRecords : Data(n) \in Items
    BY DEF Data
  <1>4. \A m \in Markers : Marker(m) \in Items
    BY DEF Marker
  <1>5. TypeOK => \A w \in Workers : Result(w) \in Items
    BY DEF TypeOK, Result
  <1>6. QED
    BY <1>1, <1>2, <1>3, <1>4, <1>5

\* A send on a channel.
LEMMA Sends ==
    ASSUME NEW s \in Seq(Items), NEW x \in Items
    PROVE  /\ Append(s, x) \in Seq(Items) /\ Len(s) \in Nat /\ Len(Append(s, x)) = Len(s) + 1
           /\ \A i \in 1..Len(s) : Append(s, x)[i] = s[i]
           /\ Append(s, x)[Len(s) + 1] = x
           /\ \A i \in 1..(Len(s) + 1) : i \in 1..Len(s) \/ i = Len(s) + 1
  <1>1. Len(s) \in Nat
    OBVIOUS
  <1>2. QED
    BY <1>1, AppendProperties

\* A receive from a channel.
LEMMA Receives ==
    ASSUME NEW s \in Seq(Items), s # <<>>
    PROVE  /\ Tail(s) \in Seq(Items) /\ Len(s) \in Nat /\ Len(s) >= 1 /\ Len(Tail(s)) = Len(s) - 1
           /\ Head(s) = s[1] /\ Head(s) \in Items /\ 1 \in 1..Len(s)
           /\ \A i \in 1..Len(Tail(s)) : Tail(s)[i] = s[i + 1] /\ i + 1 \in 1..Len(s)
           /\ \A i \in 1..Len(s) : i # 1 => i - 1 \in 1..Len(Tail(s)) /\ Tail(s)[i - 1] = s[i]
  <1>1. Len(s) \in Nat /\ Len(s) >= 1
    BY EmptySeq
  <1>2. Tail(s) \in Seq(Items) /\ Len(Tail(s)) = Len(s) - 1 /\ Head(s) \in Items /\ Head(s) = s[1]
    BY HeadTailProperties
  <1>3. \A i \in 1..Len(Tail(s)) : Tail(s)[i] = s[i + 1]
    BY HeadTailProperties
  <1>4. \A i \in 1..Len(s) : i # 1 => i - 1 \in 1..Len(Tail(s)) /\ Tail(s)[i - 1] = s[i]
    <2> SUFFICES ASSUME NEW i \in 1..Len(s), i # 1
                 PROVE  i - 1 \in 1..Len(Tail(s)) /\ Tail(s)[i - 1] = s[i]
      OBVIOUS
    <2>1. i - 1 \in 1..Len(Tail(s)) /\ (i - 1) + 1 = i
      BY <1>1, <1>2
    <2>2. QED
      BY <1>3, <2>1
  <1>5. QED
    BY <1>1, <1>2, <1>3, <1>4

\* A worker's output channel after Emit.
LEMMA EmitType ==
    ASSUME TypeOK, NEW w \in Workers, Emit(w)
    PROVE  wOut' \in [Workers -> Seq(Items)] /\ \A v \in Workers : Len(wOut'[v]) <= Cap
  <1>1. Result(w) \in Items
    BY ItemFacts
  <1>2. CASE UNCHANGED wOut
    BY <1>2 DEF TypeOK
  <1>3. CASE Room(wOut[w]) /\ wOut' = [wOut EXCEPT ![w] = Append(@, Result(w))]
    <2>1. wOut[w] \in Seq(Items) /\ Append(wOut[w], Result(w)) \in Seq(Items)
          /\ Len(Append(wOut[w], Result(w))) <= Cap
      BY <1>1, <1>3, Sends, StageAssumption DEF TypeOK, Room
    <2>2. QED
      BY <1>3, <2>1 DEF TypeOK
  <1>4. QED
    BY <1>2, <1>3 DEF Emit

\* Every step keeps the types; a marker is sent to the workers only after it was
\* taken from the input.
TypeInv == TypeOK /\ (cast \in Workers => round >= 1)

\* What taking an item in changes.
TakenTypes ==
    /\ wIn \in [Workers -> Seq(Items)] /\ \A v \in Workers : Len(wIn[v]) <= Cap
    /\ folded \in [Workers -> SUBSET (1..MaxRecords)]
    /\ seen \in [Workers -> 0..MaxMarkers]
    /\ snap \in [Markers -> [Workers -> SUBSET (0..MaxRecords)]]

\* A worker takes the next item of its queue in.
LEMMA TakesType ==
    ASSUME TypeOK, NEW w \in Workers, Fold(w) \/ Mark(w)
    PROVE  /\ TakenTypes' /\ Head(wIn[w]) \in Items
           /\ Mark(w) => Head(wIn[w]).epoch \in 0..MaxMarkers
  <1> USE StageAssumption
  <1>1. /\ wIn[w] \in Seq(Items) /\ Tail(wIn[w]) \in Seq(Items) /\ Len(Tail(wIn[w])) <= Cap
        /\ Head(wIn[w]) \in Items
    BY Receives, SMTT(30) DEF Fold, Mark, TypeOK
  <1>2. wIn' \in [Workers -> Seq(Items)] /\ \A v \in Workers : Len(wIn'[v]) <= Cap
    <2> DEFINE rest == Tail(wIn[w])
    <2>1. wIn \in [Workers -> Seq(Items)] /\ \A v \in Workers : Len(wIn[v]) <= Cap
      BY DEF TypeOK
    <2>2. wIn' = [wIn EXCEPT ![w] = rest]
      BY DEF Fold, Mark
    <2>3. rest \in Seq(Items) /\ Len(rest) <= Cap
      BY <1>1
    <2> HIDE DEF rest
    <2>4. QED
      BY <2>1, <2>2, <2>3
  <1>3. CASE Fold(w)
    <2>1. Head(wIn[w]).n \in 1..MaxRecords
      BY <1>1, <1>3, ItemFacts, SMTT(30) DEF Fold
    <2>2. folded' \in [Workers -> SUBSET (1..MaxRecords)]
      BY <1>3, <2>1 DEF Fold, TypeOK
    <2>3. ~Mark(w)
      BY <1>3 DEF Fold, Mark
    <2>4. QED
      BY <1>1, <1>2, <1>3, <2>2, <2>3 DEF Fold, TakenTypes, TypeOK
  <1>4. CASE Mark(w)
    <2>1. Head(wIn[w]).epoch \in Markers
      BY <1>1, <1>4, ItemFacts, SMTT(30) DEF Mark
    <2>2. seen' \in [Workers -> 0..MaxMarkers]
      BY <1>4, <2>1, SMTT(30) DEF Mark, TypeOK, Markers
    <2>3. folded[w] \in SUBSET (0..MaxRecords)
      BY DEF TypeOK
    <2>4. snap' \in [Markers -> [Workers -> SUBSET (0..MaxRecords)]]
      BY <1>4, <2>1, <2>3 DEF Mark, TypeOK, Snapshot
    <2>5. QED
      BY <1>1, <1>2, <1>4, <2>1, <2>2, <2>4 DEF Mark, TakenTypes, TypeOK, Markers
  <1>5. QED
    BY <1>3, <1>4

LEMMA TypeStep ==
    ASSUME TypeInv, [Next]_vars
    PROVE  TypeInv'
  <1> USE StageAssumption DEF TypeInv, routerVars, workerVars, chainVars, mergeVars
  <1>1. CASE UNCHANGED vars
    BY <1>1 DEF vars, TypeOK
  <1>2. ASSUME NEW w \in Workers, RouteData(w)
        PROVE  TypeInv'
    <2>1. Data(routed + 1) \in Items
      BY <1>2, ItemFacts DEF RouteData, TypeOK
    <2>2. wIn[w] \in Seq(Items) /\ Append(wIn[w], Data(routed + 1)) \in Seq(Items)
          /\ Len(Append(wIn[w], Data(routed + 1))) <= Cap
      BY <1>2, <2>1, Sends DEF RouteData, TypeOK, Room
    <2>3. wIn' \in [Workers -> Seq(Items)] /\ \A v \in Workers : Len(wIn'[v]) <= Cap
      <3> DEFINE grown == Append(wIn[w], Data(routed + 1))
      <3>1. wIn \in [Workers -> Seq(Items)] /\ \A v \in Workers : Len(wIn[v]) <= Cap
        BY DEF TypeOK
      <3>2. wIn' = [wIn EXCEPT ![w] = grown]
        BY <1>2 DEF RouteData
      <3>3. grown \in Seq(Items) /\ Len(grown) <= Cap
        BY <2>2
      <3> HIDE DEF grown
      <3>4. QED
        BY <3>1, <3>2, <3>3
    <2>4. QED
      BY <1>2, <2>3, SMTT(30) DEF RouteData, TypeOK
  <1>3. CASE TakeMarker
    <2>1. round' \in 0..MaxMarkers /\ round' >= 1 /\ cast' \in 1..(N + 1)
      BY <1>3 DEF TakeMarker, TypeOK
    <2>2. cutAt' \in [Markers -> 0..MaxRecords]
      BY <1>3 DEF TakeMarker, TypeOK
    <2>3. QED
      BY <1>3, <2>1, <2>2 DEF TakeMarker, TypeOK
  <1>4. CASE Broadcast
    <2>1. Marker(round) \in Items
      BY <1>4, ItemFacts DEF Broadcast, TypeOK, Markers
    <2>2. wIn[cast] \in Seq(Items) /\ Append(wIn[cast], Marker(round)) \in Seq(Items)
          /\ Len(Append(wIn[cast], Marker(round))) <= Cap
      BY <1>4, <2>1, Sends DEF Broadcast, TypeOK, Room
    <2>3. wIn' \in [Workers -> Seq(Items)] /\ \A v \in Workers : Len(wIn'[v]) <= Cap
      BY <1>4, <2>2 DEF Broadcast, TypeOK
    <2>4. cast' \in 1..(N + 1)
      BY <1>4 DEF Broadcast, Workers
    <2>5. QED
      BY <1>4, <2>3, <2>4 DEF Broadcast, TypeOK
  <1>5. CASE RouterClose \/ RouterCancel \/ MergeEnd \/ MergeCancel \/ HardCancel
    BY <1>5 DEF RouterClose, RouterCancel, MergeEnd, MergeCancel, HardCancel, TypeOK
  <1>6. ASSUME NEW w \in Workers, WorkerData(w)
        PROVE  TypeInv'
    <2>1. TakenTypes'
      BY <1>6, TakesType DEF WorkerData
    <2>2. wOut' \in [Workers -> Seq(Items)] /\ \A v \in Workers : Len(wOut'[v]) <= Cap
      BY <1>6, EmitType DEF WorkerData
    <2>3. QED
      BY <1>6, <2>1, <2>2 DEF WorkerData, Fold, TakenTypes, TypeOK
  <1>7. ASSUME NEW w \in Workers, WorkerMarker(w)
        PROVE  TypeInv'
    <2>1. TakenTypes' /\ Head(wIn[w]) \in Items /\ Head(wIn[w]).epoch \in 0..MaxMarkers
      BY <1>7, TakesType DEF WorkerMarker
    <2>3. wOut[w] \in Seq(Items) /\ Append(wOut[w], Head(wIn[w])) \in Seq(Items)
          /\ Len(Append(wOut[w], Head(wIn[w]))) <= Cap
      BY <1>7, <2>1, Sends DEF WorkerMarker, TypeOK, Room
    <2>4. wOut' \in [Workers -> Seq(Items)] /\ \A v \in Workers : Len(wOut'[v]) <= Cap
      BY <1>7, <2>3 DEF WorkerMarker, TypeOK
    <2>5. passed' \in [Workers -> 0..MaxMarkers]
      BY <1>7, <2>1, SMTT(30) DEF WorkerMarker, TypeOK
    <2>8. QED
      BY <1>7, <2>1, <2>4, <2>5 DEF WorkerMarker, Mark, TakenTypes, TypeOK
  <1>16. ASSUME NEW w \in Workers, LaterFails(w) \/ StuckTakes(w)
         PROVE  TypeInv'
    <2>1. TakenTypes' /\ UNCHANGED routerVars
      BY <1>16, TakesType DEF LaterFails, StuckTakes, Fold, Mark
    <2>2. broken' \subseteq Workers
      BY <1>16 DEF LaterFails, StuckTakes, TypeOK
    <2>3. pile' \in [Workers -> 0..Cap]
      <3>1. pile[w] \in 0..Cap /\ Cap \in Nat
        BY DEF TypeOK
      <3>2. pile' = pile \/ (pile[w] + 1 \in 0..Cap /\ pile' = [pile EXCEPT ![w] = pile[w] + 1])
        BY <1>16, <3>1 DEF LaterFails, StuckTakes
      <3>3. QED
        BY <3>2 DEF TypeOK
    <2>4. UNCHANGED <<passed, wDone, mergeVars, wOut, reader, fanIn, resume, cancelled>>
      BY <1>16 DEF LaterFails, StuckTakes
    <2>5. QED
      BY <2>1, <2>2, <2>3, <2>4 DEF TakenTypes, TypeOK
  <1>8. ASSUME NEW w \in Workers, WorkerClose(w) \/ WorkerIdle(w)
        PROVE  TypeInv'
    <2>1. wOut' \in [Workers -> Seq(Items)] /\ \A v \in Workers : Len(wOut'[v]) <= Cap
      BY <1>8, EmitType DEF WorkerClose, WorkerIdle
    <2>2. QED
      BY <1>8, <2>1 DEF WorkerClose, WorkerIdle, TypeOK
  <1>9. ASSUME NEW w \in Workers, WorkerFails(w) \/ WorkerCancel(w) \/ StuckEnds(w)
        PROVE  TypeInv'
    BY <1>9 DEF WorkerFails, WorkerCancel, StuckEnds, TypeOK
  <1>10. ASSUME NEW w \in Workers, ReaderForward(w)
         PROVE  TypeInv'
    <2>1. wOut[w] \in Seq(Items) /\ Tail(wOut[w]) \in Seq(Items) /\ Len(Tail(wOut[w])) <= Cap
          /\ Head(wOut[w]) \in Items
      BY <1>10, Receives DEF ReaderForward, TypeOK
    <2>2. wOut' \in [Workers -> Seq(Items)] /\ \A v \in Workers : Len(wOut'[v]) <= Cap
      BY <1>10, <2>1 DEF ReaderForward, TypeOK
    <2>3. fanIn' \in Seq(Items) /\ Len(fanIn') <= Cap
      BY <1>10, <2>1, Sends DEF ReaderForward, TypeOK, Room
    <2>4. QED
      BY <1>10, <2>2, <2>3 DEF ReaderForward, AfterForward, TypeOK
  <1>11. ASSUME NEW w \in Workers, ReaderResume(w) \/ ReaderCancel(w) \/ ReaderEnd(w)
         PROVE  TypeInv'
    BY <1>11 DEF ReaderResume, ReaderCancel, ReaderEnd, TypeOK
  <1>12. ASSUME NEW w \in Workers, ReaderDrain(w)
         PROVE  TypeInv'
    <2>1. wOut[w] \in Seq(Items) /\ Tail(wOut[w]) \in Seq(Items) /\ Len(Tail(wOut[w])) <= Cap
      BY <1>12, Receives DEF ReaderDrain, TypeOK
    <2>2. QED
      BY <1>12, <2>1 DEF ReaderDrain, TypeOK
  <1>13. CASE MergeData \/ MergeMarker
    <2>1. Head(fanIn) \in Items /\ Tail(fanIn) \in Seq(Items) /\ Len(Tail(fanIn)) <= Cap
          /\ Append(out, Head(fanIn)) \in Seq(Items)
      BY <1>13, Receives, Sends DEF MergeData, MergeMarker, TypeOK
    <2>2. CASE MergeData
      BY <2>1, <2>2 DEF MergeData, TypeOK
    <2>3. CASE MergeMarker
      <3>1. /\ fanIn' = Tail(fanIn) /\ toResume' \subseteq Workers
            /\ merge' \in {"recv", "resume", "done"} /\ out' \in Seq(Items)
            /\ arrived' = 0 \/ (arrived' = arrived + 1 /\ ~(arrived + 1 >= N))
        BY <2>1, <2>3 DEF MergeMarker, AllArrived, TypeOK
      <3>2. arrived' \in 0..(N - 1)
        BY <3>1 DEF TypeOK
      <3>3. QED
        BY <2>1, <2>3, <3>1, <3>2 DEF MergeMarker, TypeOK
    <2>4. QED
      BY <1>13, <2>2, <2>3
  <1>14. CASE MergeResume
    BY <1>14 DEF MergeResume, TypeOK
  <1>15. QED
    BY <1>1, <1>2, <1>3, <1>4, <1>5, <1>6, <1>7, <1>8, <1>9, <1>10, <1>11, <1>12, <1>13, <1>14, <1>16
    DEF Next, Router, Worker, Reader, Merge

\* The types hold at the start.
LEMMA StageTypeInit == Init => TypeInv
  <1> SUFFICES ASSUME Init PROVE TypeInv
    OBVIOUS
  <1>1. <<>> \in Seq(Items) /\ Len(<<>>) = 0
    BY EmptySeq
  <1>2. /\ routed \in 0..MaxRecords /\ round \in 0..MaxMarkers /\ cast \in 1..(N + 1)
        /\ arrived \in 0..(N - 1) /\ cast \notin Workers
    BY StageAssumption DEF Init, Workers
  <1>3. /\ wIn \in [Workers -> Seq(Items)] /\ wOut \in [Workers -> Seq(Items)]
        /\ fanIn \in Seq(Items) /\ out \in Seq(Items) /\ Len(fanIn) <= Cap
        /\ \A w \in Workers : Len(wIn[w]) <= Cap /\ Len(wOut[w]) <= Cap
    BY <1>1, StageAssumption DEF Init
  <1>4. /\ cutAt \in [Markers -> 0..MaxRecords] /\ seen \in [Workers -> 0..MaxMarkers]
        /\ snap \in [Markers -> [Workers -> SUBSET (0..MaxRecords)]]
        /\ folded \in [Workers -> SUBSET (1..MaxRecords)]
    BY StageAssumption DEF Init, NoSnapshot
  <1>5. /\ passed \in [Workers -> 0..MaxMarkers] /\ broken \subseteq Workers
        /\ pile \in [Workers -> 0..Cap]
    BY StageAssumption DEF Init
  <1>6. QED
    BY <1>2, <1>3, <1>4, <1>5 DEF Init, TypeInv, TypeOK

\* Every channel of the stage stays within its capacity and holds what belongs
\* into it, whichever goroutine runs, fails or is cancelled
\* (pipeline/keyed_stage.go Run, pipeline/markers.go alignedMerge).
THEOREM StageTypeCorrect == Spec => []TypeOK
  <1>1. Init => TypeInv
    BY StageTypeInit
  <1>2. TypeInv /\ [Next]_vars => TypeInv'
    BY TypeStep
  <1>3. TypeInv => TypeOK
    BY DEF TypeInv
  <1>4. QED
    BY <1>1, <1>2, <1>3, PTL DEF Spec

-----------------------------------------------------------------------------
(* The input side is consistent.                                           *)

\* The numbers of records, markers and workers.
LEMMA StageNumbers ==
    ASSUME TypeOK
    PROVE  /\ routed \in Nat /\ round \in Nat /\ cast \in Nat /\ N \in Nat /\ round <= MaxMarkers
           /\ \A w \in Workers : /\ w \in Nat /\ 1 <= w /\ w <= N
                                 /\ seen[w] \in Nat /\ seen[w] <= MaxMarkers /\ passed[w] \in Nat
                                 /\ passed[w] <= MaxMarkers
                                 /\ wIn[w] \in Seq(Items) /\ Len(wIn[w]) \in Nat
                                 /\ wOut[w] \in Seq(Items) /\ Len(wOut[w]) \in Nat
                                 /\ \A n \in folded[w] : n \in Nat /\ n >= 1
                                 /\ \A i \in 1..Len(wIn[w]) :
                                      /\ wIn[w][i] \in Items /\ wIn[w][i].epoch \in Nat
                                      /\ wIn[w][i].kind = "data" => wIn[w][i].n \in Nat
           /\ \A m \in Markers : m \in Nat /\ m >= 1 /\ m <= MaxMarkers /\ cutAt[m] \in Nat
           /\ \A m \in 1..round : m \in Markers /\ m \in Nat
  <1> USE StageAssumption
  <1>1. /\ routed \in Nat /\ round \in Nat /\ cast \in Nat /\ N \in Nat /\ round <= MaxMarkers
        /\ \A m \in Markers : m \in Nat /\ m >= 1 /\ m <= MaxMarkers /\ cutAt[m] \in Nat
        /\ \A m \in 1..round : m \in Markers /\ m \in Nat
    BY DEF TypeOK, Markers
  <1>2. \A w \in Workers : /\ w \in Nat /\ 1 <= w /\ w <= N
                           /\ seen[w] \in Nat /\ seen[w] <= MaxMarkers /\ passed[w] \in Nat
                           /\ passed[w] <= MaxMarkers
                           /\ \A n \in folded[w] : n \in Nat /\ n >= 1
    BY SMTT(30) DEF TypeOK, Workers
  <1>3. \A w \in Workers : wIn[w] \in Seq(Items) /\ wOut[w] \in Seq(Items)
    BY DEF TypeOK
  <1>4. \A w \in Workers : Len(wIn[w]) \in Nat /\ Len(wOut[w]) \in Nat
    BY <1>3
  <1>5. \A w \in Workers : \A i \in 1..Len(wIn[w]) :
          /\ wIn[w][i] \in Items /\ wIn[w][i].epoch \in Nat
          /\ wIn[w][i].kind = "data" => wIn[w][i].n \in Nat
    BY <1>3, ItemFacts, ElementOfSeq
  <1>6. QED
    BY <1>1, <1>2, <1>3, <1>4, <1>5

\* A step that touches neither the router nor a worker's input and state.
LEMMA InputFrame ==
    ASSUME InputInv, TypeOK',
           UNCHANGED <<routed, round, cast, cutAt, wIn, folded, seen, snap>>
    PROVE  InputInv'
  BY DEF InputInv, Cuts, Queue, Ahead, InOrder, Folds, Sent, Nowhere, Marker, Data

\* A queue that nothing is sent to or taken from.
LEMMA QueueKept ==
    ASSUME TypeOK, NEW v \in Workers, Queue(v), wIn'[v] = wIn[v], seen'[v] = seen[v],
           Sent(v)' = Sent(v), routed' \in Nat, routed <= routed',
           \A m \in Markers : m <= Sent(v) => cutAt'[m] = cutAt[m]
    PROVE  Queue(v)'
  <1>1. \A i \in 1..Len(wIn[v]) : wIn[v][i] \in Items /\ Ahead(v, wIn[v][i])
    BY StageNumbers DEF Queue
  <1>2. \A x \in Items : Ahead(v, x) => Ahead(v, x)'
    <2> SUFFICES ASSUME NEW x \in Items, Ahead(v, x) PROVE Ahead(v, x)'
      OBVIOUS
    <2>1. CASE x.kind = "marker"
      BY <2>1 DEF Ahead
    <2>2. CASE x.kind = "data"
      <3>1. \A m \in 1..seen[v] : m \in Markers /\ m <= Sent(v)
        BY StageNumbers DEF Queue, Markers, Sent
      <3>2. x.n \in Nat /\ x.n <= routed'
        BY <2>2, ItemFacts, StageNumbers DEF Ahead
      <3>3. QED
        BY <2>2, <3>1, <3>2 DEF Ahead
    <2>3. QED
      BY <2>1, <2>2 DEF Ahead
  <1>3. \A x \in Items, y \in Items : Ahead(v, x) /\ Ahead(v, y) /\ InOrder(x, y) => InOrder(x, y)'
    <2>1. \A x \in Items : x.kind = "marker" /\ Ahead(v, x) => cutAt'[x.epoch] = cutAt[x.epoch]
      BY ItemFacts DEF Ahead
    <2>2. QED
      BY <2>1 DEF InOrder
  <1>4. \A m : Marker(m)' = Marker(m)
    BY DEF Marker
  <1>5. \A i \in 1..Len(wIn'[v]) : Ahead(v, wIn[v][i])'
    BY <1>1, <1>2
  <1>6. \A i \in 1..Len(wIn'[v]), j \in 1..Len(wIn'[v]) : i < j => InOrder(wIn[v][i], wIn[v][j])'
    BY <1>1, <1>3 DEF Queue
  <1>7. \A m \in Markers : seen'[v] < m /\ m <= Sent(v)' => \E i \in 1..Len(wIn'[v]) : wIn'[v][i] = Marker(m)
    BY DEF Queue
  <1>8. QED
    BY <1>4, <1>5, <1>6, <1>7 DEF Queue, Markers

\* The router sends x to worker v.
LEMMA QueueSends ==
    ASSUME TypeOK, NEW v \in Workers, Queue(v), NEW x \in Items, wIn'[v] = Append(wIn[v], x),
           UNCHANGED <<seen, cutAt, round>>, routed' \in Nat, routed <= routed',
           Sent(v)' \in Int, Sent(v) <= Sent(v)',
           \A m \in Markers : Sent(v) < m /\ m <= Sent(v)' => x = Marker(m),
           Ahead(v, x)', \A i \in 1..Len(wIn[v]) : InOrder(wIn[v][i], x)
    PROVE  Queue(v)'
  <1> DEFINE q == wIn[v]
  <1>1. /\ Len(wIn'[v]) = Len(q) + 1 /\ Len(q) \in Nat
        /\ \A i \in 1..Len(q) : wIn'[v][i] = q[i]
        /\ wIn'[v][Len(q) + 1] = x
        /\ \A i \in 1..(Len(q) + 1) : i \in 1..Len(q) \/ i = Len(q) + 1
    BY StageNumbers, Sends
  <1>2. \A i \in 1..Len(q) : q[i] \in Items /\ Ahead(v, q[i])
    BY StageNumbers DEF Queue
  <1>3. \A y \in Items : Ahead(v, y) => Ahead(v, y)'
    <2> SUFFICES ASSUME NEW y \in Items, Ahead(v, y) PROVE Ahead(v, y)'
      OBVIOUS
    <2>1. Sent(v) \in Int /\ y.epoch \in Nat /\ (y.kind = "data" => y.n \in Nat) /\ routed \in Nat
      BY StageNumbers, ItemFacts DEF Sent
    <2>2. QED
      BY <2>1 DEF Ahead
  <1>4. \A y, z : InOrder(y, z) => InOrder(y, z)'
    BY DEF InOrder
  <1>5. \A m : Marker(m)' = Marker(m)
    BY DEF Marker
  <1>6. ASSUME NEW i \in 1..Len(wIn'[v]) PROVE Ahead(v, wIn[v][i])'
    <2>1. CASE i \in 1..Len(q)
      BY <1>1, <1>2, <1>3, <2>1
    <2>2. CASE i = Len(q) + 1
      BY <1>1, <2>2
    <2>3. QED
      BY <1>1, <2>1, <2>2
  <1>7. ASSUME NEW i \in 1..Len(wIn'[v]), NEW j \in 1..Len(wIn'[v]), i < j
        PROVE  InOrder(wIn[v][i], wIn[v][j])'
    <2>1. i \in 1..Len(q) /\ wIn'[v][i] = q[i]
      BY <1>1, <1>7
    <2>2. CASE j \in 1..Len(q)
      <3>1. InOrder(q[i], q[j]) /\ wIn'[v][j] = q[j]
        BY <1>1, <1>7, <2>1, <2>2 DEF Queue
      <3>2. QED
        BY <1>4, <2>1, <3>1
    <2>3. CASE j = Len(q) + 1
      BY <1>1, <1>4, <2>1, <2>3
    <2>4. QED
      BY <1>1, <2>2, <2>3
  <1>8. ASSUME NEW m \in Markers, seen[v] < m, m <= Sent(v)'
        PROVE  \E i \in 1..Len(wIn'[v]) : wIn'[v][i] = Marker(m)
    <2>1. CASE m <= Sent(v)
      <3>1. PICK i \in 1..Len(q) : q[i] = Marker(m)
        BY <1>8, <2>1 DEF Queue
      <3>2. i \in 1..Len(wIn'[v]) /\ wIn'[v][i] = Marker(m)
        BY <1>1, <3>1
      <3>3. QED
        BY <3>2
    <2>2. CASE Sent(v) < m
      <3>1. x = Marker(m) /\ Len(q) + 1 \in 1..Len(wIn'[v])
        BY <1>1, <1>8, <2>2
      <3>2. QED
        BY <1>1, <3>1
    <2>3. QED
      BY <2>1, <2>2, StageNumbers, SMTT(30) DEF Sent
  <1>9. seen[v] <= Sent(v)'
    BY StageNumbers DEF Queue, Sent
  <1>10. QED
    BY <1>5, <1>6, <1>7, <1>8, <1>9 DEF Queue, Markers

\* Worker v takes the head of its queue; what it has seen grows if that is a marker.
LEMMA QueueReceives ==
    ASSUME TypeOK, NEW v \in Workers, Queue(v), wIn[v] # <<>>, wIn'[v] = Tail(wIn[v]),
           UNCHANGED <<cutAt, round, cast, routed>>,
           seen'[v] = IF Head(wIn[v]).kind = "marker" THEN Head(wIn[v]).epoch ELSE seen[v]
    PROVE  /\ Queue(v)'
           /\ Head(wIn[v]).kind = "marker" => Head(wIn[v]).epoch = seen[v] + 1
  <1> DEFINE q == wIn[v]
             h == q[1]
  <1>1. /\ Tail(q) \in Seq(Items) /\ Len(q) \in Nat /\ Len(q) >= 1 /\ Len(wIn'[v]) = Len(q) - 1
        /\ Head(q) = h /\ h \in Items /\ 1 \in 1..Len(q)
        /\ \A i \in 1..Len(wIn'[v]) : wIn'[v][i] = q[i + 1] /\ i + 1 \in 1..Len(q)
        /\ \A i \in 1..Len(q) : i # 1 => i - 1 \in 1..Len(wIn'[v]) /\ wIn'[v][i - 1] = q[i]
    BY StageNumbers, Receives
  <1>2. \A i \in 1..Len(q) : q[i] \in Items /\ Ahead(v, q[i]) /\ (1 < i => InOrder(h, q[i]))
    BY <1>1, StageNumbers DEF Queue
  <1>3. /\ seen[v] \in Nat /\ Sent(v) \in Int /\ seen[v] <= Sent(v) /\ h.epoch \in Nat
        /\ Sent(v)' = Sent(v) /\ Sent(v) <= MaxMarkers
    BY <1>1, StageNumbers, ItemFacts DEF Queue, Sent
  <1>4. h.kind = "marker" => h.epoch = seen[v] + 1
    <2> SUFFICES ASSUME h.kind = "marker" PROVE h.epoch = seen[v] + 1
      OBVIOUS
    <2>1. seen[v] < h.epoch /\ h.epoch <= Sent(v)
      BY <1>1, <1>2 DEF Ahead
    <2>2. seen[v] + 1 \in Markers /\ seen[v] + 1 <= Sent(v)
      BY <1>3, <2>1, StageAssumption DEF Markers
    <2>3. PICK i \in 1..Len(q) : q[i] = Marker(seen[v] + 1)
      BY <1>3, <2>2 DEF Queue
    <2>4. q[i].kind = "marker" /\ q[i].epoch = seen[v] + 1
      BY <2>3 DEF Marker
    <2>5. CASE i = 1
      BY <2>4, <2>5
    <2>6. CASE 1 < i
      BY <1>2, <1>3, <2>1, <2>4, <2>6 DEF InOrder
    <2>7. QED
      BY <1>1, <2>5, <2>6
  <1>5. seen'[v] <= Sent(v) /\ seen'[v] \in Nat /\ seen[v] <= seen'[v]
    BY <1>1, <1>2, <1>3, <1>4 DEF Ahead
  <1>6. \A i \in 1..Len(q) : 1 < i => \A x : x = q[i] => Ahead(v, x)'
    <2> SUFFICES ASSUME NEW i \in 1..Len(q), 1 < i, NEW x, x = q[i] PROVE Ahead(v, x)'
      OBVIOUS
    <2>1. x \in Items /\ Ahead(v, x) /\ InOrder(h, x) /\ x.epoch \in Nat
      BY <1>2, ItemFacts
    <2>2. CASE h.kind # "marker"
      BY <1>1, <1>3, <2>1, <2>2 DEF Ahead
    <2>3. CASE h.kind = "marker" /\ x.kind = "marker"
      BY <1>1, <1>3, <2>1, <2>3 DEF Ahead, InOrder
    <2>4. CASE h.kind = "marker" /\ x.kind = "data"
      <3>1. \A m \in 1..seen'[v] : m = h.epoch \/ m \in 1..seen[v]
        BY <1>1, <1>3, <1>4, <2>4
      <3>2. QED
        BY <2>1, <2>4, <3>1 DEF Ahead, InOrder
    <2>5. QED
      BY <2>1, <2>2, <2>3, <2>4 DEF Ahead
  <1>7. \A y, z : InOrder(y, z) => InOrder(y, z)'
    BY DEF InOrder
  <1>8. \A m : Marker(m)' = Marker(m)
    BY DEF Marker
  <1>9. ASSUME NEW i \in 1..Len(wIn'[v]) PROVE Ahead(v, wIn[v][i])'
    <2>1. wIn'[v][i] = q[i + 1] /\ i + 1 \in 1..Len(q) /\ 1 < i + 1
      BY <1>1
    <2>2. QED
      BY <1>6, <2>1
  <1>10. ASSUME NEW i \in 1..Len(wIn'[v]), NEW j \in 1..Len(wIn'[v]), i < j
         PROVE  InOrder(wIn[v][i], wIn[v][j])'
    <2>1. /\ wIn'[v][i] = q[i + 1] /\ i + 1 \in 1..Len(q)
          /\ wIn'[v][j] = q[j + 1] /\ j + 1 \in 1..Len(q) /\ i + 1 < j + 1
      BY <1>1, <1>10
    <2>2. InOrder(q[i + 1], q[j + 1])
      BY <2>1 DEF Queue
    <2>3. QED
      BY <1>7, <2>1, <2>2
  <1>11. ASSUME NEW m \in Markers, seen'[v] < m, m <= Sent(v)
         PROVE  \E i \in 1..Len(wIn'[v]) : wIn'[v][i] = Marker(m)
    <2>1. seen[v] < m /\ m \in Nat
      BY <1>3, <1>5, <1>11, StageNumbers
    <2>2. PICK i \in 1..Len(q) : q[i] = Marker(m)
      BY <1>11, <2>1 DEF Queue
    <2>3. i # 1
      <3>1. q[i].kind = "marker" /\ q[i].epoch = m
        BY <2>2 DEF Marker
      <3>2. QED
        BY <1>1, <1>11, <2>1, <3>1
    <2>4. QED
      BY <1>1, <2>2, <2>3
  <1>12. QED
    BY <1>1, <1>3, <1>4, <1>5, <1>8, <1>9, <1>10, <1>11 DEF Queue, Markers

\* The state of a worker whose input is left alone.
LEMMA FoldsKept ==
    ASSUME TypeOK, NEW v \in Workers, Queue(v), Folds(v), folded'[v] = folded[v], seen'[v] = seen[v],
           \A m \in Markers : snap'[m][v] = snap[m][v], routed' \in Nat, routed <= routed',
           UNCHANGED <<round, cutAt>>
    PROVE  Folds(v)'
  <1>1. \A m \in 1..seen[v] : m \in Markers
    BY StageNumbers DEF Queue, Sent, Markers
  <1>2. QED
    BY <1>1, StageNumbers, SMTT(30) DEF Folds

\* A record that is somewhere in the stage stays in it.
LEMMA SomewhereKept ==
    ASSUME InputInv, NEW n \in 1..routed,
           \A v \in Workers : folded[v] \subseteq folded'[v],
           \A v \in Workers : \A i \in 1..Len(wIn[v]) :
             wIn[v][i] = Data(n) =>
                n \in folded'[v] \/ \E j \in 1..Len(wIn'[v]) : wIn'[v][j] = Data(n)
    PROVE  ~Nowhere(n)'
  <1>1. PICK v \in Workers : n \in folded[v] \/ \E i \in 1..Len(wIn[v]) : wIn[v][i] = Data(n)
    BY DEF InputInv, Nowhere
  <1>2. n \in folded'[v] \/ \E j \in 1..Len(wIn'[v]) : wIn'[v][j] = Data(n)
    BY <1>1
  <1>3. QED
    BY <1>2 DEF Nowhere, Data

\* A record is sent behind all markers sent so far (keyed_stage.go Run).
LEMMA InputRoute ==
    ASSUME InputInv, TypeOK', NEW w \in Workers, RouteData(w)
    PROVE  InputInv'
  <1> USE DEF InputInv
  <1>0. PICK d : d = Data(routed + 1)
    OBVIOUS
  <1>1. /\ cast = N + 1 /\ routed' = routed + 1
        /\ wIn'[w] = Append(wIn[w], d) /\ d \in Items /\ d.kind = "data" /\ d.n = routed + 1
        /\ \A v \in Workers : v # w => wIn'[v] = wIn[v]
        /\ UNCHANGED <<round, cast, cutAt, folded, seen, snap>>
    BY <1>0, StageAssumption, ItemFacts DEF RouteData, RouterFree, TypeOK, workerVars, Data
  <1>2. \A v \in Workers : Sent(v) = round /\ Sent(v)' = round
    BY <1>1, StageNumbers DEF Sent
  <1>3. /\ routed \in Nat /\ routed' \in Nat /\ routed <= routed' /\ round \in Nat /\ round \in Int
        /\ \A m \in 1..round : cutAt[m] < routed + 1
    BY <1>1, StageNumbers DEF Cuts
  <1>4. Cuts'
    BY <1>1, StageNumbers DEF Cuts
  <1>5. ASSUME NEW v \in Workers
        PROVE  Queue(v)' /\ Folds(v)'
    <2>1. Folds(v)'
      BY <1>1, <1>3, FoldsKept
    <2>2. CASE v # w
      BY <1>1, <1>2, <1>3, <2>1, <2>2, QueueKept
    <2>3. CASE v = w
      <3>1. seen[w] <= round /\ \A m \in 1..seen[w] : m \in 1..round
        BY <1>2, StageNumbers DEF Queue
      <3>2. Ahead(w, d)'
        BY <1>1, <1>3, <3>1 DEF Ahead
      <3>3. \A i \in 1..Len(wIn[w]) : InOrder(wIn[w][i], d)
        <4> SUFFICES ASSUME NEW i \in 1..Len(wIn[w]) PROVE InOrder(wIn[w][i], d)
          OBVIOUS
        <4>1. wIn[w][i].kind = "marker" => wIn[w][i].epoch \in 1..round
          <5>1. Ahead(w, wIn[w][i]) /\ wIn[w][i].epoch \in Nat /\ seen[w] \in Nat /\ Sent(w) = round
            BY <1>2, StageNumbers DEF Queue
          <5>2. QED
            BY <1>3, <5>1 DEF Ahead
        <4>2. QED
          BY <1>1, <1>3, <4>1 DEF InOrder
      <3>4. /\ Sent(w)' \in Int /\ Sent(w) <= Sent(w)'
            /\ \A m \in Markers : ~(Sent(w) < m /\ m <= Sent(w)')
        BY <1>2, <1>3, StageNumbers
      <3>5. Queue(w)'
        BY <1>1, <1>3, <3>2, <3>3, <3>4, QueueSends
      <3>6. QED
        BY <2>1, <2>3, <3>5
    <2>4. QED
      BY <2>2, <2>3
  <1>6. /\ Len(wIn'[w]) = Len(wIn[w]) + 1 /\ Len(wIn[w]) \in Nat
        /\ \A i \in 1..Len(wIn[w]) : wIn'[w][i] = wIn[w][i] /\ i \in 1..Len(wIn'[w])
        /\ wIn'[w][Len(wIn[w]) + 1] = d /\ Len(wIn[w]) + 1 \in 1..Len(wIn'[w])
    BY <1>1, StageNumbers, Sends
  <1>7. ASSUME NEW n \in 1..routed'
        PROVE  ~Nowhere(n)'
    <2>1. CASE n = routed + 1
      <3>1. d = Data(n)
        BY <1>0, <2>1
      <3>2. \E i \in 1..Len(wIn'[w]) : wIn'[w][i] = Data(n)
        BY <1>6, <3>1
      <3>3. QED
        BY <3>2 DEF Nowhere, Data
    <2>2. CASE n # routed + 1
      <3>1. n \in 1..routed
        BY <1>1, <2>2, StageNumbers
      <3>2. \A v \in Workers : \A i \in 1..Len(wIn[v]) : \E j \in 1..Len(wIn'[v]) : wIn'[v][j] = wIn[v][i]
        BY <1>1, <1>6
      <3>3. QED
        BY <1>1, <3>1, <3>2, SomewhereKept
    <2>3. QED
      BY <2>1, <2>2
  <1>8. QED
    BY <1>4, <1>5, <1>7

\* The cut of a new marker is where the router stands.
LEMMA InputTake ==
    ASSUME InputInv, TypeOK', TakeMarker
    PROVE  InputInv'
  <1> USE DEF InputInv
  <1>1. /\ cast = N + 1 /\ cast' = 1 /\ round' = round + 1 /\ round + 1 \in Markers
        /\ cutAt'[round + 1] = routed
        /\ \A m \in Markers : m # round + 1 => cutAt'[m] = cutAt[m]
        /\ UNCHANGED <<routed, wIn, folded, seen, snap>>
    BY StageAssumption DEF TakeMarker, RouterFree, TypeOK, workerVars, Markers
  <1>2. \A v \in Workers : Sent(v) = round /\ Sent(v)' = round
    <2>1. N \in Nat /\ round \in Nat /\ \A v \in Workers : v \in Nat /\ 1 <= v /\ v <= N
      BY StageNumbers
    <2>2. \A v \in Workers : v < N + 1 /\ ~(v < 1)
      BY <2>1
    <2>3. (round + 1) - 1 = round
      BY <2>1
    <2>4. QED
      BY <1>1, <2>2, <2>3 DEF Sent
  <1>3. routed \in Nat /\ round \in Nat /\ \A m \in 1..(round + 1) : m = round + 1 \/ (m \in 1..round /\ m \in Markers)
    BY StageNumbers
  <1>4. Cuts'
    BY <1>1, <1>3 DEF Cuts
  <1>5. ASSUME NEW v \in Workers
        PROVE  Queue(v)' /\ Folds(v)'
    <2>1. Queue(v)'
      <3>1. \A m \in Markers : m <= Sent(v) => cutAt'[m] = cutAt[m]
        BY <1>1, <1>2, <1>3, StageNumbers
      <3>2. QED
        BY <1>1, <1>2, <1>3, <3>1, QueueKept
    <2>2. Folds(v)'
      <3>1. \A m \in 1..seen[v] : m \in 1..round /\ m \in Markers /\ cutAt'[m] = cutAt[m]
        <4>1. seen[v] \in Nat /\ round \in Nat /\ seen[v] <= round
          BY <1>2, StageNumbers DEF Queue
        <4>2. \A m \in 1..seen[v] : m \in 1..round /\ m # round + 1
          BY <4>1
        <4>3. QED
          BY <1>1, <1>3, <4>2
      <3>2. QED
        BY <1>1, <1>3, <3>1 DEF Folds
    <2>3. QED
      BY <2>1, <2>2
  <1>6. \A n \in 1..routed' : ~Nowhere(n)'
    BY <1>1 DEF Nowhere, Data
  <1>7. QED
    BY <1>4, <1>5, <1>6

\* The marker is sent to the next worker while no record is routed.
LEMMA InputBroadcast ==
    ASSUME InputInv, TypeOK', Broadcast
    PROVE  InputInv'
  <1> USE DEF InputInv
  <1>0. PICK c : c = cast
    OBVIOUS
  <1>1. PICK d : d = Marker(round)
    OBVIOUS
  <1>2. /\ c \in Workers /\ cast' = c + 1 /\ wIn'[c] = Append(wIn[c], d)
        /\ \A v \in Workers : v # c => wIn'[v] = wIn[v]
        /\ UNCHANGED <<routed, round, cutAt, folded, seen, snap>>
    BY <1>0, <1>1 DEF Broadcast, TypeOK, workerVars
  <1>3. round >= 1 /\ cutAt[round] = routed /\ round \in Nat /\ routed \in Nat /\ round \in Markers
    BY <1>0, <1>2, StageNumbers, StageAssumption DEF Cuts, Markers
  <1>4. d \in Items /\ d.kind = "marker" /\ d.epoch = round
    BY <1>1, <1>3, ItemFacts DEF Marker
  <1>5. /\ Sent(c) = round - 1 /\ Sent(c)' = round
        /\ \A v \in Workers : v # c => Sent(v)' = Sent(v)
    BY <1>0, <1>2, StageNumbers DEF Sent
  <1>6. Cuts'
    BY <1>2, <1>3 DEF Cuts
  <1>7. ASSUME NEW v \in Workers
        PROVE  Queue(v)' /\ Folds(v)'
    <2>1. Folds(v)'
      BY <1>2, <1>3, FoldsKept
    <2>2. CASE v # c
      BY <1>2, <1>3, <1>5, <2>1, <2>2, QueueKept
    <2>3. CASE v = c
      <3>1. Ahead(c, d)'
        BY <1>2, <1>3, <1>4, <1>5, StageNumbers DEF Ahead, Queue
      <3>2. \A i \in 1..Len(wIn[c]) : InOrder(wIn[c][i], d)
        <4> SUFFICES ASSUME NEW i \in 1..Len(wIn[c]) PROVE InOrder(wIn[c][i], d)
          OBVIOUS
        <4>1. wIn[c][i].epoch \in Nat /\ Ahead(c, wIn[c][i])
          BY <1>2, StageNumbers DEF Queue
        <4>2. QED
          BY <1>3, <1>4, <1>5, <4>1 DEF InOrder, Ahead
      <3>3. \A m \in Markers : Sent(c) < m /\ m <= Sent(c)' => d = Marker(m)
        BY <1>1, <1>3, <1>5, StageNumbers
      <3>4. Queue(c)'
        BY <1>2, <1>3, <1>4, <1>5, <3>1, <3>2, <3>3, QueueSends
      <3>5. QED
        BY <2>1, <2>3, <3>4
    <2>4. QED
      BY <2>2, <2>3
  <1>8. \A i \in 1..Len(wIn[c]) : wIn'[c][i] = wIn[c][i] /\ i \in 1..Len(wIn'[c])
    BY <1>2, <1>4, StageNumbers, Sends
  <1>9. ASSUME NEW n \in 1..routed'
        PROVE  ~Nowhere(n)'
    <2>1. \A v \in Workers : \A i \in 1..Len(wIn[v]) : \E j \in 1..Len(wIn'[v]) : wIn'[v][j] = wIn[v][i]
      BY <1>2, <1>8
    <2>2. QED
      BY <1>2, <2>1, SomewhereKept
  <1>10. QED
    BY <1>6, <1>7, <1>9

\* A worker folds the record at the head of its queue.
LEMMA InputFold ==
    ASSUME InputInv, TypeOK', NEW w \in Workers, Fold(w)
    PROVE  InputInv'
  <1> USE DEF InputInv
  <1>0. PICK h : h = wIn[w][1]
    OBVIOUS
  <1>1. /\ wIn[w] # <<>> /\ Head(wIn[w]).kind = "data" /\ wIn'[w] = Tail(wIn[w])
        /\ \A v \in Workers : v # w => wIn'[v] = wIn[v] /\ folded'[v] = folded[v]
        /\ folded'[w] = folded[w] \cup {Head(wIn[w]).n}
        /\ UNCHANGED <<routed, round, cast, cutAt, seen, snap>>
    BY DEF Fold, TypeOK, routerVars
  <1>2. /\ Len(wIn[w]) \in Nat /\ 1 \in 1..Len(wIn[w]) /\ Head(wIn[w]) = h
        /\ \A i \in 1..Len(wIn[w]) : i # 1 => i - 1 \in 1..Len(wIn'[w]) /\ wIn'[w][i - 1] = wIn[w][i]
    BY <1>0, <1>1, StageNumbers, Receives, SMTT(30)
  <1>3. /\ h \in Items /\ h.kind = "data" /\ h.n \in Nat /\ h = Data(h.n) /\ h.n <= routed
        /\ \A m \in 1..seen[w] : cutAt[m] < h.n
        /\ \A i \in 1..Len(wIn[w]) : 1 < i => InOrder(h, wIn[w][i])
        /\ routed \in Nat /\ seen[w] \in Nat
    <2>1. h \in Items /\ h.kind = "data"
      BY <1>0, <1>1, <1>2, StageNumbers
    <2>2. Ahead(w, h) /\ \A i \in 1..Len(wIn[w]) : 1 < i => InOrder(h, wIn[w][i])
      BY <1>0, <1>2 DEF Queue
    <2>3. QED
      BY <2>1, <2>2, ItemFacts, StageNumbers DEF Ahead
  <1>4. \A m \in 1..round : seen[w] < m => h.n <= cutAt[m]
    <2> SUFFICES ASSUME NEW m \in 1..round, seen[w] < m PROVE h.n <= cutAt[m]
      OBVIOUS
    <2>1. m \in Markers /\ m \in Nat /\ m <= round
      BY StageNumbers
    <2>2. CASE m <= Sent(w)
      <3>1. PICK i \in 1..Len(wIn[w]) : wIn[w][i] = Marker(m)
        BY <2>1, <2>2 DEF Queue
      <3>2. wIn[w][i].kind = "marker" /\ wIn[w][i].epoch = m
        BY <3>1 DEF Marker
      <3>3. 1 < i
        BY <1>0, <1>3, <3>2
      <3>4. QED
        BY <1>3, <3>2, <3>3 DEF InOrder
    <2>3. CASE ~(m <= Sent(w))
      <3>1. m = round /\ cast \in Workers
        <4>1. cast \in 1..(N + 1) /\ w \in Nat /\ w <= N /\ N \in Nat /\ round \in Nat
          <5>1. cast \in 1..(N + 1)
            BY DEF TypeOK
          <5>2. QED
            BY <5>1, StageNumbers
        <4>2. ~(w < cast) /\ m = round
          BY <2>1, <2>3, <4>1 DEF Sent
        <4>3. QED
          BY <4>1, <4>2 DEF Workers
      <3>2. QED
        BY <1>3, <3>1 DEF Cuts
    <2>4. QED
      BY <2>2, <2>3
  <1>5. ASSUME NEW v \in Workers
        PROVE  Queue(v)' /\ Folds(v)'
    <2>1. CASE v # w
      <3>1. Sent(v)' = Sent(v)
        BY <1>1 DEF Sent
      <3>2. QED
        BY <1>1, <1>3, <2>1, <3>1, QueueKept, FoldsKept
    <2>2. CASE v = w
      <3>1. Queue(w)'
        BY <1>1, QueueReceives
      <3>2. \A m \in 1..seen[w] : {n \in folded'[w] : n <= cutAt[m]} = {n \in folded[w] : n <= cutAt[m]}
        <4>1. \A m \in 1..seen[w] : m \in Markers /\ cutAt[m] \in Nat
          BY StageNumbers DEF Queue, Sent, Markers
        <4>2. \A m \in 1..seen[w] : ~(h.n <= cutAt[m])
          BY <1>3, <4>1
        <4>3. QED
          BY <1>1, <1>2, <4>2
      <3>3. Folds(w)'
        BY <1>1, <1>2, <1>3, <1>4, <3>2 DEF Folds
      <3>4. QED
        BY <2>2, <3>1, <3>3
    <2>3. QED
      BY <2>1, <2>2
  <1>6. Cuts'
    BY <1>1 DEF Cuts
  <1>7. ASSUME NEW n \in 1..routed'
        PROVE  ~Nowhere(n)'
    <2>1. \A v \in Workers : \A i \in 1..Len(wIn[v]) :
            wIn[v][i] = Data(n) =>
              n \in folded'[v] \/ \E j \in 1..Len(wIn'[v]) : wIn'[v][j] = Data(n)
      <3> SUFFICES ASSUME NEW v \in Workers, NEW i \in 1..Len(wIn[v]), wIn[v][i] = Data(n)
                   PROVE  n \in folded'[v] \/ \E j \in 1..Len(wIn'[v]) : wIn'[v][j] = Data(n)
        OBVIOUS
      <3>1. CASE v # w
        BY <1>1, <3>1
      <3>2. CASE v = w /\ i = 1
        <4>1. h = Data(n)
          BY <1>0, <3>2
        <4>2. h.n = n
          BY <4>1 DEF Data
        <4>3. QED
          BY <1>1, <1>2, <3>2, <4>2
      <3>3. CASE v = w /\ i # 1
        BY <1>2, <3>3
      <3>4. QED
        BY <3>1, <3>2, <3>3
    <2>2. QED
      BY <1>1, <2>1, SomewhereKept
  <1>8. QED
    BY <1>5, <1>6, <1>7

\* A worker snapshots its state when the marker at the head of its queue passes.
LEMMA InputSnapshot ==
    ASSUME InputInv, TypeOK', NEW w \in Workers, Mark(w)
    PROVE  InputInv' /\ Head(wIn[w]).epoch = seen[w] + 1
  <1> USE DEF InputInv
  <1>0. PICK h : h = wIn[w][1]
    OBVIOUS
  <1>1. /\ wIn[w] # <<>> /\ Head(wIn[w]).kind = "marker" /\ wIn'[w] = Tail(wIn[w])
        /\ \A v \in Workers : v # w => wIn'[v] = wIn[v] /\ seen'[v] = seen[v]
        /\ seen'[w] = Head(wIn[w]).epoch
        /\ UNCHANGED <<routed, round, cast, cutAt, folded>>
    BY DEF Mark, TypeOK, routerVars
  <1>2. /\ Len(wIn[w]) \in Nat /\ 1 \in 1..Len(wIn[w]) /\ Head(wIn[w]) = h
        /\ \A i \in 1..Len(wIn[w]) : i # 1 => i - 1 \in 1..Len(wIn'[w]) /\ wIn'[w][i - 1] = wIn[w][i]
    BY <1>0, <1>1, StageNumbers, Receives
  <1>3. Queue(w)' /\ h.epoch = seen[w] + 1
    BY <1>1, <1>2, QueueReceives
  <1>4. /\ h \in Items /\ h.kind = "marker" /\ h.epoch \in Markers /\ h.epoch <= Sent(w)
        /\ seen[w] \in Nat /\ routed \in Nat
    <2>1. h \in Items /\ h.kind = "marker" /\ Ahead(w, h)
      BY <1>0, <1>1, <1>2, StageNumbers DEF Queue
    <2>2. QED
      BY <2>1, ItemFacts, StageNumbers DEF Ahead
  <1>5. /\ snap'[h.epoch][w] = folded[w]
        /\ \A m \in Markers : m # h.epoch => snap'[m][w] = snap[m][w]
        /\ \A m \in Markers, v \in Workers : v # w => snap'[m][v] = snap[m][v]
    BY <1>2, <1>4, ZenonT(60) DEF Mark, TypeOK, Snapshot
  <1>6. \A n \in folded[w] : n <= cutAt[h.epoch]
    <2>1. h.epoch \in 1..round /\ seen[w] < h.epoch
      BY <1>3, <1>4, StageNumbers DEF Sent
    <2>2. QED
      BY <2>1 DEF Folds
  <1>7. ASSUME NEW v \in Workers
        PROVE  Queue(v)' /\ Folds(v)'
    <2>1. CASE v # w
      <3>1. Sent(v)' = Sent(v)
        BY <1>1 DEF Sent
      <3>2. QED
        BY <1>1, <1>4, <1>5, <2>1, <3>1, QueueKept, FoldsKept
    <2>2. CASE v = w
      <3>1. \A m \in 1..seen'[w] : m = h.epoch \/ (m \in 1..seen[w] /\ m \in Markers /\ m # h.epoch)
        <4>1. seen'[w] = seen[w] + 1 /\ seen[w] \in Nat /\ seen[w] <= MaxMarkers /\ h.epoch = seen[w] + 1
          BY <1>1, <1>2, <1>3, StageNumbers
        <4>2. QED
          BY <4>1, StageAssumption DEF Markers
      <3>2. \A m \in 1..seen'[w] : snap'[m][w] = {n \in folded[w] : n <= cutAt[m]}
        BY <1>5, <1>6, <3>1 DEF Folds
      <3>3. \A m \in 1..round : seen'[w] < m => seen[w] < m
        BY <1>1, <1>2, <1>3, <1>4, StageNumbers
      <3>4. Folds(w)'
        BY <1>1, <3>2, <3>3 DEF Folds
      <3>5. QED
        BY <1>3, <2>2, <3>4
    <2>3. QED
      BY <2>1, <2>2
  <1>8. Cuts'
    BY <1>1 DEF Cuts
  <1>9. ASSUME NEW n \in 1..routed'
        PROVE  ~Nowhere(n)'
    <2>1. \A v \in Workers : \A i \in 1..Len(wIn[v]) :
            wIn[v][i] = Data(n) => \E j \in 1..Len(wIn'[v]) : wIn'[v][j] = Data(n)
      <3>1. wIn[w][1] # Data(n)
        BY <1>0, <1>4 DEF Data
      <3>2. ASSUME NEW v \in Workers, NEW i \in 1..Len(wIn[v]), wIn[v][i] = Data(n)
            PROVE  \E j \in 1..Len(wIn'[v]) : wIn'[v][j] = Data(n)
        <4>1. CASE v # w
          BY <1>1, <3>2, <4>1
        <4>2. CASE v = w
          <5>1. i # 1
            BY <3>1, <3>2, <4>2
          <5>2. i - 1 \in 1..Len(wIn'[v]) /\ wIn'[v][i - 1] = Data(n)
            BY <1>2, <3>2, <4>2, <5>1
          <5>3. QED
            BY <5>2
        <4>3. QED
          BY <4>1, <4>2
      <3>3. QED
        BY <3>2
    <2>2. QED
      BY <1>1, <2>1, SomewhereKept
  <1>10. QED
    BY <1>2, <1>3, <1>7, <1>8, <1>9

\* Every step of the stage keeps the input side consistent.
LEMMA InputStep ==
    ASSUME InputInv, [Next]_vars
    PROVE  InputInv'
  <1>1. TypeOK'
    BY TypeStep DEF TypeInv, InputInv, Cuts
  <1>2. CASE UNCHANGED <<routed, round, cast, cutAt, wIn, folded, seen, snap>>
    BY <1>1, <1>2, InputFrame
  <1>3. CASE TakeMarker \/ Broadcast
    BY <1>1, <1>3, InputTake, InputBroadcast
  <1>4. ASSUME NEW w \in Workers, RouteData(w) \/ Fold(w) \/ Mark(w)
        PROVE  InputInv'
    BY <1>1, <1>4, InputRoute, InputFold, InputSnapshot
  <1>5. QED
    BY <1>2, <1>3, <1>4
    DEF Next, Router, Worker, Reader, Merge, vars, routerVars, workerVars, mergeVars, RouterClose,
        RouterCancel, WorkerData, WorkerMarker, WorkerClose, WorkerIdle, WorkerFails, LaterFails,
        StuckTakes, StuckEnds, WorkerCancel, ReaderForward,
        ReaderResume, ReaderCancel, ReaderDrain, ReaderEnd, MergeData, MergeMarker, MergeResume,
        MergeEnd, MergeCancel, HardCancel

-----------------------------------------------------------------------------
(* The output side is consistent.                                          *)

\* The markers among the items emitted so far, one more item emitted.
LEMMA EmittedGrows ==
    ASSUME TypeOK, NEW x \in Items, out' = Append(out, x)
    PROVE  /\ Emitted \in Nat /\ Len(out) \in Nat /\ Len(out') = Len(out) + 1
           /\ \A i \in 1..Len(out) : out'[i] = out[i]
           /\ out'[Len(out) + 1] = x
           /\ \A k \in 0..Len(out) : MarkersEmitted(k)' = MarkersEmitted(k)
           /\ Emitted' = Emitted + (IF x.kind = "marker" THEN 1 ELSE 0)
  <1> DEFINE S(k) == {i \in 1..k : out[i].kind = "marker"}
             T(k) == {i \in 1..k : out'[i].kind = "marker"}
             l == Len(out)
  <1>1. /\ l \in Nat /\ Len(out') = l + 1 /\ out'[l + 1] = x
        /\ \A i \in 1..l : out'[i] = out[i]
        /\ \A i \in 1..(l + 1) : i \in 1..l \/ i = l + 1
    BY Sends DEF TypeOK
  <1>2. IsFiniteSet(S(l)) /\ Cardinality(S(l)) \in Nat
    <2>1. IsFiniteSet(1..l)
      BY <1>1, FS_Interval
    <2>2. QED
      BY <2>1, FS_Subset, FS_CardinalityType
  <1>3. \A k \in 0..l : T(k) = S(k)
    BY <1>1
  <1>4. \A k \in 0..l : MarkersEmitted(k)' = MarkersEmitted(k)
    BY <1>3 DEF MarkersEmitted
  <1>5. Emitted' = Cardinality(T(l + 1)) /\ Emitted = Cardinality(S(l))
    BY <1>1 DEF Emitted, MarkersEmitted
  <1>6. CASE x.kind = "marker"
    <2>1. T(l + 1) = S(l) \cup {l + 1} /\ l + 1 \notin S(l)
      BY <1>1, <1>6
    <2>2. QED
      BY <1>1, <1>2, <1>4, <1>5, <1>6, <2>1, FS_AddElement, ZenonT(60)
  <1>7. CASE x.kind # "marker"
    <2>1. T(l + 1) = S(l)
      BY <1>1, <1>7
    <2>2. Emitted' = Emitted /\ Emitted \in Nat
      BY <1>2, <1>5, <2>1
    <2>3. QED
      BY <1>1, <1>4, <1>7, <2>2
  <1>8. QED
    BY <1>6, <1>7

\* The number of emitted markers is one, and does not depend on anything but out.
LEMMA EmittedKept ==
    ASSUME TypeOK
    PROVE  /\ Emitted \in Nat
           /\ out' = out => Emitted' = Emitted /\ (NoOvertaking /\ Left => NoOvertaking' /\ Left')
  <1>1. Len(out) \in Nat
    BY DEF TypeOK
  <1>2. Emitted \in Nat
    <2>1. IsFiniteSet(1..Len(out))
      BY <1>1, FS_Interval
    <2>2. QED
      BY <2>1, FS_Subset, FS_CardinalityType DEF Emitted, MarkersEmitted
  <1>3. QED
    BY <1>2 DEF Emitted, MarkersEmitted, NoOvertaking, Left

\* One more item at the end of a chain.
LEMMA ChainSends ==
    ASSUME NEW s \in Seq(Items), NEW a \in Nat, NEW b \in Nat, NEW x \in Items, Chain(s, a, b),
           x.epoch = b + (IF x.kind = "marker" THEN 1 ELSE 0)
    PROVE  Chain(Append(s, x), a, x.epoch)
  <1> DEFINE t == Append(s, x)
  <1>1. /\ Len(s) \in Nat /\ Len(t) = Len(s) + 1 /\ t[Len(s) + 1] = x
        /\ \A i \in 1..Len(s) : t[i] = s[i]
        /\ \A i \in 1..(Len(s) + 1) : i \in 1..Len(s) \/ i = Len(s) + 1
    BY Sends
  <1>2. x.epoch \in Nat /\ b <= x.epoch /\ \A i \in 1..Len(s) : s[i] \in Items /\ s[i].epoch \in Nat
    BY ItemFacts, ElementOfSeq
  <1>3. ASSUME NEW i \in 1..Len(t)
        PROVE  /\ t[i].epoch <= x.epoch
               /\ t[i].epoch = (IF i = 1 THEN a ELSE t[i - 1].epoch)
                                  + (IF t[i].kind = "marker" THEN 1 ELSE 0)
    <2>1. CASE i \in 1..Len(s)
      <3>1. i # 1 => i - 1 \in 1..Len(s) /\ t[i - 1] = s[i - 1]
        BY <1>1, <2>1
      <3>2. t[i] = s[i] /\ s[i].epoch <= b
        BY <1>1, <2>1 DEF Chain
      <3>3. QED
        BY <1>2, <2>1, <3>1, <3>2, SMTT(30) DEF Chain
    <2>2. CASE i = Len(s) + 1
      <3>1. i # 1 => i - 1 = Len(s) /\ Len(s) \in 1..Len(s) /\ t[i - 1] = s[Len(s)]
        BY <1>1, <2>2
      <3>2. i = 1 <=> Len(s) = 0
        BY <1>1, <2>2
      <3>3. b = IF i = 1 THEN a ELSE t[i - 1].epoch
        BY <3>1, <3>2 DEF Chain
      <3>4. QED
        BY <1>1, <1>2, <2>2, <3>3
    <2>3. QED
      BY <1>1, <2>1, <2>2
  <1>4. x.epoch = IF Len(t) = 0 THEN a ELSE t[Len(t)].epoch
    BY <1>1
  <1>5. QED
    BY <1>3, <1>4 DEF Chain

\* The first item of a chain is taken.
LEMMA ChainReceives ==
    ASSUME NEW s \in Seq(Items), NEW a \in Nat, NEW b \in Nat, s # <<>>, Chain(s, a, b)
    PROVE  /\ Chain(Tail(s), Head(s).epoch, b)
           /\ Head(s).epoch = a + (IF Head(s).kind = "marker" THEN 1 ELSE 0)
           /\ Head(s).epoch <= b
  <1>0. PICK t : t = Tail(s)
    OBVIOUS
  <1>1. /\ Len(s) \in Nat /\ Len(s) >= 1 /\ Len(t) = Len(s) - 1 /\ Head(s) = s[1] /\ 1 \in 1..Len(s)
        /\ \A i \in 1..Len(t) : t[i] = s[i + 1] /\ i + 1 \in 1..Len(s)
    BY <1>0, Receives
  <1>2. ASSUME NEW i \in 1..Len(t)
        PROVE  /\ t[i].epoch <= b
               /\ t[i].epoch = (IF i = 1 THEN s[1].epoch ELSE t[i - 1].epoch)
                                  + (IF t[i].kind = "marker" THEN 1 ELSE 0)
    <2>1. i \in Nat /\ i >= 1 /\ t[i] = s[i + 1] /\ i + 1 \in 1..Len(s) /\ i + 1 # 1 /\ (i + 1) - 1 = i
      BY <1>1
    <2>2. /\ s[i + 1].epoch <= b
          /\ s[i + 1].epoch = s[i].epoch + (IF s[i + 1].kind = "marker" THEN 1 ELSE 0)
      BY <2>1 DEF Chain
    <2>3. i # 1 => i - 1 \in 1..Len(t) /\ t[i - 1] = s[(i - 1) + 1] /\ (i - 1) + 1 = i
      BY <1>1, <2>1
    <2>4. QED
      BY <2>1, <2>2, <2>3
  <1>3. b = IF Len(t) = 0 THEN s[1].epoch ELSE t[Len(t)].epoch
    <2>1. b = s[Len(s)].epoch
      BY <1>1 DEF Chain
    <2>2. CASE Len(t) = 0
      <3>1. Len(s) = 1
        BY <1>1, <2>2
      <3>2. b = s[1].epoch
        BY <2>1, <3>1
      <3>3. QED
        BY <2>2, <3>2
    <2>3. CASE Len(t) # 0
      <3>1. Len(t) \in 1..Len(t) /\ Len(t) + 1 = Len(s)
        BY <1>1, <2>3
      <3>2. QED
        BY <1>1, <2>1, <2>3, <3>1
    <2>4. QED
      BY <2>2, <2>3
  <1>4. Chain(t, Head(s).epoch, b)
    BY <1>1, <1>2, <1>3 DEF Chain
  <1>5. QED
    BY <1>0, <1>1, <1>4 DEF Chain

\* A reader whose worker's side of the stage does not change.
LEMMA AtKept ==
    ASSUME NEW D, NEW w \in Workers, At(D, w), Emitted' = Emitted,
           reader'[w] = reader[w], wOut'[w] = wOut[w], passed'[w] = passed[w],
           w \in resume' => w \in resume, w \in toResume' => w \in toResume
    PROVE  At(D, w)'
  BY DEF At

\* What the merge has in hand does not change.
LEMMA WaitingKept ==
    ASSUME NEW D, NEW A, NEW O, Waiting(D, A, O), Emitted' = Emitted, UNCHANGED <<fanIn, arrived>>
    PROVE  Waiting(D, A, O)'
  BY DEF Waiting

\* Steps that touch nothing on the output side.
LEMMA MergeFrame ==
    ASSUME TypeOK, MergeInv, UNCHANGED <<out, reader, resume, toResume, fanIn, arrived, wOut, passed>>
    PROVE  MergeInv'
  <1>1. NoOvertaking' /\ Left' /\ Emitted' = Emitted
    BY EmittedKept DEF MergeInv
  <1>2. PICK D \in [Workers -> 0..MaxMarkers], A \in SUBSET Workers, O \in [1..Len(fanIn) -> Workers] :
          Readers(D) /\ Waiting(D, A, O)
    BY DEF MergeInv
  <1>3. Readers(D)'
    BY <1>1, <1>2, AtKept DEF Readers
  <1>4. Waiting(D, A, O)'
    BY <1>1, <1>2, WaitingKept
  <1>5. QED
    BY <1>1, <1>3, <1>4 DEF MergeInv

\* A worker sends one more item: a result of its current epoch, or the next marker.
LEMMA MergeSends ==
    ASSUME TypeOK, TypeOK', MergeInv, NEW w \in Workers, NEW x \in Items,
           x.epoch = passed[w] + (IF x.kind = "marker" THEN 1 ELSE 0), passed'[w] = x.epoch,
           wOut'[w] = Append(wOut[w], x),
           \A v \in Workers : v # w => wOut'[v] = wOut[v] /\ passed'[v] = passed[v],
           UNCHANGED <<out, reader, resume, toResume, fanIn, arrived>>
    PROVE  MergeInv'
  <1>1. NoOvertaking' /\ Left' /\ Emitted' = Emitted /\ Emitted \in Nat
    BY EmittedKept DEF MergeInv
  <1>2. PICK D \in [Workers -> 0..MaxMarkers], A \in SUBSET Workers, O \in [1..Len(fanIn) -> Workers] :
          Readers(D) /\ Waiting(D, A, O)
    BY DEF MergeInv
  <1>3. D[w] \in Nat /\ passed[w] \in Nat /\ wOut[w] \in Seq(Items) /\ x.epoch \in Nat /\ passed[w] <= x.epoch
    BY StageNumbers, StageAssumption, ItemFacts
  <1>4. At(D, w)'
    <2>1. Chain(wOut[w], D[w], passed[w]) => Chain(wOut'[w], D[w], passed'[w])
      BY <1>3, ChainSends
    <2>2. D[w] <= passed[w] => D[w] <= passed'[w]
      BY <1>3
    <2>3. QED
      BY <1>1, <1>2, <2>1, <2>2 DEF Readers, At
  <1>5. Readers(D)'
    <2>1. \A v \in Workers : v # w => At(D, v)'
      BY <1>1, <1>2, AtKept DEF Readers
    <2>2. QED
      BY <1>2, <1>4, <2>1 DEF Readers
  <1>6. Waiting(D, A, O)'
    BY <1>1, <1>2, WaitingKept
  <1>7. QED
    BY <1>1, <1>5, <1>6 DEF MergeInv

\* A reader stops reading for good.
LEMMA MergeReaderStops ==
    ASSUME TypeOK, MergeInv, NEW w \in Workers, reader'[w] \in {"drain", "done"},
           \A v \in Workers : v # w => wOut'[v] = wOut[v] /\ reader'[v] = reader[v],
           UNCHANGED <<out, passed, resume, toResume, fanIn, arrived>>
    PROVE  MergeInv'
  <1>1. NoOvertaking' /\ Left' /\ Emitted' = Emitted
    BY EmittedKept DEF MergeInv
  <1>2. PICK D \in [Workers -> 0..MaxMarkers], A \in SUBSET Workers, O \in [1..Len(fanIn) -> Workers] :
          Readers(D) /\ Waiting(D, A, O)
    BY DEF MergeInv
  <1>3. At(D, w)'
    BY <1>1, <1>2 DEF Readers, At
  <1>4. \A v \in Workers : v # w => At(D, v)'
    BY <1>1, <1>2, AtKept DEF Readers
  <1>5. Readers(D)'
    BY <1>2, <1>3, <1>4 DEF Readers
  <1>6. Waiting(D, A, O)'
    BY <1>1, <1>2, WaitingKept
  <1>7. QED
    BY <1>1, <1>5, <1>6 DEF MergeInv

\* A parked reader takes its token: its marker has left the stage.
LEMMA MergeReaderResumes ==
    ASSUME TypeOK, MergeInv, NEW w \in Workers, ReaderResume(w)
    PROVE  MergeInv'
  <1>1. /\ reader[w] = "parked" /\ w \in resume /\ resume' = resume \ {w} /\ reader'[w] = "read"
        /\ \A v \in Workers : v # w => reader'[v] = reader[v]
        /\ UNCHANGED <<out, passed, wOut, toResume, fanIn, arrived>>
    BY DEF ReaderResume, TypeOK, workerVars, mergeVars, chainVars
  <1>2. NoOvertaking' /\ Left' /\ Emitted' = Emitted /\ Emitted \in Nat
    BY <1>1, EmittedKept DEF MergeInv
  <1>3. PICK D \in [Workers -> 0..MaxMarkers], A \in SUBSET Workers, O \in [1..Len(fanIn) -> Workers] :
          Readers(D) /\ Waiting(D, A, O)
    BY DEF MergeInv
  <1>4. At(D, w) /\ w \notin toResume
    BY <1>1, <1>3 DEF Readers
  <1>5. D[w] = Emitted /\ Emitted # Emitted + 1
    BY <1>1, <1>2, <1>4 DEF At
  <1>6. At(D, w)'
    BY <1>1, <1>2, <1>4, <1>5 DEF At
  <1>7. \A v \in Workers : v # w => At(D, v)'
    BY <1>1, <1>2, <1>3, AtKept DEF Readers
  <1>8. Readers(D)'
    BY <1>1, <1>3, <1>6, <1>7 DEF Readers
  <1>9. Waiting(D, A, O)'
    BY <1>1, <1>2, <1>3, WaitingKept
  <1>10. QED
    BY <1>1, <1>2, <1>8, <1>9 DEF MergeInv

\* The merge hands out one more token.
LEMMA MergeHandsOut ==
    ASSUME TypeOK, MergeInv, MergeResume
    PROVE  MergeInv'
  <1>1. PICK w \in toResume : resume' = resume \cup {w} /\ toResume' = toResume \ {w}
    BY DEF MergeResume, Resumed
  <1>2. w \in Workers /\ UNCHANGED <<out, passed, wOut, reader, fanIn, arrived>>
    BY DEF MergeResume, TypeOK, workerVars, chainVars
  <1>3. NoOvertaking' /\ Left' /\ Emitted' = Emitted
    BY <1>2, EmittedKept DEF MergeInv
  <1>4. PICK D \in [Workers -> 0..MaxMarkers], A \in SUBSET Workers, O \in [1..Len(fanIn) -> Workers] :
          Readers(D) /\ Waiting(D, A, O)
    BY DEF MergeInv
  <1>5. At(D, w)'
    BY <1>1, <1>2, <1>3, <1>4 DEF Readers, At
  <1>6. \A v \in Workers : v # w => At(D, v)'
    <2> SUFFICES ASSUME NEW v \in Workers, v # w PROVE At(D, v)'
      OBVIOUS
    <2>1. (v \in resume' => v \in resume) /\ (v \in toResume' => v \in toResume)
      BY <1>1
    <2>2. QED
      BY <1>2, <1>3, <1>4, <2>1, AtKept DEF Readers
  <1>7. Readers(D)'
    BY <1>1, <1>4, <1>5, <1>6 DEF Readers
  <1>8. Waiting(D, A, O)'
    BY <1>2, <1>3, <1>4, WaitingKept
  <1>9. QED
    BY <1>2, <1>3, <1>7, <1>8 DEF MergeInv

\* A reader hands one item on: all of its earlier markers have left the stage.
LEMMA MergeReaderForwards ==
    ASSUME TypeOK, MergeInv, NEW w \in Workers, ReaderForward(w)
    PROVE  MergeInv'
  <1>0. PICK h : h = Head(wOut[w])
    OBVIOUS
  <1>1. /\ reader[w] = "read" /\ wOut[w] # <<>> /\ fanIn' = Append(fanIn, h) /\ wOut'[w] = Tail(wOut[w])
        /\ reader'[w] = (IF h.kind = "marker" THEN "parked" ELSE "read")
        /\ \A v \in Workers : v # w => reader'[v] = reader[v] /\ wOut'[v] = wOut[v]
        /\ UNCHANGED <<out, passed, resume, toResume, arrived>>
    BY <1>0 DEF ReaderForward, AfterForward, TypeOK, workerVars, mergeVars, chainVars
  <1>2. NoOvertaking' /\ Left' /\ Emitted' = Emitted /\ Emitted \in Nat
    BY <1>1, EmittedKept DEF MergeInv
  <1>3. PICK D \in [Workers -> 0..MaxMarkers], A \in SUBSET Workers, O \in [1..Len(fanIn) -> Workers] :
          Readers(D) /\ Waiting(D, A, O)
    BY DEF MergeInv
  <1>4. /\ D[w] = Emitted /\ w \notin resume /\ w \notin toResume /\ w \notin A
        /\ Chain(wOut[w], Emitted, passed[w])
    <2>1. At(D, w)
      BY <1>3 DEF Readers
    <2>2. D[w] = Emitted
      BY <1>1, <2>1 DEF At
    <2>3. Emitted # Emitted + 1
      BY <1>2
    <2>4. w \notin A
      BY <1>3, <2>2, <2>3 DEF Waiting, Holds
    <2>5. QED
      BY <1>1, <2>1, <2>2, <2>4 DEF At
  <1>5. /\ h \in Items /\ h.epoch = Emitted + (IF h.kind = "marker" THEN 1 ELSE 0)
        /\ h.epoch <= passed[w] /\ h.epoch \in 0..MaxMarkers /\ Chain(Tail(wOut[w]), h.epoch, passed[w])
    BY <1>0, <1>1, <1>2, <1>4, StageNumbers, Receives, ChainReceives, ItemFacts
  <1>6. PICK B \in [Workers -> 0..MaxMarkers] : B[w] = h.epoch /\ \A v \in Workers : v # w => B[v] = D[v]
    <2> DEFINE B == [D EXCEPT ![w] = h.epoch]
    <2>1. B \in [Workers -> 0..MaxMarkers] /\ B[w] = h.epoch /\ \A v \in Workers : v # w => B[v] = D[v]
      BY <1>5
    <2>2. QED
      BY <2>1
  <1>7. /\ Len(fanIn) \in Nat /\ Len(fanIn') = Len(fanIn) + 1 /\ fanIn'[Len(fanIn) + 1] = h
        /\ \A i \in 1..Len(fanIn) : fanIn'[i] = fanIn[i]
        /\ \A i \in 1..(Len(fanIn) + 1) : i \in 1..Len(fanIn) \/ i = Len(fanIn) + 1
    <2>1. fanIn \in Seq(Items)
      BY DEF TypeOK
    <2>2. QED
      BY <1>1, <1>5, <2>1, Sends
  <1>8. PICK P \in [1..Len(fanIn') -> Workers] :
          P[Len(fanIn) + 1] = w /\ \A i \in 1..Len(fanIn) : P[i] = O[i]
    <2> DEFINE P == [i \in 1..(Len(fanIn) + 1) |-> IF i = Len(fanIn) + 1 THEN w ELSE O[i]]
    <2>1. P \in [1..(Len(fanIn) + 1) -> Workers]
      BY <1>7
    <2>2. P[Len(fanIn) + 1] = w /\ \A i \in 1..Len(fanIn) : P[i] = O[i]
      BY <1>7
    <2>3. QED
      BY <1>7, <2>1, <2>2
  <1>9. Readers(B)'
    <2>1. At(B, w)'
      BY <1>1, <1>2, <1>4, <1>5, <1>6 DEF At
    <2>2. \A v \in Workers : v # w => At(B, v)'
      BY <1>1, <1>2, <1>3, <1>6 DEF Readers, At
    <2>3. QED
      BY <1>1, <1>3, <2>1, <2>2 DEF Readers
  <1>10. Waiting(B, A, P)'
    <2>1. /\ Cardinality(A) = arrived'
          /\ \A v \in A : B[v] = Emitted + 1
      BY <1>1, <1>3, <1>4, <1>6 DEF Waiting, Holds
    <2>2. ASSUME NEW i \in 1..Len(fanIn), fanIn[i].kind = "marker"
          PROVE  fanIn[i].epoch = Emitted + 1 /\ O[i] \notin A /\ B[O[i]] = Emitted + 1 /\ O[i] # w
      <3>1. fanIn[i].epoch = Emitted + 1 /\ O[i] \notin A /\ D[O[i]] = Emitted + 1
        BY <1>3, <2>2 DEF Waiting, Holds
      <3>2. O[i] \in Workers /\ O[i] # w
        BY <1>2, <1>4, <3>1
      <3>3. QED
        BY <1>6, <3>1, <3>2
    <2>3. ASSUME NEW i \in 1..Len(fanIn), fanIn[i].kind # "marker"
          PROVE  /\ fanIn[i].epoch = Emitted
                 /\ \/ B[P[i]] = Emitted
                    \/ \E j \in 1..Len(fanIn') : i < j /\ fanIn'[j].kind = "marker" /\ P[j] = P[i]
      <3>1. /\ fanIn[i].epoch = Emitted
            /\ \/ D[O[i]] = Emitted
               \/ \E j \in 1..Len(fanIn) : i < j /\ fanIn[j].kind = "marker" /\ O[j] = O[i]
        BY <1>3, <2>3 DEF Waiting, Holds
      <3>2. CASE \E j \in 1..Len(fanIn) : i < j /\ fanIn[j].kind = "marker" /\ O[j] = O[i]
        <4>1. PICK j \in 1..Len(fanIn) : i < j /\ fanIn[j].kind = "marker" /\ O[j] = O[i]
          BY <3>2
        <4>2. j \in 1..Len(fanIn') /\ fanIn'[j] = fanIn[j] /\ P[j] = O[j] /\ P[i] = O[i]
          BY <1>7, <1>8
        <4>3. QED
          BY <3>1, <4>1, <4>2
      <3>3. CASE D[O[i]] = Emitted /\ O[i] # w
        BY <1>6, <1>8, <3>1, <3>3
      <3>4. CASE O[i] = w /\ h.kind # "marker"
        <4>1. h.epoch = Emitted
          BY <1>2, <1>5, <3>4
        <4>2. QED
          BY <1>6, <1>8, <3>1, <3>4, <4>1
      <3>5. CASE O[i] = w /\ h.kind = "marker"
        <4>1. i < Len(fanIn) + 1 /\ Len(fanIn) + 1 \in 1..Len(fanIn')
          BY <1>7
        <4>2. QED
          BY <1>7, <1>8, <3>1, <3>5, <4>1
      <3>6. QED
        BY <3>1, <3>2, <3>3, <3>4, <3>5
    <2>4. ASSUME NEW i \in 1..Len(fanIn'), NEW j \in 1..Len(fanIn'), i # j,
                 fanIn'[i].kind = "marker", fanIn'[j].kind = "marker"
          PROVE  P[i] # P[j]
      <3>1. \A k \in 1..Len(fanIn), l \in 1..Len(fanIn) :
              k # l /\ fanIn[k].kind = "marker" /\ fanIn[l].kind = "marker" => O[k] # O[l]
        BY <1>3 DEF Waiting, Holds
      <3>2. i \in 1..Len(fanIn) => fanIn[i].kind = "marker" /\ P[i] = O[i] /\ O[i] # w
        BY <1>7, <1>8, <2>2, <2>4
      <3>3. j \in 1..Len(fanIn) => fanIn[j].kind = "marker" /\ P[j] = O[j] /\ O[j] # w
        BY <1>7, <1>8, <2>2, <2>4
      <3>4. /\ i \in 1..Len(fanIn) \/ i = Len(fanIn) + 1
            /\ j \in 1..Len(fanIn) \/ j = Len(fanIn) + 1
        BY <1>7
      <3>5. QED
        BY <1>8, <2>4, <3>1, <3>2, <3>3, <3>4
    <2>5. ASSUME NEW i \in 1..Len(fanIn')
          PROVE  /\ fanIn'[i].kind = "marker" =>
                      fanIn'[i].epoch = Emitted + 1 /\ P[i] \notin A /\ B[P[i]] = Emitted + 1
                 /\ fanIn'[i].kind # "marker" =>
                      /\ fanIn'[i].epoch = Emitted
                      /\ \/ B[P[i]] = Emitted
                         \/ \E j \in 1..Len(fanIn') : i < j /\ fanIn'[j].kind = "marker" /\ P[j] = P[i]
      <3>1. CASE i \in 1..Len(fanIn)
        BY <1>7, <1>8, <2>2, <2>3, <3>1
      <3>2. CASE i = Len(fanIn) + 1
        <4>1. fanIn'[i] = h /\ P[i] = w /\ P[i] \notin A /\ B[P[i]] = h.epoch
          BY <1>4, <1>6, <1>7, <1>8, <3>2
        <4>2. h.epoch = IF h.kind = "marker" THEN Emitted + 1 ELSE Emitted
          BY <1>2, <1>5
        <4>3. QED
          BY <4>1, <4>2
      <3>3. QED
        BY <1>7, <3>1, <3>2
    <2>6. QED
      BY <1>1, <1>2, <2>1, <2>4, <2>5, SMTT(30) DEF Waiting, Holds
  <1>11. QED
    BY <1>2, <1>9, <1>10 DEF MergeInv

\* The merge takes the first item from fanIn: what it had in hand but for that item.
LEMMA WaitingReceives ==
    ASSUME TypeOK, NEW D, NEW A \in SUBSET Workers, NEW O \in [1..Len(fanIn) -> Workers],
           Waiting(D, A, O), fanIn # <<>>, fanIn' = Tail(fanIn)
    PROVE  /\ Head(fanIn) \in Items /\ Head(fanIn) = fanIn[1] /\ Len(fanIn) \in Nat
           /\ 1 \in 1..Len(fanIn) /\ O[1] \in Workers
           /\ Len(fanIn') = Len(fanIn) - 1
           /\ \E P \in [1..Len(fanIn') -> Workers] :
                /\ Holds(fanIn', D, A, P, Emitted)
                /\ fanIn[1].kind = "marker" =>
                     \A i \in 1..Len(fanIn') : fanIn'[i].kind = "marker" => P[i] # O[1]
  <1>1. /\ Head(fanIn) \in Items /\ Head(fanIn) = fanIn[1] /\ Len(fanIn) \in Nat
        /\ 1 \in 1..Len(fanIn) /\ O[1] \in Workers
        /\ Len(fanIn') = Len(fanIn) - 1
        /\ \A i \in 1..Len(fanIn') : fanIn'[i] = fanIn[i + 1] /\ i + 1 \in 1..Len(fanIn)
        /\ \A i \in 1..Len(fanIn) : i # 1 => i - 1 \in 1..Len(fanIn') /\ fanIn'[i - 1] = fanIn[i]
    <2>1. fanIn \in Seq(Items)
      BY DEF TypeOK
    <2>2. QED
      BY <2>1, Receives
  <1>2. PICK P \in [1..Len(fanIn') -> Workers] : \A i \in 1..Len(fanIn') : P[i] = O[i + 1]
    <2> DEFINE P == [i \in 1..Len(fanIn') |-> O[i + 1]]
    <2>1. P \in [1..Len(fanIn') -> Workers] /\ \A i \in 1..Len(fanIn') : P[i] = O[i + 1]
      BY <1>1
    <2>2. QED
      BY <2>1
  <1>3. ASSUME NEW i \in 1..Len(fanIn')
        PROVE  /\ fanIn'[i].kind = "marker" =>
                    /\ fanIn'[i].epoch = Emitted + 1 /\ P[i] \notin A /\ D[P[i]] = Emitted + 1
                    /\ fanIn[1].kind = "marker" => P[i] # O[1]
               /\ fanIn'[i].kind # "marker" =>
                    /\ fanIn'[i].epoch = Emitted
                    /\ \/ D[P[i]] = Emitted
                       \/ \E j \in 1..Len(fanIn') : i < j /\ fanIn'[j].kind = "marker" /\ P[j] = P[i]
               /\ \A j \in 1..Len(fanIn') :
                    i # j /\ fanIn'[i].kind = "marker" /\ fanIn'[j].kind = "marker" => P[i] # P[j]
    <2>0. PICK k : k = i + 1
      OBVIOUS
    <2>1. /\ k \in 1..Len(fanIn) /\ fanIn'[i] = fanIn[k] /\ P[i] = O[k] /\ 1 # k
          /\ i \in Nat /\ Len(fanIn') \in Nat
      BY <1>1, <1>2, <2>0
    <2>2. \A x \in 1..Len(fanIn) : x # k /\ fanIn[x].kind = "marker" /\ fanIn[k].kind = "marker" => O[x] # O[k]
      BY <2>1 DEF Waiting, Holds
    <2>3. fanIn'[i].kind = "marker" =>
            /\ fanIn'[i].epoch = Emitted + 1 /\ P[i] \notin A /\ D[P[i]] = Emitted + 1
            /\ fanIn[1].kind = "marker" => P[i] # O[1]
      <3>1. fanIn[k].kind = "marker" => fanIn[k].epoch = Emitted + 1 /\ O[k] \notin A /\ D[O[k]] = Emitted + 1
        BY <2>1 DEF Waiting, Holds
      <3>2. QED
        BY <1>1, <2>1, <2>2, <3>1
    <2>4. ASSUME fanIn'[i].kind # "marker"
          PROVE  /\ fanIn'[i].epoch = Emitted
                 /\ \/ D[P[i]] = Emitted
                    \/ \E j \in 1..Len(fanIn') : i < j /\ fanIn'[j].kind = "marker" /\ P[j] = P[i]
      <3>1. /\ fanIn[k].epoch = Emitted
            /\ \/ D[O[k]] = Emitted
               \/ \E j \in 1..Len(fanIn) : k < j /\ fanIn[j].kind = "marker" /\ O[j] = O[k]
        BY <2>1, <2>4 DEF Waiting, Holds
      <3>2. ASSUME NEW j \in 1..Len(fanIn), k < j, fanIn[j].kind = "marker", O[j] = O[k]
            PROVE  \E x \in 1..Len(fanIn') : i < x /\ fanIn'[x].kind = "marker" /\ P[x] = P[i]
        <4>1. j # 1 /\ j - 1 \in 1..Len(fanIn') /\ fanIn'[j - 1] = fanIn[j] /\ i < j - 1 /\ (j - 1) + 1 = j
          BY <1>1, <2>0, <2>1, <3>2
        <4>2. P[j - 1] = O[j]
          BY <1>2, <4>1
        <4>3. QED
          BY <2>1, <3>2, <4>1, <4>2
      <3>3. QED
        BY <2>1, <3>1, <3>2
    <2>5. ASSUME NEW j \in 1..Len(fanIn'), i # j, fanIn'[i].kind = "marker", fanIn'[j].kind = "marker"
          PROVE  P[i] # P[j]
      <3>1. j + 1 \in 1..Len(fanIn) /\ fanIn'[j] = fanIn[j + 1] /\ P[j] = O[j + 1] /\ j + 1 # k
        BY <1>1, <1>2, <2>0, <2>1, <2>5
      <3>2. QED
        BY <2>1, <2>2, <2>5, <3>1
    <2>6. QED
      BY <2>3, <2>4, <2>5
  <1>4. Holds(fanIn', D, A, P, Emitted)
    BY <1>3 DEF Holds
  <1>5. QED
    BY <1>1, <1>2, <1>3, <1>4

\* An item of the next epoch, or of this one, leaves the stage.
LEMMA Leaves ==
    ASSUME TypeOK, NoOvertaking, Left, NEW x \in Items, out' = Append(out, x),
           x.epoch = Emitted + (IF x.kind = "marker" THEN 1 ELSE 0)
    PROVE  NoOvertaking' /\ Left' /\ Emitted' = x.epoch /\ Emitted \in Nat
  <1>0. PICK l : l = Len(out)
    OBVIOUS
  <1>1. /\ Emitted \in Nat /\ l \in Nat /\ Len(out') = l + 1
        /\ \A i \in 1..l : out'[i] = out[i]
        /\ out'[l + 1] = x
        /\ \A k \in 0..l : MarkersEmitted(k)' = MarkersEmitted(k)
    BY <1>0, EmittedGrows
  <1>2. Emitted' = x.epoch
    <2>1. Emitted' = Emitted + (IF x.kind = "marker" THEN 1 ELSE 0)
      BY EmittedGrows
    <2>2. QED
      BY <2>1
  <1>3. DOMAIN out = 1..l /\ DOMAIN out' = 1..(l + 1)
    <2>1. out \in Seq(Items)
      BY DEF TypeOK
    <2>2. out' \in Seq(Items)
      BY <2>1, Sends
    <2>3. QED
      BY <1>0, <1>1, <2>1, <2>2
  <1>4. ASSUME NEW i \in 1..(l + 1)
        PROVE  /\ out'[i].epoch = IF out'[i].kind = "marker" THEN MarkersEmitted(i - 1)' + 1
                                  ELSE MarkersEmitted(i - 1)'
               /\ out'[i].kind = "marker" => 1 <= out'[i].epoch /\ out'[i].epoch <= Emitted'
    <2>1. CASE i \in 1..l
      <3>1. i - 1 \in 0..l
        BY <1>1, <2>1
      <3>2. MarkersEmitted(i - 1)' = MarkersEmitted(i - 1) /\ out'[i] = out[i]
        BY <1>1, <2>1, <3>1
      <3>3. out[i].epoch = IF out[i].kind = "marker" THEN MarkersEmitted(i - 1) + 1
                           ELSE MarkersEmitted(i - 1)
        BY <1>3, <2>1 DEF NoOvertaking
      <3>4. out[i].kind = "marker" => 1 <= out[i].epoch /\ out[i].epoch <= Emitted
        BY <1>0, <2>1 DEF Left
      <3>5. out[i].epoch \in Nat /\ Emitted <= Emitted' /\ Emitted' \in Nat
        <4>1. out \in Seq(Items)
          BY DEF TypeOK
        <4>2. out[i] \in Items
          BY <1>0, <2>1, <4>1, ElementOfSeq
        <4>3. QED
          BY <1>1, <1>2, <4>2, ItemFacts
      <3>6. QED
        BY <1>1, <3>2, <3>3, <3>4, <3>5
    <2>2. CASE i = l + 1
      <3>1. i - 1 = l /\ l \in 0..l
        BY <1>1, <2>2
      <3>2. MarkersEmitted(l)' = MarkersEmitted(l) /\ MarkersEmitted(l) = Emitted
        BY <1>0, <1>1, <3>1 DEF Emitted
      <3>3. MarkersEmitted(i - 1)' = Emitted /\ out'[i] = x
        BY <1>1, <2>2, <3>1, <3>2
      <3>4. QED
        BY <1>1, <1>2, <3>3
    <2>3. QED
      BY <1>1, <2>1, <2>2
  <1>5. QED
    BY <1>1, <1>2, <1>3, <1>4 DEF NoOvertaking, Left

\* The merge passes a result on, between the two markers it belongs to.
LEMMA MergePasses ==
    ASSUME TypeOK, MergeInv, MergeData
    PROVE  MergeInv'
  <1>0. PICK h : h = Head(fanIn)
    OBVIOUS
  <1>1. /\ fanIn # <<>> /\ h.kind # "marker" /\ fanIn' = Tail(fanIn) /\ out' = Append(out, h)
        /\ UNCHANGED <<passed, wOut, reader, resume, toResume, arrived>>
    BY <1>0 DEF MergeData, workerVars, chainVars
  <1>2. PICK D \in [Workers -> 0..MaxMarkers], A \in SUBSET Workers, O \in [1..Len(fanIn) -> Workers] :
          Readers(D) /\ Waiting(D, A, O)
    BY DEF MergeInv
  <1>3. h \in Items /\ h = fanIn[1] /\ 1 \in 1..Len(fanIn)
    BY <1>0, <1>1, <1>2, WaitingReceives
  <1>4. h.epoch = Emitted /\ Emitted \in Nat
    BY <1>1, <1>2, <1>3, EmittedKept DEF Waiting, Holds
  <1>5. NoOvertaking' /\ Left' /\ Emitted' = Emitted
    BY <1>1, <1>3, <1>4, Leaves DEF MergeInv
  <1>6. Readers(D)'
    BY <1>1, <1>2, <1>5, AtKept DEF Readers
  <1>7. PICK P \in [1..Len(fanIn') -> Workers] :
          Holds(fanIn', D, A, P, Emitted)
    BY <1>1, <1>2, WaitingReceives
  <1>8. Waiting(D, A, P)'
    BY <1>1, <1>2, <1>5, <1>7 DEF Waiting
  <1>9. QED
    BY <1>5, <1>6, <1>8 DEF MergeInv

\* The merge counts a copy of the next marker: one more worker is waiting behind
\* it, or all are, and then nothing of theirs is left in fanIn.
LEMMA MergeCounts ==
    ASSUME TypeOK, MergeInv, MergeMarker
    PROVE  MergeInv'
  <1>0. PICK h : h = Head(fanIn)
    OBVIOUS
  <1>1. /\ fanIn # <<>> /\ h.kind = "marker" /\ fanIn' = Tail(fanIn)
        /\ \/ arrived' = arrived + 1 /\ UNCHANGED <<toResume, out>>
           \/ arrived + 1 >= N /\ arrived' = 0 /\ out' = Append(out, h) /\ toResume' = Workers
        /\ UNCHANGED <<passed, wOut, reader, resume>>
    BY <1>0 DEF MergeMarker, AllArrived, workerVars, chainVars
  <1>2. PICK D \in [Workers -> 0..MaxMarkers], A \in SUBSET Workers, O \in [1..Len(fanIn) -> Workers] :
          Readers(D) /\ Waiting(D, A, O)
    BY DEF MergeInv
  <1>3. PICK P \in [1..Len(fanIn') -> Workers] :
          /\ Holds(fanIn', D, A, P, Emitted)
          /\ fanIn[1].kind = "marker" =>
               \A i \in 1..Len(fanIn') : fanIn'[i].kind = "marker" => P[i] # O[1]
    BY <1>1, <1>2, WaitingReceives
  <1>4. /\ h \in Items /\ h = fanIn[1] /\ 1 \in 1..Len(fanIn) /\ O[1] \in Workers
        /\ Len(fanIn) \in Nat /\ Len(fanIn') = Len(fanIn) - 1
    BY <1>0, <1>1, <1>2, WaitingReceives
  <1>5. h.epoch = Emitted + 1 /\ O[1] \notin A /\ D[O[1]] = Emitted + 1 /\ Emitted \in Nat
    BY <1>1, <1>2, <1>4, EmittedKept DEF Waiting, Holds
  <1>6. PICK B \in SUBSET Workers : B = A \cup {O[1]}
    BY <1>4
  <1>7. /\ Cardinality(B) = arrived + 1 /\ arrived \in Nat /\ arrived <= N - 1 /\ N \in Nat
        /\ IsFiniteSet(Workers) /\ Cardinality(Workers) = N
    <2>1. arrived \in Nat /\ arrived <= N - 1 /\ N \in Nat
      BY StageAssumption DEF TypeOK
    <2>2. IsFiniteSet(Workers) /\ Cardinality(Workers) = N
      BY <2>1, StageAssumption, FS_Interval DEF Workers
    <2>3. IsFiniteSet(A)
      BY <2>2, FS_Subset
    <2>4. Cardinality(B) = Cardinality(A) + 1
      BY <1>5, <1>6, <2>3, FS_AddElement
    <2>5. QED
      BY <1>2, <2>1, <2>2, <2>4 DEF Waiting, Holds
  <1>8. \A w \in B : D[w] = Emitted + 1
    BY <1>2, <1>5, <1>6 DEF Waiting, Holds
  <1>9. CASE arrived' = arrived + 1 /\ UNCHANGED <<toResume, out>>
    <2>1. NoOvertaking' /\ Left' /\ Emitted' = Emitted
      BY <1>9, EmittedKept DEF MergeInv
    <2>2. Readers(D)'
      BY <1>1, <1>2, <1>9, <2>1, AtKept DEF Readers
    <2>3. \A i \in 1..Len(fanIn') : fanIn'[i].kind = "marker" => P[i] \notin B
      BY <1>1, <1>3, <1>4, <1>6 DEF Holds
    <2>4. Cardinality(B) = arrived'
      BY <1>7, <1>9
    <2>5. Waiting(D, B, P)'
      <3>1. Holds(fanIn', D, B, P, Emitted)
        BY <1>3, <2>3 DEF Holds
      <3>2. QED
        BY <1>8, <2>1, <2>4, <3>1 DEF Waiting
    <2>6. QED
      BY <2>1, <2>2, <2>5 DEF MergeInv
  <1>10. CASE arrived + 1 >= N /\ arrived' = 0 /\ out' = Append(out, h) /\ toResume' = Workers
    <2>1. B = Workers
      <3>1. Cardinality(B) = Cardinality(Workers)
        BY <1>7, <1>10
      <3>2. QED
        BY <1>7, <3>1, FS_Subset
    <2>2. \A w \in Workers : D[w] = Emitted + 1 /\ D[w] # Emitted
      BY <1>5, <1>8, <2>1
    <2>3. Len(fanIn') = 0
      <3>1. \A i \in 1..Len(fanIn') : fanIn'[i].kind # "marker"
        <4>1. ASSUME NEW i \in 1..Len(fanIn'), fanIn'[i].kind = "marker" PROVE FALSE
          <5>1. P[i] \in Workers /\ P[i] # O[1]
            BY <1>1, <1>3, <1>4, <4>1
          <5>2. P[i] \notin A
            BY <1>3, <4>1 DEF Holds
          <5>3. QED
            BY <1>6, <2>1, <5>1, <5>2
        <4>2. QED
          BY <4>1
      <3>2. \A i \in 1..Len(fanIn') : FALSE
        BY <1>3, <2>2, <3>1 DEF Holds
      <3>3. Len(fanIn') \in Nat
        BY <1>4
      <3>4. Len(fanIn') # 0 => 1 \in 1..Len(fanIn')
        BY <3>3
      <3>5. QED
        BY <3>2, <3>4
    <2>4. NoOvertaking' /\ Left' /\ Emitted' = Emitted + 1
      BY <1>1, <1>4, <1>5, <1>10, Leaves DEF MergeInv
    <2>5. Readers(D)'
      <3>1. ASSUME NEW w \in Workers
            PROVE  At(D, w)' /\ w \notin resume
        <4>1. D[w] = Emitted' /\ D[w] # Emitted' + 1
          BY <1>5, <2>2, <2>4
        <4>2. At(D, w)
          BY <1>2 DEF Readers
        <4>3. reader[w] # "read" /\ w \notin resume /\ D[w] <= passed[w]
          BY <2>2, <4>2 DEF At
        <4>4. reader[w] \in {"read", "parked"} => Chain(wOut[w], D[w], passed[w])
          BY <4>2 DEF At
        <4>5. QED
          BY <1>1, <4>1, <4>3, <4>4 DEF At
      <3>2. resume \subseteq Workers
        BY DEF TypeOK
      <3>3. resume' \cap toResume' = {}
        BY <1>1, <3>1, <3>2
      <3>4. QED
        BY <3>1, <3>3 DEF Readers
    <2>6. Waiting(D, {}, P)'
      <3>1. Cardinality({}) = arrived'
        BY <1>10, FS_EmptySet
      <3>2. \A i \in 1..Len(fanIn') : FALSE
        BY <2>3
      <3>3. QED
        BY <3>1, <3>2 DEF Waiting, Holds
    <2>7. QED
      BY <2>4, <2>5, <2>6 DEF MergeInv
  <1>11. QED
    BY <1>1, <1>9, <1>10

\* A worker that folds in a record or returns sends one result or none.
LEMMA MergeEmit ==
    ASSUME TypeOK, TypeOK', MergeInv, NEW w \in Workers, Emit(w),
           UNCHANGED <<out, passed, reader, resume, toResume, fanIn, arrived>>
    PROVE  MergeInv'
  <1>1. CASE UNCHANGED wOut
    BY <1>1, MergeFrame
  <1>2. CASE wOut' = [wOut EXCEPT ![w] = Append(@, Result(w))]
    <2>1. PICK x : x = Result(w)
      OBVIOUS
    <2>2. x \in Items
      BY <2>1, ItemFacts
    <2>3. x.epoch = passed[w] /\ x.kind # "marker" /\ passed[w] \in Nat
      BY <2>1, StageNumbers DEF Result
    <2>4. /\ wOut'[w] = Append(wOut[w], x) /\ passed'[w] = passed[w]
          /\ \A v \in Workers : v # w => wOut'[v] = wOut[v] /\ passed'[v] = passed[v]
      BY <1>2, <2>1 DEF TypeOK
    <2>5. QED
      BY <2>2, <2>3, <2>4, MergeSends
  <1>3. QED
    BY <1>1, <1>2 DEF Emit

\* A worker forwards a marker.
LEMMA MergeForwards ==
    ASSUME InputInv, Passes, TypeOK', MergeInv, NEW w \in Workers, WorkerMarker(w)
    PROVE  MergeInv'
  <1>0. PICK x : x = Head(wIn[w])
    OBVIOUS
  <1>1. TypeOK /\ x.kind = "marker" /\ x.epoch = passed[w] + 1
    BY <1>0, InputSnapshot DEF WorkerMarker, Mark, Running, InputInv, Passes
  <1>2. x \in Items
    BY <1>0, <1>1, StageNumbers, Receives DEF WorkerMarker, Mark
  <1>3. /\ wOut'[w] = Append(wOut[w], x) /\ passed'[w] = x.epoch
        /\ \A v \in Workers : v # w => wOut'[v] = wOut[v] /\ passed'[v] = passed[v]
        /\ UNCHANGED <<out, reader, resume, toResume, fanIn, arrived>>
    BY <1>0, <1>1 DEF WorkerMarker, TypeOK, mergeVars
  <1>4. QED
    BY <1>1, <1>2, <1>3, MergeSends

\* A worker whose chain is whole passes on what it takes in.
LEMMA PassesStep ==
    ASSUME InputInv, Passes, [Next]_vars
    PROVE  Passes'
  <1>1. TypeOK /\ TypeOK'
    BY InputStep DEF InputInv
  <1>2. CASE UNCHANGED <<seen, passed, broken>>
    BY <1>2 DEF Passes
  <1>3. ASSUME NEW w \in Workers, Mark(w)
        PROVE  Head(wIn[w]).epoch = seen[w] + 1
    BY <1>1, <1>3, InputSnapshot DEF InputInv
  <1>4. ASSUME NEW w \in Workers, WorkerMarker(w)
        PROVE  Passes'
    <2>1. seen' = [seen EXCEPT ![w] = Head(wIn[w]).epoch] /\ passed' = [passed EXCEPT ![w] = Head(wIn[w]).epoch]
          /\ broken' = broken /\ Head(wIn[w]).epoch = seen[w] + 1
      BY <1>3, <1>4 DEF WorkerMarker, Mark
    <2>2. \A v \in Workers : /\ v = w => seen'[v] = passed'[v]
                             /\ v # w => seen'[v] = seen[v] /\ passed'[v] = passed[v]
      BY <1>1, <2>1 DEF TypeOK
    <2>3. \A v \in Workers : seen'[v] \in Nat
      BY <1>1 DEF TypeOK
    <2>4. QED
      BY <2>1, <2>2, <2>3 DEF Passes
  <1>5. ASSUME NEW w \in Workers, LaterFails(w) \/ StuckTakes(w)
        PROVE  Passes'
    <2>1. passed' = passed /\ broken' = broken \cup {w}
      BY <1>5 DEF LaterFails, StuckTakes
    <2>2. CASE Fold(w)
      BY <2>1, <2>2 DEF Fold, Passes
    <2>3. CASE Mark(w)
      <3>1. seen' = [seen EXCEPT ![w] = seen[w] + 1]
        BY <1>3, <2>3 DEF Mark
      <3>2. \A v \in Workers : /\ v = w => seen'[v] = seen[v] + 1
                               /\ v # w => seen'[v] = seen[v]
        BY <1>1, <3>1 DEF TypeOK
      <3>3. \A v \in Workers : seen[v] \in Nat /\ passed[v] \in Nat
        BY <1>1, StageNumbers
      <3>4. QED
        BY <2>1, <3>2, <3>3 DEF Passes
    <2>4. QED
      BY <1>5, <2>2, <2>3 DEF LaterFails, StuckTakes
  <1>6. ASSUME NEW w \in Workers, Fold(w)
        PROVE  seen' = seen
    BY <1>6 DEF Fold
  <1>7. QED
    BY <1>2, <1>4, <1>5, <1>6
    DEF Next, Router, Worker, Reader, Merge, vars, routerVars, workerVars, chainVars, mergeVars,
        RouteData, TakeMarker, Broadcast, RouterClose, RouterCancel, WorkerData, WorkerClose,
        WorkerIdle, WorkerFails, StuckEnds, WorkerCancel, ReaderForward, ReaderResume, ReaderCancel,
        ReaderDrain, ReaderEnd, MergeData, MergeMarker, MergeResume, MergeEnd, MergeCancel,
        HardCancel

\* Every step of the stage keeps the output side consistent.
LEMMA MergeStep ==
    ASSUME InputInv, Passes, MergeInv, [Next]_vars
    PROVE  MergeInv'
  <1>1. TypeOK /\ TypeOK'
    BY InputStep DEF InputInv
  <1>2. CASE UNCHANGED <<out, reader, resume, toResume, fanIn, arrived, wOut, passed>>
    BY <1>1, <1>2, MergeFrame
  <1>3. CASE MergeData \/ MergeMarker \/ MergeResume
    BY <1>1, <1>3, MergePasses, MergeCounts, MergeHandsOut
  <1>4. ASSUME NEW w \in Workers, WorkerData(w) \/ WorkerClose(w) \/ WorkerIdle(w)
        PROVE  MergeInv'
    BY <1>1, <1>4, MergeEmit DEF WorkerData, WorkerClose, WorkerIdle, chainVars, mergeVars
  <1>5. ASSUME NEW w \in Workers, WorkerMarker(w) \/ ReaderForward(w) \/ ReaderResume(w)
        PROVE  MergeInv'
    BY <1>1, <1>5, MergeForwards, MergeReaderForwards, MergeReaderResumes
  <1>6. ASSUME NEW w \in Workers, ReaderCancel(w) \/ ReaderDrain(w) \/ ReaderEnd(w)
        PROVE  MergeInv'
    <2>1. /\ reader'[w] \in {"drain", "done"}
          /\ \A v \in Workers : v # w => wOut'[v] = wOut[v] /\ reader'[v] = reader[v]
          /\ UNCHANGED <<out, passed, resume, toResume, fanIn, arrived>>
      BY <1>1, <1>6 DEF ReaderCancel, ReaderDrain, ReaderEnd, TypeOK, workerVars, chainVars, mergeVars
    <2>2. QED
      BY <1>1, <2>1, MergeReaderStops
  <1>7. QED
    BY <1>2, <1>3, <1>4, <1>5, <1>6
    DEF Next, Router, Worker, Reader, Merge, vars, routerVars, workerVars, chainVars, mergeVars, RouteData,
        TakeMarker, Broadcast, RouterClose, RouterCancel, WorkerFails, LaterFails, StuckTakes,
        StuckEnds, WorkerCancel, MergeEnd, MergeCancel, HardCancel

-----------------------------------------------------------------------------
(* The theorems.                                                           *)

\* The inductive invariant of the stage: the queues of the workers hold the input
\* in order, and each reader is at most one marker ahead of what has left.
THEOREM StageInvariant == Spec => []StageInv
  <1>1. Init => StageInv
    <2> SUFFICES ASSUME Init PROVE StageInv
      OBVIOUS
    <2> USE StageAssumption
    <2>1. TypeOK
      BY StageTypeInit DEF TypeInv
    <2>2. /\ routed = 0 /\ round = 0 /\ cast = N + 1 /\ arrived = 0 /\ resume = {} /\ toResume = {}
          /\ out = <<>> /\ fanIn = <<>> /\ Len(out) = 0 /\ Len(fanIn) = 0
          /\ \A w \in Workers : /\ wIn[w] = <<>> /\ Len(wIn[w]) = 0 /\ wOut[w] = <<>> /\ Len(wOut[w]) = 0
                                /\ folded[w] = {} /\ seen[w] = 0 /\ passed[w] = 0 /\ reader[w] = "read"
      BY DEF Init
    <2>3. Cuts
      BY <2>2 DEF Cuts, Workers
    <2>4. ASSUME NEW w \in Workers PROVE Queue(w) /\ Folds(w)
      <3>1. Sent(w) = 0
        BY <2>2 DEF Sent, Workers
      <3>2. QED
        BY <2>2, <3>1 DEF Queue, Folds, Markers
    <2>5. InputInv
      BY <2>1, <2>2, <2>3, <2>4 DEF InputInv
    <2>6. Emitted = 0
      <3>1. {i \in 1..0 : out[i].kind = "marker"} = {}
        OBVIOUS
      <3>2. QED
        BY <2>2, <3>1, FS_EmptySet DEF Emitted, MarkersEmitted
    <2>7. NoOvertaking /\ Left
      BY <2>2 DEF NoOvertaking, Left
    <2>8. PICK D \in [Workers -> 0..MaxMarkers] : \A w \in Workers : D[w] = 0
      <3>1. [w \in Workers |-> 0] \in [Workers -> 0..MaxMarkers]
        OBVIOUS
      <3>2. QED
        BY <3>1
    <2>9. Readers(D)
      BY <2>2, <2>6, <2>8 DEF Readers, At, Chain
    <2>10. PICK O \in [1..Len(fanIn) -> Workers] : TRUE
      <3>1. [i \in 1..Len(fanIn) |-> 1] \in [1..Len(fanIn) -> Workers]
        BY DEF Workers
      <3>2. QED
        BY <3>1
    <2>11. Waiting(D, {}, O)
      BY <2>2, FS_EmptySet DEF Waiting, Holds
    <2>12. Passes
      BY <2>2 DEF Passes
    <2>13. MergeInv
      BY <2>7, <2>9, <2>11 DEF MergeInv
    <2>14. QED
      BY <2>5, <2>12, <2>13 DEF StageInv
  <1>2. StageInv /\ [Next]_vars => StageInv'
    BY InputStep, PassesStep, MergeStep DEF StageInv
  <1>3. QED
    BY <1>1, <1>2, PTL DEF Spec

\* Nothing overtakes a marker on its way through alignedMerge: every record leaves
\* between the two markers between which its worker emitted it, and the markers
\* leave once each and in order.
THEOREM NothingOvertakes == Spec => []NoOvertaking
  <1>1. StageInv => NoOvertaking
    BY DEF StageInv, MergeInv
  <1>2. QED
    BY <1>1, StageInvariant, PTL

\* The snapshots of a barrier that has left the stage are one cut of its input:
\* every record the router sent ahead of the barrier and none behind it.
THEOREM SnapshotsAreOneCut == Spec => []ConsistentCut
  <1>1. StageInv => ConsistentCut
    <2> SUFFICES ASSUME StageInv, NEW i \in DOMAIN out, out[i].kind = "marker"
                 PROVE  UNION {snap[out[i].epoch][w] : w \in Workers} = 1..cutAt[out[i].epoch]
      BY DEF ConsistentCut
    <2> USE DEF StageInv, InputInv
    <2>1. PICK m : m = out[i].epoch
      OBVIOUS
    <2>2. 1 <= m /\ m <= Emitted /\ m \in Nat /\ Emitted \in Nat
      <3>1. out \in Seq(Items)
        BY DEF TypeOK
      <3>2. i \in 1..Len(out) /\ out[i] \in Items
        BY <3>1, ElementOfSeq
      <3>3. QED
        BY <2>1, <3>2, ItemFacts, EmittedKept DEF MergeInv, Left
    <2>3. \A w \in Workers : Emitted <= seen[w]
      <3>1. PICK D \in [Workers -> 0..MaxMarkers] : Readers(D)
        BY DEF MergeInv
      <3>2. ASSUME NEW w \in Workers PROVE Emitted <= seen[w]
        <4>1. D[w] \in {Emitted, Emitted + 1} /\ D[w] <= passed[w] /\ passed[w] <= seen[w]
          BY <3>1 DEF Readers, At, Passes
        <4>2. QED
          BY <2>2, <4>1, StageNumbers
      <3>3. QED
        BY <3>2
    <2>4. \A w \in Workers : seen[w] \in Nat /\ m \in 1..seen[w] /\ seen[w] <= round
      BY <2>2, <2>3, StageNumbers DEF Queue, Sent
    <2>5. m \in 1..round /\ cutAt[m] \in Nat /\ routed \in Nat
      <3>1. 1 \in Workers
        BY StageAssumption DEF Workers
      <3>2. m \in 1..round
        BY <2>2, <2>4, <3>1, StageNumbers
      <3>3. QED
        BY <3>2, StageNumbers
    <2>6. cutAt[m] <= routed
      BY <2>5 DEF Cuts
    <2>7. \A w \in Workers : snap[m][w] = {n \in folded[w] : n <= cutAt[m]}
      BY <2>4 DEF Folds
    <2>8. ASSUME NEW n \in 1..cutAt[m]
          PROVE  \E w \in Workers : n \in snap[m][w]
      <3>1. n \in 1..routed /\ n \in Nat
        BY <2>5, <2>6
      <3>2. PICK w \in Workers : n \in folded[w] \/ \E k \in 1..Len(wIn[w]) : wIn[w][k] = Data(n)
        BY <3>1 DEF Nowhere
      <3>3. ~\E k \in 1..Len(wIn[w]) : wIn[w][k] = Data(n)
        <4> SUFFICES ASSUME NEW k \in 1..Len(wIn[w]), wIn[w][k] = Data(n) PROVE FALSE
          OBVIOUS
        <4>1. Ahead(w, Data(n))
          BY DEF Queue
        <4>2. cutAt[m] < n
          BY <2>4, <4>1 DEF Ahead, Data
        <4>3. QED
          BY <2>5, <3>1, <4>2
      <3>4. n <= cutAt[m]
        BY <2>5
      <3>5. QED
        BY <2>7, <3>2, <3>3, <3>4
    <2>9. \A w \in Workers : \A n \in snap[m][w] : n \in 1..cutAt[m]
      <3>1. \A w \in Workers : \A n \in snap[m][w] : n \in folded[w] /\ n <= cutAt[m]
        BY <2>7
      <3>2. \A w \in Workers : \A n \in folded[w] : n \in Nat /\ n >= 1
        BY StageNumbers
      <3>3. QED
        BY <2>5, <3>1, <3>2
    <2>10. QED
      BY <2>1, <2>8, <2>9
  <1>2. QED
    BY <1>1, StageInvariant, PTL
=============================================================================
