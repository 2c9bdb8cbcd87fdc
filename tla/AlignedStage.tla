----------------------------- MODULE AlignedStage -----------------------------
(***************************************************************************)
(* A stage with several workers: KeyedStage.Run, StatelessStage.runParallel *)
(* and the alignedMerge they share.                                        *)
(*                                                                         *)
(*            +-- wIn[1] -> worker 1 -> wOut[1] -> reader 1 --+            *)
(*    router -+                                               +- fanIn -> merge -> out *)
(*            +-- wIn[N] -> worker N -> wOut[N] -> reader N --+            *)
(*                                                                         *)
(* The router sends a data record to one worker and a marker (barrier or   *)
(* watermark) to all of them; the merge emits the marker once, after every *)
(* copy has arrived.  ExactlyOnce relies on what is shown here: no record  *)
(* crosses a barrier on its way to the sink, and the snapshots taken for a *)
(* barrier are those of one cut of the input.                              *)
(***************************************************************************)
EXTENDS Integers, Sequences, FiniteSets

CONSTANTS N,            \* workers of the stage
          Cap,          \* internalBuf: capacity of every channel inside the stage
          MaxRecords,   \* bound on the data records of the input
          MaxMarkers,   \* bound on the markers of the input
          Failures,     \* TRUE: workers may fail and hardCtx may be cancelled
          MaxBroken,    \* bound on the workers whose chain breaks; 0: one operator each
          IdleTimeout   \* TRUE: the workers run a Window with an idle timeout

ASSUME StageAssumption ==
    /\ N \in Nat \ {0} /\ Cap \in Nat \ {0}
    /\ MaxRecords \in Nat /\ MaxMarkers \in Nat
    /\ Failures \in BOOLEAN /\ MaxBroken \in Nat /\ IdleTimeout \in BOOLEAN

VARIABLES routed,       \* data records the router has sent on
          round,        \* markers the router has taken from its input
          cast,         \* the worker the current marker goes to next; N+1: none
          closedIn,     \* the router has returned and closed the worker inputs
          cutAt,        \* cutAt[m]: data records ahead of marker m in the input
          wIn, wOut,    \* the workers' channels
          folded,       \* records worker w has folded into its operators' state
          seen,         \* markers worker w has taken in
          snap,         \* snap[m][w]: the state worker w snapshot for marker m
          passed,       \* markers worker w has passed on to wOut[w]
          broken,       \* workers whose chain lost an operator behind its first
          pile,         \* items stuck in front of the operator that is gone
          wDone,        \* worker w has returned and closed wOut[w]
          reader,       \* the goroutine that forwards wOut[w] to fanIn
          fanIn,
          resume,       \* workers whose resume channel holds a token
          arrived,      \* copies of the current marker the merge has counted
          toResume,     \* resume tokens the merge has still to hand out
          merge,        \* where alignedMerge is
          out,          \* what the stage has emitted
          cancelled     \* stageCtx is cancelled

routerVars == <<routed, round, cast, closedIn, cutAt>>
chainVars == <<passed, broken, pile>>
workerVars == <<folded, seen, snap, chainVars, wDone>>
mergeVars == <<arrived, toResume, merge, out>>
vars == <<routerVars, workerVars, mergeVars, wIn, wOut, reader, fanIn, resume, cancelled>>

Workers == 1..N
Markers == 1..MaxMarkers
\* A data record of the input, a record a worker emits between its markers
\* number epoch and epoch + 1, and the copy of marker epoch one worker handles.
Items == [kind : {"data"}, n : 1..MaxRecords, epoch : {0}]
             \cup [kind : {"result"}, n : Workers, epoch : 0..MaxMarkers]
             \cup [kind : {"marker"}, n : {0}, epoch : Markers]
Data(n) == [kind |-> "data", n |-> n, epoch |-> 0]
Result(w) == [kind |-> "result", n |-> w, epoch |-> passed[w]]
Marker(m) == [kind |-> "marker", n |-> 0, epoch |-> m]
NoSnapshot == {0}       \* no record has number 0

\* A send on a channel of capacity Cap does not block.
Room(ch) == Len(ch) < Cap

\* Every channel stays within its capacity and holds what belongs into it.
TypeOK ==
    /\ routed \in 0..MaxRecords
    /\ round \in 0..MaxMarkers
    /\ cast \in 1..(N + 1)
    /\ closedIn \in BOOLEAN
    /\ cutAt \in [Markers -> 0..MaxRecords]
    /\ wIn \in [Workers -> Seq(Items)] /\ wOut \in [Workers -> Seq(Items)]
    /\ fanIn \in Seq(Items)
    /\ Len(fanIn) <= Cap
    /\ \A w \in Workers : Len(wIn[w]) <= Cap /\ Len(wOut[w]) <= Cap
    /\ folded \in [Workers -> SUBSET (1..MaxRecords)]
    /\ seen \in [Workers -> 0..MaxMarkers]
    /\ snap \in [Markers -> [Workers -> SUBSET (0..MaxRecords)]]
    /\ passed \in [Workers -> 0..MaxMarkers]
    /\ broken \subseteq Workers
    /\ pile \in [Workers -> 0..Cap]
    /\ wDone \in [Workers -> BOOLEAN]
    /\ reader \in [Workers -> {"read", "parked", "drain", "done"}]
    /\ resume \subseteq Workers
    /\ arrived \in 0..(N - 1)
    /\ toResume \subseteq Workers
    /\ merge \in {"recv", "resume", "done"}
    /\ out \in Seq(Items)
    /\ cancelled \in BOOLEAN

Init ==
    /\ routed = 0 /\ round = 0 /\ cast = N + 1 /\ closedIn = FALSE
    /\ cutAt = [m \in Markers |-> 0]
    /\ wIn = [w \in Workers |-> <<>>]
    /\ wOut = [w \in Workers |-> <<>>]
    /\ folded = [w \in Workers |-> {}]
    /\ seen = [w \in Workers |-> 0]
    /\ snap = [m \in Markers |-> [w \in Workers |-> NoSnapshot]]
    /\ passed = [w \in Workers |-> 0]
    /\ broken = {} /\ pile = [w \in Workers |-> 0]
    /\ wDone = [w \in Workers |-> FALSE]
    /\ reader = [w \in Workers |-> "read"]
    /\ fanIn = <<>> /\ resume = {} /\ arrived = 0 /\ toResume = {}
    /\ merge = "recv" /\ out = <<>> /\ cancelled = FALSE

-----------------------------------------------------------------------------
(* The router (dispatcher).                                                *)

RouterFree == ~closedIn /\ cast = N + 1

\* A data record goes to the worker its key, or the round-robin, selects.
RouteData(w) ==
    /\ RouterFree
    /\ routed < MaxRecords
    /\ Room(wIn[w])
    /\ routed' = routed + 1
    /\ wIn' = [wIn EXCEPT ![w] = Append(@, Data(routed + 1))]
    /\ UNCHANGED <<round, cast, closedIn, cutAt, workerVars, mergeVars, wOut, reader, fanIn,
                   resume, cancelled>>

\* A marker is taken from the input; it is sent to one worker after the other.
TakeMarker ==
    /\ RouterFree
    /\ round < MaxMarkers
    /\ round' = round + 1
    /\ cast' = 1
    /\ cutAt' = [cutAt EXCEPT ![round + 1] = routed]
    /\ UNCHANGED <<routed, closedIn, workerVars, mergeVars, wIn, wOut, reader, fanIn, resume,
                   cancelled>>

Broadcast ==
    /\ ~closedIn /\ cast \in Workers
    /\ Room(wIn[cast])
    /\ wIn' = [wIn EXCEPT ![cast] = Append(@, Marker(round))]
    /\ cast' = cast + 1
    /\ UNCHANGED <<routed, round, closedIn, cutAt, workerVars, mergeVars, wOut, reader, fanIn,
                   resume, cancelled>>

\* The input is closed: the router closes every worker input.
RouterClose ==
    /\ RouterFree
    /\ closedIn' = TRUE
    /\ UNCHANGED <<routed, round, cast, cutAt, workerVars, mergeVars, wIn, wOut, reader, fanIn,
                   resume, cancelled>>

\* Mutant: the router keeps waiting for its input when the stage is cancelled.
RouterCancel_Ignored == FALSE /\ UNCHANGED vars

\* sendRecord or recvRecord gives up on a cancelled stage.
RouterCancel ==
    /\ cancelled /\ ~closedIn
    /\ closedIn' = TRUE
    /\ UNCHANGED <<routed, round, cast, cutAt, workerVars, mergeVars, wIn, wOut, reader, fanIn,
                   resume, cancelled>>

-----------------------------------------------------------------------------
(* The workers.                                                            *)

\* A worker runs its operators as a chain of goroutines (runOperator), joined by
\* channels of their own; records inside the chain are not told apart from those
\* in its queue.
Running(w) == ~wDone[w] /\ w \notin broken

\* The worker's output holds at most one more record, if the operators emit one.
Emit(w) ==
    \/ UNCHANGED wOut
    \/ /\ Room(wOut[w])
       /\ wOut' = [wOut EXCEPT ![w] = Append(@, Result(w))]

\* The next record in the queue is folded into the state.
Fold(w) ==
    /\ wIn[w] # <<>> /\ Head(wIn[w]).kind = "data"
    /\ wIn' = [wIn EXCEPT ![w] = Tail(@)]
    /\ folded' = [folded EXCEPT ![w] = @ \cup {Head(wIn[w]).n}]
    /\ UNCHANGED <<routerVars, seen, snap>>

\* What the barrier-time snapshot of worker w holds: its operators' state
\* between two records.
Snapshot(w) == folded[w]

\* The next marker in the queue makes the operators snapshot their state.
Mark(w) ==
    /\ wIn[w] # <<>> /\ Head(wIn[w]).kind = "marker"
    /\ wIn' = [wIn EXCEPT ![w] = Tail(@)]
    /\ snap' = [snap EXCEPT ![Head(wIn[w]).epoch][w] = Snapshot(w)]
    /\ seen' = [seen EXCEPT ![w] = Head(wIn[w]).epoch]
    /\ UNCHANGED <<routerVars, folded>>

\* A record passes through the operators, which may emit a result.
WorkerData(w) ==
    /\ Running(w)
    /\ Fold(w)
    /\ Emit(w)
    /\ UNCHANGED <<chainVars, wDone, mergeVars, reader, fanIn, resume, cancelled>>

\* A marker every operator of the chain forwards: snapshot, then pass it on.  (A
\* Window keeps watermarks for itself: in a stage with one, a watermark reaches
\* each worker as a data record does, and only barriers are markers here.)
WorkerMarker(w) ==
    /\ Running(w)
    /\ Mark(w)
    /\ Room(wOut[w])
    /\ wOut' = [wOut EXCEPT ![w] = Append(@, Head(wIn[w]))]
    /\ passed' = [passed EXCEPT ![w] = Head(wIn[w]).epoch]
    /\ UNCHANGED <<broken, pile, wDone, mergeVars, reader, fanIn, resume, cancelled>>

\* The worker's input is closed and drained: the operators flush what they
\* still buffer and the worker closes its output.
WorkerClose(w) ==
    /\ Running(w) /\ wIn[w] = <<>> /\ closedIn
    /\ Emit(w)
    /\ wDone' = [wDone EXCEPT ![w] = TRUE]
    /\ UNCHANGED <<routerVars, folded, seen, snap, chainVars, mergeVars, wIn, reader, fanIn, resume,
                   cancelled>>

\* Window.Process with an idle timeout: nothing arrived in time, so it flushes
\* and returns while its input is still open.
WorkerIdle(w) ==
    /\ IdleTimeout
    /\ Running(w) /\ wIn[w] = <<>> /\ ~closedIn
    /\ Emit(w)
    /\ wDone' = [wDone EXCEPT ![w] = TRUE]
    /\ UNCHANGED <<routerVars, folded, seen, snap, chainVars, mergeVars, wIn, reader, fanIn, resume,
                   cancelled>>

\* The first operator fails or panics, or a later one does once those ahead of it
\* have ended: the error is the next the worker reads, and the stage is cancelled.
WorkerFails(w) ==
    /\ Failures
    /\ Running(w) /\ (wIn[w] # <<>> \/ closedIn)
    /\ wDone' = [wDone EXCEPT ![w] = TRUE]
    /\ cancelled' = TRUE
    /\ UNCHANGED <<routerVars, folded, seen, snap, chainVars, mergeVars, wIn, wOut, reader, fanIn,
                   resume>>

\* A later operator fails on what the first makes of its next item.  The worker reads
\* the errors in the order of the chain, so it waits for the first operator to end;
\* its output stays open and the stage is not cancelled.
LaterFails(w) ==
    /\ Failures /\ Cardinality(broken) < MaxBroken
    /\ Running(w)
    /\ Fold(w) \/ Mark(w)
    /\ broken' = broken \cup {w}
    /\ UNCHANGED <<passed, pile, wDone, mergeVars, wOut, reader, fanIn, resume, cancelled>>

\* The first operator goes on, for as long as there is room for what it emits in
\* front of the operator that is gone.
StuckTakes(w) ==
    /\ w \in broken /\ ~wDone[w]
    /\ \/ Fold(w) /\ UNCHANGED pile
       \/ /\ Fold(w) \/ Mark(w)
          /\ pile[w] < Cap
          /\ pile' = [pile EXCEPT ![w] = @ + 1]
    /\ UNCHANGED <<passed, broken, wDone, mergeVars, wOut, reader, fanIn, resume, cancelled>>

\* The first operator ends with its input: now the worker reads the error.
StuckEnds(w) ==
    /\ w \in broken /\ ~wDone[w] /\ wIn[w] = <<>> /\ closedIn
    /\ wDone' = [wDone EXCEPT ![w] = TRUE]
    /\ cancelled' = TRUE
    /\ UNCHANGED <<routerVars, folded, seen, snap, chainVars, mergeVars, wIn, wOut, reader, fanIn,
                   resume>>

\* sendRecord gives up on a cancelled stage with a record in hand.
WorkerCancel(w) ==
    /\ cancelled /\ Running(w) /\ wIn[w] # <<>>
    /\ wDone' = [wDone EXCEPT ![w] = TRUE]
    /\ UNCHANGED <<routerVars, folded, seen, snap, chainVars, mergeVars, wIn, wOut, reader, fanIn,
                   resume, cancelled>>

-----------------------------------------------------------------------------
(* alignedMerge: one reader per worker, and the merging loop.              *)

\* Mutant: a reader that delivered a marker goes on reading.
AfterForward_NotParked(item) == "read"

\* A reader parks behind a marker.
AfterForward(item) == IF item.kind = "marker" THEN "parked" ELSE "read"

ReaderForward(w) ==
    /\ reader[w] = "read" /\ wOut[w] # <<>>
    /\ Room(fanIn)
    /\ fanIn' = Append(fanIn, Head(wOut[w]))
    /\ wOut' = [wOut EXCEPT ![w] = Tail(@)]
    /\ reader' = [reader EXCEPT ![w] = AfterForward(Head(wOut[w]))]
    /\ UNCHANGED <<routerVars, workerVars, mergeVars, wIn, resume, cancelled>>

ReaderResume(w) ==
    /\ reader[w] = "parked" /\ w \in resume
    /\ resume' = resume \ {w}
    /\ reader' = [reader EXCEPT ![w] = "read"]
    /\ UNCHANGED <<routerVars, workerVars, mergeVars, wIn, wOut, fanIn, cancelled>>

\* With a record in hand, or parked, the reader sees the cancellation and
\* drains its worker's output until it is closed.
ReaderCancel(w) ==
    /\ cancelled
    /\ reader[w] = "parked" \/ (reader[w] = "read" /\ wOut[w] # <<>>)
    /\ reader' = [reader EXCEPT ![w] = "drain"]
    /\ UNCHANGED <<routerVars, workerVars, mergeVars, wIn, wOut, fanIn, resume, cancelled>>

ReaderDrain(w) ==
    /\ reader[w] = "drain" /\ wOut[w] # <<>>
    /\ wOut' = [wOut EXCEPT ![w] = Tail(@)]
    /\ UNCHANGED <<routerVars, workerVars, mergeVars, wIn, reader, fanIn, resume, cancelled>>

ReaderEnd(w) ==
    /\ reader[w] \in {"read", "drain"} /\ wOut[w] = <<>> /\ wDone[w]
    /\ reader' = [reader EXCEPT ![w] = "done"]
    /\ UNCHANGED <<routerVars, workerVars, mergeVars, wIn, wOut, fanIn, resume, cancelled>>

MergeData ==
    /\ merge = "recv" /\ fanIn # <<>> /\ Head(fanIn).kind # "marker"
    /\ fanIn' = Tail(fanIn)
    /\ out' = Append(out, Head(fanIn))
    /\ UNCHANGED <<routerVars, workerVars, arrived, toResume, merge, wIn, wOut, reader, resume,
                   cancelled>>

\* Mutant: one copy short of all.
AllArrived_OneShort(k) == k >= N - 1

\* The k-th copy of a marker is the last one.
AllArrived(k) == k >= N

\* A copy of the current marker: the last one is emitted, and every worker is
\* to be resumed.
MergeMarker ==
    /\ merge = "recv" /\ fanIn # <<>> /\ Head(fanIn).kind = "marker"
    /\ fanIn' = Tail(fanIn)
    /\ \/ /\ ~AllArrived(arrived + 1)
          /\ arrived' = arrived + 1
          /\ UNCHANGED <<toResume, merge, out>>
       \/ /\ AllArrived(arrived + 1)
          /\ arrived' = 0
          /\ out' = Append(out, Head(fanIn))
          /\ toResume' = Workers
          /\ merge' = "resume"
    /\ UNCHANGED <<routerVars, workerVars, wIn, wOut, reader, resume, cancelled>>

\* Mutant: the last worker is forgotten.
Resumed_AllButLast(rest) == Cardinality(rest) <= 1

\* No token is left to hand out.
Resumed(rest) == rest = {}

\* One resume token after the other, in the order of the workers; a resume
\* channel holds one.
MergeResume ==
    /\ merge = "resume"
    /\ \E w \in toResume :
         /\ \A v \in toResume : w <= v
         /\ w \notin resume
         /\ resume' = resume \cup {w}
         /\ toResume' = IF Resumed(toResume \ {w}) THEN {} ELSE toResume \ {w}
         /\ merge' = IF Resumed(toResume \ {w}) THEN "recv" ELSE "resume"
    /\ UNCHANGED <<routerVars, workerVars, arrived, out, wIn, wOut, reader, fanIn, cancelled>>

\* fanIn is closed once every reader has returned.
MergeEnd ==
    /\ merge = "recv" /\ fanIn = <<>> /\ \A w \in Workers : reader[w] = "done"
    /\ merge' = "done"
    /\ UNCHANGED <<routerVars, workerVars, arrived, toResume, out, wIn, wOut, reader, fanIn,
                   resume, cancelled>>

MergeCancel ==
    /\ cancelled /\ merge # "done"
    /\ merge' = "done"
    /\ UNCHANGED <<routerVars, workerVars, arrived, toResume, out, wIn, wOut, reader, fanIn,
                   resume, cancelled>>

\* hardCtx is cancelled from outside.
HardCancel ==
    /\ Failures /\ ~cancelled
    /\ cancelled' = TRUE
    /\ UNCHANGED <<routerVars, workerVars, mergeVars, wIn, wOut, reader, fanIn, resume>>

-----------------------------------------------------------------------------
Router == (\E w \in Workers : RouteData(w)) \/ TakeMarker \/ Broadcast \/ RouterClose \/ RouterCancel
Worker(w) == \/ WorkerData(w) \/ WorkerMarker(w) \/ WorkerClose(w) \/ WorkerIdle(w)
             \/ WorkerFails(w) \/ LaterFails(w) \/ StuckTakes(w) \/ StuckEnds(w) \/ WorkerCancel(w)
Reader(w) == \/ ReaderForward(w) \/ ReaderResume(w) \/ ReaderCancel(w) \/ ReaderDrain(w)
             \/ ReaderEnd(w)
Merge == MergeData \/ MergeMarker \/ MergeResume \/ MergeEnd \/ MergeCancel

Next ==
    \/ Router
    \/ \E w \in Workers : Worker(w) \/ Reader(w)
    \/ Merge
    \/ HardCancel

Spec == Init /\ [][Next]_vars

\* Every goroutine keeps running, and the stage downstream keeps reading.  New
\* input, the end of the input, failures and timeouts are not owed.
FairSpec ==
    /\ Spec
    /\ WF_vars(Broadcast) /\ WF_vars(RouterCancel)
    /\ \A w \in Workers :
         /\ WF_vars(WorkerData(w) \/ WorkerMarker(w) \/ WorkerClose(w) \/ WorkerCancel(w))
         /\ WF_vars(StuckTakes(w) \/ StuckEnds(w))
         /\ WF_vars(Reader(w))
    /\ WF_vars(Merge)

-----------------------------------------------------------------------------
(* Properties.                                                             *)

\* Markers among the first k items the stage emitted.
MarkersEmitted(k) == Cardinality({i \in 1..k : out[i].kind = "marker"})

\* Nothing crosses a marker: a record leaves the stage between the same two
\* markers between which its worker emitted it, and the markers leave once each
\* and in order (pipeline/markers.go alignedMerge).
NoOvertaking ==
    \A i \in DOMAIN out :
        out[i].epoch = IF out[i].kind = "marker" THEN MarkersEmitted(i - 1) + 1
                       ELSE MarkersEmitted(i - 1)

\* When a barrier leaves the stage, its snapshots are one cut of the input: they
\* hold every record ahead of the barrier and none behind it
\* (pipeline/keyed_stage.go NewKeyedStage, operator SetBarrierSnapshot).
ConsistentCut ==
    \A i \in DOMAIN out : out[i].kind = "marker" =>
        UNION {snap[out[i].epoch][w] : w \in Workers} = 1..cutAt[out[i].epoch]

\* A worker returned before it passed marker m on: only an idle timeout does that
\* in a stage that is not cancelled.
Abandoned(m) == \E w \in Workers : wDone[w] /\ passed[w] < m

\* Marker m cannot come out of a worker whose chain is broken.
Swallowed(m) == \E w \in broken : passed[w] < m

\* A marker that entered the stage leaves it, unless the stage is cancelled, a worker
\* has gone idle or a worker's chain is broken (pipeline/markers.go alignedMerge).
MarkerLeaves ==
    \A m \in Markers : round >= m ~> \/ MarkersEmitted(Len(out)) >= m
                                    \/ cancelled \/ Abandoned(m) \/ Swallowed(m)

\* An operator is blocked for good: nobody reads what it emits.
Jammed(w) == w \in broken /\ ~wDone[w] /\ pile[w] = Cap

StageDone == merge = "done" /\ \A w \in Workers : wDone[w]

\* Run returns once its input is closed or the stage is cancelled, after a failure in
\* a chain too: nobody waits for anybody for good, except for the copy of a marker
\* that an idle worker left behind, and for an operator that is jammed in front of
\* one that failed (pipeline/keyed_stage.go Run).
StageReturns ==
    (closedIn \/ cancelled) ~> \/ StageDone
                               \/ ~cancelled /\ Abandoned(round)
                               \/ \E w \in Workers : Jammed(w)

\* The merge emits every marker, idle timeouts included (pipeline/keyed_stage.go:
\* "the merge emits each marker exactly once after all workers deliver it").
EveryMarkerLeaves ==
    \A m \in Markers : round >= m ~> (MarkersEmitted(Len(out)) >= m \/ cancelled)

\* A stage that is told to end after a worker's operator failed does end
\* (pipeline/keyed_stage.go: "a worker panic cancels the whole stage so the router,
\* remaining workers, and merge unwind instead of deadlocking").
FailureUnwinds == (broken # {} /\ (closedIn \/ cancelled)) ~> StageDone
=============================================================================
