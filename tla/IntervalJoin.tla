---------------------------- MODULE IntervalJoin ----------------------------
(***************************************************************************)
(* The interval join (operator/join.go) in the two ways a job wires it.    *)
(* "stream": one source carries both sides, barriers pass through the      *)
(* operator, and the sink is transactional.  "native": two sources feed    *)
(* the operator (executeNativeJoin in engine.go), barriers are injected    *)
(* behind it, and the sink writes as it receives.                          *)
(*                                                                         *)
(* Every source is wrapped for watermarks (source/watermark.go).  The      *)
(* stream job reads through a consumer group, so a side with no record     *)
(* since a restart resumes where it was left; EventTimeWindow has the job  *)
(* without one.                                                            *)
(*                                                                         *)
(* A record is named by its side and its place in that side's log.  The    *)
(* payload of a joined record is the pair of names.                        *)
(***************************************************************************)
EXTENDS Integers, Sequences, FiniteSets, Bags

CONSTANTS
  Jobs,            \* candidate jobs: [log : [Sides -> Seq([key, ts])], wiring,
                   \* maxStarts], the last the bound on incarnations
  Before, After,   \* bounds of the join interval
  OutOfOrderness,  \* of the watermark generators
  Cap,             \* capacity of the channels
  MaxBarriers,     \* bound: checkpoints per incarnation
  MayCancel,       \* whether the run context may be cancelled
  ZeroTime,        \* time.Time{}
  Ancient,         \* an unrepresentable time after a round trip
  MaxTime          \* the last watermark of a source

Sides == {"left", "right"}

ASSUME TimeAxis ==
  /\ ZeroTime \in Int /\ Ancient \in Int /\ MaxTime \in Int
  /\ ZeroTime < Ancient /\ Ancient < MaxTime

\* Event times lie between what an unrepresentable time becomes and the last
\* watermark.
ASSUME JoinParameters ==
  /\ {Before, After, OutOfOrderness} \subseteq Nat
  /\ Cap \in Nat \ {0} /\ MaxBarriers \in Nat
  /\ MayCancel \in BOOLEAN
  /\ \A j \in Jobs :
       /\ j.wiring \in {"stream", "native"}
       /\ \A s \in Sides :
            /\ Len(j.log[s]) \in Nat
            /\ \A i \in 1 .. Len(j.log[s]) :
                 j.log[s][i].ts \in Ancient + 1 .. MaxTime - 1

VARIABLES
  job,
  pos,      \* read position of each side
  ended,    \* the sides whose source has sent its last watermark
  seen,     \* the generators: latest event time of each side in this incarnation
  mux,      \* channel into the operator
  op,       \* operator: [held, wm, sent]: buffers, side watermarks, emitted
  joined,   \* channel out of the operator, up to the injector when native
  inj,      \* the injector: [pc, buf]; its output channel when native
  sink,     \* what the sink has received: a bag of pairs
  late,     \* history: records behind the aligned watermark on arrival
  saved,    \* checkpoint to resume from
  snap,     \* native: what saveCheckpoint has read so far
  flushed,  \* history: a restart resumed from behind an early last watermark
  barriers, starts,
  ctx,      \* the run context is cancelled
  returned  \* native: executeNativeJoin has returned

vars == <<job, pos, ended, seen, mux, op, joined, inj, sink, late, saved, snap, flushed,
          barriers, starts, ctx, returned>>

Native == job.wiring = "native"
Rec(id) == job.log[id[1]][id[2]]
Other(side) == IF side = "left" THEN "right" ELSE "left"
Lesser(a, b) == IF a < b THEN a ELSE b
Greater(a, b) == IF a > b THEN a ELSE b

-----------------------------------------------------------------------------
(* The operator.                                                           *)

InRange(l, r) ==
  /\ Rec(r).ts >= Rec(l).ts - Before
  /\ Rec(r).ts <= Rec(l).ts + After

AlignedWatermark(wm) ==
  IF ZeroTime \in {wm["left"], wm["right"]} THEN ZeroTime
  ELSE Lesser(wm["left"], wm["right"])

PairOf(id, o) == IF id[1] = "left" THEN <<id, o>> ELSE <<o, id>>

\* emitMatches: the arriving record against what the other side has buffered.
Matches(held, id) ==
  {o \in held[Other(id[1])] :
     /\ Rec(o).key = Rec(id).key
     /\ LET p == PairOf(id, o) IN InRange(p[1], p[2])}

\* Mutant: the two bounds are swapped when evicting.
EvictSwapped(held, aligned) ==
  [s \in Sides |-> {id \in held[s] :
     Rec(id).ts >= aligned - (IF s = "left" THEN Before ELSE After)}]

\* evict: what no record at or above the aligned watermark can still match.
Evict(held, aligned) ==
  [s \in Sides |-> {id \in held[s] :
     Rec(id).ts >= aligned - (IF s = "left" THEN After ELSE Before)}]

\* A watermark is stored as 64-bit nanoseconds; the zero time is stored as none.
StoredTime(t) == IF t = MaxTime THEN Ancient ELSE t

\* Mutant: the buffered right side is not restored.
RestoredLeftOnly(o) ==
  [held |-> [o.held EXCEPT !["right"] = {}], wm |-> o.wm,
   sent |-> AlignedWatermark(o.wm)]

\* Snapshot, Restore and loadWatermarks.
RestoredOp(o) ==
  LET wm == [s \in Sides |-> StoredTime(o.wm[s])]
  IN  [held |-> o.held, wm |-> wm, sent |-> AlignedWatermark(wm)]

FreshOp == [held |-> [s \in Sides |-> {}], wm |-> [s \in Sides |-> ZeroTime],
            sent |-> ZeroTime]

-----------------------------------------------------------------------------
Zero == [s \in Sides |-> 0]
NothingSeen == [s \in Sides |-> ZeroTime]
NotSaving == [pc |-> "none"]

Init ==
  /\ job \in Jobs
  /\ pos = Zero /\ ended = {} /\ seen = NothingSeen /\ mux = <<>> /\ op = FreshOp /\ joined = <<>>
  /\ inj = [pc |-> "run", buf |-> <<>>]
  /\ sink = EmptyBag /\ late = {}
  /\ saved = [pos |-> Zero, op |-> FreshOp, sink |-> EmptyBag, late |-> {}]
  /\ snap = NotSaving /\ flushed = FALSE
  /\ barriers = 0 /\ starts = 1 /\ ctx = FALSE /\ returned = FALSE

\* A source delivers its next record, which its generator notes.
Read(s) ==
  /\ s \notin ended /\ pos[s] < Len(job.log[s]) /\ Len(mux) < Cap
  /\ pos' = [pos EXCEPT ![s] = @ + 1]
  /\ seen' = [seen EXCEPT ![s] = Greater(@, job.log[s][pos[s] + 1].ts)]
  /\ mux' = Append(mux, [type |-> "record", id |-> <<s, pos[s] + 1>>])
  /\ UNCHANGED <<job, ended, op, joined, inj, sink, late, saved, snap, flushed,
                 barriers, starts, ctx, returned>>

\* The sides of the source that reads s.
SidesWith(s) == IF Native THEN {s} ELSE Sides

\* Native: a source's own watermark, tagged with the side's name by
\* runJoinSource.  Stream: one source reads both sides, and its watermark, with
\* no name, is the least over the sides it has seen.
WatermarkFor(s) ==
  [type |-> "watermark", sides |-> SidesWith(s),
   ts |-> (IF Native \/ seen[Other(s)] = ZeroTime THEN seen[s]
           ELSE Lesser(seen[s], seen[Other(s)])) - OutOfOrderness]

SendWatermark(s) ==
  /\ s \notin ended /\ Len(mux) < Cap /\ seen[s] # ZeroTime
  /\ mux' = Append(mux, WatermarkFor(s))
  /\ ~(mux # <<>> /\ mux[Len(mux)].type = "watermark")
  /\ UNCHANGED <<job, pos, ended, seen, op, joined, inj, sink, late, saved, snap,
                 flushed, barriers, starts, ctx, returned>>

\* The source has no more to read, or the context is cancelled: its last
\* watermark, given up only when the channel stays full.
SourceEnds(s) ==
  /\ s \notin ended
  /\ ctx \/ \A x \in SidesWith(s) : pos[x] = Len(job.log[x])
  /\ ended' = ended \cup SidesWith(s)
  /\ mux' = IF Len(mux) < Cap
            THEN Append(mux, [type |-> "watermark", sides |-> SidesWith(s), ts |-> MaxTime])
            ELSE mux
  /\ UNCHANGED <<job, pos, seen, op, joined, inj, sink, late, saved, snap, flushed,
                 barriers, starts, ctx, returned>>

-----------------------------------------------------------------------------
OpReceives(type) ==
  /\ mux # <<>> /\ Head(mux).type = type /\ mux' = Tail(mux) /\ ~returned
  /\ UNCHANGED <<job, pos, ended, seen, inj, sink, saved, snap, flushed, barriers,
                 starts, ctx, returned>>

\* handleRecord: emit the matches, then buffer the record.  A send blocks when
\* the channel is full, so the step waits for room for all of them.
OpRecord ==
  LET id == Head(mux).id
      ms == Matches(op.held, id)
  IN  /\ OpReceives("record")
      /\ ms # {} => Len(joined) < Cap
      /\ joined' = IF ms = {} THEN joined
                   ELSE Append(joined, [type |-> "pairs",
                                        pairs |-> {PairOf(id, o) : o \in ms}])
      /\ op' = [op EXCEPT !.held[id[1]] = @ \cup {id}]
      /\ late' = IF Rec(id).ts < op.sent THEN late \cup {id} ELSE late

\* handleWatermark: advance the named sides, evict, pass on the least.
OpWatermark ==
  LET wm == [s \in Sides |-> IF s \in Head(mux).sides
                             THEN Greater(op.wm[s], Head(mux).ts) ELSE op.wm[s]]
      aligned == AlignedWatermark(wm)
      up == aligned # ZeroTime /\ aligned > op.sent
  IN  /\ OpReceives("watermark")
      /\ up => Len(joined) < Cap
      /\ joined' = IF up THEN Append(joined, [type |-> "watermark", ts |-> aligned])
                   ELSE joined
      /\ op' = [held |-> IF aligned = ZeroTime THEN op.held
                         ELSE Evict(op.held, aligned),
                wm |-> wm, sent |-> IF up THEN aligned ELSE op.sent]
      /\ UNCHANGED late

\* Stream wiring: a barrier ahead of the operator carries the offsets, and the
\* operator adds its snapshot as it passes.
BarrierBefore(pc) ==
  /\ ~Native /\ inj.pc = "run" /\ Len(mux) < Cap
  /\ mux' = Append(mux, [type |-> "barrier", pos |-> pos])
  /\ inj' = [inj EXCEPT !.pc = pc]
  /\ barriers' = IF pc = "run" THEN barriers + 1 ELSE barriers
  /\ UNCHANGED <<job, pos, ended, seen, op, joined, sink, late, saved, snap, flushed,
                 starts, ctx, returned>>

TickBefore == barriers < MaxBarriers /\ BarrierBefore("run")

\* On cancellation, ahead of what is still to be drained; the select may have
\* forwarded the last watermark before.
ShutdownBefore == ctx /\ BarrierBefore("drain")

\* At the end of the stream.
FinalBefore == ended = Sides /\ BarrierBefore("drain")

OpBarrier ==
  /\ OpReceives("barrier") /\ Len(joined) < Cap
  /\ joined' = Append(joined, [type |-> "barrier", pos |-> Head(mux).pos,
                               op |-> op, late |-> late])
  /\ UNCHANGED <<op, late>>

-----------------------------------------------------------------------------
(* Native wiring: the injector and the stages behind the operator.         *)

\* The injector forwards; the channel to the next stage is its own.
InjForward ==
  /\ Native /\ inj.pc \in {"run", "drain"} /\ joined # <<>>
  /\ Len(inj.buf) < Cap /\ ~returned
  /\ inj' = [inj EXCEPT !.buf = Append(@, Head(joined))]
  /\ joined' = Tail(joined)
  /\ UNCHANGED <<job, pos, ended, seen, mux, op, sink, late, saved, snap, flushed,
                 barriers, starts, ctx, returned>>

\* A tick, or the shutdown barrier on cancellation.
InjBarrier ==
  /\ Native /\ inj.pc = "run" /\ Len(inj.buf) < Cap /\ ~returned
  /\ ctx \/ barriers < MaxBarriers
  /\ inj' = [pc |-> IF ctx THEN "drain" ELSE "run",
             buf |-> Append(inj.buf, [type |-> "barrier"])]
  /\ barriers' = IF ctx THEN barriers ELSE barriers + 1
  /\ UNCHANGED <<job, pos, ended, seen, mux, op, joined, sink, late, saved, snap,
                 flushed, starts, ctx, returned>>

SinkInput == IF Native THEN inj.buf ELSE joined
Took == IF Native THEN inj' = [inj EXCEPT !.buf = Tail(@)] /\ UNCHANGED joined
        ELSE joined' = Tail(joined) /\ UNCHANGED inj

\* The sink takes what the stages in front of it hand on, one at a time.
SinkRuns == SinkInput # <<>> /\ snap = NotSaving

SinkPairs ==
  /\ SinkRuns /\ Head(SinkInput).type \in {"pairs", "watermark"} /\ Took
  /\ sink' = IF Head(SinkInput).type = "pairs"
             THEN sink (+) SetToBag(Head(SinkInput).pairs) ELSE sink
  /\ UNCHANGED <<job, pos, ended, seen, mux, op, late, saved, snap, flushed, barriers,
                 starts, ctx, returned>>

\* saveCheckpoint.  Stream: the offsets and the snapshot of the barrier.
\* Native: no barrier reaches the operator, so its state is read now, and the
\* positions of the two sources after it.
SinkBarrier ==
  /\ SinkRuns /\ Head(SinkInput).type = "barrier" /\ Took
  /\ IF Native
     THEN snap' = [pc |-> "state", op |-> op, late |-> late] /\ UNCHANGED saved
     ELSE /\ saved' = [pos |-> Head(SinkInput).pos, op |-> Head(SinkInput).op,
                       sink |-> sink, late |-> Head(SinkInput).late]
          /\ UNCHANGED snap
  /\ UNCHANGED <<job, pos, ended, seen, mux, op, sink, late, flushed, barriers, starts,
                 ctx, returned>>

\* addNativeJoinSourceOffsets: the left position, then the right one.
ReadLeftOffset ==
  /\ Native /\ snap.pc = "state"
  /\ snap' = [pc |-> "left", op |-> snap.op, late |-> snap.late, left |-> pos["left"]]
  /\ UNCHANGED <<job, pos, ended, seen, mux, op, joined, inj, sink, late, saved, flushed,
                 barriers, starts, ctx, returned>>

ReadRightOffset ==
  /\ Native /\ snap.pc = "left" /\ snap' = NotSaving
  /\ saved' = [pos |-> [pos EXCEPT !["left"] = snap.left], op |-> snap.op, sink |-> sink,
               late |-> snap.late]
  /\ UNCHANGED <<job, pos, ended, seen, mux, op, joined, inj, sink, late, flushed,
                 barriers, starts, ctx, returned>>

-----------------------------------------------------------------------------
Cancel ==
  /\ MayCancel /\ ~ctx /\ ctx' = TRUE
  /\ UNCHANGED <<job, pos, ended, seen, mux, op, joined, inj, sink, late, saved, snap,
                 flushed, barriers, starts, returned>>

\* Native: the stages have returned, which also ends the shutdown timer: what is
\* left is to wait for the operator, which drains its input first.
Return ==
  /\ Native /\ ctx /\ ~returned /\ ended = Sides /\ mux = <<>>
  /\ returned' = TRUE
  /\ UNCHANGED <<job, pos, ended, seen, mux, op, joined, inj, sink, late, saved, snap,
                 flushed, barriers, starts, ctx>>

\* A checkpoint behind the last watermark of a source that was cancelled before
\* its end: the operator has evicted what records still to come could match.
FlushedEarly(c) ==
  /\ MaxTime \in {c.op.wm[s] : s \in Sides}
  /\ \E s \in Sides : c.pos[s] # Len(job.log[s])

\* A crash at any moment.  A transactional sink shows what the checkpoint
\* covers; any other sink keeps what it has received.
Restart ==
  /\ starts < job.maxStarts /\ starts' = starts + 1
  /\ pos' = saved.pos /\ ended' = {} /\ seen' = NothingSeen
  /\ flushed' = (flushed \/ FlushedEarly(saved)) /\ snap' = NotSaving
  /\ op' = RestoredOp(saved.op) /\ late' = saved.late
  /\ sink' = IF Native THEN sink ELSE saved.sink
  /\ mux' = <<>> /\ joined' = <<>> /\ inj' = [pc |-> "run", buf |-> <<>>]
  /\ barriers' = 0 /\ ctx' = FALSE /\ returned' = FALSE
  /\ UNCHANGED <<job, saved>>

Next ==
  \/ \E s \in Sides : Read(s) \/ SendWatermark(s) \/ SourceEnds(s)
  \/ OpRecord \/ OpWatermark \/ OpBarrier
  \/ TickBefore \/ ShutdownBefore \/ FinalBefore
  \/ InjForward \/ InjBarrier
  \/ SinkPairs \/ SinkBarrier \/ ReadLeftOffset \/ ReadRightOffset
  \/ Cancel \/ Return \/ Restart

\* Every goroutine that can run is scheduled.  Behind a native join nothing need
\* reach the sink once the context is cancelled: joinedChannelSource returns as
\* soon as its select picks the cancellation.
Fairness ==
  /\ WF_vars(OpRecord \/ OpWatermark \/ OpBarrier)
  /\ WF_vars(InjForward) /\ WF_vars(Return) /\ WF_vars(ReadLeftOffset \/ ReadRightOffset)
  /\ WF_vars(~(Native /\ ctx) /\ (SinkPairs \/ SinkBarrier))
  /\ \A s \in Sides : SF_vars(Read(s)) /\ WF_vars(SourceEnds(s))

Spec == Init /\ [][Next]_vars /\ Fairness

-----------------------------------------------------------------------------
(* Properties.                                                             *)

Ids == UNION {{s} \X (1 .. Len(job.log[s])) : s \in Sides}

Carrying(q, pair) == {i \in DOMAIN q : q[i].type = "pairs" /\ pair \in q[i].pairs}

\* How often a pair was put out: to the sink, or on the way to it.
Times(pair) ==
  (IF BagIn(pair, sink) THEN sink[pair] ELSE 0)
    + Cardinality(Carrying(inj.buf, pair)) + Cardinality(Carrying(joined, pair))

\* The records the operator has taken from its channel.
Arrived == {id \in Ids : id[2] <= pos[id[1]]} \
             {mux[i].id : i \in {j \in DOMAIN mux : mux[j].type = "record"}}

Matching(l, r) ==
  /\ Rec(l).key = Rec(r).key
  /\ Rec(l).ts - Before <= Rec(r).ts /\ Rec(r).ts <= Rec(l).ts + After

Lefts(S) == {id \in S : id[1] = "left"}
Rights(S) == {id \in S : id[1] = "right"}

EveryPairOnce ==
  \A l \in Lefts(Arrived) : \A r \in Rights(Arrived) :
    /\ {l, r} \cap late = {} => Times(<<l, r>>) = IF Matching(l, r) THEN 1 ELSE 0
    /\ Times(<<l, r>>) <= 1

\* Two records that match and of which neither came behind the aligned
\* watermark are joined exactly once, whichever came first and whatever was
\* evicted between them; through a restart too when barriers pass the operator
\* (emitMatches, evict, Snapshot, Restore), unless it resumes from behind the
\* last watermark of a source that was cancelled.
JoinedOnce == (IF Native THEN starts = 1 ELSE ~flushed) => EveryPairOnce

\* What is left in the buffers is what can still match: nothing that matches a
\* record yet to come at or above the aligned watermark was evicted, with the
\* same exception.
StateSuffices ==
  ~Native /\ ~flushed =>
    \A id \in Arrived : \A x \in Ids \ Arrived :
      (/\ id[1] # x[1] /\ Rec(x).ts >= op.sent
       /\ LET p == PairOf(id, x) IN Matching(p[1], p[2]))
      => id \in op.held[id[1]]

\* What the comment on WatermarkSource.Run claims of the last watermark on
\* cancellation, "this guarantees correct end-of-stream behavior", would be for a
\* join that is stopped and resumed: the exception above is not needed.
StopLosesNoMatch == ~Native => EveryPairOnce

Drained ==
  /\ pos = [s \in Sides |-> Len(job.log[s])]
  /\ mux = <<>> /\ joined = <<>> /\ inj.buf = <<>>

\* At least once, for the native wiring: when both sources are exhausted and
\* all channels are empty, every matching pair whose records were not late has
\* reached the sink (SinkStage.Run says of an unaligned checkpoint that its
\* records are "lost on crash, violating at-least-once").
NativeAtLeastOnce ==
  (Native /\ Drained) =>
    \A l \in Lefts(Ids \ late) : \A r \in Rights(Ids \ late) :
      Matching(l, r) => BagIn(<<l, r>>, sink)

\* A cancelled join returns: its stages drain, or the shutdown timeout forces
\* them (WithShutdownTimeout, executeNativeJoin).
CancelledReturns == (Native /\ ctx) ~> (returned \/ ~ctx)

=============================================================================
