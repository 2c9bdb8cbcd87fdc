-------------------------- MODULE EventTimeWindow --------------------------
(***************************************************************************)
(* Event time in one job: the watermark wrapper of a source                *)
(* (source/watermark.go), the barrier injector behind it (engine.go), the  *)
(* window operator (operator/window.go) with the three window assigners    *)
(* (window/), and stopping, crashing and resuming from a checkpoint.       *)
(*                                                                         *)
(* A record is named by its partition and its place in that partition's    *)
(* log; its value is left out.  Event time is an integer.  Two values of   *)
(* Go's time.Time are not: the zero time, and the year-9999 watermark a    *)
(* source sends last, neither of which fits the 64-bit nanoseconds that    *)
(* the operator stores.  The sink is the transactional one: output behind  *)
(* the checkpoint a job resumes from is not visible.                       *)
(***************************************************************************)
EXTENDS Integers, Sequences, FiniteSets, Bags

CONSTANTS
  Partitions,      \* partitions of the source
  Jobs,            \* candidate jobs: the logs, the assigner, native or JSON
                   \* snapshots, whether the operator has an idle timeout,
                   \* whether the source has a consumer group, whether one
                   \* watermark generator is shared by its partitions, and the
                   \* bound on the job's incarnations
  Size,            \* window size; the gap of a session
  Slide,           \* slide of a sliding window
  Offset,          \* alignment offset of fixed windows
  AllowedLateness, \* of the window operator
  OutOfOrderness,  \* of the watermark generators
  Cap,             \* capacity of a channel
  MaxTicks,        \* bound: periodic checkpoints per incarnation
  ZeroTime,        \* time.Time{}
  Ancient,         \* what an unrepresentable time becomes: a date before 1900
  MaxTime          \* time.Date(9999, ...)

ASSUME TimeAxis ==
  /\ ZeroTime \in Int /\ Ancient \in Int /\ MaxTime \in Int
  /\ ZeroTime < Ancient /\ Ancient + 2 < MaxTime

\* NewSliding asks for a slide of at most the size.
ASSUME TimeParameters ==
  /\ {Size, Slide} \subseteq Nat \ {0} /\ Slide <= Size
  /\ {Offset, AllowedLateness, OutOfOrderness} \subseteq Nat

\* Event times lie between the two times that cannot be stored.
ASSUME JobParameters ==
  \A j \in Jobs :
    /\ j.kind \in {"tumbling", "sliding", "session"}
    /\ {j.native, j.idleExit, j.group, j.shared} \subseteq BOOLEAN
    /\ \A p \in Partitions :
         /\ Len(j.log[p]) \in Nat
         /\ \A i \in 1 .. Len(j.log[p]) : j.log[p][i].ts \in Ancient + 1 .. MaxTime - 1

\* A record from before the first aligned window start (1970 and the offset) is
\* put into the tumbling window behind it: Go's division truncates.
ASSUME TumblingTimes ==
  \A j \in Jobs : j.kind = "tumbling" =>
    \A p \in Partitions : \A i \in 1 .. Len(j.log[p]) : j.log[p][i].ts >= Offset

VARIABLES
  job,      \* chosen once: [log, kind, native, idleExit, group, shared,
            \* maxStarts]
  src,      \* WatermarkSource: [pc, pos, max, idle, last]
  inj,      \* injectBarriers: [pc, ticks, named]; its offsets are those of
            \* src.pos for the partitions named, which it forwarded records of
  ch,       \* channel from the injector to the operator
  op,       \* WindowOperator: [pc, wm, wins]
  hist,     \* what became of the records: [accepted, late, emitted, maxed, waived]
  saved,    \* the checkpoint a restart would use
  ctx,      \* the run context has been cancelled
  starts,
  rewound   \* some restart read a partition from its beginning again

vars == <<job, src, inj, ch, op, hist, saved, ctx, starts, rewound>>

Ids == UNION {{p} \X (1 .. Len(job.log[p])) : p \in Partitions}
Rec(id) == job.log[id[1]][id[2]]

\* UnixNano outside the years 1678..2262 overflows; time.Unix of the result is
\* a date far in the past, and no longer the zero time.
StoredTime(t) == IF t \in {ZeroTime, MaxTime} THEN Ancient ELSE t

-----------------------------------------------------------------------------
(* Window assigners.                                                       *)

\* Go's integer division truncates toward zero.
GoDiv(a, b) == IF a >= 0 THEN a \div b ELSE -((-a) \div b)
WindowStart(ts, size, offset) == GoDiv(ts - offset, size) * size + offset

TumblingWindows(ts) ==
  LET start == WindowStart(ts, Size, Offset)
  IN  {[start |-> start, end |-> start + Size]}

\* Mutant: a window that starts at the record's own time is missed.
SlidingWindowsOpen(ts) ==
  LET last == WindowStart(ts, Slide, Offset)
      hits == {s \in {last - k * Slide : k \in 0 .. Size + Slide} :
                 s < ts /\ s + Size > ts}
  IN  {[start |-> s, end |-> s + Size] : s \in IF hits = {} THEN {last} ELSE hits}

\* The walk back from the aligned start, the walk forward, and the fallback.
SlidingWindows(ts) ==
  LET last == WindowStart(ts, Slide, Offset)
      back == {last - k * Slide : k \in 0 .. Size + Slide}
      fwd  == {last + k * Slide : k \in 1 .. Size + Slide}
      hits == {s \in back \cup fwd : s <= ts /\ s + Size > ts}
      used == IF hits = {} THEN {last} ELSE hits
  IN  {[start |-> s, end |-> s + Size] : s \in used}

SessionWindow(ts) == {[start |-> ts, end |-> ts + Size]}

AssignWindows(ts) ==
  CASE job.kind = "tumbling" -> TumblingWindows(ts)
    [] job.kind = "sliding"  -> SlidingWindows(ts)
    [] job.kind = "session"  -> SessionWindow(ts)

WindowKey(key, win) == [key |-> key, start |-> win.start, end |-> win.end]
Overlap(a, b) == a.start < b.end /\ a.end > b.start

LowOf(S)  == CHOOSE x \in S : \A y \in S : x <= y
HighOf(S) == CHOOSE x \in S : \A y \in S : y <= x

\* The records of several windows, with their counts.
Together(wins, hit) ==
  [id \in UNION {DOMAIN wins[w] : w \in hit} |->
     Cardinality(UNION {{w} \X (1 .. wins[w][id]) :
                          w \in {v \in hit : id \in DOMAIN wins[v]}})]

\* Mutant: only the first overlapping session is merged.
MergeFirstSession(wins, new, id) ==
  LET all  == {w \in DOMAIN wins : w.key = new.key /\ Overlap(w, new)}
      hit  == {w \in all : w.start = LowOf({v.start : v \in all})}
      into == [key |-> new.key, start |-> LowOf({w.start : w \in hit \cup {new}}),
               end |-> HighOf({w.end : w \in hit \cup {new}})]
      held == Together(wins, hit) (+) SetToBag({id})
  IN  [w \in (DOMAIN wins \ hit) \cup {into} |->
         IF w = into THEN held ELSE wins[w]]

\* assignToWindow for a session: it absorbs every open session of the key that
\* overlaps it, under the widened bounds.
MergeSession(wins, new, id) ==
  LET hit  == {w \in DOMAIN wins : w.key = new.key /\ Overlap(w, new)}
      into == [key |-> new.key, start |-> LowOf({w.start : w \in hit \cup {new}}),
               end |-> HighOf({w.end : w \in hit \cup {new}})]
      held == Together(wins, hit) (+) SetToBag({id})
  IN  [w \in (DOMAIN wins \ hit) \cup {into} |->
         IF w = into THEN held ELSE wins[w]]

\* assignToWindow for pre-aligned windows: the record joins each of them.
AppendToWindows(wins, keys, id) ==
  [w \in DOMAIN wins \cup keys |->
     (IF w \in DOMAIN wins THEN wins[w] ELSE EmptyBag)
       (+) SetToBag(IF w \in keys THEN {id} ELSE {})]

\* handleDataRecord: into each assigned window.
HandleDataRecord(wins, id) ==
  LET keys == {WindowKey(Rec(id).key, win) : win \in AssignWindows(Rec(id).ts)}
  IN  IF job.kind = "session"
      THEN MergeSession(wins, CHOOSE w \in keys : TRUE, id)
      ELSE AppendToWindows(wins, keys, id)

IsTooLate(wm, ts) == wm # ZeroTime /\ ts < wm - AllowedLateness

\* Mutant: windows fire without waiting for the allowed lateness.
DueWithoutLateness(wins, wm) == {w \in DOMAIN wins : w.end <= wm}

\* A window fires when the watermark has passed its end by the lateness.
Due(wins, wm) == {w \in DOMAIN wins : w.end + AllowedLateness <= wm}

\* fireWindow: a window's records (or their fold) go out, and it is cleared.
Unfired(wins, due) == [w \in DOMAIN wins \ due |-> wins[w]]
Fired(wins, due) == SetToBag({[win |-> w, ids |-> wins[w]] : w \in due})

-----------------------------------------------------------------------------
\* Mutant: the source ignores the restored offsets.
SourceFromStart(offsets) ==
  [pc |-> "run", pos |-> [p \in Partitions |-> 0],
   max |-> [p \in Partitions |-> ZeroTime], idle |-> {}, last |-> ZeroTime]

FreshSource(offsets) ==
  [pc |-> "run", pos |-> offsets, max |-> [p \in Partitions |-> ZeroTime],
   idle |-> {}, last |-> ZeroTime]

NoHistory == [accepted |-> {}, late |-> {}, emitted |-> EmptyBag, maxed |-> FALSE,
              waived |-> {}]

Init ==
  /\ job \in Jobs
  /\ LET zero == [p \in Partitions |-> 0]
     IN  /\ src = FreshSource(zero)
         /\ saved = [offsets |-> zero, named |-> {}, wm |-> ZeroTime, wins |-> <<>>,
                     hist |-> NoHistory]
  /\ inj = [pc |-> "run", ticks |-> 0, named |-> {}] /\ ch = <<>>
  /\ op = [pc |-> "run", wm |-> ZeroTime, wins |-> <<>>]
  /\ hist = NoHistory
  /\ ctx = FALSE /\ starts = 1 /\ rewound = FALSE

-----------------------------------------------------------------------------
(* WatermarkSource.Run, and the select of injectBarriers that forwards what  *)
(* it sends.  The channel between the two keeps the order, so a record, its  *)
(* hand-over and the advance of the injector's offset are one step.          *)

\* A record of partition p: its generator sees it, and it is forwarded.
ReadRecord(p) ==
  /\ src.pc = "run" /\ src.pos[p] < Len(job.log[p]) /\ Len(ch) < Cap
  /\ LET id == <<p, src.pos[p] + 1>>
     IN  /\ src' = [src EXCEPT !.pos[p] = @ + 1, !.idle = @ \ {p},
                      !.max[p] = IF Rec(id).ts > @ THEN Rec(id).ts ELSE @]
         /\ ch' = Append(ch, [type |-> "record", id |-> id])
  /\ inj' = [inj EXCEPT !.named = @ \cup {p}]
  /\ UNCHANGED <<job, op, hist, saved, ctx, starts, rewound>>

\* No record of p for PartitionIdleTimeout of wall-clock time.
PartitionIdles(p) ==
  /\ ~job.shared /\ src.pc = "run" /\ src.max[p] # ZeroTime /\ p \notin src.idle
  /\ src' = [src EXCEPT !.idle = @ \cup {p}]
  /\ UNCHANGED <<job, inj, ch, op, hist, saved, ctx, starts, rewound>>

HeldBy == {p \in Partitions : src.max[p] # ZeroTime /\ p \notin src.idle}

\* Mutant: the fastest partition drives the watermark.
FastestWatermark ==
  IF HeldBy = {} THEN ZeroTime
  ELSE HighOf({src.max[p] : p \in HeldBy}) - OutOfOrderness

\* The least watermark of the partitions that count, zero when none does.
PartitionWatermark ==
  IF HeldBy = {} THEN ZeroTime
  ELSE LowOf({src.max[p] : p \in HeldBy}) - OutOfOrderness

\* One generator for every record: the newest event time seen, whichever
\* partition it came from.
SharedWatermark ==
  LET seen == {p \in Partitions : src.max[p] # ZeroTime}
  IN  IF seen = {} THEN ZeroTime ELSE HighOf({src.max[p] : p \in seen}) - OutOfOrderness

\* The partitions whose own records the next watermark waits for.
WaitedFor ==
  IF job.shared
  THEN {p \in Partitions : src.max[p] # ZeroTime /\ src.max[p] - OutOfOrderness >= SharedWatermark}
  ELSE HeldBy

\* The ticker: the emitted watermark never goes back.
EmitWatermark ==
  /\ src.pc = "run" /\ Len(ch) < Cap
  /\ LET pm == IF job.shared THEN SharedWatermark ELSE PartitionWatermark
         wm == IF pm > src.last THEN pm ELSE src.last
     IN  /\ wm # ZeroTime
         /\ src' = [src EXCEPT !.last = wm]
         /\ ch' = Append(ch, [type |-> "watermark", ts |-> wm])
         /\ hist' = IF wm > src.last
                    THEN [hist EXCEPT !.waived = @ \cup (Partitions \ WaitedFor)]
                    ELSE hist
  /\ UNCHANGED <<job, inj, op, saved, ctx, starts, rewound>>

\* The source ends or the context is cancelled: a last watermark, given up
\* only when the channel stays full.
SourceEnds ==
  /\ src.pc = "run"
  /\ ctx \/ \A p \in Partitions : src.pos[p] = Len(job.log[p])
  /\ src' = [src EXCEPT !.pc = "done"]
  /\ ch' = IF Len(ch) < Cap
           THEN Append(ch, [type |-> "watermark", ts |-> MaxTime]) ELSE ch
  /\ UNCHANGED <<job, inj, op, hist, saved, ctx, starts, rewound>>

\* A barrier carries the offsets of the records injected before it.  They are
\* known for the partitions that had one in this incarnation: the map of the
\* injector starts empty.
Barrier(pc) ==
  /\ Len(ch) < Cap
  /\ ch' = Append(ch, [type |-> "barrier", offsets |-> src.pos, named |-> inj.named])
  /\ inj' = [inj EXCEPT !.pc = pc, !.ticks = IF pc = "run" THEN @ + 1 ELSE @]
  /\ UNCHANGED <<job, src, op, hist, saved, ctx, starts, rewound>>

PeriodicBarrier == inj.pc = "run" /\ inj.ticks < MaxTicks /\ Barrier("run")

\* Cancellation: the barrier goes in ahead of what is still to be drained,
\* which may or may not include the last watermark.
ShutdownBarrier == inj.pc = "run" /\ ctx /\ Barrier("drain")

\* End of stream: the barrier goes in last.
FinalBarrier == inj.pc = "run" /\ src.pc = "done" /\ Barrier("done")

\* Mutant: the drain after a shutdown barrier does not close the channel.
ClosedByFinalOnly == src.pc = "done" /\ inj.pc = "done"

InjectorClosed == src.pc = "done" /\ inj.pc \in {"drain", "done"}

-----------------------------------------------------------------------------
(* WindowOperator.Process.                                                 *)

OpReceives(type) ==
  /\ op.pc = "run" /\ ch # <<>> /\ Head(ch).type = type /\ ch' = Tail(ch)
  /\ UNCHANGED <<job, src, inj, ctx, starts, rewound>>

\* A record is too late, or it is buffered in every window it belongs to.
OpRecord ==
  /\ OpReceives("record")
  /\ LET id == Head(ch).id
     IN  IF IsTooLate(op.wm, Rec(id).ts)
         THEN /\ hist' = [hist EXCEPT !.late = @ \cup {id}]
              /\ UNCHANGED op
         ELSE /\ hist' = [hist EXCEPT !.accepted = @ \cup {id}]
              /\ op' = [op EXCEPT !.wins = HandleDataRecord(@, id)]
  /\ UNCHANGED saved

\* handleWatermark: advance, then fire what has ended.
OpWatermark ==
  /\ OpReceives("watermark")
  /\ LET wm  == IF Head(ch).ts > op.wm THEN Head(ch).ts ELSE op.wm
         due == Due(op.wins, wm)
     IN  /\ op' = [op EXCEPT !.wm = wm, !.wins = Unfired(@, due)]
         /\ hist' = [hist EXCEPT !.emitted = @ (+) Fired(op.wins, due),
                                 !.maxed = @ \/ wm = MaxTime]
  /\ UNCHANGED saved

\* A barrier: the snapshot is taken between two records.  The checkpoint is
\* then saved, or the save fails and the previous one remains.
OpBarrier ==
  /\ OpReceives("barrier")
  /\ \/ saved' = [offsets |-> Head(ch).offsets, named |-> Head(ch).named, wm |-> op.wm,
                  wins |-> op.wins, hist |-> hist]
     \/ UNCHANGED saved
  /\ UNCHANGED <<op, hist>>

\* flushRemaining: the input closes, or nothing came for the idle timeout.
Flush(pc) ==
  /\ op.pc = "run"
  /\ op' = [op EXCEPT !.pc = pc, !.wins = <<>>]
  /\ hist' = [hist EXCEPT !.emitted = @ (+) Fired(op.wins, DOMAIN op.wins)]
  /\ UNCHANGED <<job, src, inj, ch, saved, ctx, starts, rewound>>

InputCloses == InjectorClosed /\ ch = <<>> /\ Flush("done")
IdleTimeout == job.idleExit /\ Flush("idle")

-----------------------------------------------------------------------------
Cancel ==
  /\ ~ctx /\ ctx' = TRUE
  /\ UNCHANGED <<job, src, inj, ch, op, hist, saved, starts, rewound>>

\* The watermark a restored operator starts from: a native snapshot has none
\* when none was stored; the JSON one always writes a number.
RestoredWatermark(wm) ==
  IF job.native /\ wm = ZeroTime THEN ZeroTime ELSE StoredTime(wm)

\* Where a partition is read from again: the offset the checkpoint names, or the
\* group's committed offset, which is as far; without a group, the beginning.
ResumeAt(p) == IF p \in saved.named \/ job.group THEN saved.offsets[p] ELSE 0

\* The process dies at any moment, or has finished, and starts again.
Restart ==
  /\ starts < job.maxStarts /\ starts' = starts + 1
  /\ src' = FreshSource([p \in Partitions |-> ResumeAt(p)])
  /\ rewound' = (rewound \/ \E p \in Partitions : ResumeAt(p) # saved.offsets[p])
  /\ inj' = [pc |-> "run", ticks |-> 0, named |-> {}]
  /\ op' = [pc |-> "run", wm |-> RestoredWatermark(saved.wm), wins |-> saved.wins]
  /\ hist' = [saved.hist EXCEPT !.waived = hist.waived]
  /\ ch' = <<>> /\ ctx' = FALSE
  /\ UNCHANGED <<job, saved>>

Done ==
  /\ op.pc # "run" /\ UNCHANGED vars

Next ==
  \/ \E p \in Partitions : ReadRecord(p) \/ PartitionIdles(p)
  \/ EmitWatermark \/ SourceEnds
  \/ PeriodicBarrier \/ ShutdownBarrier \/ FinalBarrier
  \/ OpRecord \/ OpWatermark \/ OpBarrier \/ InputCloses \/ IdleTimeout
  \/ Cancel \/ Restart \/ Done

\* Goroutines that can run are scheduled.  Reading is strongly fair: the select
\* of the source chooses at random among its ready cases, so the ticker cannot
\* keep the records out.
Fairness ==
  /\ SF_vars(\E p \in Partitions : ReadRecord(p)) /\ WF_vars(SourceEnds)
  /\ WF_vars(FinalBarrier \/ ShutdownBarrier)
  /\ WF_vars(OpRecord \/ OpWatermark \/ OpBarrier \/ InputCloses)

Spec == Init /\ [][Next]_vars /\ Fairness

-----------------------------------------------------------------------------
(* Properties.                                                             *)

FiredIn(id) == {e \in DOMAIN hist.emitted : BagIn(id, e.ids)}
OpenIn(id)  == {w \in DOMAIN op.wins : BagIn(id, op.wins[w])}

\* The windows a record belongs to, by definition rather than by the walk of
\* AssignWindows: every aligned interval that contains its event time.
TrueWindows(id) ==
  LET step == IF job.kind = "sliding" THEN Slide ELSE Size
      ts   == Rec(id).ts
  IN  {[key |-> Rec(id).key, start |-> s, end |-> s + Size] :
         s \in {x \in (ts - Size + 1) .. ts : (x - Offset) % step = 0}}

\* An accepted record is in each of its windows exactly once, open or fired,
\* and in no other, however it was ordered with watermarks, barriers, stops
\* and restarts (handleDataRecord, fireWindow, Snapshot and Restore), as long as
\* no restart rewound a partition (see CutIsExact).  A window contains its start
\* and not its end; the example above Sliding (sliding.go:18-19) assigns a
\* record at 00:03 to [00:04-00:09), which starts after it, and leaves out
\* [23:59-00:04), which the walk back finds.
InEachWindowOnce ==
  ~rewound /\ job.kind # "session" =>
    \A id \in hist.accepted :
      /\ \A w \in OpenIn(id) : op.wins[w][id] = 1
      /\ \A e \in FiredIn(id) : hist.emitted[e] = 1 /\ e.ids[id] = 1
      /\ Cardinality(FiredIn(id)) + Cardinality(OpenIn(id))
           = Cardinality(TrueWindows(id))
      /\ OpenIn(id) \cup {e.win : e \in FiredIn(id)} = TrueWindows(id)

SessionIsExact(win, ids) ==
  LET ts == {Rec(id).ts : id \in DOMAIN ids}
  IN  /\ win.start = LowOf(ts) /\ win.end = HighOf(ts) + Size
      /\ \A t \in ts \ {HighOf(ts)} : \E u \in ts : t < u /\ u < t + Size
      /\ \A id \in DOMAIN ids : Rec(id).key = win.key /\ ids[id] = 1

\* Sessions, open or fired, are made of records less than the gap apart, span
\* exactly those records and the gap behind the last, and share no record; open
\* sessions of a key are disjoint: a record that bridges two of them leaves one
\* (assignToWindow), as long as no restart rewound a partition.
SessionsAreExact ==
  ~rewound /\ job.kind = "session" =>
    /\ \A w \in DOMAIN op.wins :
         /\ SessionIsExact(w, op.wins[w])
         /\ \A v \in DOMAIN op.wins \ {w} : v.key = w.key => ~Overlap(v, w)
    /\ \A e \in DOMAIN hist.emitted :
         hist.emitted[e] = 1 /\ SessionIsExact(e.win, e.ids)
    /\ \A id \in hist.accepted :
         Cardinality(FiredIn(id)) + Cardinality(OpenIn(id)) = 1

Clash(a, b) ==
  a.key = b.key /\ IF job.kind = "session" THEN Overlap(a, b) ELSE a = b

\* A window that has fired is never opened or fired again, and no session
\* overlaps one that has fired, as long as no last watermark was processed and
\* no restart rewound a partition: a record that isTooLate lets through finds its
\* window still open.
FiredWindowStaysClosed ==
  ~rewound /\ ~hist.maxed =>
    \A e \in DOMAIN hist.emitted :
      /\ \A f \in DOMAIN hist.emitted \ {e} : ~Clash(e.win, f.win)
      /\ \A w \in DOMAIN op.wins : ~Clash(e.win, w)

Seen(h, p) == {id \in h.accepted \cup h.late : id[1] = p}
Queued(p) == {i \in DOMAIN ch : ch[i].type = "record" /\ ch[i].id[1] = p}

\* The offsets of a checkpoint name exactly the records its window state has
\* seen, and between the source and the operator nothing is lost, repeated or
\* reordered within a partition, across stops and restarts.  A restart breaks
\* this only where it rewinds: without a consumer group, a partition that had no
\* record in the incarnation of the checkpoint is missing from its offsets and is
\* read from the beginning into state that has seen it (engine.go:1089).
CutIsExact ==
  ~rewound => \A p \in Partitions :
    /\ Seen(saved.hist, p) = {p} \X (1 .. saved.offsets[p])
    /\ \E n \in 0 .. src.pos[p] :
         /\ Seen(hist, p) = {p} \X (1 .. n)
         /\ {ch[i].id : i \in Queued(p)} = {p} \X (n + 1 .. src.pos[p])
    /\ \A i, j \in Queued(p) : i < j => ch[i].id[2] < ch[j].id[2]

\* A record is dropped as late only if its own partition had already shown a
\* record more than OutOfOrderness + AllowedLateness ahead of it, or the
\* watermark had advanced while its partition did not count: never seen in
\* this incarnation, idle (partitionWatermark), or behind another under a shared
\* generator; or a restart rewound a partition, whose records then come again.
LateOnlyWhenBehind ==
  ~rewound => \A id \in hist.late :
    \/ id[1] \in hist.waived
    \/ \E j \in 1 .. id[2] - 1 :
         Rec(<<id[1], j>>).ts - OutOfOrderness - AllowedLateness > Rec(id).ts

\* What the comment on the offsets kept in a checkpoint wants, every partition
\* resumed (kafka_offset_tracker.go:116-120), and the injector's map does not
\* give: a restart never goes back behind the cut of its checkpoint.
NeverRewinds == ~rewound

\* In the last incarnation, without an idle timeout in the operator, the job
\* drains: the source ends, and every window still open fires.
EverythingFires ==
  (starts = job.maxStarts /\ ~job.idleExit) ~> (op.pc = "done" /\ op.wins = <<>>)

=============================================================================
