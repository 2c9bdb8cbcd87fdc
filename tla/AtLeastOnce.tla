----------------------------- MODULE AtLeastOnce -----------------------------
(***************************************************************************)
(* The uncoordinated checkpoint mode, from the source's positions through  *)
(* the injector, one stateful operator and the sink stage to a sink that   *)
(* batches, retries and applies a failure policy.  A checkpoint is saved   *)
(* by the sink stage once the sink has taken every record ahead of the     *)
(* barrier; the run may stop gracefully, be forced, fail or crash, and the *)
(* next one resumes from what was saved.                                   *)
(*                                                                         *)
(* A record is <<partition, place>>.  What a sink writes is its records;   *)
(* encoding, compression and object names are left out.                    *)
(***************************************************************************)
EXTENDS Integers, Sequences, FiniteSets, Bags

CONSTANTS
  Jobs,         \* candidate jobs: [log : [partition -> records], source, sink,
                \* opts, policy, batch, cap (of the channels), bad (cannot be
                \* encoded), garbled (cannot be decoded)]
  SnapLimit,    \* checkpoints whose snapshots addBarrierSnapshot keeps
  MaxRetries,   \* retries of one flush
  MaxBarriers,  \* bound: periodic checkpoints per run
  MaxFaults,    \* bound: failed calls per run
  MaxStarts     \* bound: runs

ASSUME AtLeastOnceParameters ==
  /\ MaxStarts \in Nat \ {0}
  /\ {SnapLimit, MaxRetries, MaxBarriers, MaxFaults} \subseteq Nat
  /\ \A j \in Jobs : /\ j.source \in {"file", "group", "parallel"}
                     /\ j.sink \in {"kafka", "postgres", "http", "s3", "file"}
                     /\ j.opts \subseteq {"append", "async"}
                     /\ j.policy \in {"drop", "dlq", "fail"}
                     /\ {j.batch, j.cap} \subseteq Nat \ {0}
                     /\ \A p \in DOMAIN j.log : j.log[p] \in Nat

VARIABLES
  job,
  src,    \* source: [pos, start, readers, closed], injector: [offs, last]
  group,  \* offsets committed to the consumer group
  ch1,    \* source and injector to operator
  op,     \* operator: [state, base (what the run started from), dead]
  snaps,  \* barrierSnaps: checkpoint -> state
  ch2,    \* operator to sink stage
  stage,  \* sink stage: [pc, pumped]
  sink,   \* sink: [pc, batch, flights, failed]
  out,    \* what has been written, dead-lettered, dropped, or taken without an answer
  saved,  \* the newest checkpoint
  ctl,    \* [stop, hard, result, starts, barriers, faults, spoiled]
  excused \* history: records a resume skipped without a trace of them, and what a
          \* sink wrote and erased

vars == <<job, src, group, ch1, op, snaps, ch2, stage, sink, out, saved, ctl, excused>>

Parts == DOMAIN job.log
Records == UNION {{p} \X (1 .. job.log[p]) : p \in Parts}
None == "none"
Async == job.sink = "kafka"
Elems(s) == {s[i] : i \in DOMAIN s}

-----------------------------------------------------------------------------
(* Starting a run.                                                         *)

\* Where a partition resumes: the checkpoint's position; without one, what the
\* consumer group has committed, or the start of the log.
ResumeAt(p) ==
  IF p \in DOMAIN saved.offs THEN saved.offs[p]
  ELSE IF job.source = "group" THEN group[p] ELSE 0

NoCheckpoint == [offs |-> <<>>, state |-> EmptyBag, hands |-> {}]

FreshSource(start, readers) ==
  [pos |-> start, start |-> start, offs |-> <<>>, readers |-> readers,
   last |-> FALSE, closed |-> FALSE]

FreshOp(state) == [state |-> state, base |-> state, dead |-> FALSE]

FreshStage == [pc |-> "run", pumped |-> <<>>]

FreshSink == [pc |-> "run", batch |-> <<>>, flights |-> <<>>, failed |-> {}]

FreshCtl(n) ==
  [stop |-> FALSE, hard |-> FALSE, result |-> None, starts |-> n, barriers |-> 0,
   faults |-> 0, spoiled |-> FALSE, err |-> FALSE]

\* A parallel source starts the readers of the partitions it has discovered;
\* the others read every partition.
StartReaders ==
  IF job.source = "parallel" THEN SUBSET Parts \ {{}} ELSE {Parts}

Init ==
  /\ job \in Jobs
  /\ group = [p \in Parts |-> 0]
  /\ saved = NoCheckpoint
  /\ \E R \in StartReaders : src = FreshSource([p \in Parts |-> 0], R)
  /\ ch1 = <<>> /\ op = FreshOp(EmptyBag) /\ snaps = <<>> /\ ch2 = <<>>
  /\ stage = FreshStage /\ sink = FreshSink
  /\ out = [dest |-> EmptyBag, dlq |-> {}, dropped |-> {}, adrift |-> {}]
  /\ ctl = FreshCtl(1) /\ excused = {}

Running == ctl.result = None

\* applyFailurePolicy, and the policies of the deserializer: what becomes of
\* records that cannot be delivered.
PolicyAllows == job.policy \in {"drop", "dlq"}

ByPolicy(S) ==
  IF job.policy = "drop" THEN [out EXCEPT !.dropped = @ \cup S]
  ELSE [out EXCEPT !.dlq = @ \cup S]

\* A write to the dead-letter queue may fail, which is an error like any other.
PolicyBreaks == job.policy = "dlq" /\ ctl.faults < MaxFaults

-----------------------------------------------------------------------------
(* Source and injector.                                                    *)

\* A reader fetches until its context is cancelled.
CanFetch(p) == Running /\ ~src.closed /\ ~ctl.hard /\ p \in src.readers

\* The injector notes the newest position of the record's partition.
Noted(offs, r) == [p \in DOMAIN offs \cup {r[1]} |-> IF p = r[1] THEN r[2] ELSE offs[p]]

\* fetch, toRecord, emit; the injector passes the record on and notes its
\* position.  After the context is cancelled the source may still deliver what
\* it holds.
Read(p) ==
  LET r == <<p, src.pos[p] + 1>>
  IN  /\ CanFetch(p) /\ r \in Records /\ r \notin job.garbled
      /\ Len(ch1) < job.cap
      /\ ch1' = Append(ch1, [type |-> "record", rec |-> r])
      /\ src' = [src EXCEPT !.pos[p] = @ + 1, !.offs = Noted(@, r)]
      /\ UNCHANGED <<job, group, op, snaps, ch2, stage, sink, out, saved, ctl, excused>>

\* A record that cannot be deserialized is dropped or dead-lettered by a Kafka
\* source and never reaches the injector, or fails the source.
ReadGarbled(p) ==
  LET r == <<p, src.pos[p] + 1>>
  IN  /\ CanFetch(p) /\ r \in job.garbled
      /\ src' = [src EXCEPT !.pos[p] = @ + 1]
      /\ IF job.source # "file" /\ PolicyAllows
         THEN out' = ByPolicy({r}) /\ UNCHANGED ctl
         ELSE ctl' = [ctl EXCEPT !.hard = TRUE, !.err = TRUE] /\ UNCHANGED out
      /\ UNCHANGED <<job, group, ch1, op, snaps, ch2, stage, sink, saved, excused>>

\* Without exactly-once the serial reader commits to its group as it emits, one
\* message or one batch at a time, and Drain commits what is left.
CommitGroup(p) ==
  /\ Running /\ job.source = "group" /\ group[p] < src.pos[p]
  /\ group' = [group EXCEPT ![p] = src.pos[p]]
  /\ UNCHANGED <<job, src, ch1, op, snaps, ch2, stage, sink, out, saved, ctl, excused>>

\* A partition added to the topic is found by the next discovery and read from
\* its restored position, or from the start.
Discover(p) ==
  /\ Running /\ job.source = "parallel" /\ ~src.closed /\ p \notin src.readers
  /\ src' = [src EXCEPT !.readers = @ \cup {p}]
  /\ UNCHANGED <<job, group, ch1, op, snaps, ch2, stage, sink, out, saved, ctl, excused>>

\* Retries of a fetch or a commit run out; in parallel mode the first reader to
\* fail cancels the others.
SourceFails ==
  /\ Running /\ ~src.closed /\ ~ctl.hard /\ ctl.faults < MaxFaults
  /\ ctl' = [ctl EXCEPT !.faults = @ + 1, !.hard = TRUE, !.err = TRUE]
  /\ UNCHANGED <<job, src, group, ch1, op, snaps, ch2, stage, sink, out, saved, excused>>

\* A barrier with the positions of the partitions seen in this run.
Barrier == [type |-> "barrier", id |-> ctl.barriers + 1, offs |-> src.offs]

PeriodicBarrier ==
  /\ Running /\ ~src.last /\ ~ctl.hard
  /\ ctl.barriers < MaxBarriers /\ Len(ch1) < job.cap
  /\ ch1' = Append(ch1, Barrier)
  /\ ctl' = [ctl EXCEPT !.barriers = @ + 1]
  /\ UNCHANGED <<job, src, group, op, snaps, ch2, stage, sink, out, saved, excused>>

Exhausted == job.source = "file" /\ \A p \in Parts : src.pos[p] = job.log[p]

\* The run's last barrier: "-shutdown" when the context is cancelled, or
\* "-final" when the source has ended.
LastBarrier ==
  /\ Running /\ ~src.last /\ ~ctl.hard /\ Len(ch1) < job.cap
  /\ ctl.stop \/ Exhausted
  /\ ch1' = Append(ch1, Barrier)
  /\ src' = [src EXCEPT !.last = TRUE]
  /\ ctl' = [ctl EXCEPT !.barriers = @ + 1]
  /\ UNCHANGED <<job, group, op, snaps, ch2, stage, sink, out, saved, excused>>

SourceCloses ==
  /\ Running /\ ~src.closed
  /\ src.last \/ ctl.hard
  /\ src' = [src EXCEPT !.closed = TRUE]
  /\ UNCHANGED <<job, group, ch1, op, snaps, ch2, stage, sink, out, saved, ctl, excused>>

-----------------------------------------------------------------------------
(* The operator and its barrier snapshots.                                 *)

OpRecord ==
  /\ Running /\ ~op.dead /\ ch1 # <<>> /\ Len(ch2) < job.cap /\ Head(ch1).type = "record"
  /\ op' = [op EXCEPT !.state = @ (+) SetToBag({Head(ch1).rec})]
  /\ ch1' = Tail(ch1) /\ ch2' = Append(ch2, Head(ch1))
  /\ UNCHANGED <<job, src, group, snaps, stage, sink, out, saved, ctl, excused>>

\* runOperator recovers a panic of the operator into an error of the stage.
OpPanics ==
  /\ Running /\ ~op.dead /\ ch1 # <<>> /\ ~ctl.hard /\ ctl.faults < MaxFaults
  /\ op' = [op EXCEPT !.dead = TRUE]
  /\ ctl' = [ctl EXCEPT !.faults = @ + 1, !.hard = TRUE, !.err = TRUE]
  /\ UNCHANGED <<job, src, group, ch1, snaps, ch2, stage, sink, out, saved, excused>>

\* addBarrierSnapshot: a full map first drops the snapshots of any other
\* checkpoint.
AddBarrierSnapshot(id) ==
  \E keep \in (IF Cardinality(DOMAIN snaps) > SnapLimit
               THEN {DOMAIN snaps \ {stale} : stale \in DOMAIN snaps}
               ELSE {DOMAIN snaps}) :
    snaps' = [c \in keep \cup {id} |-> IF c = id THEN op.state ELSE snaps[c]]

\* The operator's snapshot may fail; the barrier goes on without it.
OpBarrier ==
  /\ Running /\ ~op.dead /\ ch1 # <<>> /\ Len(ch2) < job.cap /\ Head(ch1).type = "barrier"
  /\ \/ AddBarrierSnapshot(Head(ch1).id) /\ UNCHANGED ctl
     \/ /\ ctl.faults < MaxFaults /\ ctl' = [ctl EXCEPT !.faults = @ + 1]
        /\ UNCHANGED snaps
  /\ ch1' = Tail(ch1) /\ ch2' = Append(ch2, Head(ch1))
  /\ UNCHANGED <<job, src, group, op, stage, sink, out, saved, excused>>

-----------------------------------------------------------------------------
(* The sink stage.                                                         *)

SinkDead == sink.pc \in {"failed", "canceled", "returned"}

StageTakes ==
  /\ Running /\ stage.pc = "run" /\ ch2 # <<>> /\ ch2' = Tail(ch2)
  /\ UNCHANGED <<job, src, group, ch1, op, out, excused>>

StageRecord ==
  /\ StageTakes /\ Head(ch2).type = "record" /\ ~SinkDead
  /\ Len(stage.pumped) < job.cap
  /\ stage' = [stage EXCEPT !.pumped = Append(@, Head(ch2).rec)]
  /\ UNCHANGED <<snaps, sink, saved, ctl>>

\* Mutant: the state is read when the checkpoint is assembled.
LiveState(id) == op.state

\* collectSnapshots: the snapshot of the barrier, or the live state.
Collected(id) == IF id \in DOMAIN snaps THEN snaps[id] ELSE op.state

\* What a flush has still to write of its batch.
Left(f) == Elems(f.recs) \ f.done

\* What the sink has taken and neither written nor given up.
InSinksHands ==
  Elems(sink.batch) \cup (UNION {Left(sink.flights[i]) : i \in DOMAIN sink.flights})
    \cup sink.failed

\* Mutant: a barrier is reported while records wait in the hand-off channel.
NothingPumpedIgnored == TRUE

\* The wait before OnBarrier ends when the sink has taken every record.
NothingPumped == stage.pumped = <<>>

\* OnBarrier runs saveCheckpoint; the save itself may fail.
StageBarrier ==
  LET b == Head(ch2)
  IN  /\ StageTakes /\ b.type = "barrier" /\ NothingPumped
      /\ \/ /\ saved' = [offs |-> b.offs, state |-> Collected(b.id),
                         hands |-> InSinksHands]
            /\ ctl' = [ctl EXCEPT !.spoiled = b.id \notin DOMAIN snaps]
         \/ /\ ctl.faults < MaxFaults /\ UNCHANGED saved
            /\ ctl' = [ctl EXCEPT !.faults = @ + 1]
      /\ snaps' = [c \in DOMAIN snaps \ {b.id} |-> snaps[c]]
      /\ UNCHANGED <<stage, sink>>

\* Mutant: the stage looks for the sink's error only while it waits at a barrier.
StageSeesDeathAtBarrier ==
  /\ Running /\ stage.pc = "run" /\ SinkDead /\ ch2 # <<>>
  /\ Head(ch2).type = "barrier" /\ ~NothingPumped
  /\ stage' = [stage EXCEPT !.pc = "returned"]
  /\ ctl' = [ctl EXCEPT !.hard = TRUE, !.err = @ \/ sink.pc = "failed"]
  /\ UNCHANGED <<job, src, group, ch1, op, snaps, ch2, sink, out, saved, excused>>

\* The sink died: the stage reports its error when it next has to wait for it,
\* with a record to hand over or a barrier behind unread records.
StageSeesDeath ==
  /\ Running /\ stage.pc = "run" /\ SinkDead /\ ch2 # <<>>
  /\ Head(ch2).type = "record" \/ ~NothingPumped
  /\ stage' = [stage EXCEPT !.pc = "returned"]
  /\ ctl' = [ctl EXCEPT !.hard = TRUE, !.err = @ \/ sink.pc = "failed"]
  /\ UNCHANGED <<job, src, group, ch1, op, snaps, ch2, sink, out, saved, excused>>

\* A forced shutdown: the stages behind the source give up what they hold.
StageDiscards ==
  /\ Running /\ ctl.hard /\ (ch1 # <<>> \/ ch2 # <<>>)
  /\ ch1' = <<>> /\ ch2' = <<>>
  /\ UNCHANGED <<job, src, group, op, snaps, stage, sink, out, saved, ctl, excused>>

StageCloses ==
  /\ Running /\ stage.pc = "run" /\ src.closed /\ ch1 = <<>> /\ ch2 = <<>>
  /\ stage' = [stage EXCEPT !.pc = "closed"]
  /\ UNCHANGED <<job, src, group, ch1, op, snaps, ch2, sink, out, saved, ctl, excused>>

-----------------------------------------------------------------------------
(* The sink: batchWriter.run with the flush of each sink.                  *)

\* A new batch is flushed in the loop, or beside it when the sink is async.
Flushed(s, batch) ==
  IF batch = <<>> THEN s
  ELSE [s EXCEPT !.batch = <<>>,
                 !.flights = Append(@, [recs |-> batch, done |-> {}, tries |-> 0])]

\* A failed background flush leaves its error for a later turn of the loop.
SinkLoops == sink.pc \in {"run", "errored"} /\ (Async \/ sink.flights = <<>>)

\* The sink gives up on these records and on the run.
SinkFails(pc, recs) == [sink EXCEPT !.pc = pc, !.failed = @ \cup recs]

SinkReads ==
  /\ Running /\ SinkLoops /\ stage.pumped # <<>>
  /\ stage' = [stage EXCEPT !.pumped = Tail(@)]
  /\ UNCHANGED <<job, src, group, ch1, op, snaps, ch2, saved, excused>>

\* Kafka encodes a record, Postgres maps it and FileSink writes it as it comes.
UnfitOnEntry(r) == r \in job.bad /\ job.sink \in {"kafka", "postgres", "file"}

SinkTakes ==
  LET b == Append(sink.batch, Head(stage.pumped))
  IN  /\ SinkReads /\ ~UnfitOnEntry(Head(stage.pumped))
      /\ sink' = IF Len(b) >= job.batch THEN Flushed(sink, b)
                 ELSE [sink EXCEPT !.batch = b]
      /\ UNCHANGED <<out, ctl>>

\* The Postgres mapper declines a row, which no policy sees.
PostgresDeclines ==
  LET r == Head(stage.pumped)
  IN  /\ SinkReads /\ UnfitOnEntry(r) /\ job.sink = "postgres"
      /\ out' = [out EXCEPT !.dropped = @ \cup {r}] /\ UNCHANGED <<sink, ctl>>

\* A record the Kafka serializer refuses is the policy's.
KafkaRefuses ==
  LET r == Head(stage.pumped)
  IN  /\ SinkReads /\ UnfitOnEntry(r) /\ job.sink = "kafka"
      /\ \/ PolicyAllows /\ out' = ByPolicy({r}) /\ UNCHANGED <<sink, ctl>>
         \/ /\ ~PolicyAllows
            /\ sink' = SinkFails("failing", {r}) /\ UNCHANGED <<out, ctl>>
         \/ /\ PolicyBreaks /\ sink' = SinkFails("failing", {r})
            /\ ctl' = [ctl EXCEPT !.faults = @ + 1] /\ UNCHANGED out

\* FileSink knows no policy.
FileRefuses ==
  LET r == Head(stage.pumped)
  IN  /\ SinkReads /\ UnfitOnEntry(r) /\ job.sink = "file"
      /\ sink' = SinkFails("failing", {r}) /\ UNCHANGED <<out, ctl>>

\* The flush interval; FileSink has none.
SinkTick ==
  /\ Running /\ SinkLoops /\ job.sink # "file" /\ sink.batch # <<>>
  /\ sink' = Flushed(sink, sink.batch)
  /\ UNCHANGED <<job, src, group, ch1, op, snaps, ch2, stage, out, saved, ctl, excused>>

\* Only an async sink has more than one flush under way.
Flights == DOMAIN sink.flights

\* The first record a flush has still to write.
FirstLeft(f) ==
  f.recs[CHOOSE i \in DOMAIN f.recs :
           f.recs[i] \notin f.done /\ \A j \in 1 .. i - 1 : f.recs[j] \in f.done]

\* A flush writes its batch at once; Postgres table by table (here, one per
\* partition), in the order in which the batch first names them.
Group(f) ==
  IF job.sink = "postgres" THEN {r \in Left(f) : r[1] = FirstLeft(f)[1]} ELSE Left(f)

FlightsWithout(i) ==
  [j \in 1 .. Len(sink.flights) - 1 |->
     IF j < i THEN sink.flights[j] ELSE sink.flights[j + 1]]

\* The flights after flight i is done with its group.
FlightsAfter(i) ==
  LET f == sink.flights[i]
  IN  IF Group(f) = Left(f) THEN FlightsWithout(i)
      ELSE [sink.flights EXCEPT ![i] = [f EXCEPT !.done = @ \cup Group(f), !.tries = 0]]

\* HTTP and S3 encode at the flush, and the policy decides on what they cannot.
HTTPUnfit(recs) == IF job.sink = "http" THEN Elems(recs) \cap job.bad ELSE {}

S3Unfit(recs) == IF job.sink = "s3" THEN Elems(recs) \cap job.bad ELSE {}

Unfit(i) == HTTPUnfit(sink.flights[i].recs) \cup S3Unfit(sink.flights[i].recs)

\* What arrives of an accepted batch: with KafkaSinkAsync the writer answers
\* before it delivers, and reports nothing after.
Arriving(S) == IF job.sink = "kafka" /\ "async" \in job.opts THEN SUBSET S ELSE {S}

\* The destination accepts the batch.
FlushSucceeds(i) ==
  /\ Running /\ i \in Flights /\ (Unfit(i) = {} \/ PolicyAllows)
  /\ LET taken == Group(sink.flights[i]) \ Unfit(i)
     IN  \E got \in Arriving(taken) :
           out' = [(IF Unfit(i) = {} THEN out ELSE ByPolicy(Unfit(i)))
                     EXCEPT !.dest = @ (+) SetToBag(got), !.adrift = @ \cup (taken \ got)]
  /\ sink' = [sink EXCEPT !.flights = FlightsAfter(i)]
  /\ UNCHANGED <<job, src, group, ch1, op, snaps, ch2, stage, saved, ctl, excused>>

\* The context of a flush is cancelled with the run, except for the last one.
FlushCancelled == ctl.hard /\ sink.pc # "ending"

\* writeWithRetry, insertGroupWithRetry and sendWithRetry; a put to S3 is final.
KafkaRetries(f) == job.sink = "kafka" /\ f.tries < MaxRetries

PostgresRetries(f) == job.sink = "postgres" /\ f.tries < MaxRetries

HTTPRetries(f) == job.sink = "http" /\ f.tries < MaxRetries

MayRetry(i) ==
  LET f == sink.flights[i]
  IN  ~FlushCancelled /\ (KafkaRetries(f) \/ PostgresRetries(f) \/ HTTPRetries(f))

\* An answer of the endpoint that no retry can mend.
HTTPPermanent == job.sink = "http"

\* A Postgres retry that is cancelled returns before the policy is asked.
PostgresCancelled == job.sink = "postgres" /\ FlushCancelled

\* A failed attempt that is retried; the destination may have accepted it.
FlushRetries(i) ==
  /\ Running /\ i \in Flights /\ MayRetry(i) /\ Unfit(i) = {}
  /\ \E took \in {{}, Group(sink.flights[i])} :
       out' = [out EXCEPT !.dest = @ (+) SetToBag(took)]
  /\ sink' = [sink EXCEPT !.flights[i].tries = @ + 1]
  /\ UNCHANGED <<job, src, group, ch1, op, snaps, ch2, stage, saved, ctl, excused>>

\* The last attempt fails and the policy settles every record.
FlushGivesUp(i) ==
  /\ Running /\ i \in Flights /\ PolicyAllows
  /\ ~MayRetry(i) \/ HTTPPermanent
  /\ FlushCancelled \/ ctl.faults < MaxFaults
  /\ ctl' = [ctl EXCEPT !.faults = IF FlushCancelled THEN @ ELSE @ + 1]
  /\ out' = ByPolicy(Group(sink.flights[i]))
  /\ sink' = [sink EXCEPT !.flights = FlightsAfter(i)]
  /\ UNCHANGED <<job, src, group, ch1, op, snaps, ch2, stage, saved, excused>>

\* Under the fail policy, or when the dead-letter write fails too, the flush
\* returns an error with what is left of its batch.
FlushFails(i) ==
  /\ Running /\ i \in Flights
  /\ \/ ~PolicyAllows /\ Unfit(i) # {} /\ UNCHANGED ctl
     \/ /\ ~MayRetry(i) \/ HTTPPermanent
        /\ FlushCancelled \/ ctl.faults < MaxFaults
        /\ ~PolicyAllows \/ PolicyBreaks \/ PostgresCancelled
        /\ ctl' = [ctl EXCEPT !.faults = IF FlushCancelled THEN @ ELSE @ + 1]
  /\ sink' = [SinkFails(IF Async /\ SinkLoops THEN "errored" ELSE "failing",
                        Left(sink.flights[i]))
               EXCEPT !.flights = FlightsWithout(i)]
  /\ UNCHANGED <<job, src, group, ch1, op, snaps, ch2, stage, out, saved, excused>>

\* The input is closed, or the context cancelled and the input drained or the
\* drain timed out: a last flush.  FileSink flushes and leaves at once.
SinkEnds ==
  /\ Running /\ SinkLoops
  /\ \/ stage.pumped = <<>> /\ stage.pc \in {"closed", "returned"}
     \/ ctl.hard
  /\ sink' = [Flushed(sink, sink.batch) EXCEPT !.pc =
                 IF @ = "errored" THEN "failing" ELSE "ending"]
  /\ UNCHANGED <<job, src, group, ch1, op, snaps, ch2, stage, out, saved, ctl, excused>>

\* Mutant: the sink returns while flushes are under way.
SinkReturnsEarly ==
  /\ Running /\ sink.pc \in {"ending", "failing", "errored"}
  /\ sink' = [sink EXCEPT !.pc = CASE @ # "ending" -> "failed"
                                   [] @ = "ending" /\ ctl.hard -> "canceled"
                                   [] OTHER -> "returned"]
  /\ UNCHANGED <<job, src, group, ch1, op, snaps, ch2, stage, out, saved, ctl, excused>>

\* wg.Wait, then the error of a flush if there is one, or the context's.
SinkReturns ==
  /\ Running /\ sink.pc \in {"ending", "failing", "errored"} /\ sink.flights = <<>>
  /\ sink' = [sink EXCEPT !.pc = CASE @ # "ending" -> "failed"
                                   [] @ = "ending" /\ ctl.hard -> "canceled"
                                   [] OTHER -> "returned"]
  /\ UNCHANGED <<job, src, group, ch1, op, snaps, ch2, stage, out, saved, ctl, excused>>

-----------------------------------------------------------------------------
(* The run: stop, force, return, crash and resume.                         *)

Stop ==
  /\ Running /\ ~ctl.stop
  /\ ctl' = [ctl EXCEPT !.stop = TRUE]
  /\ UNCHANGED <<job, src, group, ch1, op, snaps, ch2, stage, sink, out, saved, excused>>

ShutdownTimeout ==
  /\ Running /\ ctl.stop /\ ~ctl.hard /\ ctl.faults < MaxFaults
  /\ ctl' = [ctl EXCEPT !.hard = TRUE, !.faults = @ + 1]
  /\ UNCHANGED <<job, src, group, ch1, op, snaps, ch2, stage, sink, out, saved, excused>>

\* Execute returns the first error that is not a cancellation.
Return ==
  /\ Running /\ src.closed /\ stage.pc \in {"closed", "returned"} /\ SinkDead
  /\ ctl' = [ctl EXCEPT !.result =
                IF ctl.err \/ sink.pc = "failed" THEN "error" ELSE "nil"]
  /\ UNCHANGED <<job, src, group, ch1, op, snaps, ch2, stage, sink, out, saved, excused>>

Settled == BagToSet(out.dest) \cup out.dlq \cup out.dropped \cup out.adrift

\* FileSink opens its file with O_TRUNC unless it is told to append.
Truncates == job.sink = "file" /\ "append" \notin job.opts

\* The process ends, by itself or in a crash, and is started again.  Positions
\* restored from the checkpoint are committed to the group first.
Restart ==
  LET start == [p \in Parts |-> ResumeAt(p)]
  IN  /\ ctl.starts < MaxStarts
      /\ \E R \in StartReaders : src' = FreshSource(start, R)
      /\ op' = FreshOp(saved.state)
      /\ ch1' = <<>> /\ snaps' = <<>> /\ ch2' = <<>>
      /\ stage' = FreshStage /\ sink' = FreshSink
      /\ ctl' = FreshCtl(ctl.starts + 1)
      /\ out' = IF Truncates THEN [out EXCEPT !.dest = EmptyBag] ELSE out
      /\ excused' = excused \cup saved.hands
           \cup (IF Truncates THEN BagToSet(out.dest) ELSE {})
           \cup {r \in Records : r[1] \notin DOMAIN saved.offs /\ r[2] <= start[r[1]]}
      /\ group' = [p \in Parts |-> IF job.source = "group" THEN start[p] ELSE group[p]]
      /\ UNCHANGED <<job, saved>>

Next ==
  \/ \E p \in Parts : Read(p) \/ ReadGarbled(p) \/ CommitGroup(p) \/ Discover(p)
  \/ SourceFails \/ PeriodicBarrier \/ LastBarrier \/ SourceCloses
  \/ OpRecord \/ OpBarrier \/ OpPanics
  \/ StageRecord \/ StageBarrier \/ StageSeesDeath \/ StageDiscards \/ StageCloses
  \/ SinkTakes \/ PostgresDeclines \/ KafkaRefuses \/ FileRefuses \/ SinkTick
  \/ \E i \in Flights : FlushSucceeds(i) \/ FlushRetries(i) \/ FlushGivesUp(i) \/ FlushFails(i)
  \/ SinkEnds \/ SinkReturns
  \/ Stop \/ ShutdownTimeout \/ Return \/ Restart

\* Every goroutine that can run is scheduled, and every call to a destination
\* ends.  Nothing obliges anyone to stop, to crash or to restart.
Fairness ==
  /\ WF_vars(LastBarrier \/ SourceCloses)
  /\ WF_vars(OpRecord \/ OpBarrier)
  /\ WF_vars(StageRecord \/ StageBarrier \/ StageSeesDeath \/ StageDiscards \/ StageCloses)
  /\ WF_vars(SinkTakes \/ PostgresDeclines \/ KafkaRefuses \/ FileRefuses) /\ WF_vars(SinkEnds \/ SinkReturns)
  /\ WF_vars(\E i \in Flights : FlushSucceeds(i) \/ FlushGivesUp(i) \/ FlushFails(i))
  /\ WF_vars(Return)

Spec == Init /\ [][Next]_vars /\ Fairness

-----------------------------------------------------------------------------
(* Properties.                                                             *)

Skipped(S) == {r \in S : r[2] <= src.start[r[1]]}

\* A record a resumed run does not read again was settled (written, taken by an
\* asynchronous Kafka writer, dead-lettered or dropped by policy), or was in the
\* sink's own hands when the checkpoint was saved, or in a file the sink has
\* truncated since, or was committed to the consumer group without a checkpoint:
\* nothing is lost between the source and the sink, whatever the order of
\* barriers, records, failures and crashes (the wait of SinkStage.Run before
\* OnBarrier).
LossIsTheSinks == Skipped(Records) \subseteq Settled \cup excused

\* A run that ends without an error and was not forced has settled every record
\* it read: batches, background flushes and dead letters included; an
\* asynchronous Kafka writer has taken them (batchWriter.run, SinkStage.Run,
\* Execute).
CleanStopDelivers ==
  (ctl.result = "nil" /\ ~ctl.hard) =>
    \A r \in Records :
      (src.start[r[1]] < r[2] /\ r[2] <= src.pos[r[1]]) => r \in Settled

\* The state in a checkpoint is the state the run started from and the records
\* between its start and the checkpoint's positions, each once, whatever the
\* operator has taken since: unless the snapshot of the barrier failed or was
\* dropped for being one too many (addBarrierSnapshot, collectSnapshots).
SnapshotIsTheCut ==
  [][(StageBarrier /\ saved' # saved /\ ~ctl'.spoiled) =>
       saved'.state = op.base (+)
         SetToBag({r \in Records \ job.garbled :
                     /\ r[1] \in DOMAIN saved'.offs
                     /\ src.start[r[1]] < r[2] /\ r[2] <= saved'.offs[r[1]]})]_vars

\* A run that was asked to stop, or whose source or sink failed, returns.
StopReturns == (ctl.stop \/ ctl.hard) ~> (~Running \/ ~(ctl.stop \/ ctl.hard))

\* At least once: a record that is not read again has been settled.
AtLeastOnceDelivery == Skipped(Records) \subseteq Settled

\* What an earlier run wrote is still there after a restart, or is read again:
\* the comment on FileSink, "Delivery is at-least-once with checkpointing: records
\* may be replayed after a restart".
WrittenStaysOrReplays ==
  [][\A r \in BagToSet(out.dest) :
       r \in BagToSet(out'.dest) \/ r[2] > src'.start[r[1]]]_vars

=============================================================================
