----------------------------- MODULE KeyedState -----------------------------
(***************************************************************************)
(* One stateful operator and its state backend through barriers, crashes   *)
(* and restarts: keyed process with event-time timers, reduce behind a     *)
(* window, and an operator that buffers in list state (Window, join), on   *)
(* the memory and on the Pebble backend.                                   *)
(*                                                                         *)
(* A payload is the position of its record in the input, so a value tells  *)
(* which records went into it.  The input is replayable: a restarted run   *)
(* reads it again from the position of the checkpoint it restores.         *)
(***************************************************************************)
EXTENDS Integers, Sequences, FiniteSets

CONSTANTS
  Nil,
  Partial,     \* a directory that was copied in part
  Jobs,        \* [kind, backend, lateness, workers, names, times, inputs] to run: an
               \* operator, the "one" or "many" window workers ahead of it, its value
               \* states, the event times and length of its input
  Keys,
  Names,       \* value states the user function asks for
  Times,       \* event times, an interval from 1
  MaxBarriers,
  MaxCrashes,
  MaxFailures  \* native snapshots that fail

ASSUME BoundsAssumption == {MaxBarriers, MaxCrashes, MaxFailures} \subseteq Nat /\ 0 \notin Times

VARIABLES
  job,      \* what runs
  log,      \* the input so far, which outlives every crash
  op,       \* the operator and its backend
  pending,  \* barriers between the operator and the end of the pipeline
  ckpt,     \* the newest checkpoint, Nil before the first
  dir,      \* the backend's directory after a crash, Nil when nothing is left
  used      \* barriers, crashes and failures so far

vars == <<job, log, op, pending, ckpt, dir, used>>

-----------------------------------------------------------------------------
(* The backends.  A list is a function from sequence numbers to entries;   *)
(* memory numbers them from 1, Pebble as Append says.                      *)

Empty ==
  [vals |-> [n \in Names |-> [k \in Keys |-> <<>>]],
   timers |-> [k \in Keys |-> {}],
   wm |-> 0,
   accums |-> [w \in Keys \X Times |-> 0],
   list |-> [k \in Keys |-> <<>>]]

NoSeqs == [k \in Keys |-> Nil]

MaxOf(S) == CHOOSE x \in S : \A y \in S : y <= x

\* Mutant: an unseeded counter starts at the beginning of a list that exists.
NextListSeqZero(entries) == 0

\* One past the highest entry that is stored.
NextListSeq(entries) == IF DOMAIN entries = {} THEN 0 ELSE MaxOf(DOMAIN entries) + 1

Put(entries, seq, v) == [s \in DOMAIN entries \cup {seq} |-> IF s = seq THEN v ELSE entries[s]]

MemoryAppend(o, k, v) == [o EXCEPT !.db.list[k] = Append(@, v)]

\* The counters are in RAM and seeded when a key is first appended to.
PebbleAppend(o, k, v) ==
  LET seq == IF o.seqs[k] = Nil THEN NextListSeq(o.db.list[k]) ELSE o.seqs[k]
  IN  [o EXCEPT !.seqs[k] = seq + 1, !.db.list[k] = Put(@, seq, v)]

ListAppend(o, k, v) == IF job.backend = "memory" THEN MemoryAppend(o, k, v) ELSE PebbleAppend(o, k, v)

Ascending(S) ==
  [i \in 1 .. Cardinality(S) |-> CHOOSE x \in S : Cardinality({y \in S : y < x}) = i - 1]

\* Entries in the order of their sequence numbers.
GetAll(entries) ==
  [i \in 1 .. Cardinality(DOMAIN entries) |-> entries[Ascending(DOMAIN entries)[i]]]

\* The entries go, Pebble's counter stays.
ListClear(o, k) == [o EXCEPT !.db.list[k] = <<>>]

ListKeys(o) == {k \in Keys : DOMAIN o.db.list[k] # {}}

ValueGet(o, name, k) == o.db.vals[name][k]

ValueSet(o, name, k, v) == [o EXCEPT !.db.vals[name][k] = v]

\* Reset: the working directory is wiped and reopened; a memory backend is new.
ResetOp == [db |-> Empty, seqs |-> NoSeqs]

-----------------------------------------------------------------------------
(* The operators.                                                          *)

FreshOp ==
  [up |-> TRUE, pos |-> 0, db |-> Empty, seqs |-> NoSeqs, names |-> {}, frontier |-> 0,
   out |-> {}, since |-> {}, spoiled |-> FALSE]

\* Registering a timer that is already there changes nothing.
RegisterEventTimeTimer(o, k, t) == IF t = 0 THEN o ELSE [o EXCEPT !.db.timers[k] = @ \cup {t}]

\* The operator learns of a value state when the user function asks for it.
Remember(o, name) == [o EXCEPT !.names = @ \cup {name}]

\* The user function appends the record to one of its value states.
ProcessRecord(o, r, n) ==
  LET v == Append(ValueGet(o, r.name, r.key), n)
  IN  RegisterEventTimeTimer(
        [ValueSet(Remember(o, r.name), r.name, r.key, v) EXCEPT !.out = {<<r.key, v>>}],
        r.key, r.time)

\* splitTimers, for one key.
DueTimers(o, k) == {t \in o.db.timers[k] : t <= o.db.wm}

\* What is due is removed before the callback runs.
FireTimers(o) ==
  [o EXCEPT !.out = {<<k, t>> \in Keys \X Times : t \in DueTimers(o, k)},
            !.db.timers = [k \in Keys |-> @[k] \ DueTimers(o, k)]]

ProcessWatermark(o, at) == FireTimers([o EXCEPT !.db.wm = IF at > @ THEN at ELSE @])

\* stateKeyWindowEnd of every key that Keys returns.
EvictClosedWindows(accums, frontier) ==
  [w \in DOMAIN accums |-> IF w[2] < frontier THEN 0 ELSE accums[w]]

\* Times are nanoseconds, so the frontier of a late window is one past it.
WindowFrontier(end) == IF job.lateness > 0 THEN end - job.lateness + 1 ELSE end

\* Mutant: the closed windows are swept one frontier late.
AdvanceWindowFrontierLate(o, end) ==
  IF WindowFrontier(end) <= o.frontier THEN o
  ELSE [o EXCEPT !.frontier = WindowFrontier(end), !.since = {},
                 !.db.accums = EvictClosedWindows(@, o.frontier)]

\* Only a frontier that moves sweeps the windows below it.
AdvanceWindowFrontier(o, end) ==
  IF WindowFrontier(end) <= o.frontier THEN o
  ELSE [o EXCEPT !.frontier = WindowFrontier(end), !.since = {},
                 !.db.accums = EvictClosedWindows(@, WindowFrontier(end))]

\* The accumulator is emitted, then closed windows are evicted.
ReduceRecord(o, r) ==
  LET w == <<r.key, r.time>>
      v == o.db.accums[w] + 1
  IN  AdvanceWindowFrontier(
        [o EXCEPT !.db.accums[w] = v, !.out = {<<w, v>>}, !.since = @ \cup {w}], r.time)

BufferRecord(o, r, n) == [ListAppend(o, r.key, n) EXCEPT !.out = {}]

\* Every key that has entries is fired and cleared.
FireBuffers(o) ==
  [o EXCEPT !.out = {<<k, GetAll(o.db.list[k])>> : k \in ListKeys(o)},
            !.db.list = [k \in Keys |-> ListClear(o, k).db.list[k]]]

Handled(o, it, n) ==
  CASE job.kind = "process" /\ it.type = "record" -> ProcessRecord(o, it, n)
    [] job.kind = "process" /\ it.type = "watermark" -> ProcessWatermark(o, it.time)
    [] job.kind = "reduce" -> ReduceRecord(o, it)
    [] job.kind = "buffer" /\ it.type = "record" -> BufferRecord(o, it, n)
    [] OTHER -> FireBuffers(o)

-----------------------------------------------------------------------------
(* The input.                                                              *)

Record(k, name, t, pass) == [type |-> "record", key |-> k, name |-> name, time |-> t, pass |-> pass]
Watermark(t) == [type |-> "watermark", time |-> t]

\* What a Window emits: the records of a window together, each window once; one
\* watermark (pass) fires what it covers in any order, a later one only windows that end
\* later.  In one keyed stage with its Reduce, a worker's Reduce hears that worker's
\* Window alone; a Reduce that is not next to the Window is planned as a stage of its own
\* and hears them all, each key from its own worker.  A Window consumes watermarks, so
\* nothing aligns the workers between two barriers.
WindowFires(r) ==
  LET mine == {i \in DOMAIN log : job.workers = "one" \/ log[i].key = r.key}
      same(i) == log[i].key = r.key /\ log[i].time = r.time
  IN  /\ \A i \in mine : log[i].pass <= r.pass /\ (same(i) => same(MaxOf(mine)))
      /\ \A i \in DOMAIN log :
           /\ log[i].pass < r.pass => log[i].time < r.time
           /\ log[i].pass > r.pass => log[i].time > r.time
      /\ job.workers = "one" => r.pass <= 1 + MaxOf({0} \cup {log[i].pass : i \in mine})

Inputs ==
  CASE job.kind = "process" ->
         {Record(k, n, t, 0) : k \in Keys, n \in job.names, t \in job.times \cup {0}}
         \cup {Watermark(t) : t \in job.times}
    [] job.kind = "reduce" ->
         {r \in {Record(k, Nil, t, p) : k \in Keys, t \in job.times, p \in job.times} : WindowFires(r)}
    [] OTHER -> {Record(k, Nil, 0, 0) : k \in Keys} \cup {Watermark(0)}

ReadNew ==
  /\ op.up /\ op.pos = Len(log) /\ Len(log) < job.inputs
  /\ \E it \in Inputs :
       /\ log' = Append(log, it)
       /\ op' = [Handled(op, it, op.pos + 1) EXCEPT !.pos = @ + 1]
  /\ UNCHANGED <<job, pending, ckpt, dir, used>>

ReadAgain ==
  /\ op.up /\ op.pos < Len(log)
  /\ op' = [Handled(op, log[op.pos + 1], op.pos + 1) EXCEPT !.pos = @ + 1]
  /\ UNCHANGED <<job, log, pending, ckpt, dir, used>>

-----------------------------------------------------------------------------
(* Checkpoints.                                                            *)

Native == job.backend = "pebble"

NativeSnapshot == [how |-> "native", db |-> op.db, names |-> {}]

SnapshotAll(vals, names) == [n \in Names |-> IF n \in names THEN vals[n] ELSE Empty.vals[n]]

\* KeyedProcess serializes the value states it has seen asked for.
Snapshot ==
  [how |-> "inline", names |-> op.names, db |-> [op.db EXCEPT !.vals = SnapshotAll(@, op.names)]]

\* The barrier passes the operator, which snapshots between two records; a
\* native snapshot that fails is only reported.
OpBarrier ==
  /\ op.up /\ used.barriers < MaxBarriers
  /\ \E failed \in (IF Native /\ used.failures < MaxFailures THEN {0, 1} ELSE {0}) :
       /\ pending' = Append(pending,
            [pos |-> op.pos, snap |-> IF failed = 1 THEN Nil ELSE IF Native THEN NativeSnapshot ELSE Snapshot])
       /\ used' = [used EXCEPT !.barriers = @ + 1, !.failures = @ + failed]
  /\ UNCHANGED <<job, log, op, ckpt, dir>>

\* The end of the pipeline takes what is missing from the live operator, which
\* may have read on; a reduce checkpoints natively, and may fail again.
SnapshotOrCheckpoint ==
  IF job.kind = "reduce" THEN {NativeSnapshot, Nil} ELSE {Snapshot}

SaveCheckpoint ==
  /\ op.up /\ pending # <<>>
  /\ LET b == Head(pending)
     IN  \E s \in (IF b.snap # Nil THEN {b.snap} ELSE SnapshotOrCheckpoint) :
           ckpt' = [pos |-> b.pos, snap |-> s, spoiled |-> op.spoiled \/ b.snap = Nil]
  /\ pending' = Tail(pending)
  /\ UNCHANGED <<job, log, op, dir, used>>

-----------------------------------------------------------------------------
(* Crashes and restarts.                                                   *)

Crash ==
  /\ op.up /\ used.crashes < MaxCrashes
  /\ dir' = IF Native THEN op.db ELSE Nil
  /\ op' = [FreshOp EXCEPT !.up = FALSE]
  /\ pending' = <<>>
  /\ used' = [used EXCEPT !.crashes = @ + 1]
  /\ UNCHANGED <<job, log, ckpt>>

\* The backend as the factory opens it.
Opened == IF dir = Nil THEN Empty ELSE dir

\* resetWorkingState: nothing of an earlier run is used without a checkpoint.
StartFresh ==
  /\ ~op.up /\ ckpt = Nil /\ dir # Partial
  /\ op' = [FreshOp EXCEPT !.db = ResetOp.db, !.seqs = ResetOp.seqs]
  /\ dir' = Nil
  /\ UNCHANGED <<job, log, pending, ckpt, used>>

RestoreAll(vals, entries, names) == [n \in Names |-> IF n \in names THEN entries[n] ELSE vals[n]]

\* Restore of inline state replaces the value states the snapshot has; the
\* others keep what the directory held.
Restored(s) == [s.db EXCEPT !.vals = RestoreAll(Opened.vals, @, s.names)]

\* restoreOperatorState: native state, inline state, or a reset.
RestoreOperatorState ==
  /\ ~op.up /\ ckpt # Nil /\ dir # Partial
  /\ LET s == ckpt.snap
         o == [FreshOp EXCEPT !.pos = ckpt.pos, !.spoiled = ckpt.spoiled]
     IN  op' = CASE s = Nil -> o
                 [] s # Nil /\ s.how = "native" -> [o EXCEPT !.db = s.db]
                 [] OTHER -> [o EXCEPT !.db = Restored(s), !.names = s.names]
  /\ dir' = Nil
  /\ UNCHANGED <<job, log, pending, ckpt, used>>

\* RestoreFrom is cut short: wiped, and copied in part.
RestoreCrashes ==
  /\ ~op.up /\ ckpt # Nil /\ ckpt.snap # Nil /\ ckpt.snap.how = "native" /\ used.crashes < MaxCrashes
  /\ dir' = Partial
  /\ used' = [used EXCEPT !.crashes = @ + 1]
  /\ UNCHANGED <<job, log, op, pending, ckpt>>

\* Pebble opens what is there as an empty store, or refuses to.
OpensPartial ==
  /\ ~op.up /\ dir = Partial
  /\ dir' = Empty
  /\ UNCHANGED <<job, log, op, pending, ckpt, used>>

-----------------------------------------------------------------------------

Init ==
  /\ job \in Jobs /\ log = <<>> /\ op = FreshOp /\ pending = <<>> /\ ckpt = Nil /\ dir = Nil
  /\ used = [barriers |-> 0, crashes |-> 0, failures |-> 0]

Next ==
  \/ ReadNew \/ ReadAgain \/ OpBarrier \/ SaveCheckpoint
  \/ Crash \/ StartFresh \/ RestoreOperatorState \/ RestoreCrashes \/ OpensPartial

Spec == Init /\ [][Next]_vars

-----------------------------------------------------------------------------
(* Properties.                                                             *)

\* The records of a key that a value or a buffer must hold after input n: all
\* those for its value state, or those since the last watermark.
ValueAt(n) ==
  LET mine(i) == log[i].type = "record" /\ log[i].key = log[n].key /\ log[i].name = log[n].name
  IN  Ascending({i \in 1 .. n : mine(i)})

BufferAt(k, n) ==
  Ascending({i \in 1 .. n - 1 : /\ log[i].type = "record" /\ log[i].key = k
                                /\ \A j \in i .. n - 1 : log[j].type # "watermark"})

WatermarkAt(n) == MaxOf({0} \cup {log[i].time : i \in {j \in 1 .. n : log[j].type = "watermark"}})

\* The timer of key k at t is due at input n, and no watermark since it was
\* registered has fired it.
FiresAt(k, t, n) ==
  /\ t <= WatermarkAt(n)
  /\ \E i \in 1 .. n - 1 :
       /\ log[i].type = "record" /\ log[i].key = k /\ log[i].time = t
       /\ \A j \in i + 1 .. n - 1 : log[j].type = "watermark" => t > WatermarkAt(j)

Expected(n) ==
  CASE job.kind = "process" /\ log[n].type = "record" -> {<<log[n].key, ValueAt(n)>>}
    [] job.kind = "process" /\ log[n].type = "watermark" ->
         {<<k, t>> \in Keys \X Times : FiresAt(k, t, n)}
    [] job.kind = "reduce" ->
         {<<<<log[n].key, log[n].time>>,
            Cardinality({i \in 1 .. n : log[i].key = log[n].key /\ log[i].time = log[n].time})>>}
    [] job.kind = "buffer" /\ log[n].type = "record" -> {}
    [] OTHER -> {<<k, BufferAt(k, n)>> : k \in {x \in Keys : BufferAt(x, n) # <<>>}}

FollowsInput ==
  op.up /\ op.pos > (IF ckpt = Nil THEN 0 ELSE ckpt.pos) /\ ~op.spoiled =>
    op.out = Expected(op.pos)

\* Another worker's window, far enough ahead to close that of input n, came in the middle
\* of the records of that window.
Overtaken(n) ==
  LET same(i) == log[i].key = log[n].key /\ log[i].time = log[n].time
  IN  /\ job.kind = "reduce" /\ n > 0
      /\ \E i, j \in 1 .. n : /\ i < j /\ same(i) /\ ~same(j)
                              /\ WindowFrontier(log[j].time) > log[n].time

\* What the operator emits for an input is a function of the inputs up to it,
\* whatever crashes, restores, evictions and resets came before: a value holds
\* every record of its key once, a timer fires once when it is due, a window's
\* accumulator counts all of its records, a buffer fires whole and in order.
\* Excepted are a run restored from a snapshot that was not taken at its barrier and a
\* window that another window worker overtook (KeyedProcess, Reduce and list state
\* through restoreOperatorState).
OutputFollowsInput == Overtaken(op.pos) \/ FollowsInput

\* The accumulator of a window that is evicted was final: no record of the window follows
\* one whose window moved the frontier past it (advanceWindowFrontier).
EvictedIsFinal == job.kind = "reduce" => FollowsInput

\* A windowed reduce keeps no accumulator of a closed window: what is below the
\* frontier came after the record that moved it and goes with the next move
\* (advanceWindowFrontier, evictClosedWindows, and the comment of Window; the comment of
\* WindowReduce says that Reduce keeps it indefinitely).
DeadWindowsGo ==
  \A w \in Keys \X Times : op.db.accums[w] > 0 => w[2] >= op.frontier \/ w \in op.since

=============================================================================
