------------------------- MODULE IntervalJoinProofs -------------------------
(***************************************************************************)
(* Proofs about IntervalJoin, for every job, interval, capacity and bound. *)
(*                                                                         *)
(* A stage of the join is the set A of records the operator has taken, the *)
(* operator's state o, the records lt that came late and the pairs Out it  *)
(* has put out.  In a sound stage everything that can still match is       *)
(* buffered and every pair that was due is out.  The running job is always *)
(* at a sound stage, and so are the checkpoint, each barrier behind the    *)
(* operator, and, because a barrier has exactly the records it covers in   *)
(* front of it, each barrier that has yet to pass.  A restored stage is    *)
(* sound too, except behind the last watermark of a source that was        *)
(* cancelled: there the invariant ends.                                    *)
(***************************************************************************)
EXTENDS IntervalJoin, FiniteSetTheorems, TLAPS

-----------------------------------------------------------------------------
(* A job's records and stages, with the job as a parameter.                *)

IdsOf(j) == UNION {{s} \X (1 .. Len(j.log[s])) : s \in Sides}

TsOf(j, id) == j.log[id[1]][id[2]].ts

MatchIn(j, l, r) ==
  /\ j.log[l[1]][l[2]].key = j.log[r[1]][r[2]].key
  /\ TsOf(j, l) - Before <= TsOf(j, r) /\ TsOf(j, r) <= TsOf(j, l) + After

\* The records up to a position of each side.
UpTo(j, p) == {id \in IdsOf(j) : id[2] <= p[id[1]]}

\* The operator's state is well formed: it holds records it has taken, and has
\* passed on the least of its watermarks.
WellFormed(A, o) ==
  /\ o.held \in [Sides -> SUBSET A]
  /\ \A s \in Sides : \A id \in o.held[s] : id[1] = s
  /\ o.wm \in [Sides -> Int] /\ \A s \in Sides : o.wm[s] >= ZeroTime
  /\ o.sent = AlignedWatermark(o.wm)

\* What is to come at or above the watermark finds its matches in the buffers.
Suffices(j, A, o) ==
  \A id \in A : \A x \in IdsOf(j) \ A :
    (/\ id[1] # x[1] /\ TsOf(j, x) >= o.sent
     /\ LET p == PairOf(id, x) IN MatchIn(j, p[1], p[2]))
    => id \in o.held[id[1]]

\* Only matching pairs are out.
OnlyMatches(j, A, Out) ==
  \A p \in Out : /\ p = <<p[1], p[2]>> /\ p[1] \in A /\ p[2] \in A
                 /\ p[1][1] = "left" /\ p[2][1] = "right" /\ MatchIn(j, p[1], p[2])

\* Every match of records that were in time is out.
AllMatches(j, A, lt, Out) ==
  \A l \in A \ lt : \A r \in A \ lt :
    l[1] = "left" /\ r[1] = "right" /\ MatchIn(j, l, r) => <<l, r>> \in Out

Sound(j, A, o, lt, Out) ==
  /\ A \subseteq IdsOf(j) /\ WellFormed(A, o) /\ Suffices(j, A, o)
  /\ OnlyMatches(j, A, Out) /\ AllMatches(j, A, lt, Out)

\* The last watermark, the one that does not survive a restart, came after the
\* last record.
LastIsLast(j, A, o) == MaxTime \in {o.wm["left"], o.wm["right"]} => A = IdsOf(j)

-----------------------------------------------------------------------------
(* The state of the job.                                                   *)

RecordsBefore(q, n) ==
  {q[i].id : i \in {k \in DOMAIN q : k < n /\ q[k].type = "record"}}

PairsBefore(q, n) ==
  UNION {q[i].pairs : i \in {k \in DOMAIN q : k < n /\ q[k].type = "pairs"}}

RecordsIn(q) == {q[i].id : i \in {k \in DOMAIN q : q[k].type = "record"}}
PairsIn(q) == UNION {q[i].pairs : i \in {k \in DOMAIN q : q[k].type = "pairs"}}

\* The pairs the operator has put out.
PutOut == DOMAIN sink \cup PairsIn(inj.buf) \cup PairsIn(joined)

Positions == [Sides -> Nat]

Pairs(j) == IdsOf(j) \X IdsOf(j)

OpStates(j) ==
  [held : [Sides -> SUBSET IdsOf(j)], wm : [Sides -> Int], sent : Int]

MuxMessages(j) ==
  [type : {"record"}, id : IdsOf(j)]
    \cup [type : {"watermark"}, sides : SUBSET Sides, ts : Int]
    \cup [type : {"barrier"}, pos : Positions]

OutMessages(j) ==
  [type : {"pairs"}, pairs : SUBSET Pairs(j)]
    \cup [type : {"watermark"}, ts : Int]
    \cup [type : {"barrier"}]
    \cup [type : {"barrier"}, pos : Positions, op : OpStates(j), late : SUBSET IdsOf(j)]

\* Every variable has its type.
TypeInv ==
  /\ job \in Jobs /\ pos \in Positions
  /\ seen \in [Sides -> Int] /\ \A s \in Sides : seen[s] < MaxTime
  /\ mux \in Seq(MuxMessages(job)) /\ joined \in Seq(OutMessages(job))
  /\ inj.buf \in Seq(OutMessages(job)) /\ inj = [pc |-> inj.pc, buf |-> inj.buf]
  /\ op \in OpStates(job) /\ late \in SUBSET IdsOf(job)
  /\ DOMAIN sink \in SUBSET Pairs(job)

\* The messages of a channel carry different pairs.
Apart(q) ==
  \A i \in DOMAIN q : \A k \in DOMAIN q :
    i # k /\ q[i].type = "pairs" /\ q[k].type = "pairs" => q[i].pairs \cap q[k].pairs = {}

\* A pair that is out is in one place.
Placed ==
  /\ sink = SetToBag(DOMAIN sink)
  /\ Apart(inj.buf) /\ Apart(joined)
  /\ PairsIn(inj.buf) \cap PairsIn(joined) = {}
  /\ DOMAIN sink \cap (PairsIn(inj.buf) \cup PairsIn(joined)) = {}

\* A record is queued once, and a barrier has in front of it, or past the
\* operator, exactly what it covers.
Queued ==
  \A i \in DOMAIN mux :
    /\ mux[i].type = "record" =>
         mux[i].id \in UpTo(job, pos) /\ mux[i].id \notin RecordsBefore(mux, i)
    /\ mux[i].type = "barrier" =>
         ~Native /\ UpTo(job, mux[i].pos) = Arrived \cup RecordsBefore(mux, i)

SoundCut(j, c, Out) ==
  /\ c.pos \in Positions /\ c.op \in OpStates(j) /\ c.late \in SUBSET IdsOf(j)
  /\ Sound(j, UpTo(j, c.pos), c.op, c.late, Out)

\* Behind the operator a barrier is a stage the job was at, and so is the
\* checkpoint.
Cuts ==
  /\ \A i \in DOMAIN joined : joined[i].type = "barrier" =>
       SoundCut(job, joined[i], DOMAIN sink \cup PairsBefore(joined, i))
  /\ DOMAIN saved.sink \in SUBSET Pairs(job) /\ saved.sink = SetToBag(DOMAIN saved.sink)
  /\ SoundCut(job, saved, DOMAIN saved.sink)

RunInv ==
  /\ TypeInv /\ Sound(job, Arrived, op, late, PutOut) /\ Placed /\ Queued
  /\ ~Native => inj.buf = <<>> /\ Cuts

\* The invariant: a native join gives these guarantees until it is restarted,
\* the other until it resumes from behind an early last watermark.
JoinInv ==
  /\ starts \in Nat \ {0}
  /\ (IF Native THEN starts = 1 ELSE ~flushed) => RunInv

-----------------------------------------------------------------------------
(* Lemmas: records, sequences and bags.                                    *)

\* What the assumption on the jobs says of one record.
LEMMA IdFacts ==
  ASSUME NEW j \in Jobs, NEW id \in IdsOf(j)
  PROVE  /\ id[1] \in Sides /\ id[2] \in Nat /\ id = <<id[1], id[2]>>
         /\ TsOf(j, id) \in Int /\ Ancient < TsOf(j, id) /\ TsOf(j, id) < MaxTime
  <1>1. PICK s \in Sides : id \in {s} \X (1 .. Len(j.log[s]))
    BY DEF IdsOf
  <1>2. PICK n \in 1 .. Len(j.log[s]) : id = <<s, n>>
    BY <1>1
  <1>3. Len(j.log[s]) \in Nat /\ j.log[s][n].ts \in Ancient + 1 .. MaxTime - 1
    BY <1>2, JoinParameters
  <1>4. id[1] = s /\ id[2] = n /\ n \in Nat
    BY <1>2, <1>3
  <1>5. TsOf(j, id) = j.log[s][n].ts
    BY <1>4 DEF TsOf
  <1>6. TsOf(j, id) \in Int /\ Ancient < TsOf(j, id) /\ TsOf(j, id) < MaxTime
    <2>1. \A t \in Ancient + 1 .. MaxTime - 1 : t \in Int /\ Ancient < t /\ t < MaxTime
      BY TimeAxis
    <2>2. QED
      BY <1>3, <1>5, <2>1
  <1>7. QED
    BY <1>2, <1>4, <1>6

LEMMA BoundFacts == Before \in Nat /\ After \in Nat /\ OutOfOrderness \in Nat
  BY JoinParameters

\* The next record of a side is one of the job's, and the first not yet read.
LEMMA NextId ==
  ASSUME NEW j \in Jobs, NEW p \in Positions, NEW s \in Sides, p[s] < Len(j.log[s])
  PROVE  /\ <<s, p[s] + 1>> \in IdsOf(j)
         /\ <<s, p[s] + 1>> \notin UpTo(j, p)
         /\ UpTo(j, [p EXCEPT ![s] = @ + 1]) = UpTo(j, p) \cup {<<s, p[s] + 1>>}
  <1> DEFINE id == <<s, p[s] + 1>>
             q == [p EXCEPT ![s] = @ + 1]
  <1>1. p[s] \in Nat /\ Len(j.log[s]) \in Nat
    BY JoinParameters DEF Positions
  <1>2. id \in IdsOf(j)
    BY <1>1 DEF IdsOf
  <1>3. id \notin UpTo(j, p)
    BY <1>1 DEF UpTo
  <1>4. ASSUME NEW x \in IdsOf(j)
        PROVE  x[2] <= q[x[1]] <=> (x[2] <= p[x[1]] \/ x = id)
    <2>1. x[1] \in Sides /\ x[2] \in Nat /\ x = <<x[1], x[2]>>
      BY IdFacts
    <2>2. p[x[1]] \in Nat /\ q[x[1]] = IF x[1] = s THEN p[s] + 1 ELSE p[x[1]]
      BY <2>1 DEF Positions
    <2>3. CASE x[1] = s
      <3>1. x = id <=> x[2] = p[s] + 1
        BY <2>1, <2>3
      <3>2. QED
        BY <2>1, <2>2, <2>3, <3>1, <1>1
    <2>4. CASE x[1] # s
      BY <2>1, <2>2, <2>4
    <2>5. QED
      BY <2>3, <2>4
  <1>5. QED
    BY <1>2, <1>3, <1>4 DEF UpTo

\* Taking from and adding to a sequence.
LEMMA Ends ==
  ASSUME NEW S, NEW q \in Seq(S)
  PROVE  /\ Len(q) \in Nat /\ DOMAIN q = 1 .. Len(q) /\ \A i \in DOMAIN q : q[i] \in S
         /\ \A x \in S : /\ Append(q, x) \in Seq(S)
                         /\ Len(Append(q, x)) = Len(q) + 1
                         /\ DOMAIN Append(q, x) = DOMAIN q \cup {Len(q) + 1}
                         /\ \A i \in DOMAIN q : Append(q, x)[i] = q[i]
                         /\ Append(q, x)[Len(q) + 1] = x
         /\ q # <<>> => /\ Head(q) \in S /\ Tail(q) \in Seq(S)
                        /\ 1 \in DOMAIN q /\ Head(q) = q[1]
                        /\ Len(Tail(q)) = Len(q) - 1
                        /\ \A i \in DOMAIN Tail(q) :
                             i \in Nat \ {0} /\ i + 1 \in DOMAIN q /\ Tail(q)[i] = q[i + 1]
                        /\ \A i \in DOMAIN q : i # 1 => i - 1 \in DOMAIN Tail(q)
  OBVIOUS

FirstRecord(q) == IF Head(q).type = "record" THEN {Head(q).id} ELSE {}

FirstPairs(q) == IF Head(q).type = "pairs" THEN Head(q).pairs ELSE {}

\* The records of a channel, and in front of a place in it, when a message is added.
LEMMA RecordsAdded ==
  ASSUME NEW S, NEW q \in Seq(S), NEW x \in S
  PROVE  /\ RecordsIn(Append(q, x)) =
              RecordsIn(q) \cup (IF x.type = "record" THEN {x.id} ELSE {})
         /\ \A i \in DOMAIN q : RecordsBefore(Append(q, x), i) = RecordsBefore(q, i)
         /\ RecordsBefore(Append(q, x), Len(q) + 1) = RecordsIn(q)
  <1> DEFINE r == Append(q, x)
  <1>1. /\ Len(q) \in Nat /\ DOMAIN q = 1 .. Len(q)
        /\ DOMAIN r = DOMAIN q \cup {Len(q) + 1}
        /\ \A i \in DOMAIN q : r[i] = q[i]
        /\ r[Len(q) + 1] = x
    BY Ends
  <1> HIDE DEF r
  <1>2. RecordsIn(r) = RecordsIn(q) \cup (IF x.type = "record" THEN {x.id} ELSE {})
    BY <1>1 DEF RecordsIn
  <1>3. ASSUME NEW i \in DOMAIN q
        PROVE  RecordsBefore(r, i) = RecordsBefore(q, i)
    <2>1. \A k \in DOMAIN r : k < i => k \in DOMAIN q /\ r[k] = q[k]
      BY <1>1
    <2>2. \A k \in DOMAIN q : k \in DOMAIN r
      BY <1>1
    <2>3. QED
      BY <2>1, <2>2, <1>1 DEF RecordsBefore
  <1>4. RecordsBefore(r, Len(q) + 1) = RecordsIn(q)
    <2>1. \A k \in DOMAIN r : k < Len(q) + 1 <=> k \in DOMAIN q
      BY <1>1
    <2>2. QED
      BY <2>1, <1>1 DEF RecordsBefore, RecordsIn
  <1>5. QED
    BY <1>2, <1>3, <1>4 DEF r

LEMMA PairsAdded ==
  ASSUME NEW S, NEW q \in Seq(S), NEW x \in S
  PROVE  /\ PairsIn(Append(q, x)) =
              PairsIn(q) \cup (IF x.type = "pairs" THEN x.pairs ELSE {})
         /\ \A i \in DOMAIN q : PairsBefore(Append(q, x), i) = PairsBefore(q, i)
         /\ PairsBefore(Append(q, x), Len(q) + 1) = PairsIn(q)
  <1> DEFINE r == Append(q, x)
  <1>1. /\ Len(q) \in Nat /\ DOMAIN q = 1 .. Len(q)
        /\ DOMAIN r = DOMAIN q \cup {Len(q) + 1}
        /\ \A i \in DOMAIN q : r[i] = q[i]
        /\ r[Len(q) + 1] = x
    BY Ends
  <1> HIDE DEF r
  <1>2. PairsIn(r) = PairsIn(q) \cup (IF x.type = "pairs" THEN x.pairs ELSE {})
    BY <1>1 DEF PairsIn
  <1>3. ASSUME NEW i \in DOMAIN q
        PROVE  PairsBefore(r, i) = PairsBefore(q, i)
    <2>1. \A k \in DOMAIN r : k < i => k \in DOMAIN q /\ r[k] = q[k]
      BY <1>1
    <2>2. \A k \in DOMAIN q : k \in DOMAIN r
      BY <1>1
    <2>3. QED
      BY <2>1, <2>2, <1>1 DEF PairsBefore
  <1>4. PairsBefore(r, Len(q) + 1) = PairsIn(q)
    <2>1. \A k \in DOMAIN r : k < Len(q) + 1 <=> k \in DOMAIN q
      BY <1>1
    <2>2. QED
      BY <2>1, <1>1 DEF PairsBefore, PairsIn
  <1>5. QED
    BY <1>2, <1>3, <1>4 DEF r

\* The same when the first message is taken.
LEMMA RecordsTaken ==
  ASSUME NEW S, NEW q \in Seq(S), q # <<>>
  PROVE  /\ RecordsIn(q) = RecordsIn(Tail(q)) \cup FirstRecord(q)
         /\ RecordsBefore(q, 1) = {}
         /\ \A i \in DOMAIN Tail(q) :
              RecordsBefore(q, i + 1) = RecordsBefore(Tail(q), i) \cup FirstRecord(q)
  <1> DEFINE r == Tail(q)
  <1>1. /\ Len(q) \in Nat /\ DOMAIN q = 1 .. Len(q) /\ 1 \in DOMAIN q /\ Head(q) = q[1]
        /\ \A i \in DOMAIN r : i \in Nat \ {0} /\ i + 1 \in DOMAIN q /\ r[i] = q[i + 1]
        /\ \A i \in DOMAIN q : i # 1 => i - 1 \in DOMAIN r
    BY Ends
  <1> HIDE DEF r
  <1>2. ASSUME NEW i \in DOMAIN q, i # 1
        PROVE  i - 1 \in DOMAIN r /\ r[i - 1] = q[i]
    BY <1>1, <1>2
  <1>3. RecordsIn(q) \subseteq RecordsIn(r) \cup FirstRecord(q)
    BY <1>1, <1>2 DEF RecordsIn, FirstRecord
  <1>4. RecordsIn(r) \cup FirstRecord(q) \subseteq RecordsIn(q)
    BY <1>1 DEF RecordsIn, FirstRecord
  <1>5. RecordsBefore(q, 1) = {}
    BY <1>1 DEF RecordsBefore
  <1>6. ASSUME NEW i \in DOMAIN r
        PROVE  RecordsBefore(q, i + 1) = RecordsBefore(r, i) \cup FirstRecord(q)
    <2>1. \A k \in DOMAIN q : k # 1 /\ k < i + 1 => k - 1 \in DOMAIN r /\ k - 1 < i /\ r[k - 1] = q[k]
      BY <1>1, <1>2
    <2>2. \A k \in DOMAIN r : k < i => k + 1 < i + 1 /\ k + 1 \in DOMAIN q /\ r[k] = q[k + 1]
      BY <1>1
    <2>3. 1 < i + 1
      BY <1>1
    <2>4. RecordsBefore(q, i + 1) \subseteq RecordsBefore(r, i) \cup FirstRecord(q)
      BY <2>1, <1>1 DEF RecordsBefore, FirstRecord
    <2>5. RecordsBefore(r, i) \cup FirstRecord(q) \subseteq RecordsBefore(q, i + 1)
      BY <2>2, <2>3, <1>1 DEF RecordsBefore, FirstRecord
    <2>6. QED
      BY <2>4, <2>5
  <1>7. QED
    BY <1>3, <1>4, <1>5, <1>6 DEF r

LEMMA PairsTaken ==
  ASSUME NEW S, NEW q \in Seq(S), q # <<>>
  PROVE  /\ PairsIn(q) = PairsIn(Tail(q)) \cup FirstPairs(q)
         /\ PairsBefore(q, 1) = {}
         /\ \A i \in DOMAIN Tail(q) :
              PairsBefore(q, i + 1) = PairsBefore(Tail(q), i) \cup FirstPairs(q)
  <1> DEFINE r == Tail(q)
  <1>1. /\ Len(q) \in Nat /\ DOMAIN q = 1 .. Len(q) /\ 1 \in DOMAIN q /\ Head(q) = q[1]
        /\ \A i \in DOMAIN r : i \in Nat \ {0} /\ i + 1 \in DOMAIN q /\ r[i] = q[i + 1]
        /\ \A i \in DOMAIN q : i # 1 => i - 1 \in DOMAIN r
    BY Ends
  <1> HIDE DEF r
  <1>2. ASSUME NEW i \in DOMAIN q, i # 1
        PROVE  i - 1 \in DOMAIN r /\ r[i - 1] = q[i]
    BY <1>1, <1>2
  <1>3. PairsIn(q) \subseteq PairsIn(r) \cup FirstPairs(q)
    BY <1>1, <1>2 DEF PairsIn, FirstPairs
  <1>4. PairsIn(r) \cup FirstPairs(q) \subseteq PairsIn(q)
    BY <1>1 DEF PairsIn, FirstPairs
  <1>5. PairsBefore(q, 1) = {}
    BY <1>1 DEF PairsBefore
  <1>6. ASSUME NEW i \in DOMAIN r
        PROVE  PairsBefore(q, i + 1) = PairsBefore(r, i) \cup FirstPairs(q)
    <2>1. \A k \in DOMAIN q : k # 1 /\ k < i + 1 => k - 1 \in DOMAIN r /\ k - 1 < i /\ r[k - 1] = q[k]
      BY <1>1, <1>2
    <2>2. \A k \in DOMAIN r : k < i => k + 1 < i + 1 /\ k + 1 \in DOMAIN q /\ r[k] = q[k + 1]
      BY <1>1
    <2>3. 1 < i + 1
      BY <1>1
    <2>4. PairsBefore(q, i + 1) \subseteq PairsBefore(r, i) \cup FirstPairs(q)
      BY <2>1, <1>1 DEF PairsBefore, FirstPairs
    <2>5. PairsBefore(r, i) \cup FirstPairs(q) \subseteq PairsBefore(q, i + 1)
      BY <2>2, <2>3, <1>1 DEF PairsBefore, FirstPairs
    <2>6. QED
      BY <2>4, <2>5
  <1>7. QED
    BY <1>3, <1>4, <1>5, <1>6 DEF r

\* Adding new elements, one copy each.
LEMMA BagGrows ==
  ASSUME NEW B, NEW T, B = SetToBag(DOMAIN B), DOMAIN B \cap T = {}
  PROVE  /\ DOMAIN (B (+) SetToBag(T)) = DOMAIN B \cup T
         /\ B (+) SetToBag(T) = SetToBag(DOMAIN B \cup T)
  <1>1. \A e \in DOMAIN B : B[e] = 1
    BY DEF SetToBag
  <1>2. DOMAIN SetToBag(T) = T /\ \A e \in T : SetToBag(T)[e] = 1
    BY DEF SetToBag
  <1>3. \A e \in DOMAIN B \cup T :
          (IF e \in DOMAIN B THEN B[e] ELSE 0) + (IF e \in T THEN SetToBag(T)[e] ELSE 0) = 1
    BY <1>1, <1>2
  <1>4. QED
    BY <1>2, <1>3 DEF (+), SetToBag

-----------------------------------------------------------------------------
(* Lemmas: the steps of the operator lead from a sound stage to a sound    *)
(* stage.                                                                  *)

LEMMA OtherSide ==
  ASSUME NEW s \in Sides
  PROVE  /\ Other(s) \in Sides /\ Other(s) # s
         /\ \A t \in Sides : t # s => t = Other(s)
  BY DEF Sides, Other

\* emitMatches compares as the definition of a match does.
LEMMA MatchesAre ==
  ASSUME job \in Jobs, NEW held, NEW id \in IdsOf(job),
         \A x \in held[Other(id[1])] : x \in IdsOf(job)
  PROVE  Matches(held, id) =
           {x \in held[Other(id[1])] :
              LET p == PairOf(id, x) IN MatchIn(job, p[1], p[2])}
  <1>1. ASSUME NEW x \in held[Other(id[1])]
        PROVE  (/\ Rec(x).key = Rec(id).key
                /\ LET p == PairOf(id, x) IN InRange(p[1], p[2]))
               <=> LET p == PairOf(id, x) IN MatchIn(job, p[1], p[2])
    <2>1. /\ TsOf(job, x) \in Int /\ TsOf(job, id) \in Int
          /\ Before \in Nat /\ After \in Nat
      BY IdFacts, BoundFacts
    <2>2. \A y : Rec(y).key = job.log[y[1]][y[2]].key /\ Rec(y).ts = TsOf(job, y)
      BY DEF Rec, TsOf
    <2>3. CASE id[1] = "left"
      <3>1. PairOf(id, x)[1] = id /\ PairOf(id, x)[2] = x
        BY <2>3 DEF PairOf
      <3>2. InRange(id, x) <=> /\ TsOf(job, id) - Before <= TsOf(job, x)
                               /\ TsOf(job, x) <= TsOf(job, id) + After
        BY <2>1, <2>2 DEF InRange
      <3>3. QED
        BY <3>1, <3>2, <2>2 DEF MatchIn
    <2>4. CASE id[1] # "left"
      <3>1. PairOf(id, x)[1] = x /\ PairOf(id, x)[2] = id
        BY <2>4 DEF PairOf
      <3>2. InRange(x, id) <=> /\ TsOf(job, x) - Before <= TsOf(job, id)
                               /\ TsOf(job, id) <= TsOf(job, x) + After
        BY <2>1, <2>2 DEF InRange
      <3>3. QED
        BY <3>1, <3>2, <2>2 DEF MatchIn
    <2>5. QED
      BY <2>3, <2>4
  <1>2. QED
    BY <1>1 DEF Matches

Buffered(o, id) == [o EXCEPT !.held[id[1]] = @ \cup {id}]
NewPairs(o, id) == {PairOf(id, x) : x \in Matches(o.held, id)}
LateAfter(o, lt, id) == IF Rec(id).ts < o.sent THEN lt \cup {id} ELSE lt

\* A record arrives: its matches are new pairs, and all that were due.
LEMMA StageRecord ==
  ASSUME job \in Jobs, NEW A, NEW o \in OpStates(job), NEW lt, NEW Out,
         Sound(job, A, o, lt, Out), NEW id \in IdsOf(job), id \notin A
  PROVE  /\ Buffered(o, id) \in OpStates(job)
         /\ NewPairs(o, id) \subseteq Pairs(job) /\ NewPairs(o, id) \cap Out = {}
         /\ Sound(job, A \cup {id}, Buffered(o, id), LateAfter(o, lt, id),
                  Out \cup NewPairs(o, id))
  <1> DEFINE A2 == A \cup {id}
             s == id[1]
             o2 == Buffered(o, id)
             new == NewPairs(o, id)
             lt2 == LateAfter(o, lt, id)
  <1>a. /\ new = {PairOf(id, x) : x \in Matches(o.held, id)}
        /\ o2 = [o EXCEPT !.held[id[1]] = @ \cup {id}]
        /\ lt2 = IF Rec(id).ts < o.sent THEN lt \cup {id} ELSE lt
    BY DEF Buffered, NewPairs, LateAfter
  <1> HIDE DEF o2, new, lt2
  <1> USE <1>a
  <1>1. /\ A \subseteq IdsOf(job) /\ WellFormed(A, o) /\ Suffices(job, A, o)
        /\ OnlyMatches(job, A, Out) /\ AllMatches(job, A, lt, Out)
    BY DEF Sound
  <1>2. /\ s \in Sides /\ Other(s) \in Sides /\ Other(s) # s
        /\ \A t \in Sides : t # s => t = Other(s)
    BY IdFacts, OtherSide
  <1>3. /\ o.held \in [Sides -> SUBSET A] /\ o.held \in [Sides -> SUBSET IdsOf(job)]
        /\ \A t \in Sides : \A x \in o.held[t] : x[1] = t
        /\ o.wm \in [Sides -> Int] /\ \A t \in Sides : o.wm[t] >= ZeroTime
        /\ o.sent = AlignedWatermark(o.wm) /\ o.sent \in Int
    BY <1>1 DEF WellFormed, OpStates
  <1>4. /\ o2.held = [o.held EXCEPT ![s] = @ \cup {id}]
        /\ o2.wm = o.wm /\ o2.sent = o.sent
        /\ o2 = [held |-> o2.held, wm |-> o2.wm, sent |-> o2.sent]
    BY <1>2, <1>3 DEF OpStates
  <1>5. /\ o2.held \in [Sides -> SUBSET A2] /\ o2.held \in [Sides -> SUBSET IdsOf(job)]
        /\ o2.held[s] = o.held[s] \cup {id}
        /\ \A t \in Sides : t # s => o2.held[t] = o.held[t]
    BY <1>2, <1>3, <1>4
  <1>6. o2 \in OpStates(job)
    BY <1>3, <1>4, <1>5 DEF OpStates
  <1>7. WellFormed(A2, o2)
    BY <1>3, <1>4, <1>5, <1>2 DEF WellFormed
  <1>8. Suffices(job, A2, o2)
    <2> SUFFICES ASSUME NEW y \in A2, NEW x \in IdsOf(job) \ A2,
                        y[1] # x[1], TsOf(job, x) >= o2.sent,
                        LET p == PairOf(y, x) IN MatchIn(job, p[1], p[2])
                 PROVE  y \in o2.held[y[1]]
      BY DEF Suffices
    <2>1. CASE y = id
      BY <2>1, <1>5
    <2>2. CASE y \in A
      <3>1. y \in o.held[y[1]]
        BY <2>2, <1>1, <1>4 DEF Suffices
      <3>2. y[1] \in Sides
        BY <2>2, <1>1, IdFacts
      <3>3. QED
        BY <3>1, <3>2, <1>5
    <2>3. QED
      BY <2>1, <2>2
  <1>9. ASSUME NEW x \in Matches(o.held, id)
        PROVE  /\ x \in A /\ x[1] = Other(s)
               /\ LET p == PairOf(id, x) IN MatchIn(job, p[1], p[2])
    <2>1. \A z \in o.held[Other(id[1])] : z \in IdsOf(job)
      BY <1>2, <1>3
    <2>2. x \in o.held[Other(s)] /\ LET p == PairOf(id, x) IN MatchIn(job, p[1], p[2])
      BY <2>1, MatchesAre
    <2>3. QED
      BY <2>2, <1>2, <1>3
  <1>10. ASSUME NEW p \in new
         PROVE  /\ p = <<p[1], p[2]>> /\ p[1] \in A2 /\ p[2] \in A2
                /\ p[1][1] = "left" /\ p[2][1] = "right" /\ MatchIn(job, p[1], p[2])
                /\ p \in Pairs(job) /\ p \notin Out
    <2>1. PICK x \in Matches(o.held, id) : p = PairOf(id, x)
      OBVIOUS
    <2>2. x \in A /\ x[1] = Other(s) /\ MatchIn(job, p[1], p[2])
      BY <1>9, <2>1
    <2>3. (p[1] = id /\ p[2] = x /\ s = "left") \/ (p[1] = x /\ p[2] = id /\ s = "right")
      BY <2>1, <1>2 DEF PairOf, Sides
    <2>4. p = <<p[1], p[2]>>
      BY <2>1 DEF PairOf
    <2>5. p[1][1] = "left" /\ p[2][1] = "right"
      BY <2>2, <2>3 DEF Other
    <2>6. p \in Pairs(job)
      BY <2>2, <2>3, <2>4, <1>1 DEF Pairs
    <2>7. p \notin Out
      BY <2>3, <1>1 DEF OnlyMatches
    <2>8. QED
      BY <2>2, <2>3, <2>4, <2>5, <2>6, <2>7
  <1>11. OnlyMatches(job, A2, Out \cup new)
    <2> SUFFICES ASSUME NEW p \in Out \cup new
                 PROVE  /\ p = <<p[1], p[2]>> /\ p[1] \in A2 /\ p[2] \in A2
                        /\ p[1][1] = "left" /\ p[2][1] = "right"
                        /\ MatchIn(job, p[1], p[2])
      BY DEF OnlyMatches
    <2>1. CASE p \in new
      BY <2>1, <1>10
    <2>2. CASE p \in Out
      BY <2>2, <1>1 DEF OnlyMatches
    <2>3. QED
      BY <2>1, <2>2
  <1>12. ASSUME id \notin lt2, NEW x \in A, x[1] = Other(s),
                LET p == PairOf(id, x) IN MatchIn(job, p[1], p[2])
         PROVE  PairOf(id, x) \in new
    <2>1. Rec(id).ts = TsOf(job, id) /\ TsOf(job, id) \in Int
      BY IdFacts DEF Rec, TsOf
    <2>2. TsOf(job, id) >= o.sent
      BY <1>12, <1>3, <2>1
    <2>3. PairOf(id, x) = PairOf(x, id)
      BY <1>12, <1>2 DEF PairOf, Other, Sides
    <2>4. x \in o.held[x[1]]
      BY <1>12, <1>2, <2>2, <2>3, <1>1 DEF Suffices
    <2>5. \A z \in o.held[Other(id[1])] : z \in IdsOf(job)
      BY <1>2, <1>3
    <2>6. x \in Matches(o.held, id)
      BY <1>12, <2>4, <2>5, MatchesAre
    <2>7. QED
      BY <2>6
  <1>13. AllMatches(job, A2, lt2, Out \cup new)
    <2> SUFFICES ASSUME NEW l \in A2 \ lt2, NEW r \in A2 \ lt2,
                        l[1] = "left", r[1] = "right", MatchIn(job, l, r)
                 PROVE  <<l, r>> \in Out \cup new
      BY DEF AllMatches
    <2>1. lt \subseteq lt2
      OBVIOUS
    <2>2. CASE l # id /\ r # id
      <3>1. l \in A \ lt /\ r \in A \ lt
        BY <2>1, <2>2
      <3>2. QED
        BY <3>1, <1>1 DEF AllMatches
    <2>3. CASE l = id
      <3>1. r \in A /\ r[1] = Other(s)
        BY <2>3 DEF Other
      <3>2. PairOf(id, r) = <<l, r>>
        BY <2>3 DEF PairOf
      <3>3. PairOf(id, r) \in new
        BY <2>3, <3>1, <3>2, <1>12
      <3>4. QED
        BY <3>2, <3>3
    <2>4. CASE r = id
      <3>1. l \in A /\ l[1] = Other(s)
        BY <2>4 DEF Other
      <3>2. PairOf(id, l) = <<l, r>>
        BY <2>4 DEF PairOf
      <3>3. PairOf(id, l) \in new
        BY <2>4, <3>1, <3>2, <1>12
      <3>4. QED
        BY <3>2, <3>3
    <2>5. QED
      BY <2>2, <2>3, <2>4
  <1>14. A2 \subseteq IdsOf(job)
    BY <1>1
  <1>15. QED
    BY <1>6, <1>7, <1>8, <1>10, <1>11, <1>13, <1>14 DEF Sound, o2, new, lt2

\* The aligned watermark is a time, and grows with the watermarks of the sides.
LEMMA Aligned ==
  ASSUME NEW w \in [Sides -> Int], \A s \in Sides : w[s] >= ZeroTime
  PROVE  /\ AlignedWatermark(w) \in Int /\ AlignedWatermark(w) >= ZeroTime
         /\ \A v \in [Sides -> Int] :
              (\A s \in Sides : v[s] >= w[s]) => AlignedWatermark(v) >= AlignedWatermark(w)
  <1>1. "left" \in Sides /\ "right" \in Sides
    BY DEF Sides
  <1>2. /\ w["left"] \in Int /\ w["right"] \in Int
        /\ w["left"] >= ZeroTime /\ w["right"] >= ZeroTime
    BY <1>1
  <1>3. AlignedWatermark(w) \in Int /\ AlignedWatermark(w) >= ZeroTime
    BY <1>2, TimeAxis DEF AlignedWatermark, Lesser
  <1>4. ASSUME NEW v \in [Sides -> Int], \A s \in Sides : v[s] >= w[s]
        PROVE  AlignedWatermark(v) >= AlignedWatermark(w)
    <2>1. /\ v["left"] \in Int /\ v["right"] \in Int
          /\ v["left"] >= w["left"] /\ v["right"] >= w["right"]
      BY <1>1, <1>4
    <2>2. QED
      BY <1>2, <2>1, TimeAxis DEF AlignedWatermark, Lesser
  <1>5. QED
    BY <1>3, <1>4

\* A record that is evicted matches nothing at or above the watermark.
LEMMA EvictedIsSpent ==
  ASSUME job \in Jobs, NEW held \in [Sides -> SUBSET IdsOf(job)], NEW a \in Int,
         NEW y \in IdsOf(job), y \in held[y[1]],
         NEW x \in IdsOf(job), y[1] # x[1], TsOf(job, x) >= a,
         LET p == PairOf(y, x) IN MatchIn(job, p[1], p[2])
  PROVE  y \in Evict(held, a)[y[1]]
  <1>1. /\ y[1] \in Sides /\ TsOf(job, y) \in Int /\ TsOf(job, x) \in Int
        /\ Before \in Nat /\ After \in Nat
    BY IdFacts, BoundFacts
  <1>2. Evict(held, a)[y[1]] =
          {id \in held[y[1]] :
             Rec(id).ts >= a - (IF y[1] = "left" THEN After ELSE Before)}
    BY <1>1 DEF Evict
  <1>3. Rec(y).ts = TsOf(job, y)
    BY DEF Rec, TsOf
  <1>4. CASE y[1] = "left"
    <2>1. TsOf(job, x) <= TsOf(job, y) + After
      BY <1>4 DEF PairOf, MatchIn
    <2>2. TsOf(job, y) >= a - After
      BY <2>1, <1>1
    <2>3. QED
      BY <2>2, <1>2, <1>3, <1>4
  <1>5. CASE y[1] # "left"
    <2>1. TsOf(job, x) - Before <= TsOf(job, y)
      BY <1>5 DEF PairOf, MatchIn
    <2>2. TsOf(job, y) >= a - Before
      BY <2>1, <1>1
    <2>3. QED
      BY <2>2, <1>2, <1>3, <1>5
  <1>6. QED
    BY <1>4, <1>5

\* A watermark advances some sides: what is evicted has no match to come.
LEMMA StageWatermark ==
  ASSUME job \in Jobs, NEW A, NEW o \in OpStates(job), NEW lt, NEW Out,
         Sound(job, A, o, lt, Out),
         NEW wm \in [Sides -> Int], \A s \in Sides : wm[s] >= o.wm[s],
         NEW a, a = AlignedWatermark(wm),
         NEW o2, o2 = [held |-> IF a = ZeroTime THEN o.held ELSE Evict(o.held, a),
                       wm |-> wm,
                       sent |-> IF a # ZeroTime /\ a > o.sent THEN a ELSE o.sent]
  PROVE  /\ o2 \in OpStates(job) /\ a \in Int
         /\ Sound(job, A, o2, lt, Out)
  <1>1. /\ A \subseteq IdsOf(job) /\ WellFormed(A, o) /\ Suffices(job, A, o)
        /\ OnlyMatches(job, A, Out) /\ AllMatches(job, A, lt, Out)
    BY DEF Sound
  <1>2. /\ o.held \in [Sides -> SUBSET A] /\ o.held \in [Sides -> SUBSET IdsOf(job)]
        /\ \A t \in Sides : \A x \in o.held[t] : x[1] = t
        /\ o.wm \in [Sides -> Int] /\ \A t \in Sides : o.wm[t] >= ZeroTime
        /\ o.sent = AlignedWatermark(o.wm) /\ o.sent \in Int
    BY <1>1 DEF WellFormed, OpStates
  <1>3. \A s \in Sides : wm[s] >= ZeroTime
    BY <1>2, TimeAxis
  <1>4. a \in Int /\ a >= ZeroTime /\ a >= o.sent /\ o.sent >= ZeroTime
    BY <1>2, <1>3, Aligned
  <1>5. o2.sent = a /\ o2.wm = wm
    BY <1>2, <1>4, TimeAxis
  <1>6. o2.held = o.held \/ o2.held = Evict(o.held, a)
    OBVIOUS
  <1>7. /\ Evict(o.held, a) \in [Sides -> SUBSET A]
        /\ \A s \in Sides : Evict(o.held, a)[s] \subseteq o.held[s]
    BY <1>2 DEF Evict
  <1>8. /\ o2.held \in [Sides -> SUBSET A]
        /\ \A s \in Sides : o2.held[s] \subseteq o.held[s]
    BY <1>2, <1>6, <1>7
  <1>9. o2.held \in [Sides -> SUBSET IdsOf(job)]
    BY <1>1, <1>8
  <1>10. o2 \in OpStates(job)
    BY <1>4, <1>5, <1>9 DEF OpStates
  <1>11. WellFormed(A, o2)
    BY <1>2, <1>3, <1>5, <1>8 DEF WellFormed
  <1>12. Suffices(job, A, o2)
    <2> SUFFICES ASSUME NEW y \in A, NEW x \in IdsOf(job) \ A,
                        y[1] # x[1], TsOf(job, x) >= o2.sent,
                        LET p == PairOf(y, x) IN MatchIn(job, p[1], p[2])
                 PROVE  y \in o2.held[y[1]]
      BY DEF Suffices
    <2>1. TsOf(job, x) \in Int /\ y \in IdsOf(job)
      BY <1>1, IdFacts
    <2>2. TsOf(job, x) >= a /\ TsOf(job, x) >= o.sent
      BY <2>1, <1>2, <1>4, <1>5
    <2>3. y \in o.held[y[1]]
      BY <2>2, <1>1 DEF Suffices
    <2>4. y \in Evict(o.held, a)[y[1]]
      BY <2>1, <2>2, <2>3, <1>2, <1>4, EvictedIsSpent
    <2>5. QED
      BY <2>3, <2>4, <1>6
  <1>13. QED
    BY <1>1, <1>4, <1>10, <1>11, <1>12 DEF Sound

\* A restored stage: the last watermark is forgotten, after the last record.
LEMMA StageRestored ==
  ASSUME job \in Jobs, NEW A, NEW o \in OpStates(job), NEW lt, NEW Out,
         Sound(job, A, o, lt, Out), LastIsLast(job, A, o)
  PROVE  /\ RestoredOp(o) \in OpStates(job)
         /\ Sound(job, A, RestoredOp(o), lt, Out)
  <1> DEFINE wm == [s \in Sides |-> StoredTime(o.wm[s])]
             o2 == RestoredOp(o)
  <1>1. /\ A \subseteq IdsOf(job) /\ WellFormed(A, o) /\ Suffices(job, A, o)
        /\ OnlyMatches(job, A, Out) /\ AllMatches(job, A, lt, Out)
    BY DEF Sound
  <1>2. /\ o.held \in [Sides -> SUBSET A] /\ o.held \in [Sides -> SUBSET IdsOf(job)]
        /\ \A t \in Sides : \A x \in o.held[t] : x[1] = t
        /\ o.wm \in [Sides -> Int] /\ \A t \in Sides : o.wm[t] >= ZeroTime
        /\ o.sent = AlignedWatermark(o.wm) /\ o.sent \in Int
    BY <1>1 DEF WellFormed, OpStates
  <1>3. /\ wm \in [Sides -> Int]
        /\ \A s \in Sides : wm[s] >= ZeroTime
    BY <1>2, TimeAxis DEF StoredTime
  <1>4. o2.held = o.held /\ o2.wm = wm /\ o2.sent = AlignedWatermark(wm)
    BY DEF RestoredOp
  <1>5. o2 = [held |-> o.held, wm |-> wm, sent |-> AlignedWatermark(wm)]
    BY DEF RestoredOp
  <1>6. AlignedWatermark(wm) \in Int
    BY <1>3, Aligned
  <1> HIDE DEF o2, wm
  <1>7. o2 \in OpStates(job)
    BY <1>2, <1>3, <1>5, <1>6 DEF OpStates
  <1>8. WellFormed(A, o2)
    BY <1>2, <1>3, <1>4 DEF WellFormed
  <1>9. Suffices(job, A, o2)
    <2>1. CASE A = IdsOf(job)
      BY <2>1 DEF Suffices
    <2>2. CASE A # IdsOf(job)
      <3>1. \A s \in Sides : o.wm[s] # MaxTime
        BY <2>2 DEF LastIsLast, Sides
      <3>2. wm = o.wm
        BY <3>1, <1>2 DEF wm, StoredTime
      <3>3. o2.sent = o.sent /\ o2.held = o.held
        BY <3>2, <1>2, <1>4
      <3>4. QED
        BY <3>3, <1>1 DEF Suffices
    <2>3. QED
      BY <2>1, <2>2
  <1>10. QED
    BY <1>1, <1>7, <1>8, <1>9 DEF Sound, o2

-----------------------------------------------------------------------------
(* Lemmas: what leaves a part of the invariant alone, and the two channels *)
(* when a message is added or taken.                                       *)

LEMMA ArrivedIs == Arrived = UpTo(job, pos) \ RecordsIn(mux)
  BY DEF Arrived, UpTo, RecordsIn, Ids, IdsOf

LEMMA ArrivedIsNext == Arrived' = UpTo(job', pos') \ RecordsIn(mux')
  BY DEF Arrived, UpTo, RecordsIn, Ids, IdsOf

LEMMA InputFrame ==
  ASSUME job' = job, pos' = pos, mux' = mux
  PROVE  Arrived' = Arrived /\ (Queued => Queued')
  <1>1. Arrived' = Arrived
    BY ArrivedIs, ArrivedIsNext
  <1>2. Native' = Native
    BY DEF Native
  <1>3. QED
    BY <1>1, <1>2 DEF Queued

LEMMA OutputFrame ==
  ASSUME sink' = sink, inj'.buf = inj.buf, joined' = joined
  PROVE  PutOut' = PutOut /\ (Placed => Placed')
  BY DEF PutOut, Placed

LEMMA CutsFrame ==
  ASSUME job' = job, sink' = sink, joined' = joined, saved' = saved, Cuts
  PROVE  Cuts'
  BY DEF Cuts

\* A message joins the operator's input.
LEMMA MuxGrows ==
  ASSUME mux \in Seq(MuxMessages(job)), Queued, job' = job,
         NEW m \in MuxMessages(job), mux' = Append(mux, m), Arrived' = Arrived,
         UpTo(job, pos) \subseteq UpTo(job, pos'),
         m.type = "record" => m.id \in UpTo(job, pos') /\ m.id \notin RecordsIn(mux),
         m.type = "barrier" =>
           ~Native /\ UpTo(job, m.pos) = Arrived \cup RecordsIn(mux)
  PROVE  Queued' /\ mux' \in Seq(MuxMessages(job'))
  <1>1. /\ mux' \in Seq(MuxMessages(job))
        /\ DOMAIN mux' = DOMAIN mux \cup {Len(mux) + 1}
        /\ \A i \in DOMAIN mux : mux'[i] = mux[i]
        /\ mux'[Len(mux) + 1] = m
    BY Ends
  <1>2. /\ \A i \in DOMAIN mux : RecordsBefore(mux', i) = RecordsBefore(mux, i)
        /\ RecordsBefore(mux', Len(mux) + 1) = RecordsIn(mux)
    BY RecordsAdded
  <1>3. Native' = Native
    BY DEF Native
  <1> DEFINE Q(i) ==
        /\ mux'[i].type = "record" =>
             mux'[i].id \in UpTo(job, pos') /\ mux'[i].id \notin RecordsBefore(mux', i)
        /\ mux'[i].type = "barrier" =>
             ~Native /\ UpTo(job, mux'[i].pos) = Arrived \cup RecordsBefore(mux', i)
  <1>4. \A i \in DOMAIN mux : Q(i)
    BY <1>1, <1>2 DEF Queued
  <1>5. Q(Len(mux) + 1)
    BY <1>1, <1>2
  <1>6. \A i \in DOMAIN mux' : Q(i)
    BY <1>1, <1>4, <1>5
  <1>7. Queued'
    BY <1>3, <1>6 DEF Queued
  <1>8. QED
    BY <1>1, <1>7

\* The operator takes a message.
LEMMA MuxShrinks ==
  ASSUME mux \in Seq(MuxMessages(job)), Queued, job' = job, pos' = pos,
         mux # <<>>, mux' = Tail(mux)
  PROVE  /\ Queued' /\ mux' \in Seq(MuxMessages(job'))
         /\ Arrived' = Arrived \cup FirstRecord(mux)
         /\ Head(mux) \in MuxMessages(job)
         /\ Head(mux).type = "record" => Head(mux).id \notin Arrived
         /\ Head(mux).type = "barrier" => ~Native /\ UpTo(job, Head(mux).pos) = Arrived
  <1>1. /\ mux' \in Seq(MuxMessages(job)) /\ Head(mux) \in MuxMessages(job)
        /\ 1 \in DOMAIN mux /\ Head(mux) = mux[1]
        /\ DOMAIN mux = 1 .. Len(mux) /\ Len(mux) \in Nat
        /\ \A i \in DOMAIN mux' :
             i \in Nat \ {0} /\ i + 1 \in DOMAIN mux /\ mux'[i] = mux[i + 1]
    BY Ends
  <1>2. /\ RecordsIn(mux) = RecordsIn(mux') \cup FirstRecord(mux)
        /\ RecordsBefore(mux, 1) = {}
        /\ \A i \in DOMAIN mux' :
             RecordsBefore(mux, i + 1) = RecordsBefore(mux', i) \cup FirstRecord(mux)
    BY RecordsTaken
  <1>3. /\ Head(mux).type = "record" => Head(mux).id \in UpTo(job, pos)
        /\ Head(mux).type = "barrier" => ~Native /\ UpTo(job, Head(mux).pos) = Arrived
    <2>1. /\ mux[1].type = "record" => mux[1].id \in UpTo(job, pos)
          /\ mux[1].type = "barrier" =>
               ~Native /\ UpTo(job, mux[1].pos) = Arrived \cup RecordsBefore(mux, 1)
      BY <1>1 DEF Queued
    <2>2. Arrived \cup RecordsBefore(mux, 1) = Arrived
      BY <1>2
    <2>3. QED
      BY <2>1, <2>2, <1>1
  <1>4. FirstRecord(mux) \cap RecordsIn(mux') = {}
    <2> SUFFICES ASSUME NEW i \in DOMAIN mux', mux'[i].type = "record"
                 PROVE  mux'[i].id \notin FirstRecord(mux)
      BY DEF RecordsIn
    <2>1. mux[i + 1].type = "record" /\ mux[i + 1].id \notin RecordsBefore(mux, i + 1)
      BY <1>1 DEF Queued
    <2>2. QED
      BY <2>1, <1>1, <1>2
  <1>5. FirstRecord(mux) \subseteq UpTo(job, pos)
    BY <1>3 DEF FirstRecord
  <1>6. Arrived' = Arrived \cup FirstRecord(mux)
    BY <1>2, <1>4, <1>5, ArrivedIs, ArrivedIsNext
  <1>7. Head(mux).type = "record" => Head(mux).id \notin Arrived
    BY <1>2, ArrivedIs DEF FirstRecord
  <1>8. Native' = Native
    BY DEF Native
  <1> DEFINE Q(i) ==
        /\ mux'[i].type = "record" =>
             mux'[i].id \in UpTo(job, pos) /\ mux'[i].id \notin RecordsBefore(mux', i)
        /\ mux'[i].type = "barrier" =>
             ~Native /\ UpTo(job, mux'[i].pos) = Arrived' \cup RecordsBefore(mux', i)
  <1>9. ASSUME NEW i \in DOMAIN mux'
        PROVE  Q(i)
    <2>1. i + 1 \in DOMAIN mux /\ mux'[i] = mux[i + 1]
      BY <1>1
    <2>2. Arrived \cup RecordsBefore(mux, i + 1) = Arrived' \cup RecordsBefore(mux', i)
      BY <1>2, <1>6
    <2>3. RecordsBefore(mux', i) \subseteq RecordsBefore(mux, i + 1)
      BY <1>2
    <2>4. QED
      BY <2>1, <2>2, <2>3 DEF Queued
  <1>10. Queued'
    BY <1>8, <1>9 DEF Queued
  <1>11. QED
    BY <1>1, <1>3, <1>6, <1>7, <1>10

LEMMA ApartAdded ==
  ASSUME NEW S, NEW q \in Seq(S), NEW x \in S, Apart(q),
         x.type = "pairs" => x.pairs \cap PairsIn(q) = {}
  PROVE  Apart(Append(q, x))
  <1> DEFINE r == Append(q, x)
  <1>1. /\ Len(q) \in Nat /\ DOMAIN q = 1 .. Len(q)
        /\ DOMAIN r = DOMAIN q \cup {Len(q) + 1}
        /\ \A i \in DOMAIN q : r[i] = q[i]
        /\ r[Len(q) + 1] = x
    BY Ends
  <1> HIDE DEF r
  <1>2. \A i \in DOMAIN q : q[i].type = "pairs" => q[i].pairs \subseteq PairsIn(q)
    BY DEF PairsIn
  <1>3. ASSUME NEW i \in DOMAIN r, NEW k \in DOMAIN r, i # k,
               r[i].type = "pairs", r[k].type = "pairs"
        PROVE  r[i].pairs \cap r[k].pairs = {}
    <2>1. CASE i \in DOMAIN q /\ k \in DOMAIN q
      BY <2>1, <1>1, <1>3 DEF Apart
    <2>2. CASE i \in DOMAIN q /\ k = Len(q) + 1
      BY <2>2, <1>1, <1>2, <1>3
    <2>3. CASE i = Len(q) + 1 /\ k \in DOMAIN q
      BY <2>3, <1>1, <1>2, <1>3
    <2>4. QED
      BY <2>1, <2>2, <2>3, <1>1, <1>3
  <1>4. QED
    BY <1>3 DEF Apart, r

LEMMA ApartTaken ==
  ASSUME NEW S, NEW q \in Seq(S), q # <<>>, Apart(q)
  PROVE  Apart(Tail(q)) /\ FirstPairs(q) \cap PairsIn(Tail(q)) = {}
  <1> DEFINE r == Tail(q)
  <1>1. /\ 1 \in DOMAIN q /\ Head(q) = q[1]
        /\ \A i \in DOMAIN r : i \in Nat \ {0} /\ i + 1 \in DOMAIN q /\ r[i] = q[i + 1]
    BY Ends
  <1> HIDE DEF r
  <1>2. Apart(r)
    <2> SUFFICES ASSUME NEW i \in DOMAIN r, NEW k \in DOMAIN r, i # k,
                        r[i].type = "pairs", r[k].type = "pairs"
                 PROVE  r[i].pairs \cap r[k].pairs = {}
      BY DEF Apart
    <2>1. i + 1 # k + 1 /\ i + 1 \in DOMAIN q /\ k + 1 \in DOMAIN q
      BY <1>1
    <2>2. r[i] = q[i + 1] /\ r[k] = q[k + 1]
      BY <1>1
    <2>3. QED
      BY <2>1, <2>2 DEF Apart
  <1>3. ASSUME NEW i \in DOMAIN r, r[i].type = "pairs", Head(q).type = "pairs"
        PROVE  Head(q).pairs \cap r[i].pairs = {}
    <2>1. i + 1 # 1 /\ i + 1 \in DOMAIN q /\ r[i] = q[i + 1]
      BY <1>1
    <2>2. QED
      BY <2>1, <1>1, <1>3 DEF Apart
  <1>4. FirstPairs(q) \cap PairsIn(r) = {}
    BY <1>3 DEF FirstPairs, PairsIn
  <1>5. QED
    BY <1>2, <1>4 DEF r

AddedPairs(m) == IF m.type = "pairs" THEN m.pairs ELSE {}

\* The operator puts out a message.
LEMMA JoinedGrows ==
  ASSUME joined \in Seq(OutMessages(job)), Placed, job' = job,
         sink' = sink, inj' = inj, saved' = saved,
         NEW m \in OutMessages(job), joined' = Append(joined, m),
         AddedPairs(m) \cap PutOut = {}
  PROVE  /\ joined' \in Seq(OutMessages(job')) /\ Placed'
         /\ PutOut' = PutOut \cup AddedPairs(m)
         /\ (/\ Cuts
             /\ m.type = "barrier" => SoundCut(job, m, DOMAIN sink \cup PairsIn(joined)))
            => Cuts'
  <1>1. /\ joined' \in Seq(OutMessages(job))
        /\ DOMAIN joined' = DOMAIN joined \cup {Len(joined) + 1}
        /\ \A i \in DOMAIN joined : joined'[i] = joined[i]
        /\ joined'[Len(joined) + 1] = m
    BY Ends
  <1>2. /\ PairsIn(joined') = PairsIn(joined) \cup AddedPairs(m)
        /\ \A i \in DOMAIN joined : PairsBefore(joined', i) = PairsBefore(joined, i)
        /\ PairsBefore(joined', Len(joined) + 1) = PairsIn(joined)
    BY PairsAdded DEF AddedPairs
  <1>3. PutOut' = PutOut \cup AddedPairs(m)
    BY <1>2 DEF PutOut
  <1>4. Apart(joined')
    <2>1. m.type = "pairs" => m.pairs \cap PairsIn(joined) = {}
      BY DEF AddedPairs, PutOut
    <2>2. QED
      BY <2>1, ApartAdded DEF Placed
  <1>5. AddedPairs(m) \cap (DOMAIN sink \cup PairsIn(inj.buf)) = {}
    BY DEF PutOut
  <1>6. Placed'
    BY <1>2, <1>4, <1>5 DEF Placed
  <1>7. ASSUME Cuts,
               m.type = "barrier" => SoundCut(job, m, DOMAIN sink \cup PairsIn(joined))
        PROVE  Cuts'
    <2>1. \A i \in DOMAIN joined : joined'[i].type = "barrier" =>
            SoundCut(job, joined'[i], DOMAIN sink \cup PairsBefore(joined', i))
      BY <1>1, <1>2, <1>7 DEF Cuts
    <2>2. joined'[Len(joined) + 1].type = "barrier" =>
            SoundCut(job, joined'[Len(joined) + 1],
                     DOMAIN sink \cup PairsBefore(joined', Len(joined) + 1))
      BY <1>1, <1>2, <1>7
    <2>3. \A i \in DOMAIN joined' : joined'[i].type = "barrier" =>
            SoundCut(job, joined'[i], DOMAIN sink \cup PairsBefore(joined', i))
      BY <1>1, <2>1, <2>2
    <2>4. QED
      BY <2>3, <1>7 DEF Cuts
  <1>8. QED
    BY <1>1, <1>3, <1>6, <1>7

\* The sink takes a message from the operator's output.
LEMMA JoinedShrinks ==
  ASSUME joined \in Seq(OutMessages(job)), Placed, job' = job, inj' = inj,
         joined # <<>>, joined' = Tail(joined),
         sink' = SetToBag(DOMAIN sink \cup FirstPairs(joined))
  PROVE  /\ joined' \in Seq(OutMessages(job')) /\ Placed' /\ PutOut' = PutOut
         /\ DOMAIN sink' = DOMAIN sink \cup FirstPairs(joined)
         /\ Cuts => \A i \in DOMAIN joined' : joined'[i].type = "barrier" =>
                      SoundCut(job', joined'[i], DOMAIN sink' \cup PairsBefore(joined', i))
  <1>1. /\ joined' \in Seq(OutMessages(job))
        /\ \A i \in DOMAIN joined' :
             i \in Nat \ {0} /\ i + 1 \in DOMAIN joined /\ joined'[i] = joined[i + 1]
    BY Ends
  <1>2. /\ PairsIn(joined) = PairsIn(joined') \cup FirstPairs(joined)
        /\ \A i \in DOMAIN joined' :
             PairsBefore(joined, i + 1) = PairsBefore(joined', i) \cup FirstPairs(joined)
    BY PairsTaken
  <1>3. DOMAIN sink' = DOMAIN sink \cup FirstPairs(joined)
    BY DEF SetToBag
  <1>4. PutOut' = PutOut
    BY <1>2, <1>3 DEF PutOut
  <1>5. Apart(joined') /\ FirstPairs(joined) \cap PairsIn(joined') = {}
    BY ApartTaken DEF Placed
  <1>6. sink' = SetToBag(DOMAIN sink')
    BY <1>3
  <1>7. Placed'
    BY <1>2, <1>3, <1>5, <1>6 DEF Placed
  <1>8. ASSUME Cuts, NEW i \in DOMAIN joined', joined'[i].type = "barrier"
        PROVE  SoundCut(job', joined'[i], DOMAIN sink' \cup PairsBefore(joined', i))
    <2>1. SoundCut(job, joined[i + 1], DOMAIN sink \cup PairsBefore(joined, i + 1))
      BY <1>1, <1>8 DEF Cuts
    <2>2. DOMAIN sink \cup PairsBefore(joined, i + 1) = DOMAIN sink' \cup PairsBefore(joined', i)
      BY <1>2, <1>3
    <2>3. QED
      BY <2>1, <2>2, <1>1
  <1>9. QED
    BY <1>1, <1>3, <1>4, <1>7, <1>8

\* The sink takes a message from the injector's channel.
LEMMA BufShrinks ==
  ASSUME inj.buf \in Seq(OutMessages(job)), Placed, job' = job, joined' = joined,
         inj.buf # <<>>, inj'.buf = Tail(inj.buf),
         sink' = SetToBag(DOMAIN sink \cup FirstPairs(inj.buf))
  PROVE  /\ inj'.buf \in Seq(OutMessages(job')) /\ Placed' /\ PutOut' = PutOut
         /\ DOMAIN sink' = DOMAIN sink \cup FirstPairs(inj.buf)
  <1>1. inj'.buf \in Seq(OutMessages(job))
    BY Ends
  <1>2. PairsIn(inj.buf) = PairsIn(inj'.buf) \cup FirstPairs(inj.buf)
    BY PairsTaken
  <1>3. DOMAIN sink' = DOMAIN sink \cup FirstPairs(inj.buf)
    BY DEF SetToBag
  <1>4. PutOut' = PutOut
    BY <1>2, <1>3 DEF PutOut
  <1>5. Apart(inj'.buf) /\ FirstPairs(inj.buf) \cap PairsIn(inj'.buf) = {}
    BY ApartTaken DEF Placed
  <1>6. sink' = SetToBag(DOMAIN sink')
    BY <1>3
  <1>7. Placed'
    BY <1>2, <1>3, <1>5, <1>6 DEF Placed
  <1>8. QED
    BY <1>1, <1>3, <1>4, <1>7

-----------------------------------------------------------------------------
(* The invariant holds initially and is kept by every action.              *)

LEMMA RunInvHolds == ASSUME Init PROVE RunInv
  <1>1. job \in Jobs /\ pos = Zero /\ seen = NothingSeen /\ mux = <<>> /\ op = FreshOp
        /\ joined = <<>> /\ inj = [pc |-> "run", buf |-> <<>>] /\ sink = EmptyBag
        /\ late = {} /\ saved = [pos |-> Zero, op |-> FreshOp, sink |-> EmptyBag, late |-> {}]
    BY DEF Init
  <1>2. Zero \in Positions /\ FreshOp \in OpStates(job) /\ seen \in [Sides -> Int]
        /\ \A s \in Sides : seen[s] < MaxTime
    BY <1>1, TimeAxis DEF Zero, Positions, FreshOp, OpStates, NothingSeen
  <1>3. DOMAIN EmptyBag = {} /\ EmptyBag = SetToBag(DOMAIN EmptyBag)
    BY DEF EmptyBag, SetToBag
  <1>4. TypeInv
    BY <1>1, <1>2, <1>3 DEF TypeInv
  <1>5. UpTo(job, Zero) = {}
    <2>1. \A id \in IdsOf(job) : id[1] \in Sides /\ id[2] \in Nat /\ id[2] >= 1
      <3> SUFFICES ASSUME NEW id \in IdsOf(job)
                   PROVE  id[1] \in Sides /\ id[2] \in Nat /\ id[2] >= 1
        OBVIOUS
      <3>1. PICK s \in Sides : id \in {s} \X (1 .. Len(job.log[s]))
        BY DEF IdsOf
      <3>2. Len(job.log[s]) \in Nat
        BY <1>1, JoinParameters
      <3>3. QED
        BY <3>1, <3>2
    <2>2. QED
      BY <2>1 DEF UpTo, Zero
  <1>6. Arrived = {} /\ PutOut = {}
    BY <1>1, <1>3, <1>5, ArrivedIs DEF PutOut, PairsIn
  <1>7. Sound(job, {}, FreshOp, {}, {})
    <2>1. "left" \in Sides /\ "right" \in Sides
      BY DEF Sides
    <2>2. WellFormed({}, FreshOp)
      BY <2>1, TimeAxis DEF WellFormed, FreshOp, AlignedWatermark
    <2>3. QED
      BY <2>2 DEF Sound, Suffices, OnlyMatches, AllMatches
  <1>8. Placed
    BY <1>1, <1>3 DEF Placed, Apart, PairsIn
  <1>9. Queued
    BY <1>1 DEF Queued
  <1>10. Cuts
    <2>1. SoundCut(job, saved, DOMAIN saved.sink)
      BY <1>1, <1>2, <1>3, <1>5, <1>7 DEF SoundCut
    <2>2. QED
      BY <2>1, <1>1, <1>3 DEF Cuts
  <1>11. QED
    BY <1>1, <1>4, <1>6, <1>7, <1>8, <1>9, <1>10 DEF RunInv

LEMMA ReadKeeps ==
  ASSUME RunInv, NEW s \in Sides, Read(s)
  PROVE  RunInv'
  <1> DEFINE id == <<s, pos[s] + 1>>
             m == [type |-> "record", id |-> id]
  <1>1. TypeInv /\ Sound(job, Arrived, op, late, PutOut) /\ Placed /\ Queued
    BY DEF RunInv
  <1>2. /\ job' = job /\ op' = op /\ joined' = joined /\ inj' = inj /\ sink' = sink
        /\ late' = late /\ saved' = saved
        /\ pos' = [pos EXCEPT ![s] = @ + 1] /\ mux' = Append(mux, m)
        /\ seen' = [seen EXCEPT ![s] = Greater(@, job.log[s][pos[s] + 1].ts)]
        /\ pos[s] < Len(job.log[s])
    BY DEF Read
  <1>3. job \in Jobs /\ pos \in Positions /\ mux \in Seq(MuxMessages(job))
    BY <1>1 DEF TypeInv
  <1>4. /\ id \in IdsOf(job) /\ id \notin UpTo(job, pos)
        /\ UpTo(job, pos') = UpTo(job, pos) \cup {id}
    BY <1>2, <1>3, NextId
  <1>5. RecordsIn(mux') = RecordsIn(mux) \cup {id}
    <2>1. m \in MuxMessages(job)
      BY <1>4 DEF MuxMessages
    <2>2. m.type = "record" /\ m.id = id
      OBVIOUS
    <2> HIDE DEF m
    <2>3. RecordsIn(Append(mux, m)) =
            RecordsIn(mux) \cup (IF m.type = "record" THEN {m.id} ELSE {})
      BY <2>1, <1>3, RecordsAdded
    <2>4. QED
      BY <2>2, <2>3, <1>2
  <1>6. Arrived' = Arrived
    BY <1>2, <1>4, <1>5, ArrivedIs, ArrivedIsNext
  <1>7. id \notin RecordsIn(mux)
    BY <1>1, <1>4 DEF Queued, RecordsIn
  <1>8. Queued' /\ mux' \in Seq(MuxMessages(job'))
    <2>1. m \in MuxMessages(job)
      BY <1>4 DEF MuxMessages
    <2>2. QED
      BY <2>1, <1>1, <1>2, <1>3, <1>4, <1>6, <1>7, MuxGrows
  <1>9. pos' \in Positions
    BY <1>2, <1>3 DEF Positions
  <1>10. seen' \in [Sides -> Int] /\ \A t \in Sides : seen'[t] < MaxTime
    <2>1. /\ TsOf(job, id) \in Int /\ TsOf(job, id) < MaxTime
          /\ job.log[s][pos[s] + 1].ts = TsOf(job, id)
      BY <1>3, <1>4, IdFacts DEF TsOf
    <2>2. seen \in [Sides -> Int] /\ \A t \in Sides : seen[t] < MaxTime
      BY <1>1 DEF TypeInv
    <2>3. QED
      BY <2>1, <2>2, <1>2 DEF Greater
  <1>11. TypeInv'
    BY <1>1, <1>2, <1>8, <1>9, <1>10 DEF TypeInv
  <1>12. PutOut' = PutOut /\ Placed'
    BY <1>1, <1>2, OutputFrame
  <1>13. Sound(job, Arrived, op, late, PutOut)'
    BY <1>1, <1>2, <1>6, <1>12
  <1>14. Cuts => Cuts'
    BY <1>2, CutsFrame
  <1>15. QED
    BY <1>2, <1>6, <1>8, <1>11, <1>12, <1>13, <1>14 DEF RunInv, Native

\* A watermark, of whatever time, joins the operator's input.
LEMMA WatermarkSent ==
  ASSUME RunInv, NEW m \in MuxMessages(job), m.type = "watermark", mux' = Append(mux, m),
         UNCHANGED <<job, pos, seen, op, joined, inj, sink, late, saved>>
  PROVE  RunInv'
  <1>1. TypeInv /\ Sound(job, Arrived, op, late, PutOut) /\ Placed /\ Queued
    BY DEF RunInv
  <1>2. mux \in Seq(MuxMessages(job))
    BY <1>1 DEF TypeInv
  <1>3. RecordsIn(mux') = RecordsIn(mux)
    <2>1. RecordsIn(Append(mux, m)) =
            RecordsIn(mux) \cup (IF m.type = "record" THEN {m.id} ELSE {})
      BY <1>2, RecordsAdded
    <2>2. QED
      BY <2>1
  <1>4. Arrived' = Arrived
    BY <1>3, ArrivedIs, ArrivedIsNext
  <1>5. Queued' /\ mux' \in Seq(MuxMessages(job'))
    BY <1>1, <1>2, <1>4, MuxGrows
  <1>6. TypeInv'
    BY <1>1, <1>5 DEF TypeInv
  <1>7. PutOut' = PutOut /\ Placed'
    BY <1>1, OutputFrame
  <1>8. Sound(job, Arrived, op, late, PutOut)'
    BY <1>1, <1>4, <1>7
  <1>9. Cuts => Cuts'
    BY CutsFrame
  <1>10. QED
    BY <1>5, <1>6, <1>7, <1>8, <1>9 DEF RunInv, Native

LEMMA SendWatermarkKeeps ==
  ASSUME RunInv, NEW s \in Sides, SendWatermark(s)
  PROVE  RunInv'
  <1> DEFINE m == WatermarkFor(s)
  <1>1. /\ UNCHANGED <<job, pos, seen, op, joined, inj, sink, late, saved>>
        /\ mux' = Append(mux, m)
    BY DEF SendWatermark
  <1>2. seen \in [Sides -> Int]
    BY DEF RunInv, TypeInv
  <1>3. Other(s) \in Sides /\ SidesWith(s) \in SUBSET Sides
    BY OtherSide DEF SidesWith
  <1>4. seen[s] \in Int /\ seen[Other(s)] \in Int /\ OutOfOrderness \in Nat
    BY <1>2, <1>3, BoundFacts
  <1>5. /\ m.type = "watermark" /\ m.sides = SidesWith(s)
        /\ m.ts = (IF Native \/ seen[Other(s)] = ZeroTime THEN seen[s]
                   ELSE Lesser(seen[s], seen[Other(s)])) - OutOfOrderness
        /\ m = [type |-> m.type, sides |-> m.sides, ts |-> m.ts]
    BY DEF WatermarkFor
  <1> HIDE DEF m
  <1>6. m.ts \in Int
    BY <1>4, <1>5 DEF Lesser
  <1>7. m \in MuxMessages(job)
    BY <1>3, <1>5, <1>6 DEF MuxMessages
  <1>8. QED
    BY <1>1, <1>5, <1>7, WatermarkSent

LEMMA BarrierBeforeKeeps ==
  ASSUME RunInv, NEW pc, BarrierBefore(pc)
  PROVE  RunInv'
  <1> DEFINE m == [type |-> "barrier", pos |-> pos]
  <1>1. TypeInv /\ Sound(job, Arrived, op, late, PutOut) /\ Placed /\ Queued
    BY DEF RunInv
  <1>2. /\ job' = job /\ pos' = pos /\ seen' = seen /\ op' = op /\ joined' = joined
        /\ inj' = [inj EXCEPT !.pc = pc] /\ sink' = sink /\ late' = late
        /\ saved' = saved /\ mux' = Append(mux, m) /\ ~Native
    BY DEF BarrierBefore
  <1>3. /\ job \in Jobs /\ pos \in Positions /\ mux \in Seq(MuxMessages(job))
        /\ inj = [pc |-> inj.pc, buf |-> inj.buf]
    BY <1>1 DEF TypeInv
  <1>a. inj'.buf = inj.buf /\ inj' = [pc |-> inj'.pc, buf |-> inj'.buf]
    BY <1>2, <1>3
  <1>4. m \in MuxMessages(job)
    BY <1>3 DEF MuxMessages
  <1>5. m.type = "barrier" /\ m.pos = pos
    OBVIOUS
  <1> HIDE DEF m
  <1>6. RecordsIn(mux') = RecordsIn(mux)
    <2>1. RecordsIn(Append(mux, m)) =
            RecordsIn(mux) \cup (IF m.type = "record" THEN {m.id} ELSE {})
      BY <1>3, <1>4, RecordsAdded
    <2>2. m.type # "record"
      BY <1>4, <1>5
    <2>3. QED
      BY <2>1, <2>2, <1>2
  <1>7. Arrived' = Arrived
    BY <1>2, <1>6, ArrivedIs, ArrivedIsNext
  <1>8. UpTo(job, m.pos) = Arrived \cup RecordsIn(mux)
    <2>1. RecordsIn(mux) \subseteq UpTo(job, pos)
      BY <1>1 DEF Queued, RecordsIn
    <2>2. QED
      BY <2>1, <1>5, ArrivedIs
  <1>9. Queued' /\ mux' \in Seq(MuxMessages(job'))
    BY <1>1, <1>2, <1>3, <1>4, <1>5, <1>7, <1>8, MuxGrows
  <1>10. TypeInv'
    BY <1>1, <1>2, <1>9, <1>a DEF TypeInv
  <1>11. PutOut' = PutOut /\ Placed'
    BY <1>1, <1>2, <1>a, OutputFrame
  <1>12. Sound(job, Arrived, op, late, PutOut)'
    BY <1>1, <1>2, <1>7, <1>11
  <1>13. Cuts => Cuts'
    BY <1>2, CutsFrame
  <1>14. QED
    BY <1>2, <1>a, <1>7, <1>9, <1>10, <1>11, <1>12, <1>13 DEF RunInv, Native

LEMMA OpRecordKeeps ==
  ASSUME RunInv, OpRecord
  PROVE  RunInv'
  <1> DEFINE id == Head(mux).id
             ms == Matches(op.held, id)
             new == {PairOf(id, x) : x \in ms}
             m == [type |-> "pairs", pairs |-> new]
  <1>1. TypeInv /\ Sound(job, Arrived, op, late, PutOut) /\ Placed /\ Queued
    BY DEF RunInv
  <1>2. /\ job' = job /\ pos' = pos /\ seen' = seen /\ inj' = inj /\ sink' = sink
        /\ saved' = saved /\ mux # <<>> /\ Head(mux).type = "record" /\ mux' = Tail(mux)
        /\ joined' = (IF ms = {} THEN joined ELSE Append(joined, m))
        /\ op' = [op EXCEPT !.held[id[1]] = @ \cup {id}]
        /\ late' = IF Rec(id).ts < op.sent THEN late \cup {id} ELSE late
    BY DEF OpRecord, OpReceives
  <1>3. /\ job \in Jobs /\ mux \in Seq(MuxMessages(job)) /\ op \in OpStates(job)
        /\ joined \in Seq(OutMessages(job)) /\ late \in SUBSET IdsOf(job)
    BY <1>1 DEF TypeInv
  <1>4. /\ Queued' /\ mux' \in Seq(MuxMessages(job'))
        /\ Arrived' = Arrived \cup FirstRecord(mux)
        /\ Head(mux) \in MuxMessages(job) /\ id \notin Arrived
    BY <1>1, <1>2, <1>3, MuxShrinks
  <1>5. id \in IdsOf(job)
    BY <1>2, <1>4 DEF MuxMessages
  <1>6. Arrived' = Arrived \cup {id}
    BY <1>2, <1>4 DEF FirstRecord
  <1> HIDE DEF id, ms
  <1>7. new = {PairOf(id, x) : x \in Matches(op.held, id)}
    BY DEF ms
  <1> HIDE DEF new
  <1>8. /\ op' \in OpStates(job) /\ new \subseteq Pairs(job) /\ new \cap PutOut = {}
        /\ Sound(job, Arrived \cup {id}, op', late', PutOut \cup new)
    <2>1. Sound(job, Arrived, op, late, PutOut) /\ job \in Jobs /\ op \in OpStates(job)
      BY <1>1, <1>3
    <2>2. op' = Buffered(op, id) /\ late' = LateAfter(op, late, id)
      BY <1>2 DEF Buffered, LateAfter
    <2>3. new = NewPairs(op, id)
      BY <1>7 DEF NewPairs
    <2>4. id \notin Arrived
      BY <1>4 DEF id
    <2>5. QED
      BY <2>1, <2>2, <2>3, <2>4, <1>5, StageRecord
  <1>9. /\ joined' \in Seq(OutMessages(job')) /\ Placed' /\ PutOut' = PutOut \cup new
        /\ Cuts => Cuts'
    <2>1. CASE ms = {}
      <3>1. joined' = joined /\ new = {}
        BY <2>1, <1>2 DEF new
      <3>2. PutOut' = PutOut /\ Placed'
        BY <3>1, <1>1, <1>2, OutputFrame
      <3>3. Cuts => Cuts'
        BY <3>1, <1>2, CutsFrame
      <3>4. QED
        BY <3>1, <3>2, <3>3, <1>2, <1>3
    <2>2. CASE ms # {}
      <3>1. joined' = Append(joined, m)
        BY <2>2, <1>2
      <3>2. m \in OutMessages(job)
        BY <1>8 DEF OutMessages
      <3>3. AddedPairs(m) = new /\ m.type = "pairs"
        BY DEF AddedPairs
      <3> HIDE DEF m
      <3>4. QED
        BY <3>1, <3>2, <3>3, <1>1, <1>2, <1>3, <1>8, JoinedGrows
    <2>3. QED
      BY <2>1, <2>2
  <1>10. Sound(job, Arrived, op, late, PutOut)'
    BY <1>2, <1>6, <1>8, <1>9
  <1>11. late' \in SUBSET IdsOf(job)
    BY <1>2, <1>3, <1>5
  <1>12. TypeInv'
    BY <1>1, <1>2, <1>4, <1>8, <1>9, <1>11 DEF TypeInv
  <1>13. QED
    BY <1>2, <1>4, <1>9, <1>10, <1>12 DEF RunInv, Native

LEMMA OpWatermarkKeeps ==
  ASSUME RunInv, OpWatermark
  PROVE  RunInv'
  <1> DEFINE h == Head(mux)
             wm == [s \in Sides |-> IF s \in h.sides
                                    THEN Greater(op.wm[s], h.ts) ELSE op.wm[s]]
             a == AlignedWatermark(wm)
             up == a # ZeroTime /\ a > op.sent
             m == [type |-> "watermark", ts |-> a]
  <1>1. TypeInv /\ Sound(job, Arrived, op, late, PutOut) /\ Placed /\ Queued
    BY DEF RunInv
  <1>2. /\ job' = job /\ pos' = pos /\ seen' = seen /\ inj' = inj /\ sink' = sink
        /\ saved' = saved /\ mux # <<>> /\ Head(mux).type = "watermark" /\ mux' = Tail(mux)
        /\ joined' = (IF up THEN Append(joined, m) ELSE joined)
        /\ op' = [held |-> IF a = ZeroTime THEN op.held ELSE Evict(op.held, a),
                  wm |-> wm, sent |-> IF up THEN a ELSE op.sent]
        /\ late' = late
    BY DEF OpWatermark, OpReceives
  <1>3. /\ job \in Jobs /\ mux \in Seq(MuxMessages(job)) /\ op \in OpStates(job)
        /\ joined \in Seq(OutMessages(job)) /\ late \in SUBSET IdsOf(job)
    BY <1>1 DEF TypeInv
  <1>4. /\ Queued' /\ mux' \in Seq(MuxMessages(job'))
        /\ Arrived' = Arrived \cup FirstRecord(mux)
        /\ h \in MuxMessages(job)
    BY <1>1, <1>2, <1>3, MuxShrinks
  <1>5. Arrived' = Arrived
    BY <1>2, <1>4 DEF FirstRecord
  <1>6. h.ts \in Int
    BY <1>2, <1>4 DEF MuxMessages
  <1> HIDE DEF h
  <1>7. /\ op.wm \in [Sides -> Int] /\ wm \in [Sides -> Int]
        /\ \A s \in Sides : wm[s] >= op.wm[s]
    <2>1. op.wm \in [Sides -> Int]
      BY <1>3 DEF OpStates
    <2>2. \A s \in Sides : op.wm[s] \in Int
      BY <2>1
    <2>3. \A s \in Sides : wm[s] \in Int /\ wm[s] >= op.wm[s]
      BY <2>2, <1>6 DEF Greater
    <2>4. wm \in [Sides -> Int]
      BY <2>3
    <2>5. QED
      BY <2>1, <2>3, <2>4
  <1> HIDE DEF wm
  <1>8. /\ op' \in OpStates(job) /\ a \in Int
        /\ Sound(job, Arrived, op', late, PutOut)
    <2>1. Sound(job, Arrived, op, late, PutOut) /\ job \in Jobs /\ op \in OpStates(job)
      BY <1>1, <1>3
    <2>2. op' = [held |-> IF a = ZeroTime THEN op.held ELSE Evict(op.held, a), wm |-> wm,
                 sent |-> IF a # ZeroTime /\ a > op.sent THEN a ELSE op.sent]
      BY <1>2
    <2>3. a = AlignedWatermark(wm)
      OBVIOUS
    <2>4. QED
      BY <2>1, <2>2, <2>3, <1>7, StageWatermark, SMTT(30)
  <1> HIDE DEF a
  <1>9. /\ joined' \in Seq(OutMessages(job')) /\ Placed' /\ PutOut' = PutOut
        /\ Cuts => Cuts'
    <2>1. CASE ~up
      <3>1. joined' = joined
        BY <2>1, <1>2
      <3>2. PutOut' = PutOut /\ Placed'
        BY <3>1, <1>1, <1>2, OutputFrame
      <3>3. Cuts => Cuts'
        BY <3>1, <1>2, CutsFrame
      <3>4. QED
        BY <3>1, <3>2, <3>3, <1>2, <1>3
    <2>2. CASE up
      <3>1. joined' = Append(joined, m)
        BY <2>2, <1>2
      <3>2. m \in OutMessages(job)
        BY <1>8 DEF OutMessages
      <3>3. AddedPairs(m) = {} /\ m.type = "watermark"
        BY DEF AddedPairs
      <3> HIDE DEF m
      <3>4. AddedPairs(m) \cap PutOut = {} /\ PutOut \cup AddedPairs(m) = PutOut
        BY <3>3
      <3>5. QED
        BY <3>1, <3>2, <3>3, <3>4, <1>1, <1>2, <1>3, JoinedGrows
    <2>3. QED
      BY <2>1, <2>2
  <1>10. Sound(job, Arrived, op, late, PutOut)'
    BY <1>2, <1>5, <1>8, <1>9
  <1>11. TypeInv'
    BY <1>1, <1>2, <1>4, <1>8, <1>9 DEF TypeInv
  <1>12. QED
    BY <1>2, <1>4, <1>9, <1>10, <1>11 DEF RunInv, Native

LEMMA OpBarrierKeeps ==
  ASSUME RunInv, OpBarrier
  PROVE  RunInv'
  <1> DEFINE h == Head(mux)
             m == [type |-> "barrier", pos |-> h.pos, op |-> op, late |-> late]
  <1>1. TypeInv /\ Sound(job, Arrived, op, late, PutOut) /\ Placed /\ Queued
    BY DEF RunInv
  <1>2. /\ job' = job /\ pos' = pos /\ seen' = seen /\ inj' = inj /\ sink' = sink
        /\ saved' = saved /\ mux # <<>> /\ Head(mux).type = "barrier" /\ mux' = Tail(mux)
        /\ joined' = Append(joined, m) /\ op' = op /\ late' = late
    BY DEF OpBarrier, OpReceives
  <1>3. /\ job \in Jobs /\ mux \in Seq(MuxMessages(job)) /\ op \in OpStates(job)
        /\ joined \in Seq(OutMessages(job)) /\ late \in SUBSET IdsOf(job)
    BY <1>1 DEF TypeInv
  <1>4. /\ Queued' /\ mux' \in Seq(MuxMessages(job'))
        /\ Arrived' = Arrived \cup FirstRecord(mux)
        /\ h \in MuxMessages(job)
        /\ ~Native /\ UpTo(job, h.pos) = Arrived
    BY <1>1, <1>2, <1>3, MuxShrinks
  <1>5. Arrived' = Arrived
    BY <1>2, <1>4 DEF FirstRecord
  <1>6. h.pos \in Positions
    BY <1>2, <1>4 DEF MuxMessages
  <1>7. inj.buf = <<>> /\ Cuts
    BY <1>4 DEF RunInv
  <1>8. m \in OutMessages(job)
    BY <1>3, <1>6 DEF OutMessages
  <1>9. /\ m.type = "barrier" /\ m.pos = h.pos /\ m.op = op /\ m.late = late
        /\ AddedPairs(m) = {}
    BY DEF AddedPairs
  <1> HIDE DEF m
  <1>10. PutOut = DOMAIN sink \cup PairsIn(joined)
    BY <1>7 DEF PutOut, PairsIn
  <1>11. SoundCut(job, m, DOMAIN sink \cup PairsIn(joined))
    BY <1>1, <1>3, <1>4, <1>6, <1>7, <1>9, <1>10 DEF SoundCut
  <1>12. AddedPairs(m) \cap PutOut = {} /\ PutOut \cup AddedPairs(m) = PutOut
    BY <1>9
  <1>13. /\ joined' \in Seq(OutMessages(job')) /\ Placed' /\ PutOut' = PutOut /\ Cuts'
    BY <1>1, <1>2, <1>3, <1>7, <1>8, <1>11, <1>12, JoinedGrows
  <1>14. Sound(job, Arrived, op, late, PutOut)'
    BY <1>1, <1>2, <1>5, <1>13
  <1>15. TypeInv'
    BY <1>1, <1>2, <1>4, <1>13 DEF TypeInv
  <1>16. QED
    BY <1>2, <1>4, <1>7, <1>13, <1>14, <1>15 DEF RunInv, Native

LEMMA InjForwardKeeps ==
  ASSUME RunInv, InjForward
  PROVE  RunInv'
  <1> DEFINE h == Head(joined)
  <1>1. TypeInv /\ Sound(job, Arrived, op, late, PutOut) /\ Placed /\ Queued
    BY DEF RunInv
  <1>2. /\ job' = job /\ pos' = pos /\ seen' = seen /\ mux' = mux /\ op' = op
        /\ sink' = sink /\ late' = late /\ Native /\ joined # <<>>
        /\ inj' = [inj EXCEPT !.buf = Append(@, h)] /\ joined' = Tail(joined)
    BY DEF InjForward
  <1>3. /\ joined \in Seq(OutMessages(job)) /\ inj.buf \in Seq(OutMessages(job))
        /\ inj = [pc |-> inj.pc, buf |-> inj.buf]
    BY <1>1 DEF TypeInv
  <1>4. inj'.buf = Append(inj.buf, h) /\ inj' = [pc |-> inj'.pc, buf |-> inj'.buf]
    BY <1>2, <1>3
  <1>5. h \in OutMessages(job) /\ joined' \in Seq(OutMessages(job))
    BY <1>2, <1>3, Ends
  <1>6. inj'.buf \in Seq(OutMessages(job))
    BY <1>3, <1>4, <1>5, Ends
  <1>7. PairsIn(joined) = PairsIn(joined') \cup FirstPairs(joined)
    BY <1>2, <1>3, PairsTaken
  <1>8. PairsIn(inj'.buf) = PairsIn(inj.buf) \cup FirstPairs(joined)
    <2>1. PairsIn(Append(inj.buf, h)) =
            PairsIn(inj.buf) \cup (IF h.type = "pairs" THEN h.pairs ELSE {})
      BY <1>3, <1>5, PairsAdded
    <2>2. QED
      BY <2>1, <1>4 DEF FirstPairs
  <1>9. Apart(joined') /\ FirstPairs(joined) \cap PairsIn(joined') = {}
    BY <1>1, <1>2, <1>3, ApartTaken DEF Placed
  <1>10. Apart(inj'.buf)
    <2>1. FirstPairs(joined) \cap PairsIn(inj.buf) = {}
      BY <1>1, <1>7 DEF Placed
    <2>2. h.type = "pairs" => h.pairs \cap PairsIn(inj.buf) = {}
      BY <2>1 DEF FirstPairs
    <2>3. Apart(inj.buf)
      BY <1>1 DEF Placed
    <2> HIDE DEF h
    <2>4. Apart(Append(inj.buf, h))
      BY <2>2, <2>3, <1>3, <1>5, ApartAdded
    <2>5. QED
      BY <2>4, <1>4
  <1>11. PutOut' = PutOut
    BY <1>2, <1>7, <1>8 DEF PutOut
  <1>12. Placed'
    BY <1>1, <1>2, <1>7, <1>8, <1>9, <1>10 DEF Placed
  <1>13. Arrived' = Arrived /\ Queued'
    BY <1>1, <1>2, InputFrame
  <1>14. TypeInv'
    BY <1>1, <1>2, <1>4, <1>5, <1>6 DEF TypeInv
  <1>15. Sound(job, Arrived, op, late, PutOut)'
    BY <1>1, <1>2, <1>11, <1>13
  <1>16. QED
    BY <1>2, <1>12, <1>13, <1>14, <1>15 DEF RunInv, Native

LEMMA InjBarrierKeeps ==
  ASSUME RunInv, InjBarrier
  PROVE  RunInv'
  <1> DEFINE m == [type |-> "barrier"]
  <1>1. TypeInv /\ Sound(job, Arrived, op, late, PutOut) /\ Placed /\ Queued
    BY DEF RunInv
  <1>2. /\ job' = job /\ pos' = pos /\ seen' = seen /\ mux' = mux /\ op' = op
        /\ sink' = sink /\ late' = late /\ Native /\ joined' = joined
        /\ inj' = [pc |-> IF ctx THEN "drain" ELSE "run", buf |-> Append(inj.buf, m)]
    BY DEF InjBarrier
  <1>3. inj.buf \in Seq(OutMessages(job))
    BY <1>1 DEF TypeInv
  <1>4. inj'.buf = Append(inj.buf, m) /\ inj' = [pc |-> inj'.pc, buf |-> inj'.buf]
    BY <1>2
  <1>5. m \in OutMessages(job) /\ m.type # "pairs"
    BY DEF OutMessages
  <1> HIDE DEF m
  <1>6. inj'.buf \in Seq(OutMessages(job))
    BY <1>3, <1>4, <1>5, Ends
  <1>7. PairsIn(inj'.buf) = PairsIn(inj.buf)
    <2>1. PairsIn(Append(inj.buf, m)) =
            PairsIn(inj.buf) \cup (IF m.type = "pairs" THEN m.pairs ELSE {})
      BY <1>3, <1>5, PairsAdded
    <2>2. QED
      BY <2>1, <1>4, <1>5
  <1>8. Apart(inj'.buf)
    <2>1. Apart(Append(inj.buf, m))
      BY <1>1, <1>3, <1>5, ApartAdded DEF Placed
    <2>2. QED
      BY <2>1, <1>4
  <1>9. PutOut' = PutOut
    BY <1>2, <1>7 DEF PutOut
  <1>10. Placed'
    BY <1>1, <1>2, <1>7, <1>8 DEF Placed
  <1>11. Arrived' = Arrived /\ Queued'
    BY <1>1, <1>2, InputFrame
  <1>12. TypeInv'
    BY <1>1, <1>2, <1>4, <1>6 DEF TypeInv
  <1>13. Sound(job, Arrived, op, late, PutOut)'
    BY <1>1, <1>2, <1>9, <1>11
  <1>14. QED
    BY <1>2, <1>10, <1>11, <1>12, <1>13 DEF RunInv, Native

\* What the sink takes, of whichever kind: the pairs of the first message move
\* to the sink.
LEMMA SinkTakes ==
  ASSUME RunInv, SinkInput # <<>>, Took,
         sink' = SetToBag(DOMAIN sink \cup FirstPairs(SinkInput)),
         UNCHANGED <<job, pos, seen, mux, op, late>>
  PROVE  /\ TypeInv' /\ Sound(job, Arrived, op, late, PutOut)' /\ Placed' /\ Queued'
         /\ Arrived' = Arrived
         /\ ~Native =>
              /\ inj'.buf = <<>>
              /\ \A i \in DOMAIN joined' : joined'[i].type = "barrier" =>
                   SoundCut(job', joined'[i], DOMAIN sink' \cup PairsBefore(joined', i))
  <1>1. TypeInv /\ Sound(job, Arrived, op, late, PutOut) /\ Placed /\ Queued
    BY DEF RunInv
  <1>2. /\ joined \in Seq(OutMessages(job)) /\ inj.buf \in Seq(OutMessages(job))
        /\ inj = [pc |-> inj.pc, buf |-> inj.buf] /\ DOMAIN sink \in SUBSET Pairs(job)
    BY <1>1 DEF TypeInv
  <1>3. Arrived' = Arrived /\ Queued'
    BY <1>1, InputFrame
  <1>4. SinkInput \in Seq(OutMessages(job))
    BY <1>2 DEF SinkInput
  <1>5. FirstPairs(SinkInput) \subseteq Pairs(job)
    <2>1. Head(SinkInput) \in OutMessages(job)
      BY <1>4, Ends
    <2>2. QED
      BY <2>1 DEF FirstPairs, OutMessages
  <1>6. CASE Native
    <2>1. /\ SinkInput = inj.buf /\ joined' = joined
          /\ inj' = [inj EXCEPT !.buf = Tail(@)]
      BY <1>6 DEF SinkInput, Took
    <2>2. inj'.buf = Tail(inj.buf) /\ inj' = [pc |-> inj'.pc, buf |-> inj'.buf]
      BY <2>1, <1>2
    <2>3. /\ inj'.buf \in Seq(OutMessages(job')) /\ Placed' /\ PutOut' = PutOut
          /\ DOMAIN sink' = DOMAIN sink \cup FirstPairs(inj.buf)
      BY <2>1, <2>2, <1>1, <1>2, BufShrinks
    <2>4. TypeInv'
      BY <2>1, <2>2, <2>3, <1>1, <1>2, <1>5 DEF TypeInv
    <2>5. Sound(job, Arrived, op, late, PutOut)'
      BY <2>3, <1>1, <1>3
    <2>6. QED
      BY <2>3, <2>4, <2>5, <1>3, <1>6
  <1>7. CASE ~Native
    <2>1. SinkInput = joined /\ joined' = Tail(joined) /\ inj' = inj
      BY <1>7 DEF SinkInput, Took
    <2>2. inj.buf = <<>> /\ Cuts
      BY <1>7 DEF RunInv
    <2>3. /\ joined' \in Seq(OutMessages(job')) /\ Placed' /\ PutOut' = PutOut
          /\ DOMAIN sink' = DOMAIN sink \cup FirstPairs(joined)
          /\ \A i \in DOMAIN joined' : joined'[i].type = "barrier" =>
               SoundCut(job', joined'[i], DOMAIN sink' \cup PairsBefore(joined', i))
      BY <2>1, <2>2, <1>1, <1>2, JoinedShrinks
    <2>4. TypeInv'
      BY <2>1, <2>3, <1>1, <1>2, <1>5 DEF TypeInv
    <2>5. Sound(job, Arrived, op, late, PutOut)'
      BY <2>3, <1>1, <1>3
    <2>6. QED
      BY <2>1, <2>2, <2>3, <2>4, <2>5, <1>3
  <1>8. QED
    BY <1>6, <1>7

LEMMA SinkPairsKeeps ==
  ASSUME RunInv, SinkPairs
  PROVE  RunInv'
  <1>1. /\ SinkInput # <<>> /\ Took /\ UNCHANGED <<job, pos, seen, mux, op, late>>
        /\ saved' = saved /\ Head(SinkInput).type \in {"pairs", "watermark"}
        /\ sink' = IF Head(SinkInput).type = "pairs"
                   THEN sink (+) SetToBag(Head(SinkInput).pairs) ELSE sink
    BY DEF SinkPairs, SinkRuns
  <1>2. TypeInv /\ Placed
    BY DEF RunInv
  <1>3. sink' = SetToBag(DOMAIN sink \cup FirstPairs(SinkInput))
    <2>1. CASE Head(SinkInput).type = "pairs"
      <3>1. FirstPairs(SinkInput) = Head(SinkInput).pairs
        BY <2>1 DEF FirstPairs
      <3>2. FirstPairs(SinkInput) \subseteq PairsIn(inj.buf) \cup PairsIn(joined)
        <4>1. joined \in Seq(OutMessages(job)) /\ inj.buf \in Seq(OutMessages(job))
          BY <1>2 DEF TypeInv
        <4>2. joined # <<>> => FirstPairs(joined) \subseteq PairsIn(joined)
          BY <4>1, PairsTaken
        <4>3. inj.buf # <<>> => FirstPairs(inj.buf) \subseteq PairsIn(inj.buf)
          BY <4>1, PairsTaken
        <4>4. QED
          BY <4>2, <4>3, <1>1 DEF SinkInput
      <3>3. DOMAIN sink \cap FirstPairs(SinkInput) = {} /\ sink = SetToBag(DOMAIN sink)
        BY <3>2, <1>2 DEF Placed
      <3>4. sink' = sink (+) SetToBag(FirstPairs(SinkInput))
        BY <2>1, <3>1, <1>1
      <3>5. QED
        BY <3>3, <3>4, BagGrows
    <2>2. CASE Head(SinkInput).type # "pairs"
      <3>1. FirstPairs(SinkInput) = {} /\ sink' = sink
        BY <2>2, <1>1 DEF FirstPairs
      <3>2. QED
        BY <3>1, <1>2 DEF Placed
    <2>3. QED
      BY <2>1, <2>2
  <1>4. /\ TypeInv' /\ Sound(job, Arrived, op, late, PutOut)' /\ Placed' /\ Queued'
        /\ Arrived' = Arrived
        /\ ~Native =>
              /\ inj'.buf = <<>>
              /\ \A i \in DOMAIN joined' : joined'[i].type = "barrier" =>
                   SoundCut(job', joined'[i], DOMAIN sink' \cup PairsBefore(joined', i))
    BY <1>1, <1>3, SinkTakes
  <1>5. ASSUME ~Native
        PROVE  Cuts'
    <2>1. Cuts
      BY <1>5 DEF RunInv
    <2>2. QED
      BY <2>1, <1>1, <1>4, <1>5 DEF Cuts
  <1>6. QED
    BY <1>1, <1>4, <1>5 DEF RunInv, Native

LEMMA SinkBarrierKeeps ==
  ASSUME RunInv, SinkBarrier
  PROVE  RunInv'
  <1>1. /\ SinkInput # <<>> /\ Took /\ UNCHANGED <<job, pos, seen, mux, op, late>>
        /\ sink' = sink /\ Head(SinkInput).type = "barrier"
        /\ ~Native => saved' = [pos |-> Head(SinkInput).pos, op |-> Head(SinkInput).op,
                                sink |-> sink, late |-> Head(SinkInput).late]
    BY DEF SinkBarrier, SinkRuns
  <1>2. TypeInv /\ Placed
    BY DEF RunInv
  <1>3. sink' = SetToBag(DOMAIN sink \cup FirstPairs(SinkInput))
    <2>1. FirstPairs(SinkInput) = {}
      BY <1>1 DEF FirstPairs
    <2>2. QED
      BY <2>1, <1>1, <1>2 DEF Placed
  <1>4. /\ TypeInv' /\ Sound(job, Arrived, op, late, PutOut)' /\ Placed' /\ Queued'
        /\ Arrived' = Arrived
        /\ ~Native =>
              /\ inj'.buf = <<>>
              /\ \A i \in DOMAIN joined' : joined'[i].type = "barrier" =>
                   SoundCut(job', joined'[i], DOMAIN sink' \cup PairsBefore(joined', i))
    BY <1>1, <1>3, SinkTakes
  <1>5. ASSUME ~Native
        PROVE  Cuts'
    <2> DEFINE h == Head(joined)
    <2>1. Cuts
      BY <1>5 DEF RunInv
    <2>2. joined # <<>> /\ h.type = "barrier" /\ saved' = [pos |-> h.pos, op |-> h.op,
                                                           sink |-> sink, late |-> h.late]
      BY <1>1, <1>5 DEF SinkInput
    <2>3. joined \in Seq(OutMessages(job))
      BY <1>2 DEF TypeInv
    <2>4. 1 \in DOMAIN joined /\ h = joined[1] /\ h \in OutMessages(job)
      BY <2>2, <2>3, Ends
    <2>5. PairsBefore(joined, 1) = {}
      BY <2>2, <2>3, PairsTaken
    <2>6. SoundCut(job, h, DOMAIN sink)
      <3>1. SoundCut(job, joined[1], DOMAIN sink \cup PairsBefore(joined, 1))
        BY <2>1, <2>2, <2>4 DEF Cuts
      <3>2. DOMAIN sink \cup PairsBefore(joined, 1) = DOMAIN sink
        BY <2>5
      <3>3. QED
        BY <3>1, <3>2, <2>4
    <2> HIDE DEF h
    <2>7. SoundCut(job', saved', DOMAIN saved'.sink)
      BY <2>2, <2>6, <1>1 DEF SoundCut
    <2>8. saved'.sink = sink /\ sink = SetToBag(DOMAIN sink) /\ DOMAIN sink \in SUBSET Pairs(job)
      BY <2>2, <1>2 DEF Placed, TypeInv
    <2>9. QED
      BY <2>1, <2>7, <2>8, <1>1, <1>4, <1>5 DEF Cuts
  <1>6. QED
    BY <1>1, <1>4, <1>5 DEF RunInv, Native

LEMMA RestartKeeps ==
  ASSUME RunInv, Restart, ~Native, ~flushed'
  PROVE  RunInv'
  <1>1. TypeInv /\ Cuts
    BY DEF RunInv
  <1>2. /\ job' = job /\ saved' = saved /\ pos' = saved.pos /\ seen' = NothingSeen
        /\ op' = RestoredOp(saved.op) /\ late' = saved.late /\ sink' = saved.sink
        /\ mux' = <<>> /\ joined' = <<>> /\ inj' = [pc |-> "run", buf |-> <<>>]
    BY DEF Restart
  <1>3. /\ job \in Jobs /\ saved.pos \in Positions /\ saved.op \in OpStates(job)
        /\ saved.late \in SUBSET IdsOf(job)
        /\ DOMAIN saved.sink \in SUBSET Pairs(job) /\ saved.sink = SetToBag(DOMAIN saved.sink)
        /\ Sound(job, UpTo(job, saved.pos), saved.op, saved.late, DOMAIN saved.sink)
    BY <1>1 DEF TypeInv, Cuts, SoundCut
  <1>a. LastIsLast(job, UpTo(job, saved.pos), saved.op)
    <2>1. ~FlushedEarly(saved)
      BY DEF Restart
    <2>2. SUFFICES ASSUME MaxTime \in {saved.op.wm["left"], saved.op.wm["right"]}
                   PROVE  UpTo(job, saved.pos) = IdsOf(job)
      BY DEF LastIsLast
    <2>3. \A t \in Sides : saved.pos[t] = Len(job.log[t])
      BY <2>1, <2>2 DEF FlushedEarly, Sides
    <2>4. ASSUME NEW id \in IdsOf(job)
          PROVE  id \in UpTo(job, saved.pos)
      <3>1. PICK t \in Sides : id \in {t} \X (1 .. Len(job.log[t]))
        BY DEF IdsOf
      <3>2. Len(job.log[t]) \in Nat
        BY <1>3, JoinParameters
      <3>3. id[1] = t /\ id[2] <= Len(job.log[t])
        BY <3>1, <3>2
      <3>4. QED
        BY <3>3, <2>3 DEF UpTo
    <2>5. QED
      BY <2>4 DEF UpTo
  <1>4. /\ op' \in OpStates(job)
        /\ Sound(job, UpTo(job, saved.pos), op', saved.late, DOMAIN saved.sink)
    BY <1>2, <1>3, <1>a, StageRestored
  <1>5. seen' \in [Sides -> Int] /\ \A s \in Sides : seen'[s] < MaxTime
    BY <1>2, TimeAxis DEF NothingSeen
  <1>6. inj'.buf = <<>> /\ inj' = [pc |-> inj'.pc, buf |-> inj'.buf]
    BY <1>2
  <1>7. mux' \in Seq(MuxMessages(job)) /\ joined' \in Seq(OutMessages(job))
        /\ inj'.buf \in Seq(OutMessages(job))
    BY <1>2, <1>6
  <1>8. TypeInv'
    BY <1>2, <1>3, <1>4, <1>5, <1>6, <1>7 DEF TypeInv
  <1>9. Arrived' = UpTo(job, saved.pos)
    BY <1>2, ArrivedIsNext DEF RecordsIn
  <1>10. PairsIn(joined') = {} /\ PairsIn(inj'.buf) = {}
    BY <1>2, <1>6 DEF PairsIn
  <1>11. PutOut' = DOMAIN saved.sink
    BY <1>2, <1>10 DEF PutOut
  <1>12. Sound(job, Arrived, op, late, PutOut)'
    BY <1>2, <1>4, <1>9, <1>11
  <1>13. Placed'
    BY <1>2, <1>3, <1>6, <1>10 DEF Placed, Apart
  <1>14. Queued'
    BY <1>2 DEF Queued
  <1>15. Cuts'
    BY <1>1, <1>2 DEF Cuts
  <1>16. QED
    BY <1>6, <1>8, <1>12, <1>13, <1>14, <1>15 DEF RunInv

LEMMA IdleKeeps ==
  ASSUME RunInv,
         UNCHANGED <<job, pos, seen, mux, op, joined, inj, sink, late, saved>>
  PROVE  RunInv'
  <1>1. TypeInv /\ Sound(job, Arrived, op, late, PutOut) /\ Placed /\ Queued
    BY DEF RunInv
  <1>2. Arrived' = Arrived /\ Queued' /\ PutOut' = PutOut /\ Placed'
    BY <1>1, InputFrame, OutputFrame
  <1>3. TypeInv'
    BY <1>1 DEF TypeInv
  <1>4. Cuts => Cuts'
    BY CutsFrame
  <1>5. Sound(job, Arrived, op, late, PutOut)'
    BY <1>1, <1>2
  <1>6. QED
    BY <1>2, <1>3, <1>4, <1>5 DEF RunInv, Native

LEMMA SourceEndsKeeps ==
  ASSUME RunInv, NEW s \in Sides, SourceEnds(s)
  PROVE  RunInv'
  <1> DEFINE m == [type |-> "watermark", sides |-> SidesWith(s), ts |-> MaxTime]
  <1>1. UNCHANGED <<job, pos, seen, op, joined, inj, sink, late, saved>>
    BY DEF SourceEnds
  <1>2. mux' = mux \/ mux' = Append(mux, m)
    BY DEF SourceEnds
  <1>3. m \in MuxMessages(job) /\ m.type = "watermark"
    BY TimeAxis DEF MuxMessages, SidesWith
  <1> HIDE DEF m
  <1>4. CASE mux' = mux
    BY <1>1, <1>4, IdleKeeps
  <1>5. CASE mux' = Append(mux, m)
    BY <1>1, <1>3, <1>5, WatermarkSent
  <1>6. QED
    BY <1>2, <1>4, <1>5

\* The checkpoint of a native join is not part of its guarantee.
LEMMA NativeSaveKeeps ==
  ASSUME RunInv, Native, UNCHANGED <<job, pos, seen, mux, op, joined, inj, sink, late>>
  PROVE  RunInv'
  <1>1. TypeInv /\ Sound(job, Arrived, op, late, PutOut) /\ Placed /\ Queued
    BY DEF RunInv
  <1>2. Arrived' = Arrived /\ Queued' /\ PutOut' = PutOut /\ Placed'
    BY <1>1, InputFrame, OutputFrame
  <1>3. TypeInv'
    BY <1>1 DEF TypeInv
  <1>4. Sound(job, Arrived, op, late, PutOut)'
    BY <1>1, <1>2
  <1>5. QED
    BY <1>2, <1>3, <1>4 DEF RunInv, Native

\* The join's inductive invariant: the job, its checkpoint and every barrier on
\* the way are at sound stages, whatever the interleaving of reads, watermarks,
\* barriers, cancellation and restarts, until the native join is restarted or
\* the other resumes from behind the last watermark of a source that was
\* cancelled (IntervalJoinOperator, executeNativeJoin, WatermarkSource.Run).
THEOREM JoinInvHolds == Spec => []JoinInv
  <1>1. Init => JoinInv
    <2> SUFFICES ASSUME Init PROVE JoinInv
      OBVIOUS
    <2>1. starts = 1
      BY DEF Init
    <2>2. QED
      BY <2>1, RunInvHolds DEF JoinInv
  <1>2. JoinInv /\ [Next]_vars => JoinInv'
    <2> SUFFICES ASSUME JoinInv, [Next]_vars PROVE JoinInv'
      OBVIOUS
    <2>1. starts \in Nat \ {0}
      BY DEF JoinInv
    <2>2. CASE Restart
      <3>1. starts' = starts + 1 /\ job' = job /\ (flushed => flushed')
        BY <2>2 DEF Restart
      <3>2. starts' \in Nat \ {0} /\ starts' # 1
        BY <2>1, <3>1
      <3>3. ~Native /\ ~flushed' => RunInv'
        BY <2>2, <3>1, RestartKeeps DEF JoinInv
      <3>4. QED
        BY <3>1, <3>2, <3>3 DEF JoinInv, Native
    <2>3. CASE ~Restart
      <3>1. starts' = starts /\ job' = job /\ flushed' = flushed
        BY <2>3 DEF Next, vars, Read, SendWatermark, SourceEnds, OpRecord, OpWatermark,
                   OpReceives, TickBefore, ShutdownBefore, FinalBefore, BarrierBefore,
                   OpBarrier, InjForward, InjBarrier, SinkPairs, SinkBarrier,
                   ReadLeftOffset, ReadRightOffset, Cancel, Return
      <3>2. ASSUME RunInv PROVE RunInv'
        <4>1. ASSUME NEW s \in Sides, Read(s) \/ SendWatermark(s) \/ SourceEnds(s)
              PROVE  RunInv'
          BY <4>1, <3>2, ReadKeeps, SendWatermarkKeeps, SourceEndsKeeps
        <4>2. CASE OpRecord
          BY <4>2, <3>2, OpRecordKeeps
        <4>3. CASE OpWatermark
          BY <4>3, <3>2, OpWatermarkKeeps
        <4>4. CASE TickBefore \/ ShutdownBefore \/ FinalBefore
          BY <4>4, <3>2, BarrierBeforeKeeps DEF TickBefore, ShutdownBefore, FinalBefore
        <4>5. CASE OpBarrier
          BY <4>5, <3>2, OpBarrierKeeps
        <4>6. CASE InjForward
          BY <4>6, <3>2, InjForwardKeeps
        <4>7. CASE InjBarrier
          BY <4>7, <3>2, InjBarrierKeeps
        <4>8. CASE SinkPairs
          BY <4>8, <3>2, SinkPairsKeeps
        <4>9. CASE SinkBarrier
          BY <4>9, <3>2, SinkBarrierKeeps
        <4>a. CASE ReadLeftOffset
          BY <4>a, <3>2, IdleKeeps DEF ReadLeftOffset
        <4>b. CASE ReadRightOffset
          BY <4>b, <3>2, NativeSaveKeeps DEF ReadRightOffset
        <4>10. CASE Cancel
          BY <4>10, <3>2, IdleKeeps DEF Cancel
        <4>11. CASE Return
          BY <4>11, <3>2, IdleKeeps DEF Return
        <4>12. CASE UNCHANGED vars
          BY <4>12, <3>2, IdleKeeps DEF vars
        <4>13. QED
          BY <4>1, <4>2, <4>3, <4>4, <4>5, <4>6, <4>7, <4>8, <4>9, <4>a, <4>b, <4>10,
             <4>11, <4>12, <2>3 DEF Next
      <3>3. QED
        BY <2>1, <3>1, <3>2 DEF JoinInv, Native
    <2>4. QED
      BY <2>2, <2>3
  <1>3. QED
    BY <1>1, <1>2, PTL DEF Spec

-----------------------------------------------------------------------------
(* What the invariant says.                                                *)

\* A pair that is out is in one message, and in none otherwise.
LEMMA CarryingOnce ==
  ASSUME NEW q, Apart(q), NEW p
  PROVE  Cardinality(Carrying(q, p)) = IF p \in PairsIn(q) THEN 1 ELSE 0
  <1>1. CASE p \notin PairsIn(q)
    <2>1. Carrying(q, p) = {}
      BY <1>1 DEF Carrying, PairsIn
    <2>2. QED
      BY <2>1, <1>1, FS_EmptySet
  <1>2. CASE p \in PairsIn(q)
    <2>1. PICK i \in DOMAIN q : q[i].type = "pairs" /\ p \in q[i].pairs
      BY <1>2 DEF PairsIn
    <2>2. Carrying(q, p) = {i}
      BY <2>1 DEF Carrying, Apart
    <2>3. QED
      BY <2>2, <1>2, FS_Singleton
  <1>3. QED
    BY <1>1, <1>2

LEMMA PutOutOnce ==
  ASSUME RunInv, NEW p
  PROVE  Times(p) = IF p \in PutOut THEN 1 ELSE 0
  <1>1. Placed
    BY DEF RunInv
  <1>2. /\ Cardinality(Carrying(inj.buf, p)) = IF p \in PairsIn(inj.buf) THEN 1 ELSE 0
        /\ Cardinality(Carrying(joined, p)) = IF p \in PairsIn(joined) THEN 1 ELSE 0
    BY <1>1, CarryingOnce DEF Placed
  <1>3. BagIn(p, sink) <=> p \in DOMAIN sink
    BY DEF BagIn, BagToSet
  <1>4. p \in DOMAIN sink => sink[p] = 1
    <2>1. sink = [e \in DOMAIN sink |-> 1]
      BY <1>1 DEF Placed, SetToBag
    <2>2. QED
      BY <2>1
  <1>5. /\ ~(p \in PairsIn(inj.buf) /\ p \in PairsIn(joined))
        /\ ~(p \in DOMAIN sink /\ p \in PairsIn(inj.buf))
        /\ ~(p \in DOMAIN sink /\ p \in PairsIn(joined))
    BY <1>1 DEF Placed
  <1>6. p \in PutOut <=> (p \in DOMAIN sink \/ p \in PairsIn(inj.buf) \/ p \in PairsIn(joined))
    BY DEF PutOut
  <1>7. QED
    BY <1>2, <1>3, <1>4, <1>5, <1>6 DEF Times

LEMMA MatchingIs == \A l, r : Matching(l, r) <=> MatchIn(job, l, r)
  BY DEF Matching, MatchIn, TsOf, Rec

\* Matching records that were in time are joined exactly once, across restarts
\* when barriers pass the operator, and up to a resume from behind the last
\* watermark of a cancelled source (emitMatches, evict, Snapshot, Restore).
THEOREM JoinedOnceHolds == Spec => []JoinedOnce
  <1>1. JoinInv => JoinedOnce
    <2> SUFFICES ASSUME JoinInv, IF Native THEN starts = 1 ELSE ~flushed,
                        NEW l \in Lefts(Arrived), NEW r \in Rights(Arrived)
                 PROVE  /\ {l, r} \cap late = {} =>
                             Times(<<l, r>>) = IF Matching(l, r) THEN 1 ELSE 0
                        /\ Times(<<l, r>>) <= 1
      BY DEF JoinedOnce, EveryPairOnce
    <2>1. RunInv
      BY DEF JoinInv
    <2>2. Times(<<l, r>>) = IF <<l, r>> \in PutOut THEN 1 ELSE 0
      BY <2>1, PutOutOnce
    <2>3. OnlyMatches(job, Arrived, PutOut) /\ AllMatches(job, Arrived, late, PutOut)
      BY <2>1 DEF RunInv, Sound
    <2>4. l \in Arrived /\ l[1] = "left" /\ r \in Arrived /\ r[1] = "right"
      BY DEF Lefts, Rights
    <2>5. <<l, r>> \in PutOut => MatchIn(job, l, r)
      BY <2>3 DEF OnlyMatches
    <2>6. {l, r} \cap late = {} /\ MatchIn(job, l, r) => <<l, r>> \in PutOut
      BY <2>3, <2>4 DEF AllMatches
    <2>7. QED
      BY <2>2, <2>5, <2>6, MatchingIs
  <1>2. QED
    BY <1>1, JoinInvHolds, PTL

\* Nothing that a record at or above the aligned watermark can still match was
\* evicted, or lost in a checkpoint, with the same exception (evict, Snapshot,
\* Restore).
THEOREM StateSufficesHolds == Spec => []StateSuffices
  <1>1. JoinInv => StateSuffices
    <2> SUFFICES ASSUME JoinInv, ~Native, ~flushed,
                        NEW id \in Arrived, NEW x \in Ids \ Arrived,
                        id[1] # x[1], Rec(x).ts >= op.sent,
                        LET p == PairOf(id, x) IN Matching(p[1], p[2])
                 PROVE  id \in op.held[id[1]]
      BY DEF StateSuffices
    <2>1. Suffices(job, Arrived, op)
      BY DEF JoinInv, RunInv, Sound
    <2>2. x \in IdsOf(job) \ Arrived /\ Rec(x).ts = TsOf(job, x)
      BY DEF Ids, IdsOf, Rec, TsOf
    <2>3. LET p == PairOf(id, x) IN MatchIn(job, p[1], p[2])
      BY MatchingIs
    <2>4. QED
      BY <2>1, <2>2, <2>3 DEF Suffices
  <1>2. QED
    BY <1>1, JoinInvHolds, PTL

=============================================================================
