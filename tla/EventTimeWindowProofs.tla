------------------------ MODULE EventTimeWindowProofs ------------------------
(***************************************************************************)
(* Proofs about EventTimeWindow, for every set of jobs and partitions,     *)
(* window size, slide, offset, lateness, capacity and number of restarts.  *)
(*                                                                         *)
(* Three arguments.  The cut: what the operator has taken, what is queued  *)
(* and what a barrier covers are adjoining runs of each partition's log.   *)
(* The watermarks: each one on its way, and each one that was applied or   *)
(* saved, has in front of it the record of every counting partition that   *)
(* justifies it.  The windows: open and fired windows share the accepted   *)
(* records out among them, and what has fired lies behind the watermark.   *)
(***************************************************************************)
EXTENDS EventTimeWindow, WellFoundedInduction, FiniteSetTheorems, TLAPS

-----------------------------------------------------------------------------
(* Least and greatest elements.                                            *)

LEMMA LeastNatural ==
  ASSUME NEW S \in SUBSET Nat, S # {}
  PROVE  \E x \in S : \A y \in S : x <= y
  <1> DEFINE R == OpToRel(<, Nat)
  <1>1. IsWellFoundedOn(R, Nat)
    BY NatLessThanWellFounded, Zenon
  <1>2. \A x \in Nat : \A y \in Nat : <<x, y>> \in R <=> x < y
    BY DEF OpToRel
  <1> HIDE DEF R
  <1>3. PICK x \in S : \A y \in S : ~(<<y, x>> \in R)
    BY <1>1, WFMin
  <1>4. \A y \in S : x <= y
    <2> TAKE y \in S
    <2>1. x \in Nat /\ y \in Nat
      OBVIOUS
    <2>2. ~(y < x)
      BY <1>2, <1>3, <2>1
    <2>3. QED
      BY <2>1, <2>2
  <1>5. QED
    BY <1>4

\* LowOf is the least element of a nonempty set of integers with a lower bound.
LEMMA LowOfIs ==
  ASSUME NEW S \in SUBSET Int, S # {}, NEW b \in Int, \A x \in S : b <= x
  PROVE  LowOf(S) \in S /\ \A y \in S : LowOf(S) <= y
  <1> DEFINE T == {x - b : x \in S}
  <1>1. T \in SUBSET Nat
    OBVIOUS
  <1>2. T # {}
    OBVIOUS
  <1>3. \A y \in S : y - b \in T
    OBVIOUS
  <1>4. \A t \in T : \E x \in S : t = x - b
    OBVIOUS
  <1> HIDE DEF T
  <1>5. PICK t \in T : \A u \in T : t <= u
    BY <1>1, <1>2, LeastNatural
  <1>6. PICK x \in S : t = x - b
    BY <1>4
  <1>7. \A y \in S : x - b <= y - b
    BY <1>3, <1>5, <1>6
  <1>8. \A y \in S : x <= y
    BY <1>7
  <1>9. QED
    BY <1>8 DEF LowOf

\* HighOf is the greatest element of a nonempty set of integers with an upper
\* bound.
LEMMA HighOfIs ==
  ASSUME NEW S \in SUBSET Int, S # {}, NEW b \in Int, \A x \in S : x <= b
  PROVE  HighOf(S) \in S /\ \A y \in S : y <= HighOf(S)
  <1> DEFINE T == {b - x : x \in S}
  <1>1. T \in SUBSET Nat
    OBVIOUS
  <1>2. T # {}
    OBVIOUS
  <1>3. \A y \in S : b - y \in T
    OBVIOUS
  <1>4. \A t \in T : \E x \in S : t = b - x
    OBVIOUS
  <1> HIDE DEF T
  <1>5. PICK t \in T : \A u \in T : t <= u
    BY <1>1, <1>2, LeastNatural
  <1>6. PICK x \in S : t = b - x
    BY <1>4
  <1>7. \A y \in S : b - x <= b - y
    BY <1>3, <1>5, <1>6
  <1>8. \A y \in S : y <= x
    BY <1>7
  <1>9. QED
    BY <1>8 DEF HighOf

-----------------------------------------------------------------------------
(* The invariant, with the job and the parts of the state as parameters.   *)

IdsIn(j) == UNION {{p} \X (1 .. Len(j.log[p])) : p \in Partitions}

At(j, id) == j.log[id[1]][id[2]].ts

Offsets(j) == {f \in [Partitions -> Nat] : \A p \in Partitions : f[p] <= Len(j.log[p])}

Messages(j) ==
  [type : {"record"}, id : IdsIn(j)]
    \cup [type : {"watermark"}, ts : ZeroTime + 1 .. MaxTime]
    \cup [type : {"barrier"}, offsets : Offsets(j), named : SUBSET Partitions]

SourceTypes(j) ==
  [pc : {"run", "done"}, pos : Offsets(j), max : [Partitions -> ZeroTime .. MaxTime - 1],
   idle : SUBSET Partitions, last : ZeroTime .. MaxTime - 1]

HistTypes(j, h) ==
  /\ h \in [accepted : SUBSET IdsIn(j), late : SUBSET IdsIn(j), emitted : {h.emitted},
            maxed : {h.maxed}, waived : SUBSET Partitions]
  /\ h.maxed \in BOOLEAN

Injectors == [pc : {"run", "drain", "done"}, ticks : Nat, named : SUBSET Partitions]

\* Every variable has its type; what windows hold is said below.
Types ==
  /\ job \in Jobs /\ src \in SourceTypes(job) /\ ch \in Seq(Messages(job))
  /\ op \in [pc : {"run", "done", "idle"}, wm : ZeroTime .. MaxTime, wins : {op.wins}]
  /\ HistTypes(job, hist)
  /\ saved \in [offsets : Offsets(job), named : SUBSET Partitions, wm : ZeroTime .. MaxTime,
                wins : {saved.wins}, hist : {saved.hist}]
  /\ HistTypes(job, saved.hist) /\ inj \in Injectors

\* The records the operator has taken.
Taken(h) == h.accepted \cup h.late

\* What was taken, and behind it what is queued, is the partition's log up to the
\* source's position.
CutInv(S, pos, q) ==
  /\ \A id \in S : id[2] <= pos[id[1]]
  /\ \A i \in DOMAIN q : q[i].type = "record" =>
       /\ q[i].id[2] <= pos[q[i].id[1]]
       /\ \A id \in S : id[1] = q[i].id[1] => id[2] < q[i].id[2]
       /\ \A k \in DOMAIN q :
            i < k /\ q[k].type = "record" /\ q[k].id[1] = q[i].id[1]
            => q[i].id[2] < q[k].id[2]
  /\ \A p \in Partitions : \A k \in 1 .. pos[p] :
       \/ <<p, k>> \in S
       \/ \E i \in DOMAIN q : q[i].type = "record" /\ q[i].id = <<p, k>>

\* A barrier covers what was taken and the records queued in front of it.
Covers(S, q) ==
  \A i \in DOMAIN q : q[i].type = "barrier" =>
    /\ \A id \in S : id[2] <= q[i].offsets[id[1]]
    /\ \A k \in DOMAIN q : q[k].type = "record" =>
         /\ k < i => q[k].id[2] <= q[i].offsets[q[k].id[1]]
         /\ i < k => q[i].offsets[q[k].id[1]] < q[k].id[2]

\* The barrier's offsets do not pass the source.
BarriersBehind(pos, q) ==
  \A i \in DOMAIN q : q[i].type = "barrier" =>
    \A p \in Partitions : q[i].offsets[p] <= pos[p]

\* Record k of p is one watermark wm rests on.
Supports(j, p, k, wm) == At(j, <<p, k>>) - OutOfOrderness >= wm

\* The generators and the last emitted watermark rest on records that were read;
\* W are the partitions that were passed over.
SourceInv(j, W, s) ==
  /\ \A p \in Partitions : s.max[p] # ZeroTime =>
       \E k \in 1 .. s.pos[p] : At(j, <<p, k>>) = s.max[p]
  /\ s.last # ZeroTime =>
       \A p \in Partitions \ W : \E k \in 1 .. s.pos[p] : Supports(j, p, k, s.last)

\* A queued watermark rests on records in front of it; the last one has no
\* record behind it.
MarksInv(j, W, s, q) ==
  \A i \in DOMAIN q : q[i].type = "watermark" =>
    IF q[i].ts = MaxTime
    THEN s.pc = "done" /\ \A k \in DOMAIN q : i < k => q[k].type # "record"
    ELSE \A p \in Partitions \ W : \E k \in 1 .. s.pos[p] :
           /\ Supports(j, p, k, q[i].ts)
           /\ \A l \in DOMAIN q : i < l /\ q[l].type = "record" /\ q[l].id[1] = p
                                  => k < q[l].id[2]

\* The operator's watermark rests on records it has taken.
AppliedInv(j, W, S, wm) ==
  \/ wm \in {ZeroTime, Ancient, MaxTime}
  \/ \A p \in Partitions \ W : \E k \in 1 .. Len(j.log[p]) :
       <<p, k>> \in S /\ Supports(j, p, k, wm)

LastMarkInv(s, q, wm) ==
  wm = MaxTime => s.pc = "done" /\ \A i \in DOMAIN q : q[i].type # "record"

LateInv(j, W, lt) ==
  \A id \in lt :
    \/ id[1] \in W
    \/ \E k \in 1 .. id[2] - 1 :
         At(j, <<id[1], k>>) - OutOfOrderness - AllowedLateness > At(j, id)

\* The checkpoint's history is the log up to its offsets.
UpTo(j, offs) == {id \in IdsIn(j) : id[2] <= offs[id[1]]}

StreamInv ==
  /\ CutInv(Taken(hist), src.pos, ch) /\ Covers(Taken(hist), ch)
  /\ BarriersBehind(src.pos, ch)
  /\ SourceInv(job, hist.waived, src) /\ MarksInv(job, hist.waived, src, ch)
  /\ AppliedInv(job, hist.waived, Taken(hist), op.wm) /\ LastMarkInv(src, ch, op.wm)
  /\ LateInv(job, hist.waived, hist.late)
  /\ Taken(saved.hist) = UpTo(job, saved.offsets)
  /\ AppliedInv(job, hist.waived, Taken(saved.hist), saved.wm)
  /\ LateInv(job, hist.waived, saved.hist.late)

LEMMA TimesAre ==
  /\ ZeroTime \in Int /\ Ancient \in Int /\ MaxTime \in Int
  /\ ZeroTime < Ancient /\ Ancient + 1 < MaxTime - 1
  BY TimeAxis

-----------------------------------------------------------------------------
(* The channel.                                                            *)

LEMMA AppendIs ==
  ASSUME NEW T, NEW q \in Seq(T), NEW m \in T
  PROVE  /\ Append(q, m) \in Seq(T) /\ Len(q) \in Nat /\ DOMAIN q = 1 .. Len(q)
         /\ DOMAIN Append(q, m) = 1 .. Len(q) + 1
         /\ \A i \in 1 .. Len(q) : Append(q, m)[i] = q[i] /\ q[i] \in T
         /\ Append(q, m)[Len(q) + 1] = m
  OBVIOUS

LEMMA TailIs ==
  ASSUME NEW T, NEW q \in Seq(T), q # <<>>
  PROVE  /\ Tail(q) \in Seq(T) /\ Len(q) \in Nat \ {0} /\ DOMAIN q = 1 .. Len(q)
         /\ DOMAIN Tail(q) = 1 .. Len(q) - 1
         /\ \A i \in 1 .. Len(q) - 1 : Tail(q)[i] = q[i + 1]
         /\ Head(q) = q[1] /\ 1 \in DOMAIN q
         /\ \A i \in 1 .. Len(q) : q[i] \in T
  OBVIOUS

LEMMA IdsAre ==
  ASSUME NEW j \in Jobs
  PROVE  /\ \A id \in IdsIn(j) :
              /\ id[1] \in Partitions /\ id[2] \in Nat \ {0} /\ id = <<id[1], id[2]>>
              /\ id[2] <= Len(j.log[id[1]]) /\ At(j, id) \in Ancient + 1 .. MaxTime - 1
         /\ \A p \in Partitions : \A k \in Nat \ {0} :
              k <= Len(j.log[p]) => <<p, k>> \in IdsIn(j)
         /\ \A p \in Partitions : Len(j.log[p]) \in Nat
  <1>1. \A p \in Partitions : Len(j.log[p]) \in Nat
    BY JobParameters
  <1>2. \A id \in IdsIn(j) : \E p \in Partitions : id \in {p} \X (1 .. Len(j.log[p]))
    BY DEF IdsIn
  <1>3. ASSUME NEW id \in IdsIn(j)
        PROVE  /\ id[1] \in Partitions /\ id[2] \in Nat \ {0} /\ id = <<id[1], id[2]>>
               /\ id[2] <= Len(j.log[id[1]]) /\ At(j, id) \in Ancient + 1 .. MaxTime - 1
    <2>1. PICK p \in Partitions : id \in {p} \X (1 .. Len(j.log[p]))
      BY <1>2
    <2>2. id[1] = p /\ id[2] \in 1 .. Len(j.log[p]) /\ id = <<id[1], id[2]>>
      BY <2>1
    <2>3. At(j, id) \in Ancient + 1 .. MaxTime - 1
      BY <2>2, JobParameters DEF At
    <2>4. QED
      BY <1>1, <2>2, <2>3
  <1>4. ASSUME NEW p \in Partitions, NEW k \in Nat \ {0}, k <= Len(j.log[p])
        PROVE  <<p, k>> \in IdsIn(j)
    <2>1. <<p, k>> \in {p} \X (1 .. Len(j.log[p]))
      BY <1>1, <1>4
    <2>2. QED
      BY <2>1 DEF IdsIn
  <1>5. QED
    BY <1>1, <1>3, <1>4

LEMMA MessagesAre ==
  ASSUME NEW j, NEW m \in Messages(j)
  PROVE  /\ m.type \in {"record", "watermark", "barrier"}
         /\ m.type = "record" => m.id \in IdsIn(j)
         /\ m.type = "watermark" => m.ts \in ZeroTime + 1 .. MaxTime
         /\ m.type = "barrier" => m.offsets \in Offsets(j) /\ m.named \in SUBSET Partitions
  BY DEF Messages

LEMMA MessagesMade ==
  ASSUME NEW j
  PROVE  /\ \A id \in IdsIn(j) : [type |-> "record", id |-> id] \in Messages(j)
         /\ \A t \in ZeroTime + 1 .. MaxTime : [type |-> "watermark", ts |-> t] \in Messages(j)
         /\ \A o \in Offsets(j) : \A n \in SUBSET Partitions :
              [type |-> "barrier", offsets |-> o, named |-> n] \in Messages(j)
  BY DEF Messages

LEMMA OffsetsAre ==
  ASSUME NEW j \in Jobs, NEW f \in Offsets(j)
  PROVE  f \in [Partitions -> Nat] /\ \A p \in Partitions : f[p] <= Len(j.log[p])
  BY DEF Offsets

-----------------------------------------------------------------------------
(* Reading and taking records keeps the cut.                               *)

LEMMA CutReads ==
  ASSUME NEW j \in Jobs, NEW q \in Seq(Messages(j)), NEW S \in SUBSET IdsIn(j),
         NEW pos \in Offsets(j), NEW p \in Partitions, NEW m \in Messages(j),
         m.type = "record", m.id = <<p, pos[p] + 1>>, CutInv(S, pos, q)
  PROVE  CutInv(S, [pos EXCEPT ![p] = @ + 1], Append(q, m))
  <1> DEFINE P == [pos EXCEPT ![p] = @ + 1]
             Q == Append(q, m)
             n == Len(q)
  <1>1. n \in Nat /\ DOMAIN q = 1 .. n /\ DOMAIN Q = 1 .. n + 1
        /\ (\A i \in 1 .. n : Q[i] = q[i] /\ q[i] \in Messages(j)) /\ Q[n + 1] = m
    BY AppendIs
  <1>2. pos \in [Partitions -> Nat]
    BY OffsetsAre
  <1>3. P \in [Partitions -> Nat] /\ P[p] = pos[p] + 1
        /\ \A x \in Partitions : x # p => P[x] = pos[x]
    BY <1>2
  <1>4. \A x \in Partitions : pos[x] <= P[x]
    BY <1>2, <1>3
  <1>5. \A id \in IdsIn(j) : id[1] \in Partitions /\ id[2] \in Nat
    BY IdsAre
  <1>6. \A i \in 1 .. n : q[i].type = "record" => q[i].id \in IdsIn(j)
    BY <1>1, MessagesAre
  <1>7. m.id[1] = p /\ m.id[2] = pos[p] + 1
    OBVIOUS
  <1> HIDE DEF P, Q, n
  <1>8. \A id \in S : id[2] <= P[id[1]]
    BY <1>2, <1>3, <1>4, <1>5 DEF CutInv
  <1>9. ASSUME NEW i \in DOMAIN Q, Q[i].type = "record"
        PROVE  /\ Q[i].id[2] <= P[Q[i].id[1]]
               /\ \A id \in S : id[1] = Q[i].id[1] => id[2] < Q[i].id[2]
               /\ \A k \in DOMAIN Q :
                    i < k /\ Q[k].type = "record" /\ Q[k].id[1] = Q[i].id[1]
                    => Q[i].id[2] < Q[k].id[2]
    <2>1. CASE i = n + 1
      <3>1. Q[i] = m
        BY <1>1, <2>1
      <3>2. \A id \in S : id[1] = p => id[2] < pos[p] + 1
        BY <1>2, <1>5 DEF CutInv
      <3>3. \A k \in DOMAIN Q : ~(i < k)
        BY <1>1, <2>1
      <3>4. QED
        BY <1>3, <1>7, <3>1, <3>2, <3>3
    <2>2. CASE i \in 1 .. n
      <3>1. Q[i] = q[i] /\ q[i].type = "record" /\ q[i].id \in IdsIn(j) /\ i \in DOMAIN q
        BY <1>1, <1>6, <1>9, <2>2
      <3>2. /\ q[i].id[2] <= pos[q[i].id[1]]
            /\ \A id \in S : id[1] = q[i].id[1] => id[2] < q[i].id[2]
            /\ \A k \in DOMAIN q :
                 i < k /\ q[k].type = "record" /\ q[k].id[1] = q[i].id[1]
                 => q[i].id[2] < q[k].id[2]
        BY <3>1 DEF CutInv
      <3>3. q[i].id[2] <= P[q[i].id[1]]
        BY <1>2, <1>3, <1>4, <1>5, <3>1, <3>2
      <3>4. ASSUME NEW k \in DOMAIN Q, i < k, Q[k].type = "record", Q[k].id[1] = q[i].id[1]
            PROVE  q[i].id[2] < Q[k].id[2]
        <4>1. CASE k = n + 1
          BY <1>1, <1>2, <1>5, <1>7, <3>1, <3>2, <3>4, <4>1
        <4>2. CASE k \in 1 .. n
          BY <1>1, <3>2, <3>4, <4>2
        <4>3. QED
          BY <1>1, <4>1, <4>2
      <3>5. QED
        BY <3>1, <3>2, <3>3, <3>4
    <2>3. QED
      BY <1>1, <2>1, <2>2
  <1>10. ASSUME NEW x \in Partitions, NEW k \in 1 .. P[x]
         PROVE  \/ <<x, k>> \in S
                \/ \E i \in DOMAIN Q : Q[i].type = "record" /\ Q[i].id = <<x, k>>
    <2>1. CASE x = p /\ k = pos[p] + 1
      BY <1>1, <2>1
    <2>2. CASE k \in 1 .. pos[x]
      <3>1. \/ <<x, k>> \in S
            \/ \E i \in DOMAIN q : q[i].type = "record" /\ q[i].id = <<x, k>>
        BY <2>2 DEF CutInv
      <3>2. \A i \in DOMAIN q : i \in DOMAIN Q /\ Q[i] = q[i]
        BY <1>1
      <3>3. QED
        BY <3>1, <3>2
    <2>3. QED
      BY <1>2, <1>3, <2>1, <2>2
  <1>11. QED
    BY <1>8, <1>9, <1>10 DEF CutInv, P, Q

\* A watermark or a barrier leaves the cut alone.
LEMMA CutSends ==
  ASSUME NEW j \in Jobs, NEW q \in Seq(Messages(j)), NEW S, NEW pos,
         NEW m \in Messages(j), m.type # "record", CutInv(S, pos, q)
  PROVE  CutInv(S, pos, Append(q, m))
  <1> DEFINE Q == Append(q, m)
             n == Len(q)
  <1>1. n \in Nat /\ DOMAIN q = 1 .. n /\ DOMAIN Q = 1 .. n + 1
        /\ (\A i \in 1 .. n : Q[i] = q[i] /\ q[i] \in Messages(j)) /\ Q[n + 1] = m
    BY AppendIs
  <1> HIDE DEF Q, n
  <1>2. \A i \in DOMAIN Q : Q[i].type = "record" => i \in DOMAIN q /\ Q[i] = q[i]
    BY <1>1
  <1>3. \A i \in DOMAIN q : i \in DOMAIN Q /\ Q[i] = q[i]
    BY <1>1
  <1>4. QED
    BY <1>2, <1>3 DEF CutInv, Q

\* The operator takes the first record.
LEMMA CutTakes ==
  ASSUME NEW j \in Jobs, NEW q \in Seq(Messages(j)), NEW S \in SUBSET IdsIn(j),
         NEW pos \in Offsets(j), q # <<>>, Head(q).type = "record", CutInv(S, pos, q)
  PROVE  CutInv(S \cup {Head(q).id}, pos, Tail(q))
  <1> DEFINE Q == Tail(q)
             n == Len(q)
             r == q[1].id
  <1>1. n \in Nat \ {0} /\ DOMAIN q = 1 .. n /\ DOMAIN Q = 1 .. n - 1 /\ Head(q) = q[1]
        /\ (\A i \in 1 .. n - 1 : Q[i] = q[i + 1]) /\ 1 \in DOMAIN q
    BY TailIs
  <1>2. q[1].type = "record" /\ Head(q).id = r
    BY <1>1
  <1>3. /\ r[2] <= pos[r[1]]
        /\ \A k \in DOMAIN q : 1 < k /\ q[k].type = "record" /\ q[k].id[1] = r[1]
                               => r[2] < q[k].id[2]
    BY <1>1, <1>2 DEF CutInv
  <1> HIDE DEF Q, n, r
  <1>4. \A i \in DOMAIN Q : i + 1 \in DOMAIN q /\ Q[i] = q[i + 1] /\ 1 < i + 1 /\ i \in Nat
    BY <1>1
  <1>5. \A id \in S \cup {r} : id[2] <= pos[id[1]]
    BY <1>3 DEF CutInv
  <1>6. ASSUME NEW i \in DOMAIN Q, Q[i].type = "record"
        PROVE  /\ Q[i].id[2] <= pos[Q[i].id[1]]
               /\ \A id \in S \cup {r} : id[1] = Q[i].id[1] => id[2] < Q[i].id[2]
               /\ \A k \in DOMAIN Q :
                    i < k /\ Q[k].type = "record" /\ Q[k].id[1] = Q[i].id[1]
                    => Q[i].id[2] < Q[k].id[2]
    <2>1. i + 1 \in DOMAIN q /\ Q[i] = q[i + 1] /\ 1 < i + 1 /\ i \in Nat
      BY <1>4
    <2>2. /\ q[i + 1].id[2] <= pos[q[i + 1].id[1]]
          /\ \A id \in S : id[1] = q[i + 1].id[1] => id[2] < q[i + 1].id[2]
          /\ \A k \in DOMAIN q :
               i + 1 < k /\ q[k].type = "record" /\ q[k].id[1] = q[i + 1].id[1]
               => q[i + 1].id[2] < q[k].id[2]
      BY <1>6, <2>1 DEF CutInv
    <2>3. r[1] = Q[i].id[1] => r[2] < Q[i].id[2]
      BY <1>3, <1>6, <2>1
    <2>4. ASSUME NEW k \in DOMAIN Q, i < k, Q[k].type = "record", Q[k].id[1] = Q[i].id[1]
          PROVE  Q[i].id[2] < Q[k].id[2]
      <3>1. k + 1 \in DOMAIN q /\ Q[k] = q[k + 1] /\ k \in Nat
        BY <1>4
      <3>2. i + 1 < k + 1
        BY <2>1, <2>4, <3>1
      <3>3. QED
        BY <2>1, <2>2, <2>4, <3>1, <3>2
    <2>5. QED
      BY <2>1, <2>2, <2>3, <2>4
  <1>7. ASSUME NEW x \in Partitions, NEW k \in 1 .. pos[x]
        PROVE  \/ <<x, k>> \in S \cup {r}
               \/ \E i \in DOMAIN Q : Q[i].type = "record" /\ Q[i].id = <<x, k>>
    <2>1. CASE <<x, k>> \in S
      BY <2>1
    <2>2. CASE \E i \in DOMAIN q : q[i].type = "record" /\ q[i].id = <<x, k>>
      <3>1. PICK i \in DOMAIN q : q[i].type = "record" /\ q[i].id = <<x, k>>
        BY <2>2
      <3>2. CASE i = 1
        BY <3>1, <3>2 DEF r
      <3>3. CASE i # 1
        <4>1. i - 1 \in DOMAIN Q /\ Q[i - 1] = q[i]
          BY <1>1, <3>3
        <4>2. QED
          BY <3>1, <4>1
      <3>4. QED
        BY <3>2, <3>3
    <2>3. QED
      BY <2>1, <2>2 DEF CutInv
  <1>8. QED
    BY <1>2, <1>5, <1>6, <1>7 DEF CutInv, Q

\* The operator takes a watermark or a barrier.
LEMMA CutPasses ==
  ASSUME NEW j \in Jobs, NEW q \in Seq(Messages(j)), NEW S, NEW pos,
         q # <<>>, Head(q).type # "record", CutInv(S, pos, q)
  PROVE  CutInv(S, pos, Tail(q))
  <1> DEFINE Q == Tail(q)
             n == Len(q)
  <1>1. n \in Nat \ {0} /\ DOMAIN q = 1 .. n /\ DOMAIN Q = 1 .. n - 1 /\ Head(q) = q[1]
        /\ (\A i \in 1 .. n - 1 : Q[i] = q[i + 1]) /\ 1 \in DOMAIN q
    BY TailIs
  <1> HIDE DEF Q, n
  <1>2. \A i \in DOMAIN Q : i + 1 \in DOMAIN q /\ Q[i] = q[i + 1] /\ i \in Nat
    BY <1>1
  <1>3. \A i \in DOMAIN q : q[i].type = "record" => i - 1 \in DOMAIN Q /\ Q[i - 1] = q[i]
    BY <1>1
  <1>4. \A i, k \in DOMAIN Q : i < k => i + 1 < k + 1
    BY <1>2
  <1>5. ASSUME NEW i \in DOMAIN Q, Q[i].type = "record"
        PROVE  /\ Q[i].id[2] <= pos[Q[i].id[1]]
               /\ \A id \in S : id[1] = Q[i].id[1] => id[2] < Q[i].id[2]
               /\ \A k \in DOMAIN Q :
                    i < k /\ Q[k].type = "record" /\ Q[k].id[1] = Q[i].id[1]
                    => Q[i].id[2] < Q[k].id[2]
    <2>1. i + 1 \in DOMAIN q /\ Q[i] = q[i + 1] /\ q[i + 1].type = "record"
      BY <1>2, <1>5
    <2>2. /\ q[i + 1].id[2] <= pos[q[i + 1].id[1]]
          /\ \A id \in S : id[1] = q[i + 1].id[1] => id[2] < q[i + 1].id[2]
          /\ \A k \in DOMAIN q :
               i + 1 < k /\ q[k].type = "record" /\ q[k].id[1] = q[i + 1].id[1]
               => q[i + 1].id[2] < q[k].id[2]
      BY <2>1 DEF CutInv
    <2>3. ASSUME NEW k \in DOMAIN Q, i < k, Q[k].type = "record", Q[k].id[1] = Q[i].id[1]
          PROVE  Q[i].id[2] < Q[k].id[2]
      <3>1. k + 1 \in DOMAIN q /\ Q[k] = q[k + 1] /\ i + 1 < k + 1
        BY <1>2, <1>4, <2>3
      <3>2. QED
        BY <2>1, <2>2, <2>3, <3>1
    <2>4. QED
      BY <2>1, <2>2, <2>3
  <1>6. \A x \in Partitions : \A k \in 1 .. pos[x] :
          \/ <<x, k>> \in S
          \/ \E i \in DOMAIN Q : Q[i].type = "record" /\ Q[i].id = <<x, k>>
    BY <1>3 DEF CutInv
  <1>7. \A id \in S : id[2] <= pos[id[1]]
    BY DEF CutInv
  <1>8. QED
    BY <1>5, <1>6, <1>7 DEF CutInv, Q

-----------------------------------------------------------------------------
(* A barrier keeps what it covers in front of it.                          *)

LEMMA CoversReads ==
  ASSUME NEW j \in Jobs, NEW q \in Seq(Messages(j)), NEW S \in SUBSET IdsIn(j),
         NEW pos \in Offsets(j), NEW p \in Partitions, NEW m \in Messages(j),
         m.type = "record", m.id = <<p, pos[p] + 1>>, Covers(S, q), BarriersBehind(pos, q)
  PROVE  /\ Covers(S, Append(q, m))
         /\ BarriersBehind([pos EXCEPT ![p] = @ + 1], Append(q, m))
  <1> DEFINE P == [pos EXCEPT ![p] = @ + 1]
             Q == Append(q, m)
             n == Len(q)
  <1>1. n \in Nat /\ DOMAIN q = 1 .. n /\ DOMAIN Q = 1 .. n + 1
        /\ (\A i \in 1 .. n : Q[i] = q[i] /\ q[i] \in Messages(j)) /\ Q[n + 1] = m
    BY AppendIs
  <1>2. pos \in [Partitions -> Nat]
    BY OffsetsAre
  <1>3. \A x \in Partitions : pos[x] <= P[x] /\ P[x] \in Nat
    BY <1>2
  <1>4. m.id[1] = p /\ m.id[2] = pos[p] + 1
    OBVIOUS
  <1> HIDE DEF P, Q, n
  <1>5. \A i \in DOMAIN Q : Q[i].type = "barrier" =>
          i \in DOMAIN q /\ Q[i] = q[i] /\ i < n + 1 /\ q[i].offsets \in [Partitions -> Nat]
    BY <1>1, MessagesAre, OffsetsAre
  <1>6. ASSUME NEW i \in DOMAIN Q, Q[i].type = "barrier"
        PROVE  /\ \A id \in S : id[2] <= Q[i].offsets[id[1]]
               /\ \A k \in DOMAIN Q : Q[k].type = "record" =>
                    /\ k < i => Q[k].id[2] <= Q[i].offsets[Q[k].id[1]]
                    /\ i < k => Q[i].offsets[Q[k].id[1]] < Q[k].id[2]
    <2>1. i \in DOMAIN q /\ Q[i] = q[i] /\ i < n + 1 /\ q[i].type = "barrier"
      BY <1>5, <1>6
    <2>2. /\ \A id \in S : id[2] <= q[i].offsets[id[1]]
          /\ \A k \in DOMAIN q : q[k].type = "record" =>
               /\ k < i => q[k].id[2] <= q[i].offsets[q[k].id[1]]
               /\ i < k => q[i].offsets[q[k].id[1]] < q[k].id[2]
      BY <2>1 DEF Covers
    <2>3. q[i].offsets[p] < pos[p] + 1
      BY <1>2, <1>5, <1>6, <2>1 DEF BarriersBehind
    <2>4. ASSUME NEW k \in DOMAIN Q, Q[k].type = "record"
          PROVE  /\ k < i => Q[k].id[2] <= Q[i].offsets[Q[k].id[1]]
                 /\ i < k => Q[i].offsets[Q[k].id[1]] < Q[k].id[2]
      <3>1. CASE k = n + 1
        <4>1. Q[k] = m /\ ~(k < i)
          BY <1>1, <2>1, <3>1
        <4>2. QED
          BY <1>4, <2>1, <2>3, <4>1
      <3>2. CASE k \in 1 .. n
        BY <1>1, <2>1, <2>2, <2>4, <3>2
      <3>3. QED
        BY <1>1, <3>1, <3>2
    <2>5. QED
      BY <2>1, <2>2, <2>4
  <1>7. \A i \in DOMAIN Q : Q[i].type = "barrier" =>
          \A x \in Partitions : Q[i].offsets[x] <= P[x]
    BY <1>2, <1>3, <1>5 DEF BarriersBehind
  <1>8. QED
    BY <1>6, <1>7 DEF Covers, BarriersBehind, P, Q

\* A new barrier carries the source's positions.
LEMMA CoversBarrier ==
  ASSUME NEW j \in Jobs, NEW q \in Seq(Messages(j)), NEW S \in SUBSET IdsIn(j),
         NEW pos \in Offsets(j), NEW m \in Messages(j), m.type = "barrier",
         m.offsets = pos, CutInv(S, pos, q), Covers(S, q), BarriersBehind(pos, q)
  PROVE  Covers(S, Append(q, m)) /\ BarriersBehind(pos, Append(q, m))
  <1> DEFINE Q == Append(q, m)
             n == Len(q)
  <1>1. n \in Nat /\ DOMAIN q = 1 .. n /\ DOMAIN Q = 1 .. n + 1
        /\ (\A i \in 1 .. n : Q[i] = q[i] /\ q[i] \in Messages(j)) /\ Q[n + 1] = m
    BY AppendIs
  <1>2. pos \in [Partitions -> Nat]
    BY OffsetsAre
  <1> HIDE DEF Q, n
  <1>3. \A k \in DOMAIN Q : Q[k].type = "record" => k \in DOMAIN q /\ Q[k] = q[k] /\ k < n + 1
    BY <1>1
  <1>4. ASSUME NEW i \in DOMAIN Q, Q[i].type = "barrier"
        PROVE  /\ \A id \in S : id[2] <= Q[i].offsets[id[1]]
               /\ \A k \in DOMAIN Q : Q[k].type = "record" =>
                    /\ k < i => Q[k].id[2] <= Q[i].offsets[Q[k].id[1]]
                    /\ i < k => Q[i].offsets[Q[k].id[1]] < Q[k].id[2]
               /\ \A p \in Partitions : Q[i].offsets[p] <= pos[p]
    <2>1. CASE i = n + 1
      <3>1. Q[i].offsets = pos
        BY <1>1, <2>1
      <3>2. \A k \in DOMAIN q : q[k].type = "record" => q[k].id[2] <= pos[q[k].id[1]]
        BY DEF CutInv
      <3>3. \A k \in DOMAIN Q : ~(i < k)
        BY <1>1, <2>1
      <3>4. \A id \in S : id[2] <= pos[id[1]]
        BY DEF CutInv
      <3>5. \A p \in Partitions : pos[p] <= pos[p]
        BY <1>2
      <3>6. QED
        BY <1>3, <3>1, <3>2, <3>3, <3>4, <3>5
    <2>2. CASE i \in 1 .. n
      <3>1. Q[i] = q[i] /\ i \in DOMAIN q
        BY <1>1, <2>2
      <3>2. QED
        BY <1>3, <1>4, <3>1 DEF Covers, BarriersBehind
    <2>3. QED
      BY <1>1, <2>1, <2>2
  <1>5. QED
    BY <1>4 DEF Covers, BarriersBehind, Q

LEMMA CoversWatermark ==
  ASSUME NEW j \in Jobs, NEW q \in Seq(Messages(j)), NEW S, NEW pos,
         NEW m \in Messages(j), m.type = "watermark", Covers(S, q), BarriersBehind(pos, q)
  PROVE  Covers(S, Append(q, m)) /\ BarriersBehind(pos, Append(q, m))
  <1> DEFINE Q == Append(q, m)
             n == Len(q)
  <1>1. n \in Nat /\ DOMAIN q = 1 .. n /\ DOMAIN Q = 1 .. n + 1
        /\ (\A i \in 1 .. n : Q[i] = q[i] /\ q[i] \in Messages(j)) /\ Q[n + 1] = m
    BY AppendIs
  <1> HIDE DEF Q, n
  <1>2. \A k \in DOMAIN Q : Q[k].type \in {"record", "barrier"} => k \in DOMAIN q /\ Q[k] = q[k]
    BY <1>1
  <1>3. QED
    BY <1>2 DEF Covers, BarriersBehind, Q

LEMMA CoversTakes ==
  ASSUME NEW j \in Jobs, NEW q \in Seq(Messages(j)), NEW S, NEW pos,
         q # <<>>, Covers(S, q), BarriersBehind(pos, q)
  PROVE  /\ BarriersBehind(pos, Tail(q))
         /\ Covers(IF Head(q).type = "record" THEN S \cup {Head(q).id} ELSE S, Tail(q))
  <1> DEFINE Q == Tail(q)
             n == Len(q)
             S2 == IF Head(q).type = "record" THEN S \cup {Head(q).id} ELSE S
  <1>1. n \in Nat \ {0} /\ DOMAIN q = 1 .. n /\ DOMAIN Q = 1 .. n - 1 /\ Head(q) = q[1]
        /\ (\A i \in 1 .. n - 1 : Q[i] = q[i + 1]) /\ 1 \in DOMAIN q
    BY TailIs
  <1>2. \A id \in S2 : id \in S \/ (id = q[1].id /\ q[1].type = "record")
    BY <1>1
  <1> HIDE DEF Q, n, S2
  <1>3. \A i \in DOMAIN Q : i + 1 \in DOMAIN q /\ Q[i] = q[i + 1] /\ i \in Nat /\ 1 < i + 1
    BY <1>1
  <1>4. ASSUME NEW i \in DOMAIN Q, Q[i].type = "barrier"
        PROVE  /\ \A id \in S2 : id[2] <= Q[i].offsets[id[1]]
               /\ \A k \in DOMAIN Q : Q[k].type = "record" =>
                    /\ k < i => Q[k].id[2] <= Q[i].offsets[Q[k].id[1]]
                    /\ i < k => Q[i].offsets[Q[k].id[1]] < Q[k].id[2]
               /\ \A p \in Partitions : Q[i].offsets[p] <= pos[p]
    <2>1. i + 1 \in DOMAIN q /\ Q[i] = q[i + 1] /\ i \in Nat /\ 1 < i + 1
      BY <1>3
    <2>2. /\ \A id \in S : id[2] <= Q[i].offsets[id[1]]
          /\ \A k \in DOMAIN q : q[k].type = "record" =>
               /\ k < i + 1 => q[k].id[2] <= Q[i].offsets[q[k].id[1]]
               /\ i + 1 < k => Q[i].offsets[q[k].id[1]] < q[k].id[2]
          /\ \A p \in Partitions : Q[i].offsets[p] <= pos[p]
      BY <1>4, <2>1 DEF Covers, BarriersBehind
    <2>3. \A id \in S2 : id[2] <= Q[i].offsets[id[1]]
      BY <1>1, <1>2, <2>1, <2>2
    <2>4. ASSUME NEW k \in DOMAIN Q, Q[k].type = "record"
          PROVE  /\ k < i => Q[k].id[2] <= Q[i].offsets[Q[k].id[1]]
                 /\ i < k => Q[i].offsets[Q[k].id[1]] < Q[k].id[2]
      <3>1. k + 1 \in DOMAIN q /\ Q[k] = q[k + 1] /\ k \in Nat
        BY <1>3
      <3>2. (k < i => k + 1 < i + 1) /\ (i < k => i + 1 < k + 1)
        BY <2>1, <3>1
      <3>3. QED
        BY <2>2, <2>4, <3>1, <3>2
    <2>5. QED
      BY <2>2, <2>3, <2>4
  <1>5. QED
    BY <1>4 DEF Covers, BarriersBehind, Q, S2

\* When a barrier arrives, what was taken is the log up to its offsets.
LEMMA CutAtBarrier ==
  ASSUME NEW j \in Jobs, NEW q \in Seq(Messages(j)), NEW S \in SUBSET IdsIn(j),
         NEW pos \in Offsets(j), q # <<>>, Head(q).type = "barrier",
         CutInv(S, pos, q), Covers(S, q), BarriersBehind(pos, q)
  PROVE  S = UpTo(j, Head(q).offsets)
  <1> DEFINE n == Len(q)
             o == q[1].offsets
  <1>1. n \in Nat \ {0} /\ DOMAIN q = 1 .. n /\ Head(q) = q[1] /\ 1 \in DOMAIN q
        /\ \A i \in 1 .. n : q[i] \in Messages(j)
    BY TailIs
  <1>2. q[1].type = "barrier" /\ q[1].offsets \in Offsets(j)
    BY <1>1, MessagesAre
  <1>3. /\ \A id \in S : id[2] <= o[id[1]]
        /\ \A k \in DOMAIN q : q[k].type = "record" /\ 1 < k => o[q[k].id[1]] < q[k].id[2]
        /\ \A p \in Partitions : o[p] <= pos[p]
    BY <1>1, <1>2 DEF Covers, BarriersBehind
  <1>4. o \in [Partitions -> Nat] /\ pos \in [Partitions -> Nat]
    BY <1>2, OffsetsAre
  <1> HIDE DEF o, n
  <1>5. ASSUME NEW id \in IdsIn(j), id[2] <= o[id[1]]
        PROVE  id \in S
    <2>1. id[1] \in Partitions /\ id[2] \in Nat \ {0} /\ id = <<id[1], id[2]>>
      BY IdsAre
    <2>2. id[2] \in 1 .. pos[id[1]]
      BY <1>3, <1>4, <1>5, <2>1
    <2>3. ASSUME NEW i \in DOMAIN q, q[i].type = "record", q[i].id = <<id[1], id[2]>>
          PROVE  FALSE
      <3>1. 1 < i
        BY <1>1, <1>2, <2>3
      <3>2. o[id[1]] < id[2]
        BY <1>3, <2>1, <2>3, <3>1
      <3>3. QED
        BY <1>4, <1>5, <2>1, <3>2
    <2>4. <<id[1], id[2]>> \in S
      BY <2>1, <2>2, <2>3 DEF CutInv
    <2>5. QED
      BY <2>1, <2>4
  <1>6. QED
    BY <1>1, <1>3, <1>5 DEF UpTo, o

-----------------------------------------------------------------------------
(* A watermark keeps what it rests on in front of it.                      *)

LEMMA MarksRead ==
  ASSUME NEW j \in Jobs, NEW q \in Seq(Messages(j)), NEW W, NEW s \in SourceTypes(j),
         NEW t \in SourceTypes(j), NEW p \in Partitions, NEW m \in Messages(j),
         m.type = "record", m.id = <<p, s.pos[p] + 1>>, s.pc = "run",
         t.pos = [s.pos EXCEPT ![p] = @ + 1], MarksInv(j, W, s, q)
  PROVE  MarksInv(j, W, t, Append(q, m))
  <1> DEFINE Q == Append(q, m)
             n == Len(q)
  <1>1. n \in Nat /\ DOMAIN q = 1 .. n /\ DOMAIN Q = 1 .. n + 1
        /\ (\A i \in 1 .. n : Q[i] = q[i] /\ q[i] \in Messages(j)) /\ Q[n + 1] = m
    BY AppendIs
  <1>2. s.pos \in Offsets(j)
    BY DEF SourceTypes
  <1>3. s.pos \in [Partitions -> Nat]
    BY <1>2, OffsetsAre
  <1>4. \A x \in Partitions : s.pos[x] <= t.pos[x] /\ t.pos[x] \in Nat
    BY <1>3
  <1>5. m.id[1] = p /\ m.id[2] = s.pos[p] + 1
    OBVIOUS
  <1> HIDE DEF Q, n
  <1>6. ASSUME NEW i \in DOMAIN Q, Q[i].type = "watermark"
        PROVE  /\ Q[i].ts # MaxTime
               /\ \A x \in Partitions \ W : \E k \in 1 .. t.pos[x] :
                    /\ Supports(j, x, k, Q[i].ts)
                    /\ \A l \in DOMAIN Q : i < l /\ Q[l].type = "record" /\ Q[l].id[1] = x
                                           => k < Q[l].id[2]
    <2>1. i \in DOMAIN q /\ Q[i] = q[i] /\ q[i].type = "watermark"
      BY <1>1, <1>6
    <2>2. q[i].ts # MaxTime
      BY <2>1 DEF MarksInv
    <2>3. ASSUME NEW x \in Partitions \ W
          PROVE  \E k \in 1 .. t.pos[x] :
                    /\ Supports(j, x, k, q[i].ts)
                    /\ \A l \in DOMAIN Q : i < l /\ Q[l].type = "record" /\ Q[l].id[1] = x
                                           => k < Q[l].id[2]
      <3>1. PICK k \in 1 .. s.pos[x] :
                    /\ Supports(j, x, k, q[i].ts)
                    /\ \A l \in DOMAIN q : i < l /\ q[l].type = "record" /\ q[l].id[1] = x
                                           => k < q[l].id[2]
        BY <2>1, <2>2 DEF MarksInv
      <3>2. k \in 1 .. t.pos[x]
        BY <1>3, <1>4
      <3>3. ASSUME NEW l \in DOMAIN Q, i < l, Q[l].type = "record", Q[l].id[1] = x
            PROVE  k < Q[l].id[2]
        <4>1. CASE l = n + 1
          BY <1>1, <1>3, <1>5, <3>3, <4>1
        <4>2. CASE l \in 1 .. n
          BY <1>1, <3>1, <3>3, <4>2
        <4>3. QED
          BY <1>1, <4>1, <4>2
      <3>4. QED
        BY <3>1, <3>2, <3>3
    <2>4. QED
      BY <2>1, <2>2, <2>3
  <1>7. QED
    BY <1>6 DEF MarksInv, Q

\* A barrier goes in.
LEMMA MarksBarrier ==
  ASSUME NEW j \in Jobs, NEW q \in Seq(Messages(j)), NEW W, NEW s,
         NEW m \in Messages(j), m.type = "barrier", MarksInv(j, W, s, q)
  PROVE  MarksInv(j, W, s, Append(q, m))
  <1> DEFINE Q == Append(q, m)
             n == Len(q)
  <1>1. n \in Nat /\ DOMAIN q = 1 .. n /\ DOMAIN Q = 1 .. n + 1
        /\ (\A i \in 1 .. n : Q[i] = q[i] /\ q[i] \in Messages(j)) /\ Q[n + 1] = m
    BY AppendIs
  <1> HIDE DEF Q, n
  <1>2. \A i \in DOMAIN Q : Q[i].type \in {"record", "watermark"} => i \in DOMAIN q /\ Q[i] = q[i]
    BY <1>1
  <1>3. QED
    BY <1>2 DEF MarksInv, Q

\* A watermark goes in that rests on what was read, or the last one.
LEMMA MarksEmitted ==
  ASSUME NEW j \in Jobs, NEW q \in Seq(Messages(j)), NEW W, NEW V, W \subseteq V,
         NEW s, NEW t, s.pc = "run", t.pos = s.pos,
         NEW m \in Messages(j), m.type = "watermark",
         IF m.ts = MaxTime THEN t.pc = "done"
         ELSE \A p \in Partitions \ V : \E k \in 1 .. s.pos[p] : Supports(j, p, k, m.ts),
         MarksInv(j, W, s, q)
  PROVE  MarksInv(j, V, t, Append(q, m))
  <1> DEFINE Q == Append(q, m)
             n == Len(q)
  <1>1. n \in Nat /\ DOMAIN q = 1 .. n /\ DOMAIN Q = 1 .. n + 1
        /\ (\A i \in 1 .. n : Q[i] = q[i] /\ q[i] \in Messages(j)) /\ Q[n + 1] = m
    BY AppendIs
  <1> HIDE DEF Q, n
  <1>2. \A i \in DOMAIN Q : Q[i].type = "record" => i \in DOMAIN q /\ Q[i] = q[i]
    BY <1>1
  <1>3. ASSUME NEW i \in DOMAIN Q, Q[i].type = "watermark"
        PROVE  IF Q[i].ts = MaxTime
               THEN t.pc = "done" /\ \A k \in DOMAIN Q : i < k => Q[k].type # "record"
               ELSE \A p \in Partitions \ V : \E k \in 1 .. t.pos[p] :
                      /\ Supports(j, p, k, Q[i].ts)
                      /\ \A l \in DOMAIN Q : i < l /\ Q[l].type = "record" /\ Q[l].id[1] = p
                                             => k < Q[l].id[2]
    <2>1. CASE i = n + 1
      <3>1. Q[i] = m /\ \A k \in DOMAIN Q : ~(i < k)
        BY <1>1, <2>1
      <3>2. QED
        BY <3>1
    <2>2. CASE i \in 1 .. n
      <3>1. i \in DOMAIN q /\ Q[i] = q[i] /\ q[i].type = "watermark"
        BY <1>1, <1>3, <2>2
      <3>2. q[i].ts # MaxTime
        BY <3>1 DEF MarksInv
      <3>3. ASSUME NEW p \in Partitions \ V
            PROVE  \E k \in 1 .. s.pos[p] :
                      /\ Supports(j, p, k, q[i].ts)
                      /\ \A l \in DOMAIN q : i < l /\ q[l].type = "record" /\ q[l].id[1] = p
                                             => k < q[l].id[2]
        <4>1. p \in Partitions \ W
          OBVIOUS
        <4>2. QED
          BY <3>1, <3>2, <4>1 DEF MarksInv
      <3>4. QED
        BY <1>2, <3>1, <3>2, <3>3
    <2>3. QED
      BY <1>1, <2>1, <2>2
  <1>4. QED
    BY <1>3 DEF MarksInv, Q

\* The source ends and the channel is full.
LEMMA MarksGivenUp ==
  ASSUME NEW j \in Jobs, NEW q, NEW W, NEW s, NEW t, s.pc = "run", t.pos = s.pos,
         MarksInv(j, W, s, q)
  PROVE  MarksInv(j, W, t, q)
  BY DEF MarksInv

\* The operator takes a message.
LEMMA MarksTaken ==
  ASSUME NEW j \in Jobs, NEW q \in Seq(Messages(j)), NEW W, NEW s, q # <<>>,
         MarksInv(j, W, s, q)
  PROVE  MarksInv(j, W, s, Tail(q))
  <1> DEFINE Q == Tail(q)
             n == Len(q)
  <1>1. n \in Nat \ {0} /\ DOMAIN q = 1 .. n /\ DOMAIN Q = 1 .. n - 1 /\ Head(q) = q[1]
        /\ (\A i \in 1 .. n - 1 : Q[i] = q[i + 1]) /\ 1 \in DOMAIN q
    BY TailIs
  <1> HIDE DEF Q, n
  <1>2. \A i \in DOMAIN Q : i + 1 \in DOMAIN q /\ Q[i] = q[i + 1] /\ i \in Nat
    BY <1>1
  <1>3. ASSUME NEW i \in DOMAIN Q, Q[i].type = "watermark"
        PROVE  IF Q[i].ts = MaxTime
               THEN s.pc = "done" /\ \A k \in DOMAIN Q : i < k => Q[k].type # "record"
               ELSE \A p \in Partitions \ W : \E k \in 1 .. s.pos[p] :
                      /\ Supports(j, p, k, Q[i].ts)
                      /\ \A l \in DOMAIN Q : i < l /\ Q[l].type = "record" /\ Q[l].id[1] = p
                                             => k < Q[l].id[2]
    <2>1. i + 1 \in DOMAIN q /\ Q[i] = q[i + 1] /\ q[i + 1].type = "watermark"
      BY <1>2, <1>3
    <2>2. \A k \in DOMAIN Q : i < k => i + 1 < k + 1
      BY <1>2
    <2>3. CASE Q[i].ts = MaxTime
      BY <1>2, <2>1, <2>2, <2>3 DEF MarksInv
    <2>4. CASE Q[i].ts # MaxTime
      <3>1. ASSUME NEW p \in Partitions \ W
            PROVE  \E k \in 1 .. s.pos[p] :
                      /\ Supports(j, p, k, Q[i].ts)
                      /\ \A l \in DOMAIN Q : i < l /\ Q[l].type = "record" /\ Q[l].id[1] = p
                                             => k < Q[l].id[2]
        <4>1. PICK k \in 1 .. s.pos[p] :
                      /\ Supports(j, p, k, q[i + 1].ts)
                      /\ \A l \in DOMAIN q : i + 1 < l /\ q[l].type = "record" /\ q[l].id[1] = p
                                             => k < q[l].id[2]
          BY <2>1, <2>4 DEF MarksInv
        <4>2. \A l \in DOMAIN Q : i < l /\ Q[l].type = "record" /\ Q[l].id[1] = p
                                  => k < Q[l].id[2]
          BY <1>2, <2>2, <4>1
        <4>3. QED
          BY <2>1, <4>1, <4>2
      <3>2. QED
        BY <2>4, <3>1
    <2>5. QED
      BY <2>3, <2>4
  <1>4. QED
    BY <1>3 DEF MarksInv, Q

\* A watermark that arrives rests on records that were taken.
LEMMA MarkApplies ==
  ASSUME NEW j \in Jobs, NEW q \in Seq(Messages(j)), NEW S \in SUBSET IdsIn(j), NEW W,
         NEW s \in SourceTypes(j), q # <<>>, Head(q).type = "watermark",
         MarksInv(j, W, s, q), CutInv(S, s.pos, q)
  PROVE  /\ AppliedInv(j, W, S, Head(q).ts)
         /\ LastMarkInv(s, Tail(q), Head(q).ts)
  <1> DEFINE n == Len(q)
             w == q[1].ts
             Q == Tail(q)
  <1>1. n \in Nat \ {0} /\ DOMAIN q = 1 .. n /\ Head(q) = q[1] /\ 1 \in DOMAIN q
        /\ DOMAIN Q = 1 .. n - 1 /\ (\A i \in 1 .. n - 1 : Q[i] = q[i + 1])
    BY TailIs
  <1>2. q[1].type = "watermark"
    BY <1>1
  <1>3. s.pos \in Offsets(j)
    BY DEF SourceTypes
  <1>4. s.pos \in [Partitions -> Nat] /\ \A p \in Partitions : s.pos[p] <= Len(j.log[p])
    BY <1>3, OffsetsAre
  <1>5. \A p \in Partitions : Len(j.log[p]) \in Nat
    BY IdsAre
  <1> HIDE DEF Q, n, w
  <1>6. CASE w = MaxTime
    <2>1. s.pc = "done" /\ \A k \in DOMAIN q : 1 < k => q[k].type # "record"
      BY <1>1, <1>2, <1>6 DEF MarksInv, w
    <2>2. \A i \in DOMAIN Q : i + 1 \in DOMAIN q /\ 1 < i + 1 /\ Q[i] = q[i + 1]
      BY <1>1
    <2>3. QED
      BY <1>1, <1>6, <2>1, <2>2 DEF AppliedInv, LastMarkInv, Q, w
  <1>7. CASE w # MaxTime
    <2>1. ASSUME NEW p \in Partitions \ W
          PROVE  \E k \in 1 .. Len(j.log[p]) : <<p, k>> \in S /\ Supports(j, p, k, w)
      <3>1. PICK k \in 1 .. s.pos[p] :
                  /\ Supports(j, p, k, w)
                  /\ \A l \in DOMAIN q : 1 < l /\ q[l].type = "record" /\ q[l].id[1] = p
                                         => k < q[l].id[2]
        BY <1>1, <1>2, <1>7 DEF MarksInv, w
      <3>2. ASSUME NEW i \in DOMAIN q, q[i].type = "record", q[i].id = <<p, k>>
            PROVE  FALSE
        <4>1. 1 < i
          BY <1>1, <1>2, <3>2
        <4>2. k < k
          BY <3>1, <3>2, <4>1
        <4>3. QED
          BY <1>4, <4>2
      <3>3. <<p, k>> \in S
        BY <3>2 DEF CutInv
      <3>4. k \in 1 .. Len(j.log[p])
        BY <1>4, <1>5
      <3>5. QED
        BY <3>1, <3>3, <3>4
    <2>2. QED
      BY <1>1, <1>7, <2>1 DEF AppliedInv, LastMarkInv, w
  <1>8. QED
    BY <1>6, <1>7

\* A record that is too late is behind one its partition has shown.
LEMMA LateIsBehind ==
  ASSUME NEW j \in Jobs, NEW S \in SUBSET IdsIn(j), NEW W, NEW wm \in ZeroTime .. MaxTime - 1,
         NEW id \in IdsIn(j), \A x \in S : x[1] = id[1] => x[2] < id[2],
         AppliedInv(j, W, S, wm), IsTooLate(wm, At(j, id))
  PROVE  \/ id[1] \in W
         \/ \E k \in 1 .. id[2] - 1 :
              At(j, <<id[1], k>>) - OutOfOrderness - AllowedLateness > At(j, id)
  <1> SUFFICES ASSUME id[1] \notin W
               PROVE  \E k \in 1 .. id[2] - 1 :
                        At(j, <<id[1], k>>) - OutOfOrderness - AllowedLateness > At(j, id)
    OBVIOUS
  <1>1. AllowedLateness \in Nat /\ OutOfOrderness \in Nat
    BY TimeParameters
  <1>2. id[1] \in Partitions /\ id[2] \in Nat \ {0} /\ At(j, id) \in Ancient + 1 .. MaxTime - 1
        /\ Len(j.log[id[1]]) \in Nat
    BY IdsAre
  <1>3. wm # ZeroTime /\ At(j, id) < wm - AllowedLateness
    BY DEF IsTooLate
  <1>4. wm \notin {ZeroTime, Ancient, MaxTime}
    BY <1>1, <1>2, <1>3, TimesAre
  <1>5. PICK k \in 1 .. Len(j.log[id[1]]) : <<id[1], k>> \in S /\ Supports(j, id[1], k, wm)
    BY <1>2, <1>4 DEF AppliedInv
  <1>6. k < id[2] /\ k \in 1 .. id[2] - 1
    BY <1>2, <1>5
  <1>7. At(j, <<id[1], k>>) \in Int /\ At(j, <<id[1], k>>) - OutOfOrderness >= wm
    <2>1. <<id[1], k>> \in IdsIn(j)
      BY <1>5
    <2>2. QED
      BY <1>5, <2>1, IdsAre, TimesAre DEF Supports
  <1>8. At(j, <<id[1], k>>) - OutOfOrderness - AllowedLateness > At(j, id)
    BY <1>1, <1>2, <1>3, <1>7, TimesAre
  <1>9. QED
    BY <1>6, <1>8

-----------------------------------------------------------------------------
(* Each step keeps the stream.                                             *)

\* More is taken, more partitions are passed over.
LEMMA AppliedGrows ==
  ASSUME NEW j, NEW W, NEW V, W \subseteq V, NEW S, NEW U, S \subseteq U, NEW wm,
         AppliedInv(j, W, S, wm)
  PROVE  AppliedInv(j, V, U, wm)
  BY DEF AppliedInv

LEMMA LateGrows ==
  ASSUME NEW j, NEW W, NEW V, W \subseteq V, NEW lt, LateInv(j, W, lt)
  PROVE  LateInv(j, V, lt)
  BY DEF LateInv

LEMMA LastMarkSends ==
  ASSUME NEW j \in Jobs, NEW q \in Seq(Messages(j)), NEW m \in Messages(j),
         m.type # "record", NEW s, NEW wm, LastMarkInv(s, q, wm)
  PROVE  LastMarkInv(s, Append(q, m), wm)
  BY AppendIs DEF LastMarkInv

LEMMA LastMarkTakes ==
  ASSUME NEW j \in Jobs, NEW q \in Seq(Messages(j)), q # <<>>,
         NEW s, NEW wm, LastMarkInv(s, q, wm)
  PROVE  LastMarkInv(s, Tail(q), wm) /\ (Head(q).type = "record" => wm # MaxTime)
  BY TailIs DEF LastMarkInv

LEMMA ReadStream ==
  ASSUME Types, StreamInv, NEW p \in Partitions, ReadRecord(p)
  PROVE  Types' /\ StreamInv'
  <1> DEFINE id == <<p, src.pos[p] + 1>>
             m == [type |-> "record", id |-> id]
             P == [src.pos EXCEPT ![p] = @ + 1]
             M == [src.max EXCEPT ![p] = IF Rec(id).ts > @ THEN Rec(id).ts ELSE @]
  <1>1. /\ job' = job /\ hist' = hist /\ op' = op /\ saved' = saved
        /\ ch' = Append(ch, m) /\ src.pc = "run" /\ src.pos[p] < Len(job.log[p])
        /\ src' = [src EXCEPT !.pos[p] = @ + 1, !.idle = @ \ {p},
                      !.max[p] = IF Rec(id).ts > @ THEN Rec(id).ts ELSE @]
    BY DEF ReadRecord
  <1>2. src \in SourceTypes(job) /\ job \in Jobs /\ ch \in Seq(Messages(job))
    BY DEF Types
  <1>3. /\ src.pos \in Offsets(job) /\ src.max \in [Partitions -> ZeroTime .. MaxTime - 1]
        /\ src.idle \in SUBSET Partitions /\ src.last \in ZeroTime .. MaxTime - 1
    BY <1>2 DEF SourceTypes
  <1>4. src.pos \in [Partitions -> Nat] /\ \A x \in Partitions : src.pos[x] <= Len(job.log[x])
    BY <1>2, <1>3, OffsetsAre
  <1>5. \A x \in Partitions : Len(job.log[x]) \in Nat
    BY <1>2, IdsAre
  <1>6. id \in IdsIn(job) /\ m \in Messages(job)
    <2>1. src.pos[p] + 1 \in Nat \ {0} /\ src.pos[p] + 1 <= Len(job.log[p])
      BY <1>1, <1>4, <1>5
    <2>2. id \in IdsIn(job)
      BY <1>2, <2>1, IdsAre
    <2>3. QED
      BY <2>2, MessagesMade
  <1>7. Rec(id).ts = At(job, id) /\ At(job, id) \in Ancient + 1 .. MaxTime - 1
    BY <1>2, <1>6, IdsAre DEF Rec, At
  <1>8. src' = [pc |-> src.pc, pos |-> P, max |-> M, idle |-> src.idle \ {p},
                last |-> src.last]
    BY <1>1, <1>2 DEF SourceTypes
  <1>9. P \in [Partitions -> Nat] /\ P[p] = src.pos[p] + 1
        /\ \A x \in Partitions : x # p => P[x] = src.pos[x]
    BY <1>4
  <1>10. P \in Offsets(job)
    BY <1>1, <1>4, <1>5, <1>9, SMTT(30) DEF Offsets
  <1>11. M \in [Partitions -> ZeroTime .. MaxTime - 1]
         /\ (\A x \in Partitions : x # p => M[x] = src.max[x])
         /\ M[p] \in {src.max[p], At(job, id)}
    <2>1. At(job, id) \in ZeroTime .. MaxTime - 1
      BY <1>7, TimesAre
    <2>2. QED
      BY <1>3, <1>7, <2>1
  <1> HIDE DEF id, m, P, M
  <1>12. src' \in SourceTypes(job)
    BY <1>2, <1>3, <1>8, <1>10, <1>11 DEF SourceTypes
  <1>13. /\ src'.pc = src.pc /\ src'.pos = P /\ src'.max = M /\ src'.last = src.last
    BY <1>8
  <1>14. Types'
    <2>1. ch' \in Seq(Messages(job))
      BY <1>1, <1>2, <1>6, AppendIs
    <2>2. inj' \in Injectors
      BY DEF ReadRecord, Types, Injectors
    <2>3. QED
      BY <1>1, <1>12, <2>1, <2>2 DEF Types
  <1>15. Taken(hist) \in SUBSET IdsIn(job)
    BY DEF Types, HistTypes, Taken
  <1>16. m.type = "record" /\ m.id = <<p, src.pos[p] + 1>>
    BY DEF m, id
  <1>17. CutInv(Taken(hist), P, ch')
    BY <1>1, <1>2, <1>3, <1>6, <1>15, <1>16, CutReads DEF StreamInv, P
  <1>18. Covers(Taken(hist), ch') /\ BarriersBehind(P, ch')
    BY <1>1, <1>2, <1>3, <1>6, <1>15, <1>16, CoversReads DEF StreamInv, P
  <1>19. MarksInv(job, hist.waived, src', ch')
    <2>1. MarksInv(job, hist.waived, src, ch)
      BY DEF StreamInv
    <2>2. src'.pos = [src.pos EXCEPT ![p] = @ + 1]
      BY <1>13 DEF P
    <2>3. MarksInv(job, hist.waived, src', Append(ch, m))
      BY <1>1, <1>2, <1>6, <1>12, <1>16, <2>1, <2>2, MarksRead, Zenon
    <2>4. QED
      BY <1>1, <2>3
  <1>20. SourceInv(job, hist.waived, src')
    <2>1. ASSUME NEW x \in Partitions, M[x] # ZeroTime
          PROVE  \E k \in 1 .. P[x] : At(job, <<x, k>>) = M[x]
      <3>1. CASE x = p /\ M[x] = At(job, id)
        <4>1. P[x] \in 1 .. P[x] /\ <<x, P[x]>> = id
          BY <1>4, <1>9, <3>1 DEF id
        <4>2. QED
          BY <3>1, <4>1
      <3>2. CASE M[x] = src.max[x]
        <4>1. PICK k \in 1 .. src.pos[x] : At(job, <<x, k>>) = src.max[x]
          BY <2>1, <3>2 DEF StreamInv, SourceInv
        <4>2. k \in 1 .. P[x]
          BY <1>4, <1>9
        <4>3. QED
          BY <3>2, <4>1, <4>2
      <3>3. QED
        BY <1>11, <3>1, <3>2
    <2>2. ASSUME src.last # ZeroTime, NEW x \in Partitions \ hist.waived
          PROVE  \E k \in 1 .. P[x] : Supports(job, x, k, src.last)
      <3>1. PICK k \in 1 .. src.pos[x] : Supports(job, x, k, src.last)
        BY <2>2 DEF StreamInv, SourceInv
      <3>2. k \in 1 .. P[x]
        BY <1>4, <1>9
      <3>3. QED
        BY <3>1, <3>2
    <2>3. QED
      BY <1>13, <2>1, <2>2 DEF SourceInv
  <1>21. LastMarkInv(src', ch', op.wm)
    BY <1>1 DEF StreamInv, LastMarkInv
  <1>22. QED
    BY <1>1, <1>13, <1>14, <1>17, <1>18, <1>19, <1>20, <1>21 DEF StreamInv

LEMMA IdleStream ==
  ASSUME Types, StreamInv, NEW p \in Partitions, PartitionIdles(p)
  PROVE  Types' /\ StreamInv'
  <1>1. /\ job' = job /\ hist' = hist /\ op' = op /\ saved' = saved /\ ch' = ch /\ inj' = inj
        /\ src' = [src EXCEPT !.idle = @ \cup {p}] /\ src \in SourceTypes(job)
    BY DEF PartitionIdles, Types
  <1>2. src' \in SourceTypes(job) /\ src'.pc = src.pc /\ src'.pos = src.pos
        /\ src'.max = src.max /\ src'.last = src.last
    BY <1>1 DEF SourceTypes
  <1>3. Types'
    BY <1>1, <1>2 DEF Types
  <1>4. SourceInv(job, hist.waived, src') /\ MarksInv(job, hist.waived, src', ch)
        /\ LastMarkInv(src', ch, op.wm)
    BY <1>2 DEF StreamInv, SourceInv, MarksInv, LastMarkInv
  <1>5. QED
    BY <1>1, <1>2, <1>3, <1>4 DEF StreamInv

\* The least watermark of the counting partitions.
LEMMA PartitionWatermarkIs ==
  ASSUME Types
  PROVE  \/ HeldBy = {} /\ PartitionWatermark = ZeroTime
         \/ /\ PartitionWatermark \in Int /\ PartitionWatermark <= MaxTime - 1
            /\ \A p \in HeldBy : PartitionWatermark <= src.max[p] - OutOfOrderness
  <1>1. CASE HeldBy = {}
    BY <1>1 DEF PartitionWatermark
  <1>2. CASE HeldBy # {}
    <2> DEFINE S == {src.max[p] : p \in HeldBy}
    <2>1. src.max \in [Partitions -> ZeroTime .. MaxTime - 1]
      BY DEF Types, SourceTypes
    <2>2. HeldBy \subseteq Partitions
      BY DEF HeldBy
    <2>3. S \in SUBSET Int /\ (\A x \in S : ZeroTime <= x /\ x <= MaxTime - 1)
      BY <2>1, <2>2, TimesAre
    <2>4. S # {}
      BY <1>2
    <2>5. \A p \in HeldBy : src.max[p] \in S
      OBVIOUS
    <2>6. PartitionWatermark = LowOf(S) - OutOfOrderness
      BY <1>2 DEF PartitionWatermark
    <2> HIDE DEF S
    <2>7. LowOf(S) \in S /\ \A y \in S : LowOf(S) <= y
      BY <2>3, <2>4, LowOfIs, TimesAre
    <2>8. OutOfOrderness \in Nat
      BY TimeParameters
    <2>9. LowOf(S) \in Int /\ LowOf(S) <= MaxTime - 1
      BY <2>3, <2>7
    <2>10. \A p \in HeldBy : PartitionWatermark <= src.max[p] - OutOfOrderness
      BY <2>1, <2>2, <2>3, <2>5, <2>6, <2>7, <2>8, <2>9
    <2>11. QED
      BY <2>6, <2>8, <2>9, <2>10, TimesAre
  <1>3. QED
    BY <1>1, <1>2

\* The newest event time, and the partitions that have shown it.
LEMMA SharedWatermarkIs ==
  ASSUME Types, job.shared
  PROVE  \/ SharedWatermark = ZeroTime
         \/ /\ SharedWatermark \in Int /\ SharedWatermark <= MaxTime - 1
            /\ \A p \in WaitedFor : SharedWatermark <= src.max[p] - OutOfOrderness
  <1> DEFINE seen == {p \in Partitions : src.max[p] # ZeroTime}
             S == {src.max[p] : p \in seen}
  <1>1. src.max \in [Partitions -> ZeroTime .. MaxTime - 1]
    BY DEF Types, SourceTypes
  <1>2. S \in SUBSET Int /\ \A x \in S : x <= MaxTime - 1
    BY <1>1, TimesAre
  <1>3. OutOfOrderness \in Nat
    BY TimeParameters
  <1>4. SharedWatermark = IF seen = {} THEN ZeroTime ELSE HighOf(S) - OutOfOrderness
    BY DEF SharedWatermark
  <1>5. CASE seen = {}
    BY <1>4, <1>5
  <1>6. CASE seen # {}
    <2>1. S # {}
      BY <1>6
    <2> HIDE DEF S
    <2>2. MaxTime - 1 \in Int
      BY TimesAre
    <2>3. HighOf(S) \in S
      BY <1>2, <2>1, <2>2, HighOfIs
    <2>4. HighOf(S) \in Int /\ HighOf(S) <= MaxTime - 1
      BY <1>2, <2>3
    <2>5. SharedWatermark \in Int /\ SharedWatermark <= MaxTime - 1
      BY <1>3, <1>4, <1>6, <2>4, TimesAre
    <2>6. \A p \in WaitedFor : p \in Partitions /\ src.max[p] - OutOfOrderness >= SharedWatermark
      BY DEF WaitedFor
    <2>7. \A p \in WaitedFor : SharedWatermark <= src.max[p] - OutOfOrderness
      BY <1>1, <1>3, <2>5, <2>6, TimesAre
    <2>8. QED
      BY <2>5, <2>7
  <1>7. QED
    BY <1>5, <1>6

LEMMA EmitStream ==
  ASSUME Types, StreamInv, EmitWatermark
  PROVE  Types' /\ StreamInv'
  <1> DEFINE pm == IF job.shared THEN SharedWatermark ELSE PartitionWatermark
             wm == IF pm > src.last THEN pm ELSE src.last
             m == [type |-> "watermark", ts |-> wm]
             V == IF wm > src.last THEN hist.waived \cup (Partitions \ WaitedFor)
                  ELSE hist.waived
  <1>1. /\ job' = job /\ op' = op /\ saved' = saved /\ src.pc = "run" /\ wm # ZeroTime
        /\ inj' = inj
        /\ src' = [src EXCEPT !.last = wm] /\ ch' = Append(ch, m)
        /\ hist' = IF wm > src.last
                   THEN [hist EXCEPT !.waived = @ \cup (Partitions \ WaitedFor)] ELSE hist
    BY DEF EmitWatermark
  <1>2. src \in SourceTypes(job) /\ job \in Jobs /\ ch \in Seq(Messages(job))
        /\ HistTypes(job, hist)
    BY DEF Types
  <1>3. src.last \in ZeroTime .. MaxTime - 1
    BY <1>2 DEF SourceTypes
  <1>4. pm = ZeroTime \/ (/\ pm \in Int /\ pm <= MaxTime - 1
                          /\ \A p \in WaitedFor : pm <= src.max[p] - OutOfOrderness)
    BY PartitionWatermarkIs, SharedWatermarkIs DEF WaitedFor
  <1> HIDE DEF pm
  <1>5. wm \in ZeroTime + 1 .. MaxTime - 1
    BY <1>1, <1>3, <1>4, TimesAre
  <1>6. \/ wm = src.last /\ ~(wm > src.last)
        \/ wm = pm /\ wm > src.last /\ \A p \in WaitedFor : wm <= src.max[p] - OutOfOrderness
    BY <1>3, <1>4, TimesAre
  <1>7. /\ hist'.accepted = hist.accepted /\ hist'.late = hist.late
        /\ hist'.waived = V /\ hist.waived \subseteq V /\ HistTypes(job, hist')
    <2>1. CASE wm > src.last
      <3>1. hist' = [hist EXCEPT !.waived = V]
        BY <1>1, <2>1
      <3>2. V \in SUBSET Partitions /\ hist.waived \subseteq V
        BY <1>2, <2>1 DEF HistTypes
      <3> HIDE DEF V
      <3>3. QED
        BY <1>2, <3>1, <3>2 DEF HistTypes
    <2>2. CASE ~(wm > src.last)
      BY <1>1, <1>2, <2>2
    <2>3. QED
      BY <2>1, <2>2
  <1>8. \A p \in Partitions \ V : p \notin hist.waived /\ (wm > src.last => p \in WaitedFor)
    OBVIOUS
  <1>9. m \in Messages(job) /\ m.type = "watermark" /\ m.ts = wm
    BY <1>5, MessagesMade, TimesAre
  <1> HIDE DEF wm, m, V
  <1>10. src' \in SourceTypes(job) /\ src'.pc = src.pc /\ src'.pos = src.pos
         /\ src'.max = src.max /\ src'.last = wm
    <2>1. wm \in ZeroTime .. MaxTime - 1
      BY <1>5, TimesAre
    <2>2. QED
      BY <1>1, <1>2, <2>1 DEF SourceTypes
  <1>11. ch' \in Seq(Messages(job))
    BY <1>1, <1>2, <1>9, AppendIs
  <1>12. Types'
    BY <1>1, <1>7, <1>10, <1>11 DEF Types
  <1>13. ASSUME NEW p \in Partitions \ V
         PROVE  \E k \in 1 .. src.pos[p] : Supports(job, p, k, wm)
    <2>1. CASE wm = src.last
      BY <1>1, <1>8, <2>1 DEF StreamInv, SourceInv
    <2>2. CASE wm > src.last /\ \A x \in WaitedFor : wm <= src.max[x] - OutOfOrderness
      <3>1. p \in WaitedFor
        BY <1>8, <2>2
      <3>2. src.max[p] # ZeroTime
        BY <3>1 DEF WaitedFor, HeldBy
      <3>3. PICK k \in 1 .. src.pos[p] : At(job, <<p, k>>) = src.max[p]
        BY <3>2 DEF StreamInv, SourceInv
      <3>4. OutOfOrderness \in Nat /\ src.max[p] \in ZeroTime .. MaxTime - 1
        BY <1>2, TimeParameters DEF SourceTypes
      <3>5. At(job, <<p, k>>) - OutOfOrderness >= wm
        BY <1>5, <2>2, <3>1, <3>3, <3>4, TimesAre
      <3>6. QED
        BY <3>5 DEF Supports
    <2>3. QED
      BY <1>6, <2>1, <2>2
  <1>14. SourceInv(job, V, src')
    BY <1>10, <1>13 DEF StreamInv, SourceInv
  <1>15. MarksInv(job, V, src', ch')
    <2>1. MarksInv(job, hist.waived, src, ch)
      BY DEF StreamInv
    <2>2. m.ts # MaxTime
      BY <1>5, <1>9, TimesAre
    <2>3. IF m.ts = MaxTime THEN src'.pc = "done"
          ELSE \A p \in Partitions \ V : \E k \in 1 .. src.pos[p] : Supports(job, p, k, m.ts)
      BY <1>9, <1>13, <2>2
    <2>4. MarksInv(job, V, src', Append(ch, m))
      BY <1>1, <1>2, <1>7, <1>9, <1>10, <2>1, <2>3, MarksEmitted, Zenon
    <2>5. QED
      BY <1>1, <2>4
  <1>16. Taken(hist') = Taken(hist)
    BY <1>7 DEF Taken
  <1>17. CutInv(Taken(hist), src.pos, ch') /\ Covers(Taken(hist), ch')
         /\ BarriersBehind(src.pos, ch')
    BY <1>1, <1>2, <1>9, CutSends, CoversWatermark DEF StreamInv
  <1>18. LastMarkInv(src', ch', op.wm)
    BY <1>1 DEF StreamInv, LastMarkInv
  <1>19. /\ AppliedInv(job, V, Taken(hist), op.wm) /\ LateInv(job, V, hist.late)
         /\ AppliedInv(job, V, Taken(saved.hist), saved.wm) /\ LateInv(job, V, saved.hist.late)
    BY <1>7, AppliedGrows, LateGrows DEF StreamInv
  <1>20. QED
    BY <1>1, <1>7, <1>10, <1>12, <1>14, <1>15, <1>16, <1>17, <1>18, <1>19 DEF StreamInv

LEMMA EndStream ==
  ASSUME Types, StreamInv, SourceEnds
  PROVE  Types' /\ StreamInv'
  <1> DEFINE m == [type |-> "watermark", ts |-> MaxTime]
  <1>1. /\ job' = job /\ op' = op /\ saved' = saved /\ hist' = hist /\ src.pc = "run"
        /\ inj' = inj /\ src' = [src EXCEPT !.pc = "done"] /\ (ch' = ch \/ ch' = Append(ch, m))
    BY DEF SourceEnds
  <1>2. src \in SourceTypes(job) /\ job \in Jobs /\ ch \in Seq(Messages(job))
    BY DEF Types
  <1>3. m \in Messages(job) /\ m.type = "watermark" /\ m.ts = MaxTime
    BY MessagesMade, TimesAre
  <1> HIDE DEF m
  <1>4. src' \in SourceTypes(job) /\ src'.pc = "done" /\ src'.pos = src.pos
        /\ src'.max = src.max /\ src'.last = src.last
    BY <1>1, <1>2 DEF SourceTypes
  <1>5. ch' \in Seq(Messages(job))
    BY <1>1, <1>2, <1>3, AppendIs
  <1>6. Types'
    BY <1>1, <1>4, <1>5 DEF Types
  <1>7. MarksInv(job, hist.waived, src', ch')
    <2>1. MarksInv(job, hist.waived, src, ch)
      BY DEF StreamInv
    <2>2. MarksInv(job, hist.waived, src', ch)
      BY <1>1, <1>2, <1>4, <2>1, MarksGivenUp
    <2>3. IF m.ts = MaxTime THEN src'.pc = "done"
          ELSE \A p \in Partitions \ hist.waived :
                 \E k \in 1 .. src.pos[p] : Supports(job, p, k, m.ts)
      BY <1>3, <1>4
    <2>4. MarksInv(job, hist.waived, src', Append(ch, m))
      BY <1>1, <1>2, <1>3, <1>4, <2>1, <2>3, MarksEmitted, Zenon
    <2>5. QED
      BY <1>1, <2>2, <2>4
  <1>8. SourceInv(job, hist.waived, src')
    BY <1>4 DEF StreamInv, SourceInv
  <1>9. CutInv(Taken(hist), src.pos, ch') /\ Covers(Taken(hist), ch')
        /\ BarriersBehind(src.pos, ch')
    BY <1>1, <1>2, <1>3, CutSends, CoversWatermark DEF StreamInv
  <1>10. LastMarkInv(src', ch', op.wm)
    BY <1>1 DEF StreamInv, LastMarkInv
  <1>11. QED
    BY <1>1, <1>4, <1>6, <1>7, <1>8, <1>9, <1>10 DEF StreamInv

LEMMA BarrierStream ==
  ASSUME Types, StreamInv, NEW pc \in {"run", "drain", "done"}, Barrier(pc)
  PROVE  Types' /\ StreamInv'
  <1> DEFINE m == [type |-> "barrier", offsets |-> src.pos, named |-> inj.named]
  <1>1. /\ job' = job /\ op' = op /\ saved' = saved /\ hist' = hist /\ src' = src
        /\ ch' = Append(ch, m)
    BY DEF Barrier
  <1>2. src \in SourceTypes(job) /\ job \in Jobs /\ ch \in Seq(Messages(job))
    BY DEF Types
  <1>3. src.pos \in Offsets(job) /\ inj.named \in SUBSET Partitions /\ inj' \in Injectors
    <2>1. inj \in Injectors /\ inj' = [inj EXCEPT !.pc = pc, !.ticks = IF pc = "run" THEN @ + 1 ELSE @]
      BY DEF Types, Barrier
    <2>2. inj.named \in SUBSET Partitions /\ inj.ticks \in Nat
      BY <2>1 DEF Injectors
    <2>3. inj' \in Injectors
      <3>1. inj' = [pc |-> pc, ticks |-> IF pc = "run" THEN inj.ticks + 1 ELSE inj.ticks,
                    named |-> inj.named]
        BY <2>1 DEF Injectors
      <3>2. (IF pc = "run" THEN inj.ticks + 1 ELSE inj.ticks) \in Nat
        BY <2>2
      <3>3. QED
        BY <2>2, <3>1, <3>2 DEF Injectors
    <2>4. QED
      BY <1>2, <2>2, <2>3 DEF SourceTypes
  <1>4. m \in Messages(job) /\ m.type = "barrier" /\ m.offsets = src.pos
    BY <1>3, MessagesMade
  <1> HIDE DEF m
  <1>5. ch' \in Seq(Messages(job))
    BY <1>1, <1>2, <1>4, AppendIs
  <1>6. Types'
    BY <1>1, <1>3, <1>5 DEF Types
  <1>7. Taken(hist) \in SUBSET IdsIn(job)
    BY DEF Types, HistTypes, Taken
  <1>8. CutInv(Taken(hist), src.pos, ch')
    BY <1>1, <1>2, <1>4, CutSends DEF StreamInv
  <1>9. Covers(Taken(hist), ch') /\ BarriersBehind(src.pos, ch')
    BY <1>1, <1>2, <1>3, <1>4, <1>7, CoversBarrier DEF StreamInv
  <1>10. MarksInv(job, hist.waived, src, ch')
    BY <1>1, <1>2, <1>4, MarksBarrier DEF StreamInv
  <1>11. LastMarkInv(src, ch', op.wm)
    BY <1>1, <1>2, <1>4, LastMarkSends DEF StreamInv
  <1>12. QED
    BY <1>1, <1>6, <1>8, <1>9, <1>10, <1>11 DEF StreamInv

\* The fields of a history after a step of the operator.
HistIs(h, a, l, e, m, w) ==
  /\ h \in [accepted : {a}, late : {l}, emitted : {e}, maxed : {m}, waived : {w}]
  /\ h.accepted = a /\ h.late = l /\ h.emitted = e /\ h.maxed = m /\ h.waived = w

LEMMA HistAccepts ==
  ASSUME NEW j, NEW h, HistTypes(j, h), NEW x
  PROVE  HistIs([h EXCEPT !.accepted = x], x, h.late, h.emitted, h.maxed, h.waived)
  BY DEF HistTypes, HistIs

LEMMA HistDrops ==
  ASSUME NEW j, NEW h, HistTypes(j, h), NEW x
  PROVE  HistIs([h EXCEPT !.late = x], h.accepted, x, h.emitted, h.maxed, h.waived)
  BY DEF HistTypes, HistIs

LEMMA HistEmits ==
  ASSUME NEW j, NEW h, HistTypes(j, h), NEW x
  PROVE  HistIs([h EXCEPT !.emitted = x], h.accepted, h.late, x, h.maxed, h.waived)
  BY DEF HistTypes, HistIs

LEMMA HistWaives ==
  ASSUME NEW j, NEW h, HistTypes(j, h), NEW x
  PROVE  HistIs([h EXCEPT !.waived = x], h.accepted, h.late, h.emitted, h.maxed, x)
  BY DEF HistTypes, HistIs

LEMMA HistFires ==
  ASSUME NEW j, NEW h, HistTypes(j, h), NEW x, NEW y
  PROVE  HistIs([h EXCEPT !.emitted = x, !.maxed = y], h.accepted, h.late, x, y, h.waived)
  BY DEF HistTypes, HistIs

LEMMA HistTyped ==
  ASSUME NEW j, NEW h, NEW a \in SUBSET IdsIn(j), NEW l \in SUBSET IdsIn(j), NEW e, NEW m,
         NEW w \in SUBSET Partitions, HistIs(h, a, l, e, m, w), h.maxed \in BOOLEAN
  PROVE  HistTypes(j, h)
  BY DEF HistTypes, HistIs

\* What the operator receives.
LEMMA Received ==
  ASSUME Types, StreamInv, NEW type, OpReceives(type)
  PROVE  /\ ch # <<>> /\ Head(ch).type = type /\ ch' = Tail(ch) /\ job' = job /\ src' = src
         /\ inj' = inj /\ op.pc = "run" /\ job \in Jobs /\ ch \in Seq(Messages(job))
         /\ Head(ch) \in Messages(job) /\ ch' \in Seq(Messages(job))
         /\ src \in SourceTypes(job) /\ src.pos \in Offsets(job)
         /\ Taken(hist) \in SUBSET IdsIn(job) /\ HistTypes(job, hist)
         /\ MarksInv(job, hist.waived, src, ch') /\ BarriersBehind(src.pos, ch')
  <1>1. /\ ch # <<>> /\ Head(ch).type = type /\ ch' = Tail(ch) /\ job' = job /\ src' = src
        /\ inj' = inj /\ op.pc = "run"
    BY DEF OpReceives
  <1>2. job \in Jobs /\ ch \in Seq(Messages(job)) /\ src \in SourceTypes(job)
        /\ HistTypes(job, hist)
    BY DEF Types
  <1>3. src.pos \in Offsets(job) /\ Taken(hist) \in SUBSET IdsIn(job)
    BY <1>2 DEF SourceTypes, HistTypes, Taken
  <1>4. Head(ch) \in Messages(job) /\ ch' \in Seq(Messages(job))
    BY <1>1, <1>2, TailIs
  <1>5. MarksInv(job, hist.waived, src, ch') /\ BarriersBehind(src.pos, ch')
    BY <1>1, <1>2, MarksTaken, CoversTakes DEF StreamInv
  <1>6. QED
    BY <1>1, <1>2, <1>3, <1>4, <1>5

LEMMA RecordStream ==
  ASSUME Types, StreamInv, OpRecord
  PROVE  Types' /\ StreamInv'
  <1> DEFINE id == Head(ch).id
  <1>1. /\ ch # <<>> /\ Head(ch).type = "record" /\ ch' = Tail(ch) /\ job' = job /\ src' = src
        /\ inj' = inj /\ op.pc = "run" /\ job \in Jobs /\ ch \in Seq(Messages(job))
        /\ Head(ch) \in Messages(job) /\ ch' \in Seq(Messages(job))
        /\ src \in SourceTypes(job) /\ src.pos \in Offsets(job)
        /\ Taken(hist) \in SUBSET IdsIn(job) /\ HistTypes(job, hist)
        /\ MarksInv(job, hist.waived, src, ch') /\ BarriersBehind(src.pos, ch')
    BY Received DEF OpRecord
  <1>2. id \in IdsIn(job)
    BY <1>1, MessagesAre
  <1>3. /\ saved' = saved
        /\ \/ /\ IsTooLate(op.wm, Rec(id).ts) /\ hist' = [hist EXCEPT !.late = @ \cup {id}]
              /\ op' = op
           \/ /\ hist' = [hist EXCEPT !.accepted = @ \cup {id}]
              /\ op' = [op EXCEPT !.wins = HandleDataRecord(@, id)]
    BY DEF OpRecord
  <1> HIDE DEF id
  <1>4. \/ /\ IsTooLate(op.wm, Rec(id).ts)
           /\ HistIs(hist', hist.accepted, hist.late \cup {id}, hist.emitted, hist.maxed,
                     hist.waived)
        \/ HistIs(hist', hist.accepted \cup {id}, hist.late, hist.emitted, hist.maxed,
                  hist.waived)
    <2>1. HistIs([hist EXCEPT !.accepted = hist.accepted \cup {id}], hist.accepted \cup {id},
                 hist.late, hist.emitted, hist.maxed, hist.waived)
      BY <1>1, HistAccepts, Zenon
    <2>2. HistIs([hist EXCEPT !.late = hist.late \cup {id}], hist.accepted,
                 hist.late \cup {id}, hist.emitted, hist.maxed, hist.waived)
      BY <1>1, HistDrops, Zenon
    <2>3. QED
      BY <1>3, <2>1, <2>2, Zenon
  <1>5. hist'.waived = hist.waived /\ Taken(hist') = Taken(hist) \cup {id}
        /\ hist'.late \subseteq hist.late \cup {id}
        /\ (hist'.late = hist.late \/ IsTooLate(op.wm, Rec(id).ts))
    BY <1>4 DEF HistIs, Taken
  <1>6. HistTypes(job, hist')
    <2>1. hist.maxed \in BOOLEAN /\ hist.accepted \in SUBSET IdsIn(job)
          /\ hist.late \in SUBSET IdsIn(job) /\ hist.waived \in SUBSET Partitions
      BY <1>1 DEF HistTypes
    <2>2. hist'.maxed = hist.maxed
      BY <1>4 DEF HistIs
    <2>3. hist.accepted \cup {id} \in SUBSET IdsIn(job) /\ hist.late \cup {id} \in SUBSET IdsIn(job)
      BY <1>2, <2>1
    <2>4. QED
      BY <1>4, <2>1, <2>2, <2>3, HistTyped
  <1>7. op \in [pc : {"run", "done", "idle"}, wm : ZeroTime .. MaxTime, wins : {op.wins}]
    BY DEF Types
  <1>8. op' \in [pc : {"run", "done", "idle"}, wm : ZeroTime .. MaxTime, wins : {op'.wins}]
        /\ op'.wm = op.wm
    BY <1>3, <1>7
  <1>9. Types'
    BY <1>1, <1>3, <1>6, <1>8 DEF Types
  <1>10. CutInv(Taken(hist'), src.pos, ch')
    BY <1>1, <1>5, CutTakes DEF StreamInv, id
  <1>11. Covers(Taken(hist'), ch')
    BY <1>1, <1>5, CoversTakes DEF StreamInv, id
  <1>12. LastMarkInv(src, ch', op.wm) /\ op.wm # MaxTime
    BY <1>1, LastMarkTakes DEF StreamInv
  <1>13. AppliedInv(job, hist.waived, Taken(hist'), op.wm)
    BY <1>5, AppliedGrows DEF StreamInv
  <1>14. LateInv(job, hist.waived, hist'.late)
    <2>1. LateInv(job, hist.waived, hist.late)
      BY DEF StreamInv
    <2>2. CASE hist'.late = hist.late
      BY <2>1, <2>2
    <2>3. CASE IsTooLate(op.wm, Rec(id).ts)
      <3>1. \A x \in Taken(hist) : x[1] = id[1] => x[2] < id[2]
        <4>1. 1 \in DOMAIN ch /\ ch[1].type = "record" /\ ch[1].id = id
          BY <1>1, TailIs DEF id
        <4>2. QED
          BY <4>1 DEF StreamInv, CutInv
      <3>2. op.wm \in ZeroTime .. MaxTime - 1
        BY <1>7, <1>12, TimesAre
      <3>3. Rec(id).ts = At(job, id)
        BY DEF Rec, At
      <3>4. \/ id[1] \in hist.waived
            \/ \E k \in 1 .. id[2] - 1 :
                 At(job, <<id[1], k>>) - OutOfOrderness - AllowedLateness > At(job, id)
        <4>1. AppliedInv(job, hist.waived, Taken(hist), op.wm) /\ IsTooLate(op.wm, At(job, id))
          BY <2>3, <3>3 DEF StreamInv
        <4>2. QED
          BY <1>1, <1>2, <3>1, <3>2, <4>1, LateIsBehind, Zenon
      <3>5. \A x \in hist'.late : x \in hist.late \/ x = id
        BY <1>5
      <3>6. QED
        BY <2>1, <3>4, <3>5 DEF LateInv
    <2>4. QED
      BY <1>5, <2>2, <2>3
  <1>15. QED
    BY <1>1, <1>3, <1>5, <1>8, <1>9, <1>10, <1>11, <1>12, <1>13, <1>14 DEF StreamInv

LEMMA WatermarkStream ==
  ASSUME Types, StreamInv, OpWatermark
  PROVE  Types' /\ StreamInv'
  <1> DEFINE wm == IF Head(ch).ts > op.wm THEN Head(ch).ts ELSE op.wm
             due == Due(op.wins, wm)
             em == hist.emitted (+) Fired(op.wins, due)
  <1>1. /\ ch # <<>> /\ Head(ch).type = "watermark" /\ ch' = Tail(ch) /\ job' = job /\ src' = src
        /\ inj' = inj /\ op.pc = "run" /\ job \in Jobs /\ ch \in Seq(Messages(job))
        /\ Head(ch) \in Messages(job) /\ ch' \in Seq(Messages(job))
        /\ src \in SourceTypes(job) /\ src.pos \in Offsets(job)
        /\ Taken(hist) \in SUBSET IdsIn(job) /\ HistTypes(job, hist)
        /\ MarksInv(job, hist.waived, src, ch') /\ BarriersBehind(src.pos, ch')
    BY Received DEF OpWatermark
  <1>2. /\ saved' = saved /\ op' = [op EXCEPT !.wm = wm, !.wins = Unfired(@, due)]
        /\ hist' = [hist EXCEPT !.emitted = em, !.maxed = @ \/ wm = MaxTime]
    BY DEF OpWatermark
  <1>3. Head(ch).ts \in ZeroTime + 1 .. MaxTime
    BY <1>1, MessagesAre
  <1>4. op \in [pc : {"run", "done", "idle"}, wm : ZeroTime .. MaxTime, wins : {op.wins}]
    BY DEF Types
  <1>5. wm \in ZeroTime .. MaxTime
    BY <1>3, <1>4, TimesAre
  <1>6. wm \in {Head(ch).ts, op.wm}
    OBVIOUS
  <1> HIDE DEF wm, due, em
  <1>7. HistIs(hist', hist.accepted, hist.late, em, hist.maxed \/ wm = MaxTime, hist.waived)
    BY <1>1, <1>2, HistFires, Zenon
  <1>8. /\ hist'.accepted = hist.accepted /\ hist'.late = hist.late
        /\ hist'.waived = hist.waived
    BY <1>7, Zenon DEF HistIs
  <1>9. hist'.maxed \in BOOLEAN
    BY <1>7, Zenon DEF HistIs
  <1>10. HistTypes(job, hist')
    <2>1. hist.accepted \in SUBSET IdsIn(job)
          /\ hist.late \in SUBSET IdsIn(job) /\ hist.waived \in SUBSET Partitions
      BY <1>1 DEF HistTypes
    <2>2. QED
      BY <1>7, <1>9, <2>1, HistTyped, Zenon
  <1>11. op' \in [pc : {"run", "done", "idle"}, wm : ZeroTime .. MaxTime, wins : {op'.wins}]
         /\ op'.wm = wm
    BY <1>2, <1>4, <1>5
  <1>12. Types'
    BY <1>1, <1>2, <1>10, <1>11 DEF Types
  <1>13. Taken(hist') = Taken(hist)
    BY <1>8 DEF Taken
  <1>14. CutInv(Taken(hist), src.pos, ch') /\ Covers(Taken(hist), ch')
    BY <1>1, CutPasses, CoversTakes DEF StreamInv
  <1>15. AppliedInv(job, hist.waived, Taken(hist), wm) /\ LastMarkInv(src, ch', wm)
    BY <1>1, <1>6, MarkApplies, LastMarkTakes DEF StreamInv
  <1>16. QED
    BY <1>1, <1>2, <1>8, <1>11, <1>12, <1>13, <1>14, <1>15 DEF StreamInv

LEMMA TakeBarrierStream ==
  ASSUME Types, StreamInv, OpBarrier
  PROVE  Types' /\ StreamInv'
  <1>1. /\ ch # <<>> /\ Head(ch).type = "barrier" /\ ch' = Tail(ch) /\ job' = job /\ src' = src
        /\ inj' = inj /\ op.pc = "run" /\ job \in Jobs /\ ch \in Seq(Messages(job))
        /\ Head(ch) \in Messages(job) /\ ch' \in Seq(Messages(job))
        /\ src \in SourceTypes(job) /\ src.pos \in Offsets(job)
        /\ Taken(hist) \in SUBSET IdsIn(job) /\ HistTypes(job, hist)
        /\ MarksInv(job, hist.waived, src, ch') /\ BarriersBehind(src.pos, ch')
    BY Received DEF OpBarrier
  <1>2. /\ op' = op /\ hist' = hist
        /\ \/ saved' = [offsets |-> Head(ch).offsets, named |-> Head(ch).named, wm |-> op.wm,
                        wins |-> op.wins, hist |-> hist]
           \/ saved' = saved
    BY DEF OpBarrier
  <1>3. Head(ch).offsets \in Offsets(job) /\ Head(ch).named \in SUBSET Partitions
    BY <1>1, MessagesAre
  <1>4. op.wm \in ZeroTime .. MaxTime
    BY DEF Types
  <1>5. saved \in [offsets : Offsets(job), named : SUBSET Partitions, wm : ZeroTime .. MaxTime,
                   wins : {saved.wins}, hist : {saved.hist}] /\ HistTypes(job, saved.hist)
    BY DEF Types
  <1>6. saved' \in [offsets : Offsets(job), named : SUBSET Partitions, wm : ZeroTime .. MaxTime,
                    wins : {saved'.wins}, hist : {saved'.hist}]
    BY <1>2, <1>3, <1>4, <1>5
  <1>7. HistTypes(job, saved'.hist)
    <2>1. saved'.hist = hist \/ saved'.hist = saved.hist
      BY <1>2
    <2>2. QED
      BY <1>1, <1>5, <2>1
  <1>8. Types'
    BY <1>1, <1>2, <1>6, <1>7 DEF Types
  <1>9. CutInv(Taken(hist), src.pos, ch') /\ Covers(Taken(hist), ch')
    BY <1>1, CutPasses, CoversTakes DEF StreamInv
  <1>10. LastMarkInv(src, ch', op.wm)
    BY <1>1, LastMarkTakes DEF StreamInv
  <1>11. Taken(hist) = UpTo(job, Head(ch).offsets)
    BY <1>1, CutAtBarrier DEF StreamInv
  <1>12. /\ Taken(saved'.hist) = UpTo(job, saved'.offsets)
         /\ AppliedInv(job, hist.waived, Taken(saved'.hist), saved'.wm)
         /\ LateInv(job, hist.waived, saved'.hist.late)
    <2>1. CASE saved' = saved
      BY <2>1 DEF StreamInv
    <2>2. CASE saved' = [offsets |-> Head(ch).offsets, named |-> Head(ch).named, wm |-> op.wm,
                         wins |-> op.wins, hist |-> hist]
      <3>1. saved'.hist = hist /\ saved'.wm = op.wm /\ saved'.offsets = Head(ch).offsets
        BY <2>2
      <3>2. QED
        BY <1>11, <3>1 DEF StreamInv
    <2>3. QED
      BY <1>2, <2>1, <2>2
  <1>13. QED
    BY <1>1, <1>2, <1>8, <1>9, <1>10, <1>12 DEF StreamInv

LEMMA FlushStream ==
  ASSUME Types, StreamInv, NEW pc \in {"done", "idle"}, Flush(pc)
  PROVE  Types' /\ StreamInv'
  <1> DEFINE em == hist.emitted (+) Fired(op.wins, DOMAIN op.wins)
  <1>1. /\ job' = job /\ src' = src /\ ch' = ch /\ saved' = saved /\ inj' = inj
        /\ op' = [op EXCEPT !.pc = pc, !.wins = <<>>]
        /\ hist' = [hist EXCEPT !.emitted = em]
    BY DEF Flush
  <1>2. HistTypes(job, hist)
        /\ op \in [pc : {"run", "done", "idle"}, wm : ZeroTime .. MaxTime, wins : {op.wins}]
    BY DEF Types
  <1> HIDE DEF em
  <1>3. HistIs(hist', hist.accepted, hist.late, em, hist.maxed, hist.waived)
    BY <1>1, <1>2, HistEmits
  <1>4. hist'.accepted = hist.accepted /\ hist'.late = hist.late /\ hist'.waived = hist.waived
        /\ hist'.maxed = hist.maxed
    BY <1>3 DEF HistIs
  <1>5. HistTypes(job, hist')
    <2>1. hist.accepted \in SUBSET IdsIn(job) /\ hist.maxed \in BOOLEAN
          /\ hist.late \in SUBSET IdsIn(job) /\ hist.waived \in SUBSET Partitions
      BY <1>2 DEF HistTypes
    <2>2. QED
      BY <1>3, <1>4, <2>1, HistTyped
  <1>6. op' \in [pc : {"run", "done", "idle"}, wm : ZeroTime .. MaxTime, wins : {op'.wins}]
        /\ op'.wm = op.wm
    BY <1>1, <1>2
  <1>7. Types'
    BY <1>1, <1>5, <1>6 DEF Types
  <1>8. Taken(hist') = Taken(hist)
    BY <1>4 DEF Taken
  <1>9. QED
    BY <1>1, <1>4, <1>6, <1>7, <1>8 DEF StreamInv

LEMMA RestartStream ==
  ASSUME Types, StreamInv, Restart, ~rewound'
  PROVE  Types' /\ StreamInv'
  <1> DEFINE wm == RestoredWatermark(saved.wm)
             M == [p \in Partitions |-> ZeroTime]
  <1>0. [p \in Partitions |-> ResumeAt(p)] = saved.offsets
    <2>1. \A p \in Partitions : ResumeAt(p) = saved.offsets[p]
      BY DEF Restart
    <2>2. saved.offsets \in [Partitions -> Nat]
      BY DEF Types, Offsets
    <2>3. QED
      BY <2>1, <2>2
  <1>1. /\ job' = job /\ ch' = <<>> /\ saved' = saved
        /\ src' = [pc |-> "run", pos |-> saved.offsets, max |-> M, idle |-> {},
                   last |-> ZeroTime]
        /\ op' = [pc |-> "run", wm |-> wm, wins |-> saved.wins]
        /\ hist' = [saved.hist EXCEPT !.waived = hist.waived]
        /\ inj' = [pc |-> "run", ticks |-> 0, named |-> {}]
    BY <1>0 DEF Restart, FreshSource
  <1>2. /\ job \in Jobs /\ HistTypes(job, hist) /\ HistTypes(job, saved.hist)
        /\ saved.offsets \in Offsets(job) /\ saved.wm \in ZeroTime .. MaxTime
    BY DEF Types
  <1>3. wm \in ZeroTime .. MaxTime - 1 /\ (wm \in {ZeroTime, Ancient} \/ wm = saved.wm)
    <2>1. StoredTime(saved.wm) \in {Ancient, saved.wm}
          /\ (saved.wm = MaxTime => StoredTime(saved.wm) = Ancient)
      BY DEF StoredTime
    <2>2. StoredTime(saved.wm) \in ZeroTime .. MaxTime - 1
      BY <1>2, <2>1, TimesAre
    <2>3. wm \in {ZeroTime, StoredTime(saved.wm)}
      BY DEF RestoredWatermark
    <2>4. QED
      BY <2>1, <2>2, <2>3, TimesAre
  <1>4. M \in [Partitions -> ZeroTime .. MaxTime - 1] /\ \A p \in Partitions : M[p] = ZeroTime
    BY TimesAre
  <1> HIDE DEF wm, M
  <1>5. src' \in SourceTypes(job) /\ src'.pos = saved.offsets /\ src'.max = M
        /\ src'.last = ZeroTime /\ src'.pc = "run"
    <2>1. ZeroTime \in ZeroTime .. MaxTime - 1
      BY TimesAre
    <2>2. QED
      BY <1>1, <1>2, <1>4, <2>1 DEF SourceTypes
  <1>6. HistIs(hist', saved.hist.accepted, saved.hist.late, saved.hist.emitted,
               saved.hist.maxed, hist.waived)
    BY <1>1, <1>2, HistWaives, Zenon
  <1>7. hist'.accepted = saved.hist.accepted /\ hist'.late = saved.hist.late
        /\ hist'.waived = hist.waived /\ hist'.maxed = saved.hist.maxed
    BY <1>6 DEF HistIs
  <1>8. HistTypes(job, hist')
    <2>1. saved.hist.accepted \in SUBSET IdsIn(job) /\ saved.hist.maxed \in BOOLEAN
          /\ saved.hist.late \in SUBSET IdsIn(job) /\ hist.waived \in SUBSET Partitions
      BY <1>2 DEF HistTypes
    <2>2. QED
      BY <1>6, <1>7, <2>1, HistTyped, Zenon
  <1>9. op' \in [pc : {"run", "done", "idle"}, wm : ZeroTime .. MaxTime, wins : {op'.wins}]
        /\ op'.wm = wm
    BY <1>1, <1>3, TimesAre
  <1>10. Types'
    <2>1. <<>> \in Seq(Messages(job))
      OBVIOUS
    <2>2. saved \in [offsets : Offsets(job), named : SUBSET Partitions, wm : ZeroTime .. MaxTime,
                     wins : {saved.wins}, hist : {saved.hist}]
      BY DEF Types
    <2>3. inj' \in Injectors
      BY <1>1 DEF Injectors
    <2>4. QED
      BY <1>1, <1>2, <1>5, <1>8, <1>9, <2>1, <2>2, <2>3 DEF Types
  <1>11. Taken(hist') = UpTo(job, saved.offsets) /\ Taken(hist') = Taken(saved.hist)
    BY <1>7 DEF Taken, StreamInv
  <1>12. DOMAIN ch' = {}
    BY <1>1
  <1>13. saved.offsets \in [Partitions -> Nat]
         /\ \A p \in Partitions : saved.offsets[p] <= Len(job.log[p])
    BY <1>2, OffsetsAre
  <1>14. CutInv(Taken(hist'), saved.offsets, ch')
    <2>1. \A id \in UpTo(job, saved.offsets) : id[2] <= saved.offsets[id[1]]
      BY DEF UpTo
    <2>2. ASSUME NEW p \in Partitions, NEW k \in 1 .. saved.offsets[p]
          PROVE  <<p, k>> \in UpTo(job, saved.offsets)
      <3>1. k \in Nat \ {0} /\ k <= Len(job.log[p]) /\ k <= saved.offsets[p]
        BY <1>2, <1>13, IdsAre
      <3>2. <<p, k>> \in IdsIn(job)
        BY <1>2, <3>1, IdsAre
      <3>3. QED
        BY <3>1, <3>2 DEF UpTo
    <2>3. QED
      BY <1>11, <1>12, <2>1, <2>2 DEF CutInv
  <1>15. Covers(Taken(hist'), ch') /\ BarriersBehind(saved.offsets, ch')
         /\ MarksInv(job, hist.waived, src', ch') /\ LastMarkInv(src', ch', wm)
    <2>1. wm # MaxTime
      BY <1>3, TimesAre
    <2>2. QED
      BY <1>12, <2>1 DEF Covers, BarriersBehind, MarksInv, LastMarkInv
  <1>16. SourceInv(job, hist.waived, src')
    BY <1>4, <1>5 DEF SourceInv
  <1>17. AppliedInv(job, hist.waived, Taken(hist'), wm)
    <2>1. AppliedInv(job, hist.waived, Taken(saved.hist), saved.wm)
      BY DEF StreamInv
    <2>2. QED
      BY <1>3, <1>11, <2>1 DEF AppliedInv
  <1>18. LateInv(job, hist.waived, saved.hist.late)
    BY DEF StreamInv
  <1>19. QED
    BY <1>1, <1>5, <1>7, <1>9, <1>10, <1>11, <1>14, <1>15, <1>16, <1>17, <1>18 DEF StreamInv

LEMMA StreamInit ==
  ASSUME Init
  PROVE  Types /\ StreamInv
  <1> DEFINE zero == [p \in Partitions |-> 0]
             M == [p \in Partitions |-> ZeroTime]
  <1>1. /\ job \in Jobs /\ ch = <<>> /\ op = [pc |-> "run", wm |-> ZeroTime, wins |-> <<>>]
        /\ src = [pc |-> "run", pos |-> zero, max |-> M, idle |-> {}, last |-> ZeroTime]
        /\ saved = [offsets |-> zero, named |-> {}, wm |-> ZeroTime, wins |-> <<>>,
                    hist |-> NoHistory]
        /\ hist = NoHistory /\ inj = [pc |-> "run", ticks |-> 0, named |-> {}]
    BY DEF Init, FreshSource
  <1>2. \A p \in Partitions : Len(job.log[p]) \in Nat
    BY <1>1, IdsAre
  <1>3. zero \in Offsets(job) /\ \A p \in Partitions : zero[p] = 0
    BY <1>2 DEF Offsets
  <1>4. M \in [Partitions -> ZeroTime .. MaxTime - 1] /\ \A p \in Partitions : M[p] = ZeroTime
    BY TimesAre
  <1> HIDE DEF zero, M
  <1>5. HistTypes(job, NoHistory) /\ Taken(NoHistory) = {} /\ NoHistory.late = {}
    BY DEF HistTypes, NoHistory, Taken
  <1>6. ZeroTime \in ZeroTime .. MaxTime - 1 /\ ZeroTime \in ZeroTime .. MaxTime
        /\ ZeroTime # MaxTime
    BY TimesAre
  <1>7. src \in SourceTypes(job)
    BY <1>1, <1>3, <1>4, <1>6 DEF SourceTypes
  <1>8. Types
    BY <1>1, <1>3, <1>5, <1>6, <1>7 DEF Types, Injectors
  <1>9. DOMAIN ch = {}
    BY <1>1
  <1>10. CutInv({}, src.pos, ch) /\ Covers({}, ch) /\ BarriersBehind(src.pos, ch)
         /\ SourceInv(job, hist.waived, src) /\ MarksInv(job, hist.waived, src, ch)
         /\ LastMarkInv(src, ch, op.wm)
    BY <1>1, <1>3, <1>4, <1>6, <1>9
       DEF CutInv, Covers, BarriersBehind, SourceInv, MarksInv, LastMarkInv
  <1>11. UpTo(job, zero) = {}
    <2>1. \A id \in IdsIn(job) : id[1] \in Partitions /\ id[2] \in Nat \ {0}
      BY <1>1, IdsAre
    <2>2. QED
      BY <1>3, <2>1 DEF UpTo
  <1>12. \A W, S : AppliedInv(job, W, S, ZeroTime) /\ LateInv(job, W, {})
    BY DEF AppliedInv, LateInv
  <1>13. QED
    BY <1>1, <1>5, <1>8, <1>10, <1>11, <1>12 DEF StreamInv

LEMMA StreamStep ==
  ASSUME Types, StreamInv, [Next]_vars, ~rewound'
  PROVE  Types' /\ StreamInv'
  <1>1. CASE \E p \in Partitions : ReadRecord(p) \/ PartitionIdles(p)
    BY <1>1, ReadStream, IdleStream
  <1>2. CASE EmitWatermark
    BY <1>2, EmitStream
  <1>3. CASE SourceEnds
    BY <1>3, EndStream
  <1>4. CASE PeriodicBarrier \/ ShutdownBarrier \/ FinalBarrier
    BY <1>4, BarrierStream DEF PeriodicBarrier, ShutdownBarrier, FinalBarrier
  <1>5. CASE OpRecord
    BY <1>5, RecordStream
  <1>6. CASE OpWatermark
    BY <1>6, WatermarkStream
  <1>7. CASE OpBarrier
    BY <1>7, TakeBarrierStream
  <1>8. CASE InputCloses \/ IdleTimeout
    BY <1>8, FlushStream DEF InputCloses, IdleTimeout
  <1>9. CASE Restart
    BY <1>9, RestartStream
  <1>10. CASE Cancel \/ Done \/ UNCHANGED vars
    <2>1. /\ job' = job /\ src' = src /\ ch' = ch /\ op' = op /\ hist' = hist /\ saved' = saved
          /\ inj' = inj
      BY <1>10 DEF Cancel, Done, vars
    <2>2. QED
      BY <2>1 DEF Types, StreamInv
  <1>11. QED
    BY <1>1, <1>2, <1>3, <1>4, <1>5, <1>6, <1>7, <1>8, <1>9, <1>10 DEF Next

\* A job that rewound once is marked for good.
LEMMA StaysRewound ==
  ASSUME [Next]_vars, rewound
  PROVE  rewound'
  BY DEF Next, vars, ReadRecord, PartitionIdles, EmitWatermark, SourceEnds, PeriodicBarrier,
         ShutdownBarrier, FinalBarrier, Barrier, OpRecord, OpWatermark, OpBarrier, OpReceives,
         InputCloses, IdleTimeout, Flush, Cancel, Restart, Done

\* The inductive invariant of the stream in front of the window operator: the
\* cut, what barriers cover, and what watermarks rest on, for the running job
\* and for its checkpoint (WatermarkSource.Run, injectBarriers, Process).
\* It holds until a restart reads a partition from its beginning again.
THEOREM StreamInvHolds == Spec => [](~rewound => Types /\ StreamInv)
  <1>1. (~rewound => Types /\ StreamInv) /\ [Next]_vars => (~rewound => Types /\ StreamInv)'
    BY StreamStep, StaysRewound
  <1>2. Init => (~rewound => Types /\ StreamInv)
    BY StreamInit
  <1>3. QED
    BY <1>1, <1>2, PTL DEF Spec

LEMMA SeenIsPrefix ==
  ASSUME NEW j \in Jobs, NEW q \in Seq(Messages(j)), NEW S \in SUBSET IdsIn(j),
         NEW pos \in Offsets(j), CutInv(S, pos, q), NEW p \in Partitions
  PROVE  \E n \in 0 .. pos[p] : \A k \in 1 .. pos[p] : <<p, k>> \in S <=> k <= n
  <1> DEFINE T == {id[2] : id \in {x \in S : x[1] = p}}
  <1>1. pos \in [Partitions -> Nat]
    BY OffsetsAre
  <1>2. \A id \in S : id[1] \in Partitions /\ id[2] \in Nat \ {0} /\ id = <<id[1], id[2]>>
                      /\ id[2] <= pos[id[1]]
    BY IdsAre DEF CutInv
  <1>3. \A k : k \in T <=> <<p, k>> \in S
    BY <1>2
  <1>4. T \in SUBSET Int /\ \A k \in T : k \in 1 .. pos[p]
    BY <1>1, <1>2
  <1> HIDE DEF T
  <1>5. CASE T = {}
    <2>1. 0 \in 0 .. pos[p] /\ \A k \in 1 .. pos[p] : <<p, k>> \in S <=> k <= 0
      BY <1>1, <1>3, <1>5
    <2>2. QED
      BY <2>1
  <1>6. CASE T # {}
    <2> DEFINE n == HighOf(T)
    <2>1. n \in T /\ \A k \in T : k <= n
      <3>1. pos[p] \in Int /\ \A k \in T : k <= pos[p]
        BY <1>1, <1>4
      <3>2. QED
        BY <1>4, <1>6, <3>1, HighOfIs
    <2> HIDE DEF n
    <2>2. n \in 0 .. pos[p] /\ <<p, n>> \in S
      BY <1>1, <1>3, <1>4, <2>1
    <2>3. ASSUME NEW k \in 1 .. pos[p], k <= n
          PROVE  <<p, k>> \in S
      <3>1. ASSUME NEW i \in DOMAIN q, q[i].type = "record", q[i].id = <<p, k>>
            PROVE  FALSE
        <4>1. n < k
          BY <2>2, <3>1 DEF CutInv
        <4>2. QED
          BY <1>1, <2>2, <2>3, <4>1
      <3>2. QED
        BY <3>1 DEF CutInv
    <2>4. \A k \in 1 .. pos[p] : <<p, k>> \in S => k <= n
      BY <1>3, <2>1
    <2>5. QED
      BY <2>2, <2>3, <2>4
  <1>7. QED
    BY <1>5, <1>6

\* The offsets of a checkpoint name exactly the records its window state has
\* seen, and nothing is lost, repeated or reordered on the way to the operator:
\* for every job and every number of restarts that rewind no partition
\* (injectBarriers, Snapshot, Restore).
THEOREM CutIsExactHolds == Spec => []CutIsExact
  <1>1. (~rewound => Types /\ StreamInv) => CutIsExact
    <2> SUFFICES ASSUME ~rewound, Types, StreamInv, NEW p \in Partitions
                 PROVE  /\ Seen(saved.hist, p) = {p} \X (1 .. saved.offsets[p])
                        /\ \E n \in 0 .. src.pos[p] :
                             /\ Seen(hist, p) = {p} \X (1 .. n)
                             /\ {ch[i].id : i \in Queued(p)} = {p} \X (n + 1 .. src.pos[p])
                        /\ \A i, j \in Queued(p) : i < j => ch[i].id[2] < ch[j].id[2]
      BY DEF CutIsExact
    <2>1. /\ job \in Jobs /\ ch \in Seq(Messages(job)) /\ src.pos \in Offsets(job)
          /\ Taken(hist) \in SUBSET IdsIn(job) /\ Taken(saved.hist) \in SUBSET IdsIn(job)
          /\ saved.offsets \in Offsets(job)
      BY DEF Types, HistTypes, Taken, SourceTypes
    <2>2. \A id \in IdsIn(job) :
            id[1] \in Partitions /\ id[2] \in Nat \ {0} /\ id = <<id[1], id[2]>>
      BY <2>1, IdsAre
    <2>3. Len(job.log[p]) \in Nat /\ \A k \in Nat \ {0} : k <= Len(job.log[p]) => <<p, k>> \in IdsIn(job)
      BY <2>1, IdsAre
    <2>4. saved.offsets[p] \in Nat /\ saved.offsets[p] <= Len(job.log[p])
          /\ src.pos[p] \in Nat /\ src.pos[p] <= Len(job.log[p])
      BY <2>1, OffsetsAre
    <2>5. Seen(saved.hist, p) = {p} \X (1 .. saved.offsets[p])
      <3>1. Seen(saved.hist, p) = {id \in IdsIn(job) : id[2] <= saved.offsets[id[1]] /\ id[1] = p}
        BY DEF Seen, Taken, StreamInv, UpTo
      <3>2. ASSUME NEW id \in Seen(saved.hist, p)
            PROVE  id \in {p} \X (1 .. saved.offsets[p])
        BY <2>2, <2>4, <3>1
      <3>3. ASSUME NEW id \in {p} \X (1 .. saved.offsets[p])
            PROVE  id \in Seen(saved.hist, p)
        <4>1. id = <<p, id[2]>> /\ id[2] \in Nat \ {0} /\ id[2] <= saved.offsets[p]
          BY <2>4
        <4>2. id \in IdsIn(job)
          BY <2>3, <2>4, <4>1
        <4>3. QED
          BY <3>1, <4>1, <4>2
      <3>4. QED
        BY <3>2, <3>3
    <2>6. PICK n \in 0 .. src.pos[p] : \A k \in 1 .. src.pos[p] : <<p, k>> \in Taken(hist) <=> k <= n
      <3>1. CutInv(Taken(hist), src.pos, ch)
        BY DEF StreamInv
      <3>2. QED
        BY <2>1, <3>1, SeenIsPrefix, Zenon
    <2>7. \A id \in Taken(hist) : id[2] <= src.pos[id[1]]
      BY DEF StreamInv, CutInv
    <2>8. Seen(hist, p) = {id \in Taken(hist) : id[1] = p}
      BY DEF Seen, Taken
    <2>9. Seen(hist, p) = {p} \X (1 .. n)
      <3>1. ASSUME NEW id \in Seen(hist, p)
            PROVE  id \in {p} \X (1 .. n)
        <4>1. id = <<p, id[2]>> /\ id[2] \in 1 .. src.pos[p] /\ <<p, id[2]>> \in Taken(hist)
          BY <2>1, <2>2, <2>4, <2>7, <2>8
        <4>2. id[2] <= n
          BY <2>6, <4>1
        <4>3. QED
          BY <2>4, <4>1, <4>2
      <3>2. ASSUME NEW id \in {p} \X (1 .. n)
            PROVE  id \in Seen(hist, p)
        <4>1. id = <<p, id[2]>> /\ id[2] \in 1 .. src.pos[p] /\ id[2] <= n
          BY <2>4
        <4>2. <<p, id[2]>> \in Taken(hist)
          BY <2>6, <4>1
        <4>3. QED
          BY <2>8, <4>1, <4>2
      <3>3. QED
        BY <3>1, <3>2
    <2>10. \A i \in Queued(p) : i \in DOMAIN ch /\ ch[i].type = "record" /\ ch[i].id[1] = p
                                /\ ch[i].id \in IdsIn(job)
      <3>1. \A i \in DOMAIN ch : ch[i] \in Messages(job)
        BY <2>1
      <3>2. QED
        BY <3>1, MessagesAre DEF Queued
    <2>11. {ch[i].id : i \in Queued(p)} = {p} \X (n + 1 .. src.pos[p])
      <3>1. ASSUME NEW i \in Queued(p)
            PROVE  ch[i].id \in {p} \X (n + 1 .. src.pos[p])
        <4>1. ch[i].id = <<p, ch[i].id[2]>> /\ ch[i].id[2] \in Nat \ {0}
          BY <2>2, <2>10
        <4>2. ch[i].id[2] <= src.pos[p] /\ \A id \in Taken(hist) : id[1] = p => id[2] < ch[i].id[2]
          BY <2>10 DEF StreamInv, CutInv
        <4>3. ch[i].id[2] \in 1 .. src.pos[p] /\ ~(<<p, ch[i].id[2]>> \in Taken(hist))
          BY <2>4, <4>1, <4>2
        <4>4. ~(ch[i].id[2] <= n)
          BY <2>6, <4>3
        <4>5. ch[i].id[2] \in n + 1 .. src.pos[p]
          BY <2>4, <4>3, <4>4
        <4>6. <<p, ch[i].id[2]>> \in {p} \X (n + 1 .. src.pos[p])
          BY <4>5
        <4>7. QED
          BY <4>1, <4>6
      <3>2. ASSUME NEW id \in {p} \X (n + 1 .. src.pos[p])
            PROVE  \E i \in Queued(p) : ch[i].id = id
        <4>1. id = <<p, id[2]>> /\ id[2] \in 1 .. src.pos[p] /\ ~(id[2] <= n)
          BY <2>4
        <4>2. ~(<<p, id[2]>> \in Taken(hist))
          BY <2>6, <4>1
        <4>3. PICK i \in DOMAIN ch : ch[i].type = "record" /\ ch[i].id = <<p, id[2]>>
          BY <4>1, <4>2 DEF StreamInv, CutInv
        <4>4. ch[i].id[1] = p
          BY <4>3
        <4>5. QED
          BY <4>1, <4>3, <4>4 DEF Queued
      <3>3. QED
        BY <3>1, <3>2
    <2>12. \A i, j \in Queued(p) : i < j => ch[i].id[2] < ch[j].id[2]
      BY <2>10 DEF StreamInv, CutInv
    <2>13. QED
      BY <2>5, <2>9, <2>11, <2>12
  <1>2. QED
    BY <1>1, StreamInvHolds, PTL

\* A record is dropped as late only behind one its own partition has shown, or
\* because its partition was passed over: for every job, bound on disorder and
\* allowed lateness (partitionWatermark, isTooLate).
THEOREM LateOnlyWhenBehindHolds == Spec => []LateOnlyWhenBehind
  <1>1. (~rewound => Types /\ StreamInv) => LateOnlyWhenBehind
    <2> SUFFICES ASSUME ~rewound, Types, StreamInv, NEW id \in hist.late
                 PROVE  \/ id[1] \in hist.waived
                        \/ \E j \in 1 .. id[2] - 1 :
                             Rec(<<id[1], j>>).ts - OutOfOrderness - AllowedLateness > Rec(id).ts
      BY DEF LateOnlyWhenBehind
    <2>1. \A k : Rec(<<id[1], k>>).ts = At(job, <<id[1], k>>)
      BY DEF Rec, At
    <2>2. Rec(id).ts = At(job, id)
      BY DEF Rec, At
    <2>3. \/ id[1] \in hist.waived
          \/ \E k \in 1 .. id[2] - 1 :
               At(job, <<id[1], k>>) - OutOfOrderness - AllowedLateness > At(job, id)
      BY DEF StreamInv, LateInv
    <2>4. QED
      BY <2>1, <2>2, <2>3
  <1>2. QED
    BY <1>1, StreamInvHolds, PTL

-----------------------------------------------------------------------------
(* The windows.                                                            *)

KeyOf(j, id) == j.log[id[1]][id[2]].key

\* The windows record id belongs to, as TrueWindows has them.
WindowsOf(j, id) ==
  LET step == IF j.kind = "sliding" THEN Slide ELSE Size
  IN  {[key |-> KeyOf(j, id), start |-> s, end |-> s + Size] :
         s \in {x \in (At(j, id) - Size + 1) .. At(j, id) : (x - Offset) % step = 0}}

\* Window w is the session of the records I: it spans them and the gap behind the
\* last one, and the next record is never as far as the gap away.
SessionOf(j, w, I) ==
  /\ w.start \in Int /\ w.end \in Int
  /\ \A id \in I : /\ KeyOf(j, id) = w.key
                   /\ w.start <= At(j, id) /\ At(j, id) + Size <= w.end
  /\ \E id \in I : At(j, id) = w.start
  /\ \E id \in I : At(j, id) + Size = w.end
  /\ \A id \in I : At(j, id) + Size # w.end =>
       \E x \in I : At(j, id) < At(j, x) /\ At(j, x) < At(j, id) + Size

Holds(j, w, I) ==
  IF j.kind = "session" THEN SessionOf(j, w, I) ELSE \A id \in I : w \in WindowsOf(j, id)

Ones(B) == B = SetToBag(DOMAIN B)

\* Windows are not empty and hold accepted records, each once.
Counted(acc, em, wins) ==
  /\ \A w \in DOMAIN wins :
       /\ DOMAIN wins[w] # {} /\ DOMAIN wins[w] \subseteq acc /\ Ones(wins[w])
  /\ Ones(em)
  /\ \A e \in DOMAIN em :
       /\ e = [win |-> e.win, ids |-> e.ids]
       /\ DOMAIN e.ids # {} /\ DOMAIN e.ids \subseteq acc /\ Ones(e.ids)

\* Two windows that may not share a record: any two sessions, or one window and
\* an earlier life of it.
Same(j, v, w) == j.kind = "session" \/ v = w

Apart(j, em, wins) ==
  /\ \A e \in DOMAIN em : \A w \in DOMAIN wins :
       Same(j, e.win, w) => DOMAIN e.ids \cap DOMAIN wins[w] = {}
  /\ \A e \in DOMAIN em : \A f \in DOMAIN em :
       e # f /\ Same(j, e.win, f.win) => DOMAIN e.ids \cap DOMAIN f.ids = {}
  /\ \A v \in DOMAIN wins : \A w \in DOMAIN wins :
       v # w /\ Same(j, v, w) => DOMAIN wins[v] \cap DOMAIN wins[w] = {}

\* Every window holds records of its own.
Placed(j, em, wins) ==
  /\ \A w \in DOMAIN wins : Holds(j, w, DOMAIN wins[w])
  /\ \A e \in DOMAIN em : Holds(j, e.win, DOMAIN e.ids)

\* An accepted record is in a session, or in each of its windows.
Covered(j, acc, em, wins) ==
  \A id \in acc :
    IF j.kind = "session"
    THEN \/ \E w \in DOMAIN wins : id \in DOMAIN wins[w]
         \/ \E e \in DOMAIN em : id \in DOMAIN e.ids
    ELSE \A v \in WindowsOf(j, id) :
           \/ v \in DOMAIN wins /\ id \in DOMAIN wins[v]
           \/ \E e \in DOMAIN em : e.win = v /\ id \in DOMAIN e.ids

Disjoint(j, wins) ==
  j.kind = "session" =>
    \A v \in DOMAIN wins : \A w \in DOMAIN wins :
      v # w /\ v.key = w.key => ~Overlap(v, w)

SharedOut(j, acc, em, wins) ==
  /\ Counted(acc, em, wins) /\ Apart(j, em, wins) /\ Placed(j, em, wins)
  /\ Covered(j, acc, em, wins) /\ Disjoint(j, wins)

\* Open windows have not ended,
OpenAhead(wins, wm) == \A w \in DOMAIN wins : w.end + AllowedLateness > wm

\* fired ones have, and open sessions lie behind the fired ones of their key.
FiredBehind(j, em, wins, wm) ==
  /\ \A e \in DOMAIN em : e.win.end + AllowedLateness <= wm
  /\ j.kind = "session" =>
       \A e \in DOMAIN em : \A w \in DOMAIN wins :
         e.win.key = w.key => e.win.end <= w.start

ClashIn(j, a, b) == a.key = b.key /\ IF j.kind = "session" THEN Overlap(a, b) ELSE a = b

NoClash(j, em) ==
  \A e \in DOMAIN em : \A f \in DOMAIN em : e # f => ~ClashIn(j, e.win, f.win)

\* The windows of an operator: they share the records out, and until a last
\* watermark has been processed the fired ones stay closed.
Windows(j, acc, em, maxed, pc, wins, wm) ==
  /\ SharedOut(j, acc, em, wins) /\ OpenAhead(wins, wm)
  /\ pc # "run" => DOMAIN wins = {}
  /\ ~maxed => /\ NoClash(j, em)
               /\ pc = "run" => wm # MaxTime /\ FiredBehind(j, em, wins, wm)

WindowInv ==
  /\ Windows(job, hist.accepted, hist.emitted, hist.maxed, op.pc, op.wins, op.wm)
  /\ Windows(job, saved.hist.accepted, saved.hist.emitted, saved.hist.maxed, "run",
             saved.wins, saved.wm)

\* Bags without repetition.
LEMMA BagGrows ==
  ASSUME NEW B, NEW T, Ones(B), DOMAIN B \cap T = {}
  PROVE  /\ DOMAIN (B (+) SetToBag(T)) = DOMAIN B \cup T
         /\ Ones(B (+) SetToBag(T))
  <1>1. \A e \in DOMAIN B : B[e] = 1
    BY DEF SetToBag, Ones
  <1>2. DOMAIN SetToBag(T) = T /\ \A e \in T : SetToBag(T)[e] = 1
    BY DEF SetToBag
  <1>3. \A e \in DOMAIN B \cup T :
          (IF e \in DOMAIN B THEN B[e] ELSE 0) + (IF e \in T THEN SetToBag(T)[e] ELSE 0) = 1
    BY <1>1, <1>2
  <1>4. B (+) SetToBag(T) = [e \in DOMAIN B \cup T |-> 1]
    BY <1>2, <1>3 DEF (+)
  <1>5. DOMAIN (B (+) SetToBag(T)) = DOMAIN B \cup T
    BY <1>4
  <1>6. QED
    BY <1>4, <1>5 DEF Ones, SetToBag

LEMMA EmptyBagIs == DOMAIN EmptyBag = {} /\ Ones(EmptyBag)
  BY DEF EmptyBag, SetToBag, Ones

-----------------------------------------------------------------------------
(* Firing windows moves them from the open to the fired ones.              *)

Entries(wins, D) == {[win |-> w, ids |-> wins[w]] : w \in D}

LEMMA EntriesAre ==
  ASSUME NEW wins, NEW D
  PROVE  /\ \A e \in Entries(wins, D) : e.win \in D /\ e.ids = wins[e.win]
                                        /\ e = [win |-> e.win, ids |-> e.ids]
         /\ \A w \in D : \E e \in Entries(wins, D) : e.win = w
  <1>1. ASSUME NEW e \in Entries(wins, D)
        PROVE  e.win \in D /\ e.ids = wins[e.win] /\ e = [win |-> e.win, ids |-> e.ids]
    <2>1. PICK w \in D : e = [win |-> w, ids |-> wins[w]]
      BY DEF Entries
    <2>2. e.win = w /\ e.ids = wins[w]
      BY <2>1
    <2>3. QED
      BY <2>1, <2>2
  <1>2. ASSUME NEW w \in D
        PROVE  \E e \in Entries(wins, D) : e.win = w
    <2>1. [win |-> w, ids |-> wins[w]] \in Entries(wins, D)
      BY DEF Entries
    <2>2. [win |-> w, ids |-> wins[w]].win = w
      OBVIOUS
    <2>3. QED
      BY <2>1, <2>2
  <1>3. QED
    BY <1>1, <1>2

LEMMA UnfiredIs ==
  ASSUME NEW wins, NEW D
  PROVE  /\ DOMAIN Unfired(wins, D) = DOMAIN wins \ D
         /\ \A w \in DOMAIN wins \ D : Unfired(wins, D)[w] = wins[w]
  BY DEF Unfired

LEMMA FiringCounts ==
  ASSUME NEW j, NEW acc, NEW em, NEW wins, NEW D \in SUBSET DOMAIN wins,
         Counted(acc, em, wins), Apart(j, em, wins)
  PROVE  /\ DOMAIN (em (+) Fired(wins, D)) = DOMAIN em \cup Entries(wins, D)
         /\ DOMAIN em \cap Entries(wins, D) = {}
         /\ Counted(acc, em (+) Fired(wins, D), Unfired(wins, D))
  <1> DEFINE F == Entries(wins, D)
             B == em (+) Fired(wins, D)
             U == Unfired(wins, D)
  <1>1. Fired(wins, D) = SetToBag(F)
    BY DEF Fired, Entries
  <1>2. \A e \in F : e.win \in D /\ e.ids = wins[e.win] /\ e = [win |-> e.win, ids |-> e.ids]
    BY EntriesAre
  <1>3. DOMAIN U = DOMAIN wins \ D /\ \A w \in DOMAIN wins \ D : U[w] = wins[w]
    BY UnfiredIs
  <1> HIDE DEF F, U
  <1>4. ASSUME NEW e \in DOMAIN em, e \in F
        PROVE  FALSE
    <2>1. e.win \in DOMAIN wins /\ e.ids = wins[e.win] /\ DOMAIN e.ids # {}
      BY <1>2, <1>4 DEF Counted
    <2>2. Same(j, e.win, e.win)
      BY DEF Same
    <2>3. QED
      BY <2>1, <2>2 DEF Apart
  <1>5. DOMAIN em \cap F = {}
    BY <1>4
  <1>6. Ones(em)
    BY DEF Counted
  <1>7. DOMAIN B = DOMAIN em \cup F /\ Ones(B)
    BY <1>1, <1>5, <1>6, BagGrows
  <1> HIDE DEF B
  <1>8. \A w \in DOMAIN wins :
          DOMAIN wins[w] # {} /\ DOMAIN wins[w] \subseteq acc /\ Ones(wins[w])
    BY DEF Counted
  <1>9. \A w \in DOMAIN U : DOMAIN U[w] # {} /\ DOMAIN U[w] \subseteq acc /\ Ones(U[w])
    BY <1>3, <1>8
  <1>10. ASSUME NEW e \in DOMAIN B
         PROVE  /\ e = [win |-> e.win, ids |-> e.ids]
                /\ DOMAIN e.ids # {} /\ DOMAIN e.ids \subseteq acc /\ Ones(e.ids)
    <2>1. CASE e \in F
      <3>1. e.win \in DOMAIN wins /\ e.ids = wins[e.win] /\ e = [win |-> e.win, ids |-> e.ids]
        BY <1>2, <2>1
      <3>2. QED
        BY <1>8, <3>1
    <2>2. CASE e \in DOMAIN em
      BY <2>2 DEF Counted
    <2>3. QED
      BY <1>7, <2>1, <2>2
  <1>11. Counted(acc, B, U)
    BY <1>7, <1>9, <1>10 DEF Counted
  <1>12. QED
    BY <1>5, <1>7, <1>11 DEF F, B, U

LEMMA FiringShares ==
  ASSUME NEW j, NEW acc, NEW em, NEW wins, NEW D \in SUBSET DOMAIN wins,
         SharedOut(j, acc, em, wins)
  PROVE  SharedOut(j, acc, em (+) Fired(wins, D), Unfired(wins, D))
  <1> DEFINE F == Entries(wins, D)
             B == em (+) Fired(wins, D)
             U == Unfired(wins, D)
  <1>1. Counted(acc, em, wins) /\ Apart(j, em, wins) /\ Placed(j, em, wins)
        /\ Covered(j, acc, em, wins) /\ Disjoint(j, wins)
    BY DEF SharedOut
  <1>2. DOMAIN B = DOMAIN em \cup F /\ Counted(acc, B, U)
    BY <1>1, FiringCounts
  <1>3. \A e \in F : e.win \in D /\ e.win \in DOMAIN wins /\ e.ids = wins[e.win]
                     /\ e = [win |-> e.win, ids |-> e.ids]
    BY EntriesAre
  <1>4. \A w \in D : \E e \in F : e.win = w
    BY EntriesAre
  <1>5. DOMAIN U = DOMAIN wins \ D /\ \A w \in DOMAIN wins \ D : U[w] = wins[w]
    BY UnfiredIs
  <1> HIDE DEF F, B, U
  <1>6. \A w \in DOMAIN U : w \in DOMAIN wins /\ w \notin D /\ U[w] = wins[w]
    BY <1>5
  <1>7. \A e \in DOMAIN B : \A w \in DOMAIN U :
          Same(j, e.win, w) => DOMAIN e.ids \cap DOMAIN U[w] = {}
    <2> SUFFICES ASSUME NEW e \in DOMAIN B, NEW w \in DOMAIN U, Same(j, e.win, w)
                 PROVE  DOMAIN e.ids \cap DOMAIN U[w] = {}
      OBVIOUS
    <2>1. CASE e \in F
      <3>1. e.win \in DOMAIN wins /\ e.ids = wins[e.win] /\ e.win # w
        BY <1>3, <1>6, <2>1
      <3>2. QED
        BY <1>1, <1>6, <3>1 DEF Apart
    <2>2. CASE e \in DOMAIN em
      BY <1>1, <1>6, <2>2 DEF Apart
    <2>3. QED
      BY <1>2, <2>1, <2>2
  <1>8. \A e \in DOMAIN B : \A f \in DOMAIN B :
          e # f /\ Same(j, e.win, f.win) => DOMAIN e.ids \cap DOMAIN f.ids = {}
    <2> SUFFICES ASSUME NEW e \in DOMAIN B, NEW f \in DOMAIN B, e # f, Same(j, e.win, f.win)
                 PROVE  DOMAIN e.ids \cap DOMAIN f.ids = {}
      OBVIOUS
    <2>1. CASE e \in F /\ f \in F
      <3>1. e.win # f.win
        BY <1>3, <2>1
      <3>2. QED
        BY <1>1, <1>3, <2>1, <3>1 DEF Apart
    <2>2. CASE e \in DOMAIN em /\ f \in F
      BY <1>1, <1>3, <2>2 DEF Apart
    <2>3. CASE e \in F /\ f \in DOMAIN em
      <3>1. Same(j, f.win, e.win)
        BY DEF Same
      <3>2. DOMAIN f.ids \cap DOMAIN e.ids = {}
        BY <1>1, <1>3, <2>3, <3>1 DEF Apart
      <3>3. QED
        BY <3>2
    <2>4. CASE e \in DOMAIN em /\ f \in DOMAIN em
      BY <1>1, <2>4 DEF Apart
    <2>5. QED
      BY <1>2, <2>1, <2>2, <2>3, <2>4
  <1>9. \A v \in DOMAIN U : \A w \in DOMAIN U :
          v # w /\ Same(j, v, w) => DOMAIN U[v] \cap DOMAIN U[w] = {}
    BY <1>1, <1>6 DEF Apart
  <1>10. Apart(j, B, U)
    BY <1>7, <1>8, <1>9 DEF Apart
  <1>11. Placed(j, B, U)
    <2>1. \A w \in DOMAIN U : Holds(j, w, DOMAIN U[w])
      BY <1>1, <1>6 DEF Placed
    <2>2. \A e \in DOMAIN B : Holds(j, e.win, DOMAIN e.ids)
      BY <1>1, <1>2, <1>3 DEF Placed
    <2>3. QED
      BY <2>1, <2>2 DEF Placed
  <1>12. Disjoint(j, U)
    BY <1>1, <1>6 DEF Disjoint
  <1>13. ASSUME NEW w \in DOMAIN wins
         PROVE  \/ w \in DOMAIN U /\ U[w] = wins[w]
                \/ \E e \in DOMAIN B : e.win = w /\ e.ids = wins[w]
    BY <1>2, <1>3, <1>4, <1>5
  <1>14. Covered(j, acc, B, U)
    <2> SUFFICES ASSUME NEW id \in acc
                 PROVE  IF j.kind = "session"
                        THEN \/ \E w \in DOMAIN U : id \in DOMAIN U[w]
                             \/ \E e \in DOMAIN B : id \in DOMAIN e.ids
                        ELSE \A v \in WindowsOf(j, id) :
                               \/ v \in DOMAIN U /\ id \in DOMAIN U[v]
                               \/ \E e \in DOMAIN B : e.win = v /\ id \in DOMAIN e.ids
      BY DEF Covered
    <2>1. \A e \in DOMAIN em : e \in DOMAIN B
      BY <1>2
    <2>2. CASE j.kind = "session"
      <3>1. CASE \E w \in DOMAIN wins : id \in DOMAIN wins[w]
        BY <1>13, <2>2, <3>1
      <3>2. CASE \E e \in DOMAIN em : id \in DOMAIN e.ids
        BY <2>1, <2>2, <3>2
      <3>3. QED
        BY <1>1, <2>2, <3>1, <3>2 DEF Covered
    <2>3. CASE j.kind # "session"
      <3>1. ASSUME NEW v \in WindowsOf(j, id)
            PROVE  \/ v \in DOMAIN U /\ id \in DOMAIN U[v]
                   \/ \E e \in DOMAIN B : e.win = v /\ id \in DOMAIN e.ids
        <4>1. \/ v \in DOMAIN wins /\ id \in DOMAIN wins[v]
              \/ \E e \in DOMAIN em : e.win = v /\ id \in DOMAIN e.ids
          BY <1>1, <2>3 DEF Covered
        <4>2. QED
          BY <1>13, <2>1, <4>1
      <3>2. QED
        BY <2>3, <3>1
    <2>4. QED
      BY <2>2, <2>3
  <1>15. QED
    BY <1>2, <1>10, <1>11, <1>12, <1>14 DEF SharedOut, B, U

LEMMA FiredAre ==
  ASSUME NEW j, NEW acc, NEW em, NEW wins, NEW D \in SUBSET DOMAIN wins,
         SharedOut(j, acc, em, wins)
  PROVE  DOMAIN (em (+) Fired(wins, D)) = DOMAIN em \cup Entries(wins, D)
  BY FiringCounts DEF SharedOut

-----------------------------------------------------------------------------
(* What has fired stays behind the watermark.                              *)

LEMMA WindowsOfAre ==
  ASSUME NEW j \in Jobs, NEW id \in IdsIn(j), NEW w \in WindowsOf(j, id)
  PROVE  /\ w.start \in Int /\ w.end = w.start + Size /\ w.key = KeyOf(j, id)
         /\ w.start <= At(j, id) /\ At(j, id) < w.end
  <1> DEFINE step == IF j.kind = "sliding" THEN Slide ELSE Size
             X == {x \in (At(j, id) - Size + 1) .. At(j, id) : (x - Offset) % step = 0}
  <1>1. PICK s \in X : w = [key |-> KeyOf(j, id), start |-> s, end |-> s + Size]
    BY DEF WindowsOf
  <1>2. At(j, id) \in Int /\ Size \in Nat \ {0}
    BY IdsAre, TimeParameters, TimesAre
  <1>3. s \in Int /\ s <= At(j, id) /\ At(j, id) < s + Size
    BY <1>2
  <1>4. w.start = s /\ w.end = s + Size /\ w.key = KeyOf(j, id)
    BY <1>1
  <1>5. QED
    BY <1>3, <1>4

LEMMA WindowBounds ==
  ASSUME NEW j \in Jobs, NEW w, NEW I \in SUBSET IdsIn(j), I # {}, Holds(j, w, I)
  PROVE  /\ w.start \in Int /\ w.end \in Int /\ w.start < w.end /\ Ancient < w.end
  <1>1. PICK id \in I : TRUE
    OBVIOUS
  <1>2. At(j, id) \in Ancient + 1 .. MaxTime - 1 /\ id \in IdsIn(j)
    BY IdsAre
  <1>3. Size \in Nat \ {0}
    BY TimeParameters
  <1>4. CASE j.kind = "session"
    <2>1. w.start \in Int /\ w.end \in Int /\ w.start <= At(j, id) /\ At(j, id) + Size <= w.end
      BY <1>4 DEF Holds, SessionOf
    <2>2. QED
      BY <1>2, <1>3, <2>1, TimesAre
  <1>5. CASE j.kind # "session"
    <2>1. w \in WindowsOf(j, id)
      BY <1>5 DEF Holds
    <2>2. QED
      BY <1>2, <1>3, <2>1, WindowsOfAre, TimesAre
  <1>6. QED
    BY <1>4, <1>5

LEMMA AllBounds ==
  ASSUME NEW j \in Jobs, NEW acc \in SUBSET IdsIn(j), NEW em, NEW wins,
         SharedOut(j, acc, em, wins)
  PROVE  /\ \A w \in DOMAIN wins :
              w.start \in Int /\ w.end \in Int /\ w.start < w.end /\ Ancient < w.end
         /\ \A e \in DOMAIN em :
              /\ e.win.start \in Int /\ e.win.end \in Int /\ e.win.start < e.win.end
              /\ Ancient < e.win.end
  <1>1. Counted(acc, em, wins) /\ Placed(j, em, wins)
    BY DEF SharedOut
  <1>2. ASSUME NEW w \in DOMAIN wins
        PROVE  w.start \in Int /\ w.end \in Int /\ w.start < w.end /\ Ancient < w.end
    <2>1. DOMAIN wins[w] \in SUBSET IdsIn(j) /\ DOMAIN wins[w] # {}
          /\ Holds(j, w, DOMAIN wins[w])
      BY <1>1 DEF Counted, Placed
    <2>2. QED
      BY <2>1, WindowBounds
  <1>3. ASSUME NEW e \in DOMAIN em
        PROVE  /\ e.win.start \in Int /\ e.win.end \in Int /\ e.win.start < e.win.end
               /\ Ancient < e.win.end
    <2>1. DOMAIN e.ids \in SUBSET IdsIn(j) /\ DOMAIN e.ids # {}
          /\ Holds(j, e.win, DOMAIN e.ids)
      BY <1>1 DEF Counted, Placed
    <2>2. QED
      BY <2>1, WindowBounds
  <1>4. QED
    BY <1>2, <1>3

\* Windows fire next to fired ones without clashing with them.
LEMMA FiringClashesNot ==
  ASSUME NEW j \in Jobs, NEW acc \in SUBSET IdsIn(j), NEW em, NEW wins,
         NEW D \in SUBSET DOMAIN wins, NEW wm \in Int, SharedOut(j, acc, em, wins),
         OpenAhead(wins, wm), FiredBehind(j, em, wins, wm), NoClash(j, em)
  PROVE  NoClash(j, em (+) Fired(wins, D))
  <1> DEFINE F == Entries(wins, D)
             B == em (+) Fired(wins, D)
  <1>1. DOMAIN B = DOMAIN em \cup F
    <2>1. \A X \in SUBSET DOMAIN wins :
            DOMAIN (em (+) Fired(wins, X)) = DOMAIN em \cup Entries(wins, X)
      BY FiredAre
    <2>2. QED
      BY <2>1
  <1>2. \A e \in F : e.win \in DOMAIN wins /\ e.ids = wins[e.win]
                     /\ e = [win |-> e.win, ids |-> e.ids]
    BY EntriesAre
  <1>3. AllowedLateness \in Nat
    BY TimeParameters
  <1>4. /\ \A w \in DOMAIN wins : w.start \in Int /\ w.end \in Int /\ w.start < w.end
        /\ \A e \in DOMAIN em : e.win.start \in Int /\ e.win.end \in Int
    BY AllBounds
  <1> HIDE DEF F, B
  <1>5. ASSUME NEW e \in DOMAIN em, NEW f \in F
        PROVE  ~ClashIn(j, e.win, f.win) /\ ~ClashIn(j, f.win, e.win)
    <2>1. f.win \in DOMAIN wins
      BY <1>2
    <2>2. CASE j.kind = "session"
      <3>1. e.win.key = f.win.key => e.win.end <= f.win.start
        BY <2>1, <2>2 DEF FiredBehind
      <3>2. QED
        BY <1>4, <2>1, <2>2, <3>1 DEF ClashIn, Overlap
    <2>3. CASE j.kind # "session"
      <3>1. e.win.end + AllowedLateness <= wm /\ f.win.end + AllowedLateness > wm
        BY <2>1 DEF FiredBehind, OpenAhead
      <3>2. e.win # f.win
        BY <1>3, <1>4, <2>1, <3>1
      <3>3. QED
        BY <2>3, <3>2 DEF ClashIn
    <2>4. QED
      BY <2>2, <2>3
  <1>6. ASSUME NEW e \in F, NEW f \in F, e # f
        PROVE  ~ClashIn(j, e.win, f.win)
    <2>1. e.win \in DOMAIN wins /\ f.win \in DOMAIN wins /\ e.win # f.win
      BY <1>2, <1>6
    <2>2. QED
      BY <2>1 DEF ClashIn, SharedOut, Disjoint
  <1>7. QED
    BY <1>1, <1>5, <1>6 DEF NoClash, B

\* The watermark advances and what is due fires.
LEMMA FiringCloses ==
  ASSUME NEW j \in Jobs, NEW acc \in SUBSET IdsIn(j), NEW em, NEW wins,
         NEW wm \in Int, NEW new \in Int, wm <= new, SharedOut(j, acc, em, wins),
         FiredBehind(j, em, wins, wm)
  PROVE  FiredBehind(j, em (+) Fired(wins, Due(wins, new)), Unfired(wins, Due(wins, new)), new)
  <1> DEFINE D == Due(wins, new)
             F == Entries(wins, D)
             B == em (+) Fired(wins, D)
             U == Unfired(wins, D)
  <1>1. D \in SUBSET DOMAIN wins /\ \A w \in DOMAIN wins : w \in D <=> w.end + AllowedLateness <= new
    BY DEF Due
  <1>2. DOMAIN B = DOMAIN em \cup F
    <2>1. D \in SUBSET DOMAIN wins
      BY <1>1
    <2>2. \A X \in SUBSET DOMAIN wins :
            DOMAIN (em (+) Fired(wins, X)) = DOMAIN em \cup Entries(wins, X)
      BY FiredAre
    <2> HIDE DEF D
    <2>3. QED
      BY <2>1, <2>2
  <1>3. \A e \in F : e.win \in D /\ e.win \in DOMAIN wins
    BY <1>1, EntriesAre
  <1>4. AllowedLateness \in Nat
    BY TimeParameters
  <1>5. /\ \A w \in DOMAIN wins : w.start \in Int /\ w.end \in Int /\ w.start < w.end
        /\ \A e \in DOMAIN em : e.win.start \in Int /\ e.win.end \in Int
    BY AllBounds
  <1>6. DOMAIN U = DOMAIN wins \ D
    BY UnfiredIs
  <1> HIDE DEF D, F, B, U
  <1>7. \A e \in DOMAIN B : e.win.end + AllowedLateness <= new
    <2>1. \A e \in DOMAIN em : e.win.end + AllowedLateness <= new
      BY <1>4, <1>5 DEF FiredBehind
    <2>2. QED
      BY <1>1, <1>2, <1>3, <2>1
  <1>8. ASSUME j.kind = "session", NEW e \in DOMAIN B, NEW w \in DOMAIN U, e.win.key = w.key
        PROVE  e.win.end <= w.start
    <2>1. w \in DOMAIN wins /\ w \notin D
      BY <1>6
    <2>2. CASE e \in DOMAIN em
      BY <1>8, <2>1, <2>2 DEF FiredBehind
    <2>3. CASE e \in F
      <3>1. e.win \in D /\ e.win \in DOMAIN wins /\ e.win # w
        BY <1>3, <2>1, <2>3
      <3>2. ~Overlap(e.win, w)
        BY <1>8, <2>1, <3>1 DEF SharedOut, Disjoint
      <3>3. e.win.end + AllowedLateness <= new /\ ~(w.end + AllowedLateness <= new)
        BY <1>1, <2>1, <3>1
      <3>4. QED
        BY <1>4, <1>5, <2>1, <3>1, <3>2, <3>3 DEF Overlap
    <2>4. QED
      BY <1>2, <2>2, <2>3
  <1>9. QED
    BY <1>7, <1>8 DEF FiredBehind, B, U, D

LEMMA DueLeavesAhead ==
  ASSUME NEW j \in Jobs, NEW acc \in SUBSET IdsIn(j), NEW em, NEW wins, NEW wm \in Int,
         SharedOut(j, acc, em, wins)
  PROVE  OpenAhead(Unfired(wins, Due(wins, wm)), wm)
  <1>1. AllowedLateness \in Nat /\ \A w \in DOMAIN wins : w.end \in Int
    BY AllBounds, TimeParameters
  <1>2. DOMAIN Unfired(wins, Due(wins, wm)) = DOMAIN wins \ Due(wins, wm)
    BY UnfiredIs
  <1>3. \A w \in DOMAIN wins \ Due(wins, wm) : ~(w.end + AllowedLateness <= wm)
    BY DEF Due
  <1>4. QED
    BY <1>1, <1>2, <1>3 DEF OpenAhead

-----------------------------------------------------------------------------
(* The assigners find the windows a record belongs to.                     *)

LEMMA DivIs ==
  ASSUME NEW a \in Int, NEW b \in Nat \ {0}
  PROVE  /\ a \div b \in Int /\ 0 <= a - (a \div b) * b /\ a - (a \div b) * b < b
  <1>1. a \div b \in Int /\ a % b \in Int /\ 0 <= a % b /\ a % b < b
    OBVIOUS
  <1>2. a = b * (a \div b) + (a % b)
    OBVIOUS
  <1>3. b * (a \div b) = (a \div b) * b
    BY <1>1
  <1>4. QED
    BY <1>1, <1>2, <1>3

LEMMA MultiplesAre ==
  ASSUME NEW a \in Int, NEW b \in Nat \ {0}
  PROVE  a % b = 0 <=> \E q \in Int : a = q * b
  <1>1. a \div b \in Int /\ a = b * (a \div b) + (a % b)
    OBVIOUS
  <1>2. a % b = 0 => a = (a \div b) * b
    BY <1>1
  <1>3. ASSUME NEW q \in Int, a = q * b
        PROVE  a % b = 0
    BY <1>3
  <1>4. QED
    BY <1>1, <1>2, <1>3

\* Go's division is off by less than the divisor, to either side.
LEMMA GoDivIs ==
  ASSUME NEW a \in Int, NEW b \in Nat \ {0}
  PROVE  /\ GoDiv(a, b) \in Int /\ -b < a - GoDiv(a, b) * b /\ a - GoDiv(a, b) * b < b
         /\ a >= 0 => 0 <= a - GoDiv(a, b) * b
  <1>1. CASE a >= 0
    <2>1. GoDiv(a, b) = a \div b
      BY <1>1 DEF GoDiv
    <2>2. a \div b \in Int /\ 0 <= a - (a \div b) * b /\ a - (a \div b) * b < b
      BY DivIs
    <2>3. QED
      BY <2>1, <2>2
  <1>2. CASE ~(a >= 0)
    <2> DEFINE d == (-a) \div b
    <2>1. GoDiv(a, b) = -d
      BY <1>2 DEF GoDiv
    <2>2. -a \in Int
      OBVIOUS
    <2>3. d \in Int /\ 0 <= (-a) - d * b /\ (-a) - d * b < b
      BY <2>2, DivIs
    <2> HIDE DEF d
    <2>4. (-d) * b = -(d * b) /\ d * b \in Int
      BY <2>3
    <2>5. QED
      BY <1>2, <2>1, <2>3, <2>4
  <1>3. QED
    BY <1>1, <1>2

\* Multiples less than one step apart are equal.
LEMMA SameMultiple ==
  ASSUME NEW b \in Nat \ {0}, NEW q \in Int, NEW r \in Int,
         -b < q * b - r * b, q * b - r * b < b
  PROVE  q = r
  <1>1. (q - r) * b = q * b - r * b /\ q * b \in Int /\ r * b \in Int
    OBVIOUS
  <1>2. ASSUME NEW x \in Int, -b < x * b, x * b < b
        PROVE  x = 0
    <2>1. x >= 1 => x * b >= b
      OBVIOUS
    <2>2. x <= -1 => x * b <= -b
      OBVIOUS
    <2>3. QED
      BY <1>2, <2>1, <2>2
  <1>3. q - r \in Int /\ -b < (q - r) * b /\ (q - r) * b < b
    BY <1>1
  <1>4. q - r = 0
    BY <1>2, <1>3
  <1>5. QED
    BY <1>4

\* The aligned starts of windows that contain ts.
Starts(ts, step) == {x \in (ts - Size + 1) .. ts : (x - Offset) % step = 0}

LEMMA TumblingStarts ==
  ASSUME NEW ts \in Int, ts >= Offset
  PROVE  Starts(ts, Size) = {WindowStart(ts, Size, Offset)}
  <1> DEFINE g == GoDiv(ts - Offset, Size)
             s == WindowStart(ts, Size, Offset)
  <1>1. Size \in Nat \ {0} /\ Offset \in Nat /\ ts - Offset \in Int /\ ts - Offset >= 0
    BY TimeParameters
  <1>2. g \in Int /\ 0 <= (ts - Offset) - g * Size /\ (ts - Offset) - g * Size < Size
    BY <1>1, GoDivIs
  <1>3. s = g * Size + Offset
    BY DEF WindowStart
  <1> HIDE DEF g, s
  <1>4. g * Size \in Int
    BY <1>1, <1>2
  <1>5. s \in (ts - Size + 1) .. ts /\ s - Offset = g * Size
    BY <1>1, <1>2, <1>3, <1>4
  <1>6. s \in Starts(ts, Size)
    <2>1. (s - Offset) % Size = 0
      BY <1>1, <1>2, <1>4, <1>5, MultiplesAre
    <2>2. QED
      BY <1>5, <2>1 DEF Starts
  <1>7. ASSUME NEW x \in Starts(ts, Size)
        PROVE  x = s
    <2>1. x \in (ts - Size + 1) .. ts /\ (x - Offset) % Size = 0 /\ x - Offset \in Int
      BY <1>1 DEF Starts
    <2>2. PICK q \in Int : x - Offset = q * Size
      BY <1>1, <2>1, MultiplesAre
    <2>3. q * Size \in Int /\ x \in Int /\ -Size < x - s /\ x - s < Size
      BY <1>1, <1>5, <2>1, <2>2
    <2>4. -Size < q * Size - g * Size /\ q * Size - g * Size < Size
      BY <1>1, <1>4, <1>5, <2>2, <2>3
    <2>5. q = g
      BY <1>1, <1>2, <2>4, SameMultiple
    <2>6. QED
      BY <1>1, <1>3, <1>4, <2>1, <2>2, <2>5
  <1>8. QED
    BY <1>6, <1>7 DEF s

\* The starts that the walks of a sliding assigner find.
Walked(ts) ==
  LET last == WindowStart(ts, Slide, Offset)
      back == {last - k * Slide : k \in 0 .. Size + Slide}
      fwd  == {last + k * Slide : k \in 1 .. Size + Slide}
  IN  {s \in back \cup fwd : s <= ts /\ s + Size > ts}

LEMMA SlidingStarts ==
  ASSUME NEW ts \in Int
  PROVE  Walked(ts) = Starts(ts, Slide) /\ Starts(ts, Slide) # {}
  <1> DEFINE g == GoDiv(ts - Offset, Slide)
             last == WindowStart(ts, Slide, Offset)
             back == {last - k * Slide : k \in 0 .. Size + Slide}
             fwd  == {last + k * Slide : k \in 1 .. Size + Slide}
  <1>1. Size \in Nat \ {0} /\ Slide \in Nat \ {0} /\ Slide <= Size /\ Offset \in Nat
        /\ ts - Offset \in Int
    BY TimeParameters
  <1>2. g \in Int /\ -Slide < (ts - Offset) - g * Slide /\ (ts - Offset) - g * Slide < Slide
    BY <1>1, GoDivIs
  <1>3. last = g * Slide + Offset
    BY DEF WindowStart
  <1>4. Walked(ts) = {s \in back \cup fwd : s <= ts /\ s + Size > ts}
    BY DEF Walked
  <1>5. \A k \in 0 .. Size + Slide : last - k * Slide \in back
    OBVIOUS
  <1>6. \A k \in 1 .. Size + Slide : last + k * Slide \in fwd
    OBVIOUS
  <1>7. \A s \in back \cup fwd : \E k \in Int : s = last + k * Slide
    <2>1. ASSUME NEW k \in 0 .. Size + Slide
          PROVE  \E i \in Int : last - k * Slide = last + i * Slide
      <3>1. -k \in Int /\ last - k * Slide = last + (-k) * Slide
        BY <1>1, <1>2, <1>3
      <3>2. QED
        BY <3>1
    <2>2. \A s \in back : \E i \in Int : s = last + i * Slide
      BY <2>1
    <2>3. ASSUME NEW k \in 1 .. Size + Slide
          PROVE  \E i \in Int : last + k * Slide = last + i * Slide
      <3>1. k \in Int
        BY <1>1
      <3>2. QED
        BY <3>1
    <2>4. \A s \in fwd : \E i \in Int : s = last + i * Slide
      BY <2>3
    <2>5. QED
      BY <2>2, <2>4
  <1> HIDE DEF g, last, back, fwd
  <1>8. g * Slide \in Int /\ last \in Int
    BY <1>1, <1>2, <1>3
  <1>9. ASSUME NEW s \in Walked(ts)
        PROVE  s \in Starts(ts, Slide)
    <2>1. s \in back \cup fwd /\ s <= ts /\ s + Size > ts
      BY <1>4
    <2>2. PICK k \in Int : s = last + k * Slide
      BY <1>7, <2>1
    <2>3. k * Slide \in Int /\ g + k \in Int /\ (g + k) * Slide = g * Slide + k * Slide
      BY <1>1, <1>2
    <2>4. s \in Int /\ s - Offset = (g + k) * Slide
      BY <1>1, <1>3, <1>8, <2>2, <2>3
    <2>5. (s - Offset) % Slide = 0
      BY <1>1, <2>3, <2>4, MultiplesAre
    <2>6. s \in (ts - Size + 1) .. ts
      BY <1>1, <2>1, <2>4
    <2>7. QED
      BY <2>5, <2>6 DEF Starts
  <1>10. ASSUME NEW x \in Starts(ts, Slide)
         PROVE  x \in Walked(ts)
    <2>1. x \in (ts - Size + 1) .. ts /\ (x - Offset) % Slide = 0 /\ x - Offset \in Int
          /\ x \in Int
      BY <1>1 DEF Starts
    <2>2. PICK q \in Int : x - Offset = q * Slide
      BY <1>1, <2>1, MultiplesAre
    <2>3. x - last = (q - g) * Slide /\ q * Slide \in Int
      <3>1. (q - g) * Slide = q * Slide - g * Slide /\ q * Slide \in Int
        BY <1>1, <1>2
      <3>2. x = q * Slide + Offset
        BY <1>1, <2>1, <2>2, <3>1
      <3>3. x - last = q * Slide - g * Slide
        BY <1>1, <1>3, <1>8, <3>1, <3>2
      <3>4. QED
        BY <3>1, <3>3
    <2>4. -(Size + Slide) < x - last /\ x - last < Size + Slide
      BY <1>1, <1>2, <1>3, <1>8, <2>1
    <2>5. ASSUME NEW k \in Int, NEW n \in Nat, -n < k * Slide, k * Slide < n
          PROVE  -n < k /\ k < n
      <3>1. k >= 0 => k <= k * Slide
        BY <1>1
      <3>2. k <= 0 => k * Slide <= k
        BY <1>1
      <3>3. k * Slide \in Int
        BY <1>1
      <3>4. QED
        BY <2>5, <3>1, <3>2, <3>3
    <2>6. -(Size + Slide) < q - g /\ q - g < Size + Slide
      <3>1. q - g \in Int /\ Size + Slide \in Nat
        BY <1>1, <1>2
      <3>2. QED
        BY <2>3, <2>4, <2>5, <3>1
    <2>7. x \in back \cup fwd
      <3>1. CASE q - g >= 1
        <4>1. q - g \in 1 .. Size + Slide
          BY <1>1, <1>2, <2>6, <3>1
        <4>2. last + (q - g) * Slide \in fwd
          BY <1>6, <4>1
        <4>3. x = last + (q - g) * Slide
          BY <1>1, <1>2, <1>8, <2>1, <2>3
        <4>4. QED
          BY <4>2, <4>3
      <3>2. CASE q - g <= 0
        <4>1. g - q \in 0 .. Size + Slide
          BY <1>1, <1>2, <2>6, <3>2
        <4>2. last - (g - q) * Slide \in back
          BY <1>5, <4>1
        <4>3. (g - q) * Slide = -((q - g) * Slide) /\ (q - g) * Slide \in Int
          BY <1>1, <1>2
        <4>4. x = last - (g - q) * Slide
          BY <1>1, <1>8, <2>1, <2>3, <4>3
        <4>5. QED
          BY <4>2, <4>4
      <3>3. QED
        BY <1>2, <3>1, <3>2
    <2>8. QED
      BY <1>1, <1>4, <2>1, <2>7
  <1>11. Starts(ts, Slide) # {}
    <2> DEFINE d == (ts - Offset) \div Slide
               x == d * Slide + Offset
    <2>1. d \in Int /\ 0 <= (ts - Offset) - d * Slide /\ (ts - Offset) - d * Slide < Slide
      BY <1>1, DivIs
    <2> HIDE DEF d
    <2>2. d * Slide \in Int
      BY <1>1, <2>1
    <2>3. x \in (ts - Size + 1) .. ts /\ x - Offset = d * Slide /\ x - Offset \in Int
      BY <1>1, <2>1, <2>2
    <2>4. (x - Offset) % Slide = 0
      BY <1>1, <2>1, <2>3, MultiplesAre
    <2>5. QED
      BY <2>3, <2>4 DEF Starts
  <1>12. QED
    BY <1>9, <1>10, <1>11

LEMMA AssignIsWindowsOf ==
  ASSUME job \in Jobs, job.kind # "session", NEW id \in IdsIn(job)
  PROVE  {WindowKey(Rec(id).key, win) : win \in AssignWindows(Rec(id).ts)} = WindowsOf(job, id)
  <1> DEFINE ts == At(job, id)
             step == IF job.kind = "sliding" THEN Slide ELSE Size
             Made(S) == {[start |-> s, end |-> s + Size] : s \in S}
             Named(S) == {[key |-> KeyOf(job, id), start |-> s, end |-> s + Size] : s \in S}
  <1>1. Rec(id).ts = ts /\ Rec(id).key = KeyOf(job, id)
    BY DEF Rec, At, KeyOf
  <1>2. ts \in Int /\ job.kind \in {"tumbling", "sliding"}
    BY IdsAre, JobParameters, TimesAre
  <1>3. WindowsOf(job, id) = Named(Starts(ts, step))
    BY DEF WindowsOf, Starts
  <1>4. AssignWindows(ts) = Made(Starts(ts, step))
    <2>1. CASE job.kind = "tumbling"
      <3>1. ts >= Offset
        BY <2>1, TumblingTimes, IdsAre DEF At, IdsIn
      <3>2. Starts(ts, Size) = {WindowStart(ts, Size, Offset)}
        BY <1>2, <3>1, TumblingStarts
      <3>3. AssignWindows(ts) = TumblingWindows(ts) /\ step = Size
        BY <2>1 DEF AssignWindows
      <3>4. TumblingWindows(ts) = Made({WindowStart(ts, Size, Offset)})
        BY DEF TumblingWindows
      <3>5. QED
        BY <3>2, <3>3, <3>4
    <2>2. CASE job.kind = "sliding"
      <3>1. Walked(ts) = Starts(ts, Slide) /\ Starts(ts, Slide) # {}
        BY <1>2, SlidingStarts
      <3>2. AssignWindows(ts) = SlidingWindows(ts) /\ step = Slide
        BY <2>2 DEF AssignWindows
      <3>3. SlidingWindows(ts)
              = Made(IF Walked(ts) = {} THEN {WindowStart(ts, Slide, Offset)} ELSE Walked(ts))
        BY DEF SlidingWindows, Walked
      <3>4. QED
        BY <3>1, <3>2, <3>3
    <2>3. QED
      BY <1>2, <2>1, <2>2
  <1>5. {WindowKey(KeyOf(job, id), win) : win \in Made(Starts(ts, step))} = Named(Starts(ts, step))
    <2>1. \A s : WindowKey(KeyOf(job, id), [start |-> s, end |-> s + Size])
                   = [key |-> KeyOf(job, id), start |-> s, end |-> s + Size]
      BY DEF WindowKey
    <2> DEFINE S == Starts(ts, step)
    <2> HIDE DEF S
    <2>2. {WindowKey(KeyOf(job, id), win) : win \in Made(S)} = Named(S)
      BY <2>1, Zenon
    <2>3. QED
      BY <2>2 DEF S
  <1>6. QED
    BY <1>1, <1>3, <1>4, <1>5

-----------------------------------------------------------------------------
(* A record joins its aligned windows.                                     *)

Appended(U, wins, K, id) ==
  /\ DOMAIN U = DOMAIN wins \cup K
  /\ \A w \in DOMAIN U : Ones(U[w])
  /\ \A w \in DOMAIN wins : DOMAIN U[w] = DOMAIN wins[w] \cup (IF w \in K THEN {id} ELSE {})
  /\ \A w \in K \ DOMAIN wins : DOMAIN U[w] = {id}

LEMMA AppendedAre ==
  ASSUME NEW wins, NEW K, NEW id, NEW U, U = AppendToWindows(wins, K, id),
         \A w \in DOMAIN wins : Ones(wins[w]) /\ id \notin DOMAIN wins[w]
  PROVE  Appended(U, wins, K, id)
  <1> DEFINE Was(w) == IF w \in DOMAIN wins THEN wins[w] ELSE EmptyBag
             More(w) == IF w \in K THEN {id} ELSE {}
  <1>1. DOMAIN U = DOMAIN wins \cup K
    BY DEF AppendToWindows
  <1>2. \A w \in DOMAIN U : U[w] = Was(w) (+) SetToBag(More(w))
    BY DEF AppendToWindows
  <1>3. ASSUME NEW w \in DOMAIN U
        PROVE  DOMAIN U[w] = DOMAIN Was(w) \cup More(w) /\ Ones(U[w])
    <2>1. Ones(Was(w)) /\ DOMAIN Was(w) \cap More(w) = {}
      BY EmptyBagIs
    <2> DEFINE B == Was(w)
               T == More(w)
    <2>2. Ones(B) /\ DOMAIN B \cap T = {} /\ U[w] = B (+) SetToBag(T)
      BY <1>2, <2>1
    <2> HIDE DEF B, T
    <2>3. DOMAIN (B (+) SetToBag(T)) = DOMAIN B \cup T /\ Ones(B (+) SetToBag(T))
      BY <2>2, BagGrows
    <2>4. DOMAIN U[w] = DOMAIN B \cup T /\ Ones(U[w])
      BY <2>2, <2>3
    <2>5. QED
      BY <2>4 DEF B, T
  <1>4. \A w \in DOMAIN wins : DOMAIN U[w] = DOMAIN wins[w] \cup (IF w \in K THEN {id} ELSE {})
    BY <1>1, <1>3
  <1>5. \A w \in K \ DOMAIN wins : DOMAIN U[w] = {id}
    BY <1>1, <1>3, EmptyBagIs
  <1>6. QED
    BY <1>1, <1>3, <1>4, <1>5 DEF Appended

LEMMA AppendShares ==
  ASSUME NEW j \in Jobs, j.kind # "session", NEW acc, NEW em, NEW wins,
         SharedOut(j, acc, em, wins), NEW id \in IdsIn(j), id \notin acc
  PROVE  SharedOut(j, acc \cup {id}, em, AppendToWindows(wins, WindowsOf(j, id), id))
  <1> DEFINE K == WindowsOf(j, id)
             U == AppendToWindows(wins, K, id)
             A == acc \cup {id}
  <1>1. Counted(acc, em, wins) /\ Apart(j, em, wins) /\ Placed(j, em, wins)
        /\ Covered(j, acc, em, wins)
    BY DEF SharedOut
  <1>2. \A w \in DOMAIN wins : /\ Ones(wins[w]) /\ id \notin DOMAIN wins[w]
                               /\ DOMAIN wins[w] # {} /\ DOMAIN wins[w] \subseteq acc
    BY <1>1 DEF Counted
  <1>3. \A e \in DOMAIN em : id \notin DOMAIN e.ids
    BY <1>1 DEF Counted
  <1>4. /\ DOMAIN U = DOMAIN wins \cup K
        /\ \A w \in DOMAIN U : Ones(U[w])
        /\ \A w \in DOMAIN wins : DOMAIN U[w] = DOMAIN wins[w] \cup (IF w \in K THEN {id} ELSE {})
        /\ \A w \in K \ DOMAIN wins : DOMAIN U[w] = {id}
    <2>1. U = AppendToWindows(wins, K, id)
      OBVIOUS
    <2>2. \A w \in DOMAIN wins : Ones(wins[w]) /\ id \notin DOMAIN wins[w]
      BY <1>2
    <2> HIDE DEF U, K
    <2>3. Appended(U, wins, K, id)
      BY <2>1, <2>2, AppendedAre
    <2>4. QED
      BY <2>3 DEF Appended
  <1> HIDE DEF U, K
  <1>5. ASSUME NEW w \in DOMAIN U
        PROVE  /\ DOMAIN U[w] # {} /\ DOMAIN U[w] \subseteq A
               /\ \A x \in DOMAIN U[w] : x # id => w \in DOMAIN wins /\ x \in DOMAIN wins[w]
               /\ id \in DOMAIN U[w] => w \in K
    <2>1. CASE w \in DOMAIN wins
      BY <1>2, <1>4, <2>1
    <2>2. CASE w \notin DOMAIN wins
      BY <1>4, <2>2
    <2>3. QED
      BY <2>1, <2>2
  <1>6. \A w \in DOMAIN wins : w \in DOMAIN U /\ DOMAIN wins[w] \subseteq DOMAIN U[w]
    BY <1>4
  <1>7. \A w \in K : w \in DOMAIN U /\ id \in DOMAIN U[w]
    BY <1>4
  <1>8. Counted(A, em, U)
    <2>1. \A e \in DOMAIN em :
            /\ e = [win |-> e.win, ids |-> e.ids]
            /\ DOMAIN e.ids # {} /\ DOMAIN e.ids \subseteq A /\ Ones(e.ids)
      BY <1>1 DEF Counted
    <2>2. Ones(em)
      BY <1>1 DEF Counted
    <2>3. QED
      BY <1>4, <1>5, <2>1, <2>2 DEF Counted
  <1>9. Apart(j, em, U)
    <2>1. ASSUME NEW e \in DOMAIN em, NEW w \in DOMAIN U, Same(j, e.win, w)
          PROVE  DOMAIN e.ids \cap DOMAIN U[w] = {}
      <3>1. ASSUME NEW x \in DOMAIN e.ids, x \in DOMAIN U[w]
            PROVE  FALSE
        <4>1. x # id
          BY <1>3
        <4>2. w \in DOMAIN wins /\ x \in DOMAIN wins[w]
          BY <1>5, <3>1, <4>1
        <4>3. QED
          BY <1>1, <2>1, <4>2 DEF Apart
      <3>2. QED
        BY <3>1
    <2>2. \A e \in DOMAIN em : \A f \in DOMAIN em :
            e # f /\ Same(j, e.win, f.win) => DOMAIN e.ids \cap DOMAIN f.ids = {}
      BY <1>1 DEF Apart
    <2>3. \A v \in DOMAIN U : \A w \in DOMAIN U : v # w => ~Same(j, v, w)
      BY DEF Same
    <2>4. QED
      BY <2>1, <2>2, <2>3 DEF Apart
  <1>10. Placed(j, em, U)
    <2>1. ASSUME NEW w \in DOMAIN U, NEW x \in DOMAIN U[w]
          PROVE  w \in WindowsOf(j, x)
      <3>1. CASE x = id
        BY <1>5, <3>1 DEF K
      <3>2. CASE x # id
        <4>1. w \in DOMAIN wins /\ x \in DOMAIN wins[w]
          BY <1>5, <3>2
        <4>2. QED
          BY <1>1, <4>1 DEF Placed, Holds
      <3>3. QED
        BY <3>1, <3>2
    <2>2. \A w \in DOMAIN U : Holds(j, w, DOMAIN U[w])
      BY <2>1 DEF Holds
    <2>3. QED
      BY <1>1, <2>2 DEF Placed
  <1>11. Covered(j, A, em, U)
    <2>1. ASSUME NEW x \in A, NEW v \in WindowsOf(j, x)
          PROVE  \/ v \in DOMAIN U /\ x \in DOMAIN U[v]
                 \/ \E e \in DOMAIN em : e.win = v /\ x \in DOMAIN e.ids
      <3>1. CASE x = id
        BY <1>7, <3>1 DEF K
      <3>2. CASE x \in acc
        <4>1. \/ v \in DOMAIN wins /\ x \in DOMAIN wins[v]
              \/ \E e \in DOMAIN em : e.win = v /\ x \in DOMAIN e.ids
          BY <1>1, <3>2 DEF Covered
        <4>2. QED
          BY <1>6, <4>1
      <3>3. QED
        BY <3>1, <3>2
    <2>2. QED
      BY <2>1 DEF Covered
  <1>12. Disjoint(j, U)
    BY DEF Disjoint
  <1>13. QED
    BY <1>8, <1>9, <1>10, <1>11, <1>12 DEF SharedOut, U, K

\* The new windows lie ahead of a watermark that lets the record through.
LEMMA AppendAhead ==
  ASSUME NEW j \in Jobs, NEW wins, NEW id \in IdsIn(j), NEW wm \in Int,
         OpenAhead(wins, wm), ~IsTooLate(wm, At(j, id))
  PROVE  OpenAhead(AppendToWindows(wins, WindowsOf(j, id), id), wm)
  <1>1. DOMAIN AppendToWindows(wins, WindowsOf(j, id), id) = DOMAIN wins \cup WindowsOf(j, id)
    BY DEF AppendToWindows
  <1>2. At(j, id) \in Ancient + 1 .. MaxTime - 1 /\ AllowedLateness \in Nat /\ Size \in Nat
    BY IdsAre, TimeParameters
  <1>3. ASSUME NEW w \in WindowsOf(j, id)
        PROVE  w.end + AllowedLateness > wm
    <2>1. w.start \in Int /\ w.end = w.start + Size /\ At(j, id) < w.end
      BY WindowsOfAre
    <2>2. wm = ZeroTime \/ At(j, id) >= wm - AllowedLateness
      BY <1>2, TimesAre DEF IsTooLate
    <2>3. QED
      BY <1>2, <2>1, <2>2, TimesAre
  <1>4. QED
    BY <1>1, <1>3 DEF OpenAhead

-----------------------------------------------------------------------------
(* A record joins the sessions it bridges.                                 *)

\* Sessions that share no record hold their records once together.
LEMMA TogetherIs ==
  ASSUME NEW wins, NEW H \in SUBSET DOMAIN wins,
         \A w \in DOMAIN wins : Ones(wins[w]),
         \A v \in DOMAIN wins : \A w \in DOMAIN wins :
           v # w => DOMAIN wins[v] \cap DOMAIN wins[w] = {}
  PROVE  /\ DOMAIN Together(wins, H) = UNION {DOMAIN wins[w] : w \in H}
         /\ Ones(Together(wins, H))
  <1> DEFINE D == UNION {DOMAIN wins[w] : w \in H}
             In(x) == {v \in H : x \in DOMAIN wins[v]}
             Each(x) == UNION {{w} \X (1 .. wins[w][x]) : w \in In(x)}
  <1>1. Together(wins, H) = [x \in D |-> Cardinality(Each(x))]
    BY DEF Together
  <1>2. ASSUME NEW x \in D
        PROVE  Cardinality(Each(x)) = 1
    <2>1. PICK w \in H : x \in DOMAIN wins[w]
      OBVIOUS
    <2>2. In(x) = {w}
      BY <2>1
    <2>3. wins[w][x] = 1
      <3>1. wins[w] = SetToBag(DOMAIN wins[w])
        BY DEF Ones
      <3>2. QED
        BY <2>1, <3>1 DEF SetToBag
    <2>4. {w} \X (1 .. wins[w][x]) = {<<w, 1>>}
      BY <2>3
    <2>5. Each(x) = {<<w, 1>>}
      <3> DEFINE f(v) == {v} \X (1 .. wins[v][x])
      <3>1. f(w) = {<<w, 1>>}
        BY <2>4
      <3>2. Each(x) = UNION {f(v) : v \in In(x)}
        OBVIOUS
      <3> HIDE DEF f, In
      <3>3. UNION {f(v) : v \in In(x)} = f(w)
        BY <2>2
      <3>4. QED
        BY <3>1, <3>2, <3>3
    <2>6. QED
      BY <2>5, FS_Singleton
  <1> HIDE DEF D, Each
  <1>3. DOMAIN Together(wins, H) = D
    BY <1>1
  <1>4. Together(wins, H) = [x \in D |-> 1]
    BY <1>1, <1>2
  <1>5. QED
    BY <1>3, <1>4 DEF Ones, SetToBag, D

Hits(wins, new) == {w \in DOMAIN wins : w.key = new.key /\ Overlap(w, new)}

\* Session s has the span of the sessions H and of the new one.
Spans(s, H, new) ==
  /\ s.key = new.key /\ s.start \in Int /\ s.end \in Int
  /\ \A w \in H \cup {new} : s.start <= w.start /\ w.end <= s.end
  /\ \E w \in H \cup {new} : s.start = w.start
  /\ \E w \in H \cup {new} : s.end = w.end

LEMMA SpansIs ==
  ASSUME NEW H, NEW new, NEW lo \in Int, NEW hi \in Int,
         \A w \in H \cup {new} : /\ w.start \in Int /\ w.end \in Int
                                 /\ lo <= w.start /\ w.end <= hi
  PROVE  Spans([key |-> new.key, start |-> LowOf({w.start : w \in H \cup {new}}),
                end |-> HighOf({w.end : w \in H \cup {new}})], H, new)
  <1> DEFINE S == {w.start : w \in H \cup {new}}
             E == {w.end : w \in H \cup {new}}
             s == [key |-> new.key, start |-> LowOf(S), end |-> HighOf(E)]
  <1>1. S \in SUBSET Int /\ S # {} /\ \A x \in S : lo <= x
    OBVIOUS
  <1>2. E \in SUBSET Int /\ E # {} /\ \A x \in E : x <= hi
    OBVIOUS
  <1>3. \A w \in H \cup {new} : w.start \in S /\ w.end \in E
    OBVIOUS
  <1>4. \A x \in S : \E w \in H \cup {new} : x = w.start
    OBVIOUS
  <1>5. \A x \in E : \E w \in H \cup {new} : x = w.end
    OBVIOUS
  <1> HIDE DEF S, E
  <1>6. LowOf(S) \in S /\ \A y \in S : LowOf(S) <= y
    BY <1>1, LowOfIs
  <1>7. HighOf(E) \in E /\ \A y \in E : y <= HighOf(E)
    BY <1>2, HighOfIs
  <1>8. s.key = new.key /\ s.start = LowOf(S) /\ s.end = HighOf(E)
    OBVIOUS
  <1> HIDE DEF s
  <1>9. s.start \in Int /\ s.end \in Int
    BY <1>1, <1>2, <1>6, <1>7, <1>8
  <1>10. \A w \in H \cup {new} : s.start <= w.start /\ w.end <= s.end
    BY <1>3, <1>6, <1>7, <1>8
  <1>11. (\E w \in H \cup {new} : s.start = w.start) /\ (\E w \in H \cup {new} : s.end = w.end)
    BY <1>4, <1>5, <1>6, <1>7, <1>8
  <1>12. Spans(s, H, new)
    BY <1>8, <1>9, <1>10, <1>11 DEF Spans
  <1>13. QED
    BY <1>12 DEF s, S, E

\* No open session is left that overlaps the merged one.
LEMMA SpanApart ==
  ASSUME NEW j, j.kind = "session", NEW wins, NEW new, NEW s, Disjoint(j, wins),
         \A w \in DOMAIN wins : w.start \in Int /\ w.end \in Int /\ w.start < w.end,
         new.start \in Int, new.end \in Int, new.start < new.end,
         Spans(s, Hits(wins, new), new)
  PROVE  /\ s \notin DOMAIN wins \ Hits(wins, new)
         /\ \A v \in DOMAIN wins \ Hits(wins, new) :
              v.key = s.key => ~Overlap(v, s) /\ ~Overlap(s, v)
  <1> DEFINE H == Hits(wins, new)
  <1>1. \A w \in DOMAIN wins : w \in H <=> w.key = new.key /\ w.start < new.end /\ w.end > new.start
    BY DEF Hits, Overlap
  <1>2. H \subseteq DOMAIN wins
    BY DEF Hits
  <1>3. Spans(s, H, new)
    OBVIOUS
  <1> HIDE DEF H
  <1>4. /\ s.key = new.key /\ s.start \in Int /\ s.end \in Int
        /\ s.start <= new.start /\ new.end <= s.end
    BY <1>3 DEF Spans
  <1>5. s \notin DOMAIN wins \ H
    BY <1>1, <1>4
  <1>6. ASSUME NEW v \in DOMAIN wins \ H, v.key = s.key, v.start < s.end, v.end > s.start
        PROVE  FALSE
    <2>1. v.end <= new.start \/ v.start >= new.end
      BY <1>1, <1>4, <1>6
    <2>2. \A w \in H : v.end <= w.start \/ v.start >= w.end
      <3>1. ASSUME NEW w \in H
            PROVE  v.end <= w.start \/ v.start >= w.end
        <4>1. w \in DOMAIN wins /\ v # w /\ v.key = w.key
          BY <1>1, <1>2, <1>4, <1>6
        <4>2. ~Overlap(v, w)
          BY <4>1 DEF Disjoint
        <4>3. QED
          BY <4>1, <4>2 DEF Overlap
      <3>2. QED
        BY <3>1
    <2>3. CASE v.end <= new.start
      <3>1. PICK w \in H \cup {new} : s.start = w.start
        BY <1>3 DEF Spans
      <3>2. w \in H
        BY <1>4, <1>6, <2>3, <3>1
      <3>3. w \in DOMAIN wins /\ w.end > new.start /\ v.start < v.end
        BY <1>1, <1>2, <3>2
      <3>4. QED
        BY <1>4, <1>6, <2>2, <2>3, <3>1, <3>2, <3>3
    <2>4. CASE v.start >= new.end
      <3>1. PICK w \in H \cup {new} : s.end = w.end
        BY <1>3 DEF Spans
      <3>2. w \in H
        BY <1>4, <1>6, <2>4, <3>1
      <3>3. w \in DOMAIN wins /\ w.start < new.end /\ v.start < v.end
        BY <1>1, <1>2, <3>2
      <3>4. QED
        BY <1>4, <1>6, <2>2, <2>4, <3>1, <3>2, <3>3
    <2>5. QED
      BY <2>1, <2>3, <2>4
  <1>7. \A v \in DOMAIN wins \ H : v.key = s.key => ~Overlap(v, s) /\ ~Overlap(s, v)
    BY <1>4, <1>6 DEF Overlap
  <1>8. QED
    BY <1>5, <1>7 DEF H

\* The merged session is the session of the records of its parts.
LEMMA SpanSession ==
  ASSUME NEW j \in Jobs, j.kind = "session", NEW wins, NEW id \in IdsIn(j), NEW new, NEW s,
         NEW I, I = {id} \cup UNION {DOMAIN wins[w] : w \in Hits(wins, new)},
         I \subseteq IdsIn(j), Disjoint(j, wins),
         \A w \in DOMAIN wins : SessionOf(j, w, DOMAIN wins[w]),
         new.key = KeyOf(j, id), new.start = At(j, id), new.end = At(j, id) + Size,
         Spans(s, Hits(wins, new), new)
  PROVE  SessionOf(j, s, I)
  <1> DEFINE H == Hits(wins, new)
             ts == At(j, id)
  <1>1. /\ H \subseteq DOMAIN wins
        /\ \A w \in H : w.key = new.key /\ w.start < new.end /\ w.end > new.start
    BY DEF Hits, Overlap
  <1>2. Spans(s, H, new) /\ I = {id} \cup UNION {DOMAIN wins[w] : w \in H}
    OBVIOUS
  <1>3. \A x \in IdsIn(j) : At(j, x) \in Int
    BY IdsAre, TimesAre
  <1>4. ts \in Int /\ Size \in Nat \ {0} /\ new.start = ts /\ new.end = ts + Size
    BY <1>3, TimeParameters
  <1> HIDE DEF H, ts
  <1>5. /\ s.key = new.key /\ s.start \in Int /\ s.end \in Int
        /\ s.start <= ts /\ ts + Size <= s.end
        /\ \A w \in H : s.start <= w.start /\ w.end <= s.end
        /\ \E w \in H \cup {new} : s.start = w.start
        /\ \E w \in H \cup {new} : s.end = w.end
    BY <1>2, <1>4 DEF Spans
  <1>6. \A w \in H : /\ w.start \in Int /\ w.end \in Int
                     /\ \A x \in DOMAIN wins[w] : /\ KeyOf(j, x) = w.key /\ w.start <= At(j, x)
                                                  /\ At(j, x) + Size <= w.end /\ x \in I
                     /\ \E x \in DOMAIN wins[w] : At(j, x) = w.start
                     /\ \E x \in DOMAIN wins[w] : At(j, x) + Size = w.end
                     /\ \A x \in DOMAIN wins[w] : At(j, x) + Size # w.end =>
                          \E y \in DOMAIN wins[w] : At(j, x) < At(j, y) /\ At(j, y) < At(j, x) + Size
    BY <1>1, <1>2 DEF SessionOf
  <1>7. \A x \in I : At(j, x) \in Int /\ (x = id \/ \E w \in H : x \in DOMAIN wins[w])
    <2>1. \A x \in I : x = id \/ \E w \in Hits(wins, new) : x \in DOMAIN wins[w]
      OBVIOUS
    <2>2. \A x \in I : x \in IdsIn(j)
      OBVIOUS
    <2>3. QED
      BY <1>3, <2>1, <2>2 DEF H
  <1>8. id \in I /\ At(j, id) = ts /\ KeyOf(j, id) = new.key
    <2>1. id \in I
      OBVIOUS
    <2>2. At(j, id) = ts
      BY DEF ts
    <2>3. QED
      BY <2>1, <2>2, Zenon
  <1>9. \A x \in I : KeyOf(j, x) = s.key /\ s.start <= At(j, x) /\ At(j, x) + Size <= s.end
    <2> SUFFICES ASSUME NEW x \in I
                 PROVE  KeyOf(j, x) = s.key /\ s.start <= At(j, x) /\ At(j, x) + Size <= s.end
      OBVIOUS
    <2>1. CASE x = id
      BY <1>4, <1>5, <1>8, <2>1
    <2>2. ASSUME NEW w \in H, x \in DOMAIN wins[w]
          PROVE  KeyOf(j, x) = s.key /\ s.start <= At(j, x) /\ At(j, x) + Size <= s.end
      <3>1. KeyOf(j, x) = w.key /\ w.start <= At(j, x) /\ At(j, x) + Size <= w.end
            /\ w.start \in Int /\ w.end \in Int /\ At(j, x) \in Int
        BY <1>6, <1>7, <2>2
      <3>2. w.key = new.key /\ s.start <= w.start /\ w.end <= s.end
        BY <1>1, <1>5
      <3>3. QED
        BY <1>4, <1>5, <3>1, <3>2
    <2>3. QED
      BY <1>7, <2>1, <2>2
  <1>10. \E x \in I : At(j, x) = s.start
    <2>1. PICK w \in H \cup {new} : s.start = w.start
      BY <1>5
    <2>2. CASE w \in H
      BY <1>6, <2>1, <2>2
    <2>3. CASE w = new
      BY <1>4, <1>8, <2>1, <2>3
    <2>4. QED
      BY <2>2, <2>3
  <1>11. PICK v \in H \cup {new} : s.end = v.end
    BY <1>5
  <1>12. \E x \in I : At(j, x) + Size = s.end
    <2>1. CASE v \in H
      BY <1>6, <1>11, <2>1
    <2>2. CASE v = new
      BY <1>4, <1>8, <1>11, <2>2
    <2>3. QED
      BY <2>1, <2>2
  <1>13. ASSUME NEW x \in I, At(j, x) + Size # s.end
         PROVE  \E y \in I : At(j, x) < At(j, y) /\ At(j, y) < At(j, x) + Size
    <2>1. ASSUME x = id
          PROVE  \E y \in I : At(j, x) < At(j, y) /\ At(j, y) < At(j, x) + Size
      <3>1. v \in H /\ v.end > ts + Size /\ v.start < ts + Size
        BY <1>1, <1>4, <1>5, <1>8, <1>11, <1>13, <2>1
      <3>2. v.start \in Int /\ v.end \in Int /\ DOMAIN wins[v] \subseteq I
        BY <1>6, <3>1
      <3>3. PICK a \in DOMAIN wins[v] : At(j, a) = v.start
        BY <1>6, <3>1
      <3>4. CASE v.start > ts
        BY <1>8, <2>1, <3>1, <3>2, <3>3, <3>4
      <3>5. CASE v.start <= ts
        <4> DEFINE T == {At(j, y) : y \in {z \in DOMAIN wins[v] : At(j, z) <= ts}}
        <4>1. T \in SUBSET Int /\ T # {} /\ \A t \in T : t <= ts
          BY <1>7, <3>2, <3>3, <3>5
        <4>2. \A t \in T : \E y \in DOMAIN wins[v] : t = At(j, y)
          OBVIOUS
        <4>3. \A y \in DOMAIN wins[v] : At(j, y) <= ts => At(j, y) \in T
          OBVIOUS
        <4> HIDE DEF T
        <4>4. HighOf(T) \in T /\ \A t \in T : t <= HighOf(T)
          BY <1>4, <4>1, HighOfIs
        <4>5. PICK b \in DOMAIN wins[v] : At(j, b) = HighOf(T)
          BY <4>2, <4>4
        <4>6. At(j, b) <= ts /\ At(j, b) \in Int
          BY <4>1, <4>4, <4>5
        <4>7. At(j, b) + Size # v.end
          BY <1>4, <3>1, <3>2, <4>6
        <4>8. PICK y \in DOMAIN wins[v] : At(j, b) < At(j, y) /\ At(j, y) < At(j, b) + Size
          BY <1>6, <3>1, <4>7
        <4>9. y \in I /\ At(j, y) \in Int
          BY <1>7, <3>2
        <4>10. ~(At(j, y) <= ts)
          <5>1. ASSUME At(j, y) <= ts
                PROVE  FALSE
            <6>1. At(j, y) <= At(j, b)
              BY <4>3, <4>4, <4>5, <5>1
            <6>2. QED
              BY <4>6, <4>8, <4>9, <6>1
          <5>2. QED
            BY <5>1
        <4>11. ts < At(j, y) /\ At(j, y) < ts + Size
          BY <1>4, <4>6, <4>8, <4>9, <4>10
        <4>12. QED
          BY <1>8, <2>1, <4>9, <4>11
      <3>6. QED
        BY <1>4, <3>2, <3>4, <3>5
    <2>2. ASSUME NEW w \in H, x \in DOMAIN wins[w]
          PROVE  \E y \in I : At(j, x) < At(j, y) /\ At(j, y) < At(j, x) + Size
      <3>1. CASE At(j, x) + Size # w.end
        BY <1>6, <2>2, <3>1
      <3>2. CASE At(j, x) + Size = w.end
        <4>1. w.end > ts /\ At(j, x) \in Int
          BY <1>1, <1>4, <1>7
        <4>2. CASE At(j, x) < ts
          BY <1>4, <1>8, <3>2, <4>1, <4>2
        <4>3. CASE At(j, x) >= ts
          <5>1. w.end # s.end /\ w.end <= s.end /\ w.end >= new.end /\ w.end \in Int
            BY <1>4, <1>5, <1>6, <1>13, <3>2, <4>1, <4>3
          <5>2. v \in H /\ v # w
            BY <1>4, <1>5, <1>11, <5>1
          <5>3. v.start < new.end /\ v.key = w.key /\ v \in DOMAIN wins /\ w \in DOMAIN wins
            BY <1>1, <5>2
          <5>4. ~(v.start < w.end /\ v.end > w.start)
            BY <5>2, <5>3 DEF Disjoint, Overlap
          <5>5. w.start <= At(j, x) /\ w.start \in Int /\ v.start \in Int
            BY <1>6, <2>2, <5>2
          <5>6. QED
            BY <1>4, <1>5, <1>11, <3>2, <4>1, <5>1, <5>3, <5>4, <5>5
        <4>4. QED
          BY <1>4, <4>1, <4>2, <4>3
      <3>3. QED
        BY <3>1, <3>2
    <2>3. QED
      BY <1>7, <2>1, <2>2
  <1>14. QED
    BY <1>5, <1>9, <1>10, <1>12, <1>13 DEF SessionOf

NewSession(j, id) == [key |-> KeyOf(j, id), start |-> At(j, id), end |-> At(j, id) + Size]

\* U is wins after session s of the records I has taken the place of the sessions H.
Merged(U, wins, H, s, I) ==
  /\ DOMAIN U = (DOMAIN wins \ H) \cup {s} /\ s \notin DOMAIN wins \ H
  /\ \A w \in DOMAIN wins \ H : U[w] = wins[w]
  /\ DOMAIN U[s] = I /\ Ones(U[s])

\* The new session of id takes the place of the ones it overlaps.
Merges(U, wins, new, id) ==
  \E s : /\ Spans(s, Hits(wins, new), new)
         /\ Merged(U, wins, Hits(wins, new), s,
                   {id} \cup UNION {DOMAIN wins[w] : w \in Hits(wins, new)})

LEMMA MergedIs ==
  ASSUME NEW j \in Jobs, j.kind = "session", NEW acc \in SUBSET IdsIn(j), NEW em, NEW wins,
         SharedOut(j, acc, em, wins), NEW id \in IdsIn(j), id \notin acc
  PROVE  Merges(MergeSession(wins, NewSession(j, id), id), wins, NewSession(j, id), id)
  <1> DEFINE new == NewSession(j, id)
             H == Hits(wins, new)
             s == [key |-> new.key, start |-> LowOf({w.start : w \in H \cup {new}}),
                   end |-> HighOf({w.end : w \in H \cup {new}})]
             T == Together(wins, H)
             U == MergeSession(wins, new, id)
             I == {id} \cup UNION {DOMAIN wins[w] : w \in H}
  <1>1. Counted(acc, em, wins) /\ Apart(j, em, wins) /\ Placed(j, em, wins) /\ Disjoint(j, wins)
    BY DEF SharedOut
  <1>2. U = [w \in (DOMAIN wins \ H) \cup {s} |->
               IF w = s THEN T (+) SetToBag({id}) ELSE wins[w]]
    BY DEF MergeSession, Hits
  <1>3. H \in SUBSET DOMAIN wins
    BY DEF Hits
  <1>4. \A w \in DOMAIN wins : Ones(wins[w]) /\ DOMAIN wins[w] \subseteq acc /\ DOMAIN wins[w] # {}
                               /\ SessionOf(j, w, DOMAIN wins[w])
    BY <1>1 DEF Counted, Placed, Holds
  <1>5. \A v \in DOMAIN wins : \A w \in DOMAIN wins :
          v # w => DOMAIN wins[v] \cap DOMAIN wins[w] = {}
    BY <1>1 DEF Apart, Same
  <1>6. DOMAIN T = UNION {DOMAIN wins[w] : w \in H} /\ Ones(T)
    <2>1. \A w \in DOMAIN wins : Ones(wins[w])
      BY <1>4
    <2> HIDE DEF H
    <2>2. QED
      BY <1>3, <1>5, <2>1, TogetherIs
  <1>7. At(j, id) \in Ancient + 1 .. MaxTime - 1 /\ Size \in Nat \ {0}
    BY IdsAre, TimeParameters
  <1>8. /\ new.key = KeyOf(j, id) /\ new.start = At(j, id) /\ new.end = At(j, id) + Size
        /\ new.start \in Int /\ new.end \in Int /\ new.start < new.end
    BY <1>7, TimesAre DEF NewSession
  <1>9. \A w \in DOMAIN wins : w.start \in Int /\ w.end \in Int /\ w.start < w.end
    BY AllBounds
  <1> HIDE DEF new, H, T
  <1>10. \A w \in H \cup {new} : /\ w.start \in Int /\ w.end \in Int
                                 /\ Ancient <= w.start /\ w.end <= MaxTime + Size
    <2>1. ASSUME NEW w \in DOMAIN wins
          PROVE  Ancient <= w.start /\ w.end <= MaxTime + Size
      <3>1. \A x \in DOMAIN wins[w] : At(j, x) \in Ancient + 1 .. MaxTime - 1
        BY <1>4, IdsAre
      <3>2. PICK x \in DOMAIN wins[w] : At(j, x) = w.start
        BY <1>4 DEF SessionOf
      <3>3. PICK y \in DOMAIN wins[w] : At(j, y) + Size = w.end
        BY <1>4 DEF SessionOf
      <3>4. QED
        BY <1>7, <1>9, <3>1, <3>2, <3>3, TimesAre
    <2>2. Ancient <= new.start /\ new.end <= MaxTime + Size
      BY <1>7, <1>8, TimesAre
    <2>3. QED
      BY <1>3, <1>8, <1>9, <2>1, <2>2
  <1>11. Ancient \in Int /\ MaxTime + Size \in Int
    BY <1>7, TimesAre
  <1>12. Spans(s, H, new)
    BY <1>10, <1>11, SpansIs
  <1> HIDE DEF s, U
  <1>13. s \notin DOMAIN wins \ H
    <2>1. Spans(s, Hits(wins, new), new)
      BY <1>12 DEF H
    <2>2. s \notin DOMAIN wins \ Hits(wins, new)
      BY <1>1, <1>8, <1>9, <2>1, SpanApart
    <2>3. QED
      BY <2>2 DEF H
  <1>14. DOMAIN U = (DOMAIN wins \ H) \cup {s} /\ U[s] = T (+) SetToBag({id})
         /\ \A w \in DOMAIN wins \ H : U[w] = wins[w]
    BY <1>2, <1>13
  <1>15. DOMAIN U[s] = I /\ Ones(U[s])
    <2>1. DOMAIN T \cap {id} = {}
      BY <1>3, <1>4, <1>6
    <2>2. DOMAIN (T (+) SetToBag({id})) = DOMAIN T \cup {id} /\ Ones(T (+) SetToBag({id}))
      BY <1>6, <2>1, BagGrows
    <2>3. DOMAIN T \cup {id} = I
      BY <1>6
    <2>4. QED
      BY <1>14, <2>2, <2>3
  <1>16. Merged(U, wins, H, s, I)
    BY <1>13, <1>14, <1>15 DEF Merged
  <1>17. QED
    BY <1>12, <1>16 DEF Merges, U, H, new

LEMMA MergeShares ==
  ASSUME NEW j \in Jobs, j.kind = "session", NEW acc \in SUBSET IdsIn(j), NEW em, NEW wins,
         SharedOut(j, acc, em, wins), NEW id \in IdsIn(j), id \notin acc
  PROVE  SharedOut(j, acc \cup {id}, em, MergeSession(wins, NewSession(j, id), id))
  <1> DEFINE new == NewSession(j, id)
             H == Hits(wins, new)
             U == MergeSession(wins, new, id)
             I == {id} \cup UNION {DOMAIN wins[w] : w \in H}
             A == acc \cup {id}
  <1>1. Counted(acc, em, wins) /\ Apart(j, em, wins) /\ Placed(j, em, wins)
        /\ Covered(j, acc, em, wins) /\ Disjoint(j, wins)
    BY DEF SharedOut
  <1>2. PICK s : Spans(s, H, new) /\ Merged(U, wins, H, s, I)
    <2>1. Merges(MergeSession(wins, NewSession(j, id), id), wins, NewSession(j, id), id)
      BY MergedIs
    <2>2. QED
      BY <2>1 DEF Merges
  <1>3. H \subseteq DOMAIN wins
    BY DEF Hits
  <1>4. \A w \in DOMAIN wins : Ones(wins[w]) /\ DOMAIN wins[w] \subseteq acc /\ DOMAIN wins[w] # {}
                               /\ SessionOf(j, w, DOMAIN wins[w])
    BY <1>1 DEF Counted, Placed, Holds
  <1>5. /\ new.key = KeyOf(j, id) /\ new.start = At(j, id) /\ new.end = At(j, id) + Size
        /\ new.start \in Int /\ new.end \in Int /\ new.start < new.end
    <2>1. At(j, id) \in Int /\ Size \in Nat \ {0}
      BY IdsAre, TimeParameters, TimesAre
    <2>2. QED
      BY <2>1 DEF NewSession
  <1>6. \A w \in DOMAIN wins : w.start \in Int /\ w.end \in Int /\ w.start < w.end
    BY AllBounds
  <1>7. I \subseteq A /\ id \in I /\ I \subseteq IdsIn(j)
    BY <1>3, <1>4
  <1>8. \A w \in H : DOMAIN wins[w] \subseteq I
    OBVIOUS
  <1>9. \A x \in I : x = id \/ \E w \in H : x \in DOMAIN wins[w]
    OBVIOUS
  <1>10. I = {id} \cup UNION {DOMAIN wins[w] : w \in Hits(wins, new)}
    OBVIOUS
  <1>11. Spans(s, Hits(wins, new), new)
    BY <1>2
  <1> HIDE DEF new, I
  <1>12. SessionOf(j, s, I)
    <2>1. \A w \in DOMAIN wins : SessionOf(j, w, DOMAIN wins[w])
      BY <1>4
    <2>2. QED
      BY <1>1, <1>5, <1>7, <1>10, <1>11, <2>1, SpanSession
  <1>13. \A v \in DOMAIN wins \ Hits(wins, new) : v.key = s.key => ~Overlap(v, s) /\ ~Overlap(s, v)
    BY <1>1, <1>5, <1>6, <1>11, SpanApart
  <1>14. \A v \in DOMAIN wins \ H : v.key = s.key => ~Overlap(v, s) /\ ~Overlap(s, v)
    BY <1>13
  <1> HIDE DEF H, U
  <1>15. /\ DOMAIN U = (DOMAIN wins \ H) \cup {s}
         /\ \A w \in DOMAIN wins \ H : U[w] = wins[w]
         /\ DOMAIN U[s] = I /\ Ones(U[s])
    BY <1>2 DEF Merged
  <1>16. \A w \in DOMAIN U : w # s => w \in DOMAIN wins /\ w \notin H /\ U[w] = wins[w]
    BY <1>15
  <1>17. s \in DOMAIN U
    BY <1>15
  <1>18. \A e \in DOMAIN em : id \notin DOMAIN e.ids
    BY <1>1 DEF Counted
  <1>19. \A w \in DOMAIN wins : id \notin DOMAIN wins[w]
    BY <1>4
  <1>20. Counted(A, em, U)
    <2>1. \A e \in DOMAIN em :
            /\ e = [win |-> e.win, ids |-> e.ids]
            /\ DOMAIN e.ids # {} /\ DOMAIN e.ids \subseteq A /\ Ones(e.ids)
      BY <1>1 DEF Counted
    <2>2. Ones(em)
      BY <1>1 DEF Counted
    <2>3. ASSUME NEW w \in DOMAIN U
          PROVE  DOMAIN U[w] # {} /\ DOMAIN U[w] \subseteq A /\ Ones(U[w])
      <3>1. CASE w = s
        BY <1>7, <1>15, <3>1
      <3>2. CASE w # s
        BY <1>4, <1>16, <3>2
      <3>3. QED
        BY <3>1, <3>2
    <2>4. QED
      BY <2>1, <2>2, <2>3 DEF Counted
  <1>21. ASSUME NEW X, id \notin X, \A w \in DOMAIN wins : w \in H => X \cap DOMAIN wins[w] = {}
         PROVE  X \cap I = {}
    BY <1>3, <1>9, <1>21
  <1>22. Apart(j, em, U)
    <2>1. ASSUME NEW e \in DOMAIN em, NEW w \in DOMAIN U
          PROVE  DOMAIN e.ids \cap DOMAIN U[w] = {}
      <3>1. \A v \in DOMAIN wins : DOMAIN e.ids \cap DOMAIN wins[v] = {}
        BY <1>1 DEF Apart, Same
      <3>2. CASE w = s
        BY <1>15, <1>18, <1>21, <3>1, <3>2
      <3>3. CASE w # s
        BY <1>16, <3>1, <3>3
      <3>4. QED
        BY <3>2, <3>3
    <2>2. \A e \in DOMAIN em : \A f \in DOMAIN em :
            e # f /\ Same(j, e.win, f.win) => DOMAIN e.ids \cap DOMAIN f.ids = {}
      BY <1>1 DEF Apart
    <2>3. ASSUME NEW v \in DOMAIN U, v # s
          PROVE  DOMAIN U[v] \cap DOMAIN U[s] = {}
      <3>1. v \in DOMAIN wins /\ v \notin H /\ U[v] = wins[v]
        BY <1>16, <2>3
      <3>2. \A w \in DOMAIN wins : w \in H => DOMAIN wins[v] \cap DOMAIN wins[w] = {}
        BY <1>1, <3>1 DEF Apart, Same
      <3>3. QED
        BY <1>15, <1>19, <1>21, <3>1, <3>2
    <2>4. ASSUME NEW v \in DOMAIN U, NEW w \in DOMAIN U, v # w
          PROVE  DOMAIN U[v] \cap DOMAIN U[w] = {}
      <3>1. CASE v = s
        BY <2>3, <2>4, <3>1
      <3>2. CASE w = s
        BY <2>3, <2>4, <3>2
      <3>3. CASE v # s /\ w # s
        <4>1. v \in DOMAIN wins /\ U[v] = wins[v] /\ w \in DOMAIN wins /\ U[w] = wins[w]
          BY <1>16, <3>3
        <4>2. QED
          BY <1>1, <2>4, <4>1 DEF Apart, Same
      <3>4. QED
        BY <3>1, <3>2, <3>3
    <2>5. QED
      BY <2>1, <2>2, <2>4 DEF Apart
  <1>23. Placed(j, em, U)
    <2>1. \A w \in DOMAIN U : SessionOf(j, w, DOMAIN U[w])
      BY <1>4, <1>12, <1>15, <1>16
    <2>2. QED
      BY <1>1, <2>1 DEF Placed, Holds
  <1>24. Covered(j, A, em, U)
    <2>1. ASSUME NEW x \in A
          PROVE  \/ \E w \in DOMAIN U : x \in DOMAIN U[w]
                 \/ \E e \in DOMAIN em : x \in DOMAIN e.ids
      <3>1. CASE x \in I
        BY <1>15, <1>17, <3>1
      <3>2. CASE x \notin I
        <4>1. x \in acc
          BY <1>7, <3>2
        <4>2. \/ \E w \in DOMAIN wins : x \in DOMAIN wins[w]
              \/ \E e \in DOMAIN em : x \in DOMAIN e.ids
          BY <1>1, <4>1 DEF Covered
        <4>3. ASSUME NEW w \in DOMAIN wins, x \in DOMAIN wins[w]
              PROVE  w \in DOMAIN U /\ x \in DOMAIN U[w]
          BY <1>8, <1>15, <3>2, <4>3
        <4>4. QED
          BY <4>2, <4>3
      <3>3. QED
        BY <3>1, <3>2
    <2>2. QED
      BY <2>1 DEF Covered
  <1>25. Disjoint(j, U)
    <2>1. ASSUME NEW v \in DOMAIN U, NEW w \in DOMAIN U, v # w, v.key = w.key
          PROVE  ~Overlap(v, w)
      <3>1. CASE v = s
        BY <1>14, <1>16, <2>1, <3>1
      <3>2. CASE w = s
        BY <1>14, <1>16, <2>1, <3>2
      <3>3. CASE v # s /\ w # s
        BY <1>1, <1>16, <2>1, <3>3 DEF Disjoint
      <3>4. QED
        BY <3>1, <3>2, <3>3
    <2>2. QED
      BY <2>1 DEF Disjoint
  <1>26. QED
    BY <1>20, <1>22, <1>23, <1>24, <1>25 DEF SharedOut, U, new

\* A record let through leaves its session ahead of the watermark and behind no
\* session that has fired.
LEMMA MergeKeepsOrder ==
  ASSUME NEW j \in Jobs, j.kind = "session", NEW acc \in SUBSET IdsIn(j), NEW em, NEW wins,
         SharedOut(j, acc, em, wins), NEW id \in IdsIn(j), id \notin acc,
         NEW wm \in Int, ~IsTooLate(wm, At(j, id)), OpenAhead(wins, wm)
  PROVE  /\ OpenAhead(MergeSession(wins, NewSession(j, id), id), wm)
         /\ FiredBehind(j, em, wins, wm) =>
              FiredBehind(j, em, MergeSession(wins, NewSession(j, id), id), wm)
  <1> DEFINE new == NewSession(j, id)
             H == Hits(wins, new)
             U == MergeSession(wins, new, id)
             I == {id} \cup UNION {DOMAIN wins[w] : w \in H}
             ts == At(j, id)
  <1>1. PICK s : Spans(s, H, new) /\ Merged(U, wins, H, s, I)
    <2>1. Merges(MergeSession(wins, NewSession(j, id), id), wins, NewSession(j, id), id)
      BY MergedIs
    <2>2. QED
      BY <2>1 DEF Merges
  <1>2. H \subseteq DOMAIN wins /\ \A w \in H : w.key = new.key
    BY DEF Hits
  <1>3. /\ ts \in Ancient + 1 .. MaxTime - 1 /\ Size \in Nat \ {0} /\ AllowedLateness \in Nat
    BY IdsAre, TimeParameters
  <1>4. new.start = ts /\ new.end = ts + Size
    BY DEF NewSession
  <1>5. wm = ZeroTime \/ ts >= wm - AllowedLateness
    BY <1>3, TimesAre DEF IsTooLate
  <1>6. /\ \A e \in DOMAIN em : e.win.end \in Int /\ Ancient < e.win.end
    BY AllBounds
  <1> HIDE DEF new, H, U, I, ts
  <1>7. /\ DOMAIN U = (DOMAIN wins \ H) \cup {s} /\ s.key = new.key
        /\ s.start \in Int /\ s.end \in Int /\ new.end <= s.end
        /\ \E w \in H \cup {new} : s.start = w.start
    BY <1>1 DEF Merged, Spans
  <1>8. OpenAhead(U, wm)
    <2>1. s.end + AllowedLateness > wm
      BY <1>3, <1>4, <1>5, <1>7, TimesAre
    <2>2. QED
      BY <1>7, <2>1 DEF OpenAhead
  <1>9. ASSUME FiredBehind(j, em, wins, wm)
        PROVE  FiredBehind(j, em, U, wm)
    <2>1. ASSUME NEW e \in DOMAIN em, e.win.key = s.key
          PROVE  e.win.end <= s.start
      <3>1. PICK w \in H \cup {new} : s.start = w.start
        BY <1>7
      <3>2. CASE w \in H
        BY <1>2, <1>7, <1>9, <2>1, <3>1, <3>2 DEF FiredBehind
      <3>3. CASE w = new
        <4>1. e.win.end + AllowedLateness <= wm
          BY <1>9 DEF FiredBehind
        <4>2. e.win.end <= ts
          BY <1>3, <1>5, <1>6, <4>1, TimesAre
        <4>3. QED
          BY <1>4, <3>1, <3>3, <4>2
      <3>4. QED
        BY <3>2, <3>3
    <2>2. \A e \in DOMAIN em : \A w \in DOMAIN U : e.win.key = w.key => e.win.end <= w.start
      BY <1>7, <1>9, <2>1 DEF FiredBehind
    <2>3. QED
      BY <1>9, <2>2 DEF FiredBehind
  <1>10. QED
    BY <1>8, <1>9 DEF U, new

-----------------------------------------------------------------------------
(* What the steps of the operator do to its windows.                       *)

LEMMA RecordWindows ==
  ASSUME NEW j \in Jobs, NEW acc \in SUBSET IdsIn(j), NEW em, NEW maxed, NEW wins,
         NEW wm \in Int, NEW id \in IdsIn(j), id \notin acc, NEW U,
         Windows(j, acc, em, maxed, "run", wins, wm), ~IsTooLate(wm, At(j, id)),
         U = IF j.kind = "session" THEN MergeSession(wins, NewSession(j, id), id)
             ELSE AppendToWindows(wins, WindowsOf(j, id), id)
  PROVE  Windows(j, acc \cup {id}, em, maxed, "run", U, wm)
  <1>1. /\ SharedOut(j, acc, em, wins) /\ OpenAhead(wins, wm)
        /\ ~maxed => NoClash(j, em) /\ wm # MaxTime /\ FiredBehind(j, em, wins, wm)
    BY DEF Windows
  <1>2. CASE j.kind = "session"
    <2>1. U = MergeSession(wins, NewSession(j, id), id)
      BY <1>2
    <2>2. SharedOut(j, acc \cup {id}, em, U)
      BY <1>1, <1>2, <2>1, MergeShares
    <2>3. OpenAhead(U, wm) /\ (FiredBehind(j, em, wins, wm) => FiredBehind(j, em, U, wm))
      BY <1>1, <1>2, <2>1, MergeKeepsOrder
    <2>4. QED
      BY <1>1, <2>2, <2>3 DEF Windows
  <1>3. CASE j.kind # "session"
    <2>1. U = AppendToWindows(wins, WindowsOf(j, id), id)
      BY <1>3
    <2>2. SharedOut(j, acc \cup {id}, em, U)
      BY <1>1, <1>3, <2>1, AppendShares
    <2>3. OpenAhead(U, wm)
      BY <1>1, <2>1, AppendAhead
    <2>4. FiredBehind(j, em, wins, wm) => FiredBehind(j, em, U, wm)
      BY <1>3 DEF FiredBehind
    <2>5. QED
      BY <1>1, <2>2, <2>3, <2>4 DEF Windows
  <1>4. QED
    BY <1>2, <1>3

LEMMA WatermarkWindows ==
  ASSUME NEW j \in Jobs, NEW acc \in SUBSET IdsIn(j), NEW em, NEW maxed \in BOOLEAN, NEW wins,
         NEW wm \in Int, NEW new \in Int, wm <= new,
         Windows(j, acc, em, maxed, "run", wins, wm)
  PROVE  Windows(j, acc, em (+) Fired(wins, Due(wins, new)), maxed \/ new = MaxTime, "run",
                 Unfired(wins, Due(wins, new)), new)
  <1> DEFINE D == Due(wins, new)
             B == em (+) Fired(wins, D)
             U == Unfired(wins, D)
  <1>1. /\ SharedOut(j, acc, em, wins) /\ OpenAhead(wins, wm)
        /\ ~maxed => NoClash(j, em) /\ wm # MaxTime /\ FiredBehind(j, em, wins, wm)
    BY DEF Windows
  <1>2. D \in SUBSET DOMAIN wins
    BY DEF Due
  <1>3. SharedOut(j, acc, B, U)
    <2> HIDE DEF D
    <2>1. QED
      BY <1>1, <1>2, FiringShares
  <1>4. OpenAhead(U, new)
    BY <1>1, DueLeavesAhead
  <1>5. FiredBehind(j, em, wins, wm) => FiredBehind(j, B, U, new)
    BY <1>1, FiringCloses
  <1>6. FiredBehind(j, em, wins, wm) /\ NoClash(j, em) => NoClash(j, B)
    <2> HIDE DEF D
    <2>1. QED
      BY <1>1, <1>2, FiringClashesNot
  <1> HIDE DEF B, U
  <1>7. ASSUME ~(maxed \/ new = MaxTime)
        PROVE  NoClash(j, B) /\ new # MaxTime /\ FiredBehind(j, B, U, new)
    <2>1. ~maxed /\ new # MaxTime
      BY <1>7, Zenon
    <2>2. QED
      BY <1>1, <1>5, <1>6, <2>1, Zenon
  <1>8. Windows(j, acc, B, maxed \/ new = MaxTime, "run", U, new)
    BY <1>3, <1>4, <1>7, Zenon DEF Windows
  <1>9. QED
    BY <1>8 DEF B, U

LEMMA FlushWindows ==
  ASSUME NEW j \in Jobs, NEW acc \in SUBSET IdsIn(j), NEW em, NEW maxed, NEW wins, NEW wm \in Int,
         NEW pc, pc # "run", Windows(j, acc, em, maxed, "run", wins, wm)
  PROVE  Windows(j, acc, em (+) Fired(wins, DOMAIN wins), maxed, pc, <<>>, wm)
  <1> DEFINE B == em (+) Fired(wins, DOMAIN wins)
             U == Unfired(wins, DOMAIN wins)
  <1>1. /\ SharedOut(j, acc, em, wins) /\ OpenAhead(wins, wm)
        /\ ~maxed => NoClash(j, em) /\ wm # MaxTime /\ FiredBehind(j, em, wins, wm)
    BY DEF Windows
  <1>2. DOMAIN wins \in SUBSET DOMAIN wins
    OBVIOUS
  <1>3. SharedOut(j, acc, B, U)
    BY <1>1, <1>2, FiringShares
  <1>4. DOMAIN U = {} /\ DOMAIN <<>> = {}
    <2>1. DOMAIN U = DOMAIN wins \ DOMAIN wins
      BY UnfiredIs
    <2>2. DOMAIN <<>> = {}
      OBVIOUS
    <2>3. QED
      BY <2>1, <2>2
  <1>5. FiredBehind(j, em, wins, wm) /\ NoClash(j, em) => NoClash(j, B)
    BY <1>1, <1>2, FiringClashesNot
  <1> HIDE DEF B, U
  <1>6. SharedOut(j, acc, B, <<>>)
    <2>1. Counted(acc, B, U) /\ Apart(j, B, U) /\ Placed(j, B, U) /\ Covered(j, acc, B, U)
      BY <1>3 DEF SharedOut
    <2>2. Counted(acc, B, <<>>)
      BY <1>4, <2>1 DEF Counted
    <2>3. Apart(j, B, <<>>)
      BY <1>4, <2>1 DEF Apart
    <2>4. Placed(j, B, <<>>)
      BY <1>4, <2>1 DEF Placed
    <2>5. Covered(j, acc, B, <<>>)
      BY <1>4, <2>1 DEF Covered
    <2>6. Disjoint(j, <<>>)
      BY <1>4 DEF Disjoint
    <2>7. QED
      BY <2>2, <2>3, <2>4, <2>5, <2>6 DEF SharedOut
  <1>7. OpenAhead(<<>>, wm)
    BY <1>4 DEF OpenAhead
  <1>8. Windows(j, acc, B, maxed, pc, <<>>, wm)
    BY <1>1, <1>4, <1>5, <1>6, <1>7 DEF Windows
  <1>9. QED
    BY <1>8 DEF B

\* A checkpoint's watermark is the old one, or the date that stands for one that
\* cannot be stored; no window ends before that.
LEMMA RestoreWindows ==
  ASSUME NEW j \in Jobs, NEW acc \in SUBSET IdsIn(j), NEW em, NEW maxed, NEW wins, NEW wm \in Int,
         NEW new \in Int, new = wm \/ (wm \in {ZeroTime, MaxTime} /\ new = Ancient),
         Windows(j, acc, em, maxed, "run", wins, wm)
  PROVE  Windows(j, acc, em, maxed, "run", wins, new)
  <1>1. /\ SharedOut(j, acc, em, wins) /\ OpenAhead(wins, wm)
        /\ ~maxed => NoClash(j, em) /\ wm # MaxTime /\ FiredBehind(j, em, wins, wm)
    BY DEF Windows
  <1>2. AllowedLateness \in Nat
    BY TimeParameters
  <1>3. OpenAhead(wins, new)
    <2>1. \A w \in DOMAIN wins : w.end \in Int /\ Ancient < w.end
      BY <1>1, AllBounds
    <2>2. QED
      BY <1>1, <1>2, <2>1, TimesAre DEF OpenAhead
  <1>4. wm # MaxTime /\ FiredBehind(j, em, wins, wm) =>
          new # MaxTime /\ FiredBehind(j, em, wins, new)
    <2>1. \A e \in DOMAIN em : e.win.end \in Int
      BY <1>1, AllBounds
    <2>2. wm # MaxTime => wm <= new /\ new # MaxTime
      BY TimesAre
    <2>3. QED
      BY <1>2, <2>1, <2>2 DEF FiredBehind
  <1>5. QED
    BY <1>1, <1>3, <1>4 DEF Windows

-----------------------------------------------------------------------------
(* The steps of the job.                                                   *)

LEMMA NothingShared ==
  ASSUME NEW j, NEW maxed
  PROVE  Windows(j, {}, EmptyBag, maxed, "run", <<>>, ZeroTime)
  <1>1. DOMAIN <<>> = {}
    OBVIOUS
  <1>2. DOMAIN EmptyBag = {} /\ Ones(EmptyBag)
    BY EmptyBagIs
  <1>3. ZeroTime # MaxTime
    BY TimesAre
  <1> DEFINE E == EmptyBag
             U == <<>>
  <1>4. DOMAIN E = {} /\ Ones(E) /\ DOMAIN U = {}
    BY <1>1, <1>2
  <1> HIDE DEF E, U
  <1>5. Counted({}, E, U)
    BY <1>4 DEF Counted
  <1>6. Apart(j, E, U) /\ Placed(j, E, U) /\ Covered(j, {}, E, U) /\ Disjoint(j, U)
    BY <1>4 DEF Apart, Placed, Covered, Disjoint
  <1>7. OpenAhead(U, ZeroTime) /\ NoClash(j, E) /\ FiredBehind(j, E, U, ZeroTime)
    BY <1>4 DEF OpenAhead, NoClash, FiredBehind
  <1>8. Windows(j, {}, E, maxed, "run", U, ZeroTime)
    BY <1>3, <1>5, <1>6, <1>7 DEF Windows, SharedOut
  <1>9. QED
    BY <1>8 DEF E, U

LEMMA WindowInit ==
  ASSUME Init
  PROVE  WindowInv
  <1>1. hist = NoHistory /\ op = [pc |-> "run", wm |-> ZeroTime, wins |-> <<>>]
    BY DEF Init
  <1>2. /\ saved.wm = ZeroTime /\ saved.wins = <<>> /\ saved.hist = NoHistory
    BY DEF Init
  <1>3. NoHistory.accepted = {} /\ NoHistory.emitted = EmptyBag
    BY DEF NoHistory
  <1>4. op.pc = "run" /\ op.wm = ZeroTime /\ op.wins = <<>>
    BY <1>1
  <1>5. Windows(job, {}, EmptyBag, hist.maxed, "run", <<>>, ZeroTime)
        /\ Windows(job, {}, EmptyBag, saved.hist.maxed, "run", <<>>, ZeroTime)
    BY NothingShared
  <1>6. QED
    BY <1>1, <1>2, <1>3, <1>4, <1>5, Zenon DEF WindowInv

\* Steps in front of the operator.
LEMMA WindowsUntouched ==
  ASSUME WindowInv, job' = job, op' = op, saved' = saved, hist'.accepted = hist.accepted,
         hist'.emitted = hist.emitted, hist'.maxed = hist.maxed
  PROVE  WindowInv'
  BY Zenon DEF WindowInv

LEMMA EmitUntouched ==
  ASSUME Types, EmitWatermark
  PROVE  /\ job' = job /\ op' = op /\ saved' = saved /\ hist'.accepted = hist.accepted
         /\ hist'.emitted = hist.emitted /\ hist'.maxed = hist.maxed
  <1>1. HistTypes(job, hist)
    BY DEF Types
  <1>2. job' = job /\ op' = op /\ saved' = saved
    BY DEF EmitWatermark
  <1>3. hist' = hist \/ \E x : hist' = [hist EXCEPT !.waived = x]
    BY DEF EmitWatermark
  <1>4. \A x : HistIs([hist EXCEPT !.waived = x], hist.accepted, hist.late, hist.emitted,
                      hist.maxed, x)
    BY <1>1, HistWaives, Zenon
  <1>5. \A x : LET h == [hist EXCEPT !.waived = x]
               IN  h.accepted = hist.accepted /\ h.emitted = hist.emitted /\ h.maxed = hist.maxed
    BY <1>4, Zenon DEF HistIs
  <1>6. QED
    BY <1>2, <1>3, <1>5, Zenon

LEMMA RecordWindowInv ==
  ASSUME Types, StreamInv, WindowInv, OpRecord
  PROVE  WindowInv'
  <1> DEFINE id == Head(ch).id
  <1>1. /\ ch # <<>> /\ Head(ch).type = "record" /\ job' = job
        /\ op.pc = "run" /\ job \in Jobs /\ ch \in Seq(Messages(job))
        /\ Head(ch) \in Messages(job) /\ HistTypes(job, hist)
    BY Received DEF OpRecord
  <1>2. id \in IdsIn(job)
    BY <1>1, MessagesAre
  <1>3. /\ saved' = saved
        /\ \/ hist' = [hist EXCEPT !.late = hist.late \cup {id}] /\ op' = op
           \/ /\ ~IsTooLate(op.wm, Rec(id).ts)
              /\ hist' = [hist EXCEPT !.accepted = hist.accepted \cup {id}]
              /\ op' = [op EXCEPT !.wins = HandleDataRecord(op.wins, id)]
    BY DEF OpRecord
  <1>4. id \notin hist.accepted
    <2>1. 1 \in DOMAIN ch /\ ch[1].type = "record" /\ ch[1].id = id
      BY <1>1, TailIs
    <2>2. \A x \in Taken(hist) : x[1] = id[1] => x[2] < id[2]
      BY <2>1 DEF StreamInv, CutInv
    <2>3. id[2] \in Nat
      BY <1>1, <1>2, IdsAre
    <2>4. QED
      BY <2>2, <2>3 DEF Taken
  <1> HIDE DEF id
  <1>5. /\ Rec(id).ts = At(job, id) /\ Rec(id).key = KeyOf(job, id)
    BY DEF Rec, At, KeyOf
  <1>6. HandleDataRecord(op.wins, id)
          = IF job.kind = "session" THEN MergeSession(op.wins, NewSession(job, id), id)
            ELSE AppendToWindows(op.wins, WindowsOf(job, id), id)
    <2> DEFINE keys == {WindowKey(Rec(id).key, win) : win \in AssignWindows(Rec(id).ts)}
    <2>1. HandleDataRecord(op.wins, id)
            = IF job.kind = "session" THEN MergeSession(op.wins, CHOOSE w \in keys : TRUE, id)
              ELSE AppendToWindows(op.wins, keys, id)
      BY DEF HandleDataRecord
    <2>2. CASE job.kind = "session"
      <3>1. AssignWindows(Rec(id).ts) = {[start |-> At(job, id), end |-> At(job, id) + Size]}
        BY <1>5, <2>2 DEF AssignWindows, SessionWindow
      <3>2. WindowKey(Rec(id).key, [start |-> At(job, id), end |-> At(job, id) + Size])
              = NewSession(job, id)
        BY <1>5 DEF WindowKey, NewSession
      <3>3. keys = {NewSession(job, id)}
        BY <3>1, <3>2
      <3>4. (CHOOSE w \in keys : TRUE) = NewSession(job, id)
        BY <3>3
      <3>5. QED
        BY <2>1, <2>2, <3>4
    <2>3. CASE job.kind # "session"
      <3>1. keys = WindowsOf(job, id)
        BY <1>1, <1>2, <2>3, AssignIsWindowsOf
      <3>2. QED
        BY <2>1, <2>3, <3>1
    <2>4. QED
      BY <2>2, <2>3
  <1>7. op \in [pc : {"run", "done", "idle"}, wm : ZeroTime .. MaxTime, wins : {op.wins}]
        /\ hist.accepted \in SUBSET IdsIn(job)
    BY DEF Types, HistTypes
  <1>8. op.wm \in Int
    BY <1>7, TimesAre
  <1>9. CASE hist' = [hist EXCEPT !.late = hist.late \cup {id}] /\ op' = op
    <2>1. HistIs(hist', hist.accepted, hist.late \cup {id}, hist.emitted, hist.maxed,
                 hist.waived)
      BY <1>1, <1>9, HistDrops, Zenon
    <2>2. hist'.accepted = hist.accepted /\ hist'.emitted = hist.emitted
          /\ hist'.maxed = hist.maxed
      BY <2>1, Zenon DEF HistIs
    <2>3. QED
      BY <1>1, <1>3, <1>9, <2>2, WindowsUntouched, Zenon
  <1>10. CASE /\ ~IsTooLate(op.wm, Rec(id).ts)
              /\ hist' = [hist EXCEPT !.accepted = hist.accepted \cup {id}]
              /\ op' = [op EXCEPT !.wins = HandleDataRecord(op.wins, id)]
    <2> DEFINE U == HandleDataRecord(op.wins, id)
    <2>1. HistIs(hist', hist.accepted \cup {id}, hist.late, hist.emitted, hist.maxed,
                 hist.waived)
      BY <1>1, <1>10, HistAccepts, Zenon
    <2>2. hist'.accepted = hist.accepted \cup {id} /\ hist'.emitted = hist.emitted
          /\ hist'.maxed = hist.maxed
      BY <2>1, Zenon DEF HistIs
    <2>3. op'.pc = "run" /\ op'.wm = op.wm /\ op'.wins = U
      BY <1>1, <1>7, <1>10
    <2>4. U = IF job.kind = "session" THEN MergeSession(op.wins, NewSession(job, id), id)
              ELSE AppendToWindows(op.wins, WindowsOf(job, id), id)
      BY <1>6
    <2>5. Windows(job, hist.accepted, hist.emitted, hist.maxed, "run", op.wins, op.wm)
      BY <1>1, Zenon DEF WindowInv
    <2>6. ~IsTooLate(op.wm, At(job, id))
      BY <1>5, <1>10
    <2> HIDE DEF U
    <2>7. Windows(job, hist.accepted \cup {id}, hist.emitted, hist.maxed, "run", U, op.wm)
      BY <1>1, <1>2, <1>4, <1>7, <1>8, <2>4, <2>5, <2>6, RecordWindows, Zenon
    <2>8. QED
      BY <1>1, <1>3, <2>2, <2>3, <2>7, Zenon DEF WindowInv
  <1>11. QED
    BY <1>3, <1>9, <1>10

LEMMA WatermarkWindowInv ==
  ASSUME Types, StreamInv, WindowInv, OpWatermark
  PROVE  WindowInv'
  <1> DEFINE wm == IF Head(ch).ts > op.wm THEN Head(ch).ts ELSE op.wm
             due == Due(op.wins, wm)
             em == hist.emitted (+) Fired(op.wins, due)
  <1>1. /\ ch # <<>> /\ Head(ch).type = "watermark" /\ job' = job
        /\ op.pc = "run" /\ job \in Jobs /\ ch \in Seq(Messages(job))
        /\ Head(ch) \in Messages(job) /\ HistTypes(job, hist)
    BY Received DEF OpWatermark
  <1>2. /\ saved' = saved /\ op' = [op EXCEPT !.wm = wm, !.wins = Unfired(@, due)]
        /\ hist' = [hist EXCEPT !.emitted = em, !.maxed = @ \/ wm = MaxTime]
    BY DEF OpWatermark
  <1>3. Head(ch).ts \in ZeroTime + 1 .. MaxTime
    BY <1>1, MessagesAre
  <1>4. op \in [pc : {"run", "done", "idle"}, wm : ZeroTime .. MaxTime, wins : {op.wins}]
        /\ hist.accepted \in SUBSET IdsIn(job) /\ hist.maxed \in BOOLEAN
    BY DEF Types, HistTypes
  <1>5. op.wm \in Int /\ wm \in Int /\ op.wm <= wm
    BY <1>3, <1>4, TimesAre
  <1>6. Windows(job, hist.accepted, hist.emitted, hist.maxed, "run", op.wins, op.wm)
    BY <1>1, Zenon DEF WindowInv
  <1> HIDE DEF wm
  <1>7. Windows(job, hist.accepted, em, hist.maxed \/ wm = MaxTime, "run",
                Unfired(op.wins, due), wm)
    BY <1>1, <1>4, <1>5, <1>6, WatermarkWindows, Zenon
  <1> HIDE DEF due, em
  <1>8. HistIs(hist', hist.accepted, hist.late, em, hist.maxed \/ wm = MaxTime, hist.waived)
    BY <1>1, <1>2, HistFires, Zenon
  <1>9. /\ hist'.accepted = hist.accepted /\ hist'.emitted = em
        /\ hist'.maxed = (hist.maxed \/ wm = MaxTime)
    BY <1>8, Zenon DEF HistIs
  <1>10. op'.pc = "run" /\ op'.wm = wm /\ op'.wins = Unfired(op.wins, due)
    BY <1>1, <1>2, <1>4
  <1>11. QED
    BY <1>1, <1>2, <1>7, <1>9, <1>10, Zenon DEF WindowInv

LEMMA BarrierWindowInv ==
  ASSUME Types, StreamInv, WindowInv, OpBarrier
  PROVE  WindowInv'
  <1>1. job' = job /\ op.pc = "run"
    BY Received DEF OpBarrier
  <1>2. op' = op /\ hist' = hist
        /\ \/ saved' = [offsets |-> Head(ch).offsets, named |-> Head(ch).named, wm |-> op.wm,
                        wins |-> op.wins, hist |-> hist]
           \/ saved' = saved
    BY DEF OpBarrier
  <1>3. CASE saved' = saved
    BY <1>1, <1>2, <1>3, WindowsUntouched, Zenon
  <1>4. CASE saved' = [offsets |-> Head(ch).offsets, named |-> Head(ch).named, wm |-> op.wm,
                        wins |-> op.wins, hist |-> hist]
    <2>1. saved'.wm = op.wm /\ saved'.wins = op.wins /\ saved'.hist = hist
      BY <1>4
    <2>2. QED
      BY <1>1, <1>2, <2>1, Zenon DEF WindowInv
  <1>5. QED
    BY <1>2, <1>3, <1>4

LEMMA FlushWindowInv ==
  ASSUME Types, WindowInv, NEW pc \in {"done", "idle"}, Flush(pc)
  PROVE  WindowInv'
  <1> DEFINE em == hist.emitted (+) Fired(op.wins, DOMAIN op.wins)
  <1>1. /\ job' = job /\ saved' = saved /\ op.pc = "run"
        /\ op' = [op EXCEPT !.pc = pc, !.wins = <<>>]
        /\ hist' = [hist EXCEPT !.emitted = em]
    BY DEF Flush
  <1>2. HistTypes(job, hist) /\ job \in Jobs
        /\ op \in [pc : {"run", "done", "idle"}, wm : ZeroTime .. MaxTime, wins : {op.wins}]
    BY DEF Types
  <1>3. hist.accepted \in SUBSET IdsIn(job) /\ op.wm \in Int /\ pc # "run"
    BY <1>2, TimesAre DEF HistTypes
  <1>4. Windows(job, hist.accepted, hist.emitted, hist.maxed, "run", op.wins, op.wm)
    BY <1>1, Zenon DEF WindowInv
  <1>5. Windows(job, hist.accepted, em, hist.maxed, pc, <<>>, op.wm)
    BY <1>2, <1>3, <1>4, FlushWindows, Zenon
  <1> HIDE DEF em
  <1>6. HistIs(hist', hist.accepted, hist.late, em, hist.maxed, hist.waived)
    BY <1>1, <1>2, HistEmits, Zenon
  <1>7. hist'.accepted = hist.accepted /\ hist'.emitted = em /\ hist'.maxed = hist.maxed
    BY <1>6, Zenon DEF HistIs
  <1>8. op'.pc = pc /\ op'.wm = op.wm /\ op'.wins = <<>>
    BY <1>1, <1>2
  <1>9. QED
    BY <1>1, <1>5, <1>7, <1>8, Zenon DEF WindowInv

LEMMA RestartWindowInv ==
  ASSUME Types, WindowInv, Restart
  PROVE  WindowInv'
  <1> DEFINE wm == RestoredWatermark(saved.wm)
  <1>1. /\ job' = job /\ saved' = saved
        /\ op' = [pc |-> "run", wm |-> wm, wins |-> saved.wins]
        /\ hist' = [saved.hist EXCEPT !.waived = hist.waived]
    BY DEF Restart
  <1>2. job \in Jobs /\ HistTypes(job, saved.hist) /\ saved.wm \in ZeroTime .. MaxTime
    BY DEF Types
  <1>3. saved.hist.accepted \in SUBSET IdsIn(job) /\ saved.wm \in Int
    BY <1>2, TimesAre DEF HistTypes
  <1>4. wm \in Int /\ (wm = saved.wm \/ (saved.wm \in {ZeroTime, MaxTime} /\ wm = Ancient))
    BY <1>3, TimesAre DEF RestoredWatermark, StoredTime
  <1>5. Windows(job, saved.hist.accepted, saved.hist.emitted, saved.hist.maxed, "run",
                saved.wins, saved.wm)
    BY Zenon DEF WindowInv
  <1> HIDE DEF wm
  <1>6. Windows(job, saved.hist.accepted, saved.hist.emitted, saved.hist.maxed, "run",
                saved.wins, wm)
    BY <1>2, <1>3, <1>4, <1>5, RestoreWindows, Zenon
  <1>7. HistIs(hist', saved.hist.accepted, saved.hist.late, saved.hist.emitted,
               saved.hist.maxed, hist.waived)
    BY <1>1, <1>2, HistWaives, Zenon
  <1>8. hist'.accepted = saved.hist.accepted /\ hist'.emitted = saved.hist.emitted
        /\ hist'.maxed = saved.hist.maxed
    BY <1>7, Zenon DEF HistIs
  <1>9. op'.pc = "run" /\ op'.wm = wm /\ op'.wins = saved.wins
    BY <1>1
  <1>10. QED
    BY <1>1, <1>5, <1>6, <1>8, <1>9, Zenon DEF WindowInv

LEMMA WindowStep ==
  ASSUME Types, StreamInv, WindowInv, [Next]_vars
  PROVE  WindowInv'
  <1>1. CASE \E p \in Partitions : ReadRecord(p) \/ PartitionIdles(p)
    <2>1. job' = job /\ op' = op /\ saved' = saved /\ hist' = hist
      BY <1>1 DEF ReadRecord, PartitionIdles
    <2>2. QED
      BY <2>1, WindowsUntouched, Zenon
  <1>2. CASE EmitWatermark
    BY <1>2, EmitUntouched, WindowsUntouched, Zenon
  <1>3. CASE SourceEnds \/ PeriodicBarrier \/ ShutdownBarrier \/ FinalBarrier
    <2>1. job' = job /\ op' = op /\ saved' = saved /\ hist' = hist
      BY <1>3 DEF SourceEnds, PeriodicBarrier, ShutdownBarrier, FinalBarrier, Barrier
    <2>2. QED
      BY <2>1, WindowsUntouched, Zenon
  <1>4. CASE OpRecord
    BY <1>4, RecordWindowInv
  <1>5. CASE OpWatermark
    BY <1>5, WatermarkWindowInv
  <1>6. CASE OpBarrier
    BY <1>6, BarrierWindowInv
  <1>7. CASE InputCloses \/ IdleTimeout
    BY <1>7, FlushWindowInv DEF InputCloses, IdleTimeout
  <1>8. CASE Restart
    BY <1>8, RestartWindowInv
  <1>9. CASE Cancel \/ Done \/ UNCHANGED vars
    <2>1. job' = job /\ op' = op /\ saved' = saved /\ hist' = hist
      BY <1>9 DEF Cancel, Done, vars
    <2>2. QED
      BY <2>1, WindowsUntouched, Zenon
  <1>10. QED
    BY <1>1, <1>2, <1>3, <1>4, <1>5, <1>6, <1>7, <1>8, <1>9 DEF Next

\* The inductive invariant of the window operator: open and fired windows share
\* the accepted records out, every one among its own windows, open sessions of a
\* key are disjoint, open windows are ahead of the watermark and fired ones
\* behind it; the same holds of every checkpoint (handleDataRecord,
\* handleWatermark, fireWindow, Snapshot, Restore).
\* It holds until a restart reads a partition from its beginning again.
THEOREM WindowInvHolds == Spec => [](~rewound => Types /\ StreamInv /\ WindowInv)
  <1>1. (~rewound => Types /\ StreamInv) /\ (~rewound => WindowInv) /\ [Next]_vars
          => (~rewound => WindowInv)'
    BY WindowStep, StaysRewound
  <1>2. Init => (~rewound => WindowInv)
    BY WindowInit
  <1>3. (~rewound => Types /\ StreamInv) /\ (~rewound => WindowInv)
          => (~rewound => Types /\ StreamInv /\ WindowInv)
    OBVIOUS
  <1>4. QED
    BY <1>1, <1>2, <1>3, StreamInvHolds, PTL DEF Spec

\* A window that has fired is neither opened nor fired again, and no session
\* overlaps a fired one, before the last watermark: for every job and lateness
\* (isTooLate, fireWindow).
THEOREM FiredWindowStaysClosedHolds == Spec => []FiredWindowStaysClosed
  <1>1. (~rewound => Types /\ StreamInv /\ WindowInv) => FiredWindowStaysClosed
    <2> SUFFICES ASSUME ~rewound, Types, WindowInv, ~hist.maxed, NEW e \in DOMAIN hist.emitted
                 PROVE  /\ \A f \in DOMAIN hist.emitted \ {e} : ~Clash(e.win, f.win)
                        /\ \A w \in DOMAIN op.wins : ~Clash(e.win, w)
      BY Zenon DEF FiredWindowStaysClosed
    <2>1. \A a, b : Clash(a, b) <=> ClashIn(job, a, b)
      BY DEF Clash, ClashIn
    <2>2. job \in Jobs /\ HistTypes(job, hist)
          /\ op \in [pc : {"run", "done", "idle"}, wm : ZeroTime .. MaxTime, wins : {op.wins}]
      BY DEF Types
    <2>3. hist.accepted \in SUBSET IdsIn(job) /\ op.wm \in Int
      BY <2>2, TimesAre DEF HistTypes
    <2>4. Windows(job, hist.accepted, hist.emitted, hist.maxed, op.pc, op.wins, op.wm)
      BY Zenon DEF WindowInv
    <2>5. /\ SharedOut(job, hist.accepted, hist.emitted, op.wins) /\ OpenAhead(op.wins, op.wm)
          /\ NoClash(job, hist.emitted) /\ (op.pc # "run" => DOMAIN op.wins = {})
          /\ op.pc = "run" => FiredBehind(job, hist.emitted, op.wins, op.wm)
      BY <2>4, Zenon DEF Windows
    <2>6. \A f \in DOMAIN hist.emitted \ {e} : ~Clash(e.win, f.win)
      BY <2>1, <2>5 DEF NoClash
    <2>7. ASSUME NEW w \in DOMAIN op.wins
          PROVE  ~ClashIn(job, e.win, w)
      <3>1. FiredBehind(job, hist.emitted, op.wins, op.wm)
        BY <2>5
      <3>2. w.start \in Int /\ w.end \in Int /\ e.win.end \in Int /\ AllowedLateness \in Nat
        BY <2>2, <2>3, <2>5, AllBounds, TimeParameters
      <3>3. CASE job.kind = "session"
        <4>1. e.win.key = w.key => e.win.end <= w.start
          BY <3>1, <3>3 DEF FiredBehind
        <4>2. QED
          BY <3>2, <3>3, <4>1 DEF ClashIn, Overlap
      <3>4. CASE job.kind # "session"
        <4>1. e.win.end + AllowedLateness <= op.wm /\ w.end + AllowedLateness > op.wm
          BY <2>5, <3>1 DEF FiredBehind, OpenAhead
        <4>2. e.win # w
          BY <2>3, <3>2, <4>1
        <4>3. QED
          BY <3>4, <4>2 DEF ClashIn
      <3>5. QED
        BY <3>3, <3>4
    <2>8. QED
      BY <2>1, <2>6, <2>7
  <1>2. QED
    BY <1>1, WindowInvHolds, PTL

-----------------------------------------------------------------------------
(* Counting windows.                                                       *)

LEMMA BagInIs ==
  ASSUME NEW B, NEW x
  PROVE  BagIn(x, B) <=> x \in DOMAIN B
  BY DEF BagIn, BagToSet

LEMMA OnesAre ==
  ASSUME NEW B, Ones(B), NEW x \in DOMAIN B
  PROVE  B[x] = 1
  <1>1. B = SetToBag(DOMAIN B)
    BY DEF Ones
  <1>2. QED
    BY <1>1 DEF SetToBag

\* Fired windows that differ in their windows are as many as these.
LEMMA FiredCount ==
  ASSUME NEW F, NEW V, IsFiniteSet(V), \A e \in F : e.win \in V,
         \A v \in V : \E e \in F : e.win = v,
         \A e \in F : \A f \in F : e.win = f.win => e = f
  PROVE  Cardinality(F) = Cardinality(V)
  <1> DEFINE m == [e \in F |-> e.win]
  <1>1. m \in [F -> V]
    OBVIOUS
  <1>2. m \in Injection(F, V)
    BY <1>1 DEF Injection, IsInjective
  <1>3. m \in Surjection(F, V)
    BY <1>1 DEF Surjection
  <1> HIDE DEF m
  <1>4. QED
    BY <1>2, <1>3, FS_Injection

LEMMA WindowsOfFinite ==
  ASSUME NEW j \in Jobs, NEW id \in IdsIn(j)
  PROVE  IsFiniteSet(WindowsOf(j, id))
  <1> DEFINE W == WindowsOf(j, id)
             lo == At(j, id) - Size + 1
             hi == At(j, id)
             m == [w \in W |-> w.start]
  <1>1. lo \in Int /\ hi \in Int /\ Size \in Nat
    BY IdsAre, TimeParameters, TimesAre
  <1>2. \A w \in W : /\ w.start \in lo .. hi
                     /\ w = [key |-> KeyOf(j, id), start |-> w.start, end |-> w.start + Size]
    BY DEF WindowsOf
  <1> HIDE DEF W, lo, hi
  <1>3. m \in [W -> lo .. hi]
    BY <1>2
  <1>4. \A v \in W : \A w \in W : m[v] = m[w] => v = w
    BY <1>2
  <1>5. m \in Injection(W, lo .. hi)
    BY <1>3, <1>4 DEF Injection, IsInjective
  <1>6. IsFiniteSet(lo .. hi)
    BY <1>1, FS_Interval
  <1> HIDE DEF m
  <1>7. IsFiniteSet(W)
    BY <1>5, <1>6, FS_Injection
  <1>8. QED
    BY <1>7 DEF W

\* What the invariant says of the job's history and open windows.
LEMMA WindowInvGives ==
  ASSUME Types, WindowInv
  PROVE  /\ job \in Jobs /\ hist.accepted \in SUBSET IdsIn(job)
         /\ Counted(hist.accepted, hist.emitted, op.wins) /\ Apart(job, hist.emitted, op.wins)
         /\ Placed(job, hist.emitted, op.wins)
         /\ Covered(job, hist.accepted, hist.emitted, op.wins) /\ Disjoint(job, op.wins)
  <1>1. job \in Jobs /\ HistTypes(job, hist)
    BY DEF Types
  <1>2. hist.accepted \in SUBSET IdsIn(job)
    BY <1>1 DEF HistTypes
  <1>3. SharedOut(job, hist.accepted, hist.emitted, op.wins)
    BY Zenon DEF WindowInv, Windows
  <1>4. QED
    BY <1>1, <1>2, <1>3 DEF SharedOut

\* The windows of an accepted record, open and fired.
LEMMA HeldIn ==
  ASSUME Types, WindowInv, NEW id \in hist.accepted
  PROVE  /\ \A w : w \in OpenIn(id) <=> w \in DOMAIN op.wins /\ id \in DOMAIN op.wins[w]
         /\ \A e : e \in FiredIn(id) <=> e \in DOMAIN hist.emitted /\ id \in DOMAIN e.ids
         /\ \A w \in OpenIn(id) : op.wins[w][id] = 1
         /\ \A e \in FiredIn(id) : hist.emitted[e] = 1 /\ e.ids[id] = 1
  <1>1. \A w : w \in OpenIn(id) <=> w \in DOMAIN op.wins /\ id \in DOMAIN op.wins[w]
    BY BagInIs DEF OpenIn
  <1>2. \A e : e \in FiredIn(id) <=> e \in DOMAIN hist.emitted /\ id \in DOMAIN e.ids
    BY BagInIs DEF FiredIn
  <1>3. /\ Ones(hist.emitted) /\ \A w \in DOMAIN op.wins : Ones(op.wins[w])
        /\ \A e \in DOMAIN hist.emitted : Ones(e.ids)
    BY WindowInvGives DEF Counted
  <1>4. QED
    BY <1>1, <1>2, <1>3, OnesAre

\* An accepted record is in each of its aligned windows once, open or fired, and
\* in no other: for every job, size, slide and offset, whatever the order of
\* records, watermarks, barriers, stops and restarts (handleDataRecord,
\* fireWindow, Snapshot, Restore).
THEOREM InEachWindowOnceHolds == Spec => []InEachWindowOnce
  <1>1. (~rewound => Types /\ StreamInv /\ WindowInv) => InEachWindowOnce
    <2> SUFFICES ASSUME ~rewound, Types, WindowInv, job.kind # "session", NEW id \in hist.accepted
                 PROVE  /\ \A w \in OpenIn(id) : op.wins[w][id] = 1
                        /\ \A e \in FiredIn(id) : hist.emitted[e] = 1 /\ e.ids[id] = 1
                        /\ Cardinality(FiredIn(id)) + Cardinality(OpenIn(id))
                             = Cardinality(TrueWindows(id))
                        /\ OpenIn(id) \cup {e.win : e \in FiredIn(id)} = TrueWindows(id)
      BY DEF InEachWindowOnce
    <2> DEFINE O == OpenIn(id)
               F == FiredIn(id)
               W == TrueWindows(id)
               V == {e.win : e \in F}
    <2>1. /\ \A w : w \in O <=> w \in DOMAIN op.wins /\ id \in DOMAIN op.wins[w]
          /\ \A e : e \in F <=> e \in DOMAIN hist.emitted /\ id \in DOMAIN e.ids
          /\ \A w \in O : op.wins[w][id] = 1
          /\ \A e \in F : hist.emitted[e] = 1 /\ e.ids[id] = 1
      BY HeldIn
    <2>2. /\ job \in Jobs /\ id \in IdsIn(job) /\ Apart(job, hist.emitted, op.wins)
          /\ Placed(job, hist.emitted, op.wins)
          /\ Covered(job, hist.accepted, hist.emitted, op.wins)
      BY WindowInvGives
    <2>3. W = WindowsOf(job, id)
      <3>1. Rec(id).ts = At(job, id) /\ Rec(id).key = KeyOf(job, id)
        BY DEF Rec, At, KeyOf
      <3>2. QED
        BY <3>1 DEF TrueWindows, WindowsOf
    <2>4. IsFiniteSet(W)
      BY <2>2, <2>3, WindowsOfFinite
    <2> HIDE DEF O, F, W
    <2>5. O \subseteq W
      BY <2>1, <2>2, <2>3 DEF Placed, Holds
    <2>6. V \subseteq W
      BY <2>1, <2>2, <2>3 DEF Placed, Holds
    <2>7. W \subseteq O \cup V
      <3>1. ASSUME NEW v \in W
            PROVE  v \in O \cup V
        <4>1. \/ v \in DOMAIN op.wins /\ id \in DOMAIN op.wins[v]
              \/ \E e \in DOMAIN hist.emitted : e.win = v /\ id \in DOMAIN e.ids
          BY <2>2, <2>3 DEF Covered
        <4>2. QED
          BY <2>1, <4>1
      <3>2. QED
        BY <3>1
    <2>8. O \cap V = {}
      <3>1. ASSUME NEW e \in F, e.win \in O
            PROVE  FALSE
        <4>1. e \in DOMAIN hist.emitted /\ id \in DOMAIN e.ids
              /\ e.win \in DOMAIN op.wins /\ id \in DOMAIN op.wins[e.win]
          BY <2>1, <3>1
        <4>2. Same(job, e.win, e.win)
          BY DEF Same
        <4>3. DOMAIN e.ids \cap DOMAIN op.wins[e.win] = {}
          BY <2>2, <4>1, <4>2 DEF Apart
        <4>4. QED
          BY <4>1, <4>3
      <3>2. QED
        BY <3>1
    <2>9. \A e \in F : \A f \in F : e.win = f.win => e = f
      BY <2>1, <2>2 DEF Apart, Same
    <2>10. IsFiniteSet(O) /\ IsFiniteSet(V)
      BY <2>4, <2>5, <2>6, FS_Subset
    <2>11. Cardinality(F) = Cardinality(V)
      <3>1. \A e \in F : e.win \in V
        OBVIOUS
      <3>2. \A v \in V : \E e \in F : e.win = v
        OBVIOUS
      <3> HIDE DEF V
      <3>3. QED
        BY <2>9, <2>10, <3>1, <3>2, FiredCount
    <2> HIDE DEF V
    <2>12. O \cup V = W
      BY <2>5, <2>6, <2>7
    <2>13. Cardinality(W) = Cardinality(O) + Cardinality(V) - Cardinality(O \cap V)
      BY <2>10, <2>12, FS_Union
    <2>14. Cardinality(O \cap V) = 0 /\ Cardinality(O) \in Nat /\ Cardinality(V) \in Nat
      BY <2>8, <2>10, FS_EmptySet, FS_CardinalityType
    <2>15. Cardinality(F) + Cardinality(O) = Cardinality(W)
      BY <2>11, <2>13, <2>14
    <2>16. QED
      BY <2>1, <2>12, <2>15 DEF O, F, W, V
  <1>2. QED
    BY <1>1, WindowInvHolds, PTL

LEMMA SessionIs ==
  ASSUME job \in Jobs, NEW win, NEW ids, DOMAIN ids \in SUBSET IdsIn(job), Ones(ids),
         SessionOf(job, win, DOMAIN ids)
  PROVE  SessionIsExact(win, ids)
  <1> DEFINE I == DOMAIN ids
             T == {Rec(id).ts : id \in I}
  <1>1. \A id \in I : /\ Rec(id).ts = At(job, id) /\ Rec(id).key = KeyOf(job, id)
                      /\ At(job, id) \in Ancient + 1 .. MaxTime - 1
    BY IdsAre DEF Rec, At, KeyOf
  <1>2. Size \in Nat \ {0}
    BY TimeParameters
  <1>3. /\ win.start \in Int /\ win.end \in Int
        /\ \A id \in I : /\ KeyOf(job, id) = win.key
                         /\ win.start <= At(job, id) /\ At(job, id) + Size <= win.end
        /\ \E id \in I : At(job, id) = win.start
        /\ \E id \in I : At(job, id) + Size = win.end
        /\ \A id \in I : At(job, id) + Size # win.end =>
             \E x \in I : At(job, id) < At(job, x) /\ At(job, x) < At(job, id) + Size
    BY DEF SessionOf
  <1>4. \A id \in I : ids[id] = 1
    BY OnesAre
  <1>5. \A id \in I : At(job, id) \in T
    BY <1>1
  <1>6. \A t \in T : \E id \in I : t = At(job, id)
    BY <1>1
  <1> HIDE DEF I, T
  <1>7. T \in SUBSET Int /\ T # {} /\ (\A t \in T : Ancient <= t) /\ \A t \in T : t <= MaxTime
    BY <1>1, <1>3, <1>5, <1>6, TimesAre
  <1>8. LowOf(T) \in T /\ \A y \in T : LowOf(T) <= y
    BY <1>7, LowOfIs, TimesAre
  <1>9. HighOf(T) \in T /\ \A y \in T : y <= HighOf(T)
    BY <1>7, HighOfIs, TimesAre
  <1>10. win.start = LowOf(T)
    <2>1. PICK a \in I : At(job, a) = win.start
      BY <1>3
    <2>2. PICK b \in I : At(job, b) = LowOf(T)
      BY <1>6, <1>8
    <2>3. LowOf(T) <= win.start /\ win.start <= LowOf(T) /\ LowOf(T) \in Int
      BY <1>3, <1>5, <1>7, <1>8, <2>1, <2>2
    <2>4. QED
      BY <1>3, <2>3
  <1>11. win.end = HighOf(T) + Size
    <2>1. PICK a \in I : At(job, a) + Size = win.end
      BY <1>3
    <2>2. PICK b \in I : At(job, b) = HighOf(T)
      BY <1>6, <1>9
    <2>3. HighOf(T) + Size <= win.end /\ At(job, a) <= HighOf(T) /\ HighOf(T) \in Int
          /\ At(job, a) \in Int
      BY <1>3, <1>5, <1>7, <1>9, <2>1, <2>2
    <2>4. QED
      BY <1>2, <1>3, <2>1, <2>3
  <1>12. ASSUME NEW t \in T \ {HighOf(T)}
         PROVE  \E u \in T : t < u /\ u < t + Size
    <2>1. PICK id \in I : t = At(job, id)
      BY <1>6
    <2>2. t \in Int /\ HighOf(T) \in Int
      BY <1>7, <1>9
    <2>3. At(job, id) + Size # win.end
      BY <1>2, <1>11, <1>12, <2>1, <2>2
    <2>4. PICK x \in I : At(job, id) < At(job, x) /\ At(job, x) < At(job, id) + Size
      BY <1>3, <2>3
    <2>5. QED
      BY <1>5, <2>1, <2>4
  <1>13. \A id \in I : Rec(id).key = win.key /\ ids[id] = 1
    BY <1>1, <1>3, <1>4
  <1>14. QED
    BY <1>10, <1>11, <1>12, <1>13 DEF SessionIsExact, I, T

\* Sessions span exactly their records and the gap, share no record, and open
\* ones of a key are disjoint: for every job and gap (assignToWindow,
\* fireWindow, Snapshot, Restore).
THEOREM SessionsAreExactHolds == Spec => []SessionsAreExact
  <1>1. (~rewound => Types /\ StreamInv /\ WindowInv) => SessionsAreExact
    <2> SUFFICES ASSUME ~rewound, Types, WindowInv, job.kind = "session"
                 PROVE  /\ \A w \in DOMAIN op.wins :
                             /\ SessionIsExact(w, op.wins[w])
                             /\ \A v \in DOMAIN op.wins \ {w} : v.key = w.key => ~Overlap(v, w)
                        /\ \A e \in DOMAIN hist.emitted :
                             hist.emitted[e] = 1 /\ SessionIsExact(e.win, e.ids)
                        /\ \A id \in hist.accepted :
                             Cardinality(FiredIn(id)) + Cardinality(OpenIn(id)) = 1
      BY DEF SessionsAreExact
    <2>1. /\ job \in Jobs /\ hist.accepted \in SUBSET IdsIn(job)
          /\ Counted(hist.accepted, hist.emitted, op.wins) /\ Apart(job, hist.emitted, op.wins)
          /\ Placed(job, hist.emitted, op.wins)
          /\ Covered(job, hist.accepted, hist.emitted, op.wins) /\ Disjoint(job, op.wins)
      BY WindowInvGives
    <2>2. ASSUME NEW w \in DOMAIN op.wins
          PROVE  SessionIsExact(w, op.wins[w])
      <3>1. DOMAIN op.wins[w] \in SUBSET IdsIn(job) /\ Ones(op.wins[w])
        BY <2>1 DEF Counted
      <3>2. SessionOf(job, w, DOMAIN op.wins[w])
        BY <2>1 DEF Placed, Holds
      <3>3. QED
        BY <2>1, <3>1, <3>2, SessionIs
    <2>3. \A w \in DOMAIN op.wins : \A v \in DOMAIN op.wins \ {w} : v.key = w.key => ~Overlap(v, w)
      BY <2>1 DEF Disjoint
    <2>4. ASSUME NEW e \in DOMAIN hist.emitted
          PROVE  hist.emitted[e] = 1 /\ SessionIsExact(e.win, e.ids)
      <3>1. DOMAIN e.ids \in SUBSET IdsIn(job) /\ Ones(e.ids) /\ Ones(hist.emitted)
        BY <2>1 DEF Counted
      <3>2. SessionOf(job, e.win, DOMAIN e.ids)
        BY <2>1 DEF Placed, Holds
      <3>3. hist.emitted[e] = 1
        BY <3>1, OnesAre
      <3>4. QED
        BY <2>1, <3>1, <3>2, <3>3, SessionIs
    <2>5. ASSUME NEW id \in hist.accepted
          PROVE  Cardinality(FiredIn(id)) + Cardinality(OpenIn(id)) = 1
      <3> DEFINE O == OpenIn(id)
                 F == FiredIn(id)
      <3>1. /\ \A w : w \in O <=> w \in DOMAIN op.wins /\ id \in DOMAIN op.wins[w]
            /\ \A e : e \in F <=> e \in DOMAIN hist.emitted /\ id \in DOMAIN e.ids
        BY HeldIn
      <3> HIDE DEF O, F
      <3>2. Cardinality({}) = 0 /\ \A x : Cardinality({x}) = 1
        BY FS_EmptySet, FS_Singleton
      <3>3. ASSUME NEW w \in O
            PROVE  O = {w} /\ F = {}
        BY <2>1, <3>1 DEF Apart, Same
      <3>4. ASSUME NEW e \in F
            PROVE  O = {} /\ F = {e}
        BY <2>1, <3>1 DEF Apart, Same
      <3>5. O # {} \/ F # {}
        BY <2>1, <3>1 DEF Covered
      <3>6. Cardinality(F) + Cardinality(O) = 1
        <4>1. CASE O # {}
          <5>1. PICK w \in O : TRUE
            BY <4>1
          <5>2. O = {w} /\ F = {}
            BY <3>3
          <5>3. Cardinality(O) = 1 /\ Cardinality(F) = 0
            BY <3>2, <5>2
          <5>4. QED
            BY <5>3
        <4>2. CASE F # {}
          <5>1. PICK e \in F : TRUE
            BY <4>2
          <5>2. O = {} /\ F = {e}
            BY <3>4
          <5>3. Cardinality(O) = 0 /\ Cardinality(F) = 1
            BY <3>2, <5>2
          <5>4. QED
            BY <5>3
        <4>3. QED
          BY <3>5, <4>1, <4>2
      <3>7. QED
        BY <3>6 DEF O, F
    <2>6. QED
      BY <2>2, <2>3, <2>4, <2>5
  <1>2. QED
    BY <1>1, WindowInvHolds, PTL

=============================================================================
