-------------------------- MODULE ExactlyOnceOutput --------------------------
(***************************************************************************)
(* What the exactly-once mode promises to a read_committed consumer of the *)
(* output topic, whatever happens inside: the readable output is always    *)
(* that of a prefix of every source partition, each record exactly once,   *)
(* and it only ever grows.                                                 *)
(***************************************************************************)
EXTENDS Integers

CONSTANTS Partitions, LogEnd

VARIABLE visible    \* how often the output of each source record is readable

Records == Partitions \X (0..(LogEnd - 1))
Frontiers == [Partitions -> 0..LogEnd]

\* The output of everything below frontier f, each record once.
Prefix(f) == [r \in Records |-> IF r[2] < f[r[1]] THEN 1 ELSE 0]

Init == visible = [r \in Records |-> 0]

\* One transaction makes one more stretch of every partition readable.
Advance ==
    \E g \in Frontiers :
        /\ visible' = Prefix(g)
        /\ \A r \in Records : visible[r] <= visible'[r]

Spec == Init /\ [][Advance]_visible
=============================================================================
