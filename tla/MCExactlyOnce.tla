---------------------------- MODULE MCExactlyOnce ----------------------------
(* Constants and bounds for model checking ExactlyOnce with TLC.            *)
EXTENDS ExactlyOnce, TLC

\* Partitions are interchangeable.
PartitionSymmetry == Permutations(Partitions)

\* Everything that can fail besides the process itself, except the two failures
\* of MCUpdateFails.cfg and MCLateCommit.cfg, which break the guarantee.
ToleratedFaults == AllFaults \ {"update", "late"}
=============================================================================
