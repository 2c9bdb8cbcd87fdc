----------------------------- MODULE MCJobAgent -----------------------------
(* A plain job, a coordinated one and one without checkpoints.             *)
EXTENDS JobAgent, TLC

MCSetups ==
  {[checkpointing |-> TRUE, coordinated |-> FALSE, blobstore |-> "file"],
   [checkpointing |-> TRUE, coordinated |-> TRUE, blobstore |-> "s3"],
   [checkpointing |-> FALSE, coordinated |-> FALSE, blobstore |-> "file"]}

Symmetric == Permutations(Labels)
=============================================================================
