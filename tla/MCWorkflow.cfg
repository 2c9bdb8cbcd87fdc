CONSTANTS
  Nil = Nil
  Functions = {"f"}
  Docs <- MCDocs
SPECIFICATION Spec
INVARIANTS
  CompiledStarts
  GuaranteeIsWhole
  PlanKeepsPipeline
CHECK_DEADLOCK FALSE
