---------------------------- MODULE WorkflowProofs ----------------------------
(***************************************************************************)
(* What the workflow compiler and the planner promise, proved for every    *)
(* document: whatever the operators of a pipeline, however many and in     *)
(* which order, what compiles starts, runs with the guarantee it reports,  *)
(* and is planned into stages that keep the pipeline.                      *)
(***************************************************************************)
EXTENDS Workflow, SequenceTheorems, WellFoundedInduction, TLAPS

-----------------------------------------------------------------------------
(* From the document to the environment.                                   *)

\* What Validate has made sure of, and what resolving the secrets keeps.
Sound ==
  /\ wf.sources = <<>> <=> wf.source.type # ""
  /\ SourceIsExactlyOnce \/ wf.sink.type = "txnKafka" =>
       SourceIsExactlyOnce /\ wf.sink.type = "txnKafka" /\ Checkpointing
  /\ wf.sources # <<>> => /\ wf.pipeline # <<>> /\ wf.pipeline[1].cfg["join"] # Nil
                          /\ wf.pipeline[1].cfg["join"].left # wf.pipeline[1].cfg["join"].right
                          /\ wf.pipeline[1].cfg["join"].left # ""
                          /\ wf.pipeline[1].cfg["join"].right # ""
  /\ IsSequence(wf.pipeline)
  /\ \A i \in DOMAIN wf.pipeline :
       IsOperator(wf.pipeline[i]) /\ DOMAIN wf.pipeline[i].cfg = {wf.pipeline[i].type}

Ops == [kind : {"router", "stateful", "stateless"}, par : Nat \ {0}]

\* The environment holds what the blocks of the document asked for, as far as the
\* compiler has come.
Built ==
  /\ DOMAIN env = {"ckpt", "source", "join", "ops", "sink"} /\ env.ops \in Seq(Ops)
  /\ pc \in {"runtime", "stream", "compiled", "planning", "running"} => (env.ckpt <=> Checkpointing)
  /\ pc = "runtime" => env.join = Nil
  /\ pc \in {"stream", "compiled", "planning", "running"} =>
       IF wf.sources = <<>>
       THEN /\ env.join = Nil /\ env.source = wf.source.type
            /\ env.source \in {"kafka", "file", "slice", "generator"}
       ELSE env.join = wf.pipeline[1].cfg["join"]
  /\ pc \in {"compiled", "planning", "running"} => env.sink = wf.sink.type

CompileInv ==
  /\ pc \in {"loaded", "valid", "resolved", "runtime", "stream", "compiled", "planning", "running",
             "rejected", "failed", "unopened", "panicked"}
  /\ pc \in {"loaded", "valid"} => IsWorkflow(wf)
  /\ pc \in {"valid", "resolved", "runtime", "stream", "compiled", "planning", "running"} => Sound
  /\ Built

-----------------------------------------------------------------------------
(* The plan.                                                               *)

Stages == [kind : {"keyed", "stateless", "channel"}, from : Nat, to : Nat, par : Nat \ {0}]

\* A stage holds operators it can run.
Fits(s) ==
  /\ 1 <= s.from /\ s.from <= s.to /\ s.to <= Len(env.ops)
  /\ \A i \in s.from .. s.to :
       CASE s.kind = "keyed" -> env.ops[i].kind = (IF i = s.from THEN "router" ELSE "stateful")
         [] s.kind = "stateless" -> env.ops[i].kind = "stateless" /\ env.ops[i].par = s.par
         [] OTHER -> env.ops[i].kind = "stateful"

\* Stage t may come right behind stage s.
Behind(s, t) ==
  /\ t.from = s.to + 1
  /\ ~(s.kind = "stateless" /\ t.kind = "stateless" /\ s.par = t.par)
  /\ ~(s.kind = "keyed" /\ t.kind = "channel")

\* The stages S hold the first n operators.
Covers(S, n) ==
  /\ IF S = <<>> THEN n = 0 ELSE S[1].from = 1 /\ S[Len(S)].to = n
  /\ \A k \in 1 .. Len(S) : Fits(S[k])
  /\ \A k \in 1 .. Len(S) - 1 : Behind(S[k], S[k + 1])

\* While planning: the stages hold what is planned, the open group is behind them,
\* and neither could have gone on into the other.
Planned ==
  /\ DOMAIN plan = {"stages", "group", "par", "at"}
  /\ plan.stages \in Seq(Stages) /\ plan.group \in Nat /\ plan.par \in Nat \ {0} /\ plan.at \in Nat
  /\ plan.group < plan.at /\ plan.at <= Len(env.ops) + 1
  /\ Covers(plan.stages, plan.at - plan.group - 1)
  /\ \A i \in plan.at - plan.group .. plan.at - 1 :
       env.ops[i].kind = "stateless" /\ env.ops[i].par = plan.par
  /\ plan.stages # <<>> =>
       LET last == plan.stages[Len(plan.stages)]
       IN  /\ last.kind = "stateless" => plan.group > 0 /\ last.par # plan.par
           /\ last.kind = "keyed" =>
                plan.group > 0 \/ plan.at > Len(env.ops) \/ env.ops[plan.at].kind # "stateful"

FreshPlan == [stages |-> <<>>, group |-> 0, par |-> 1, at |-> 1]

PlanInv ==
  /\ pc \notin {"planning", "running", "unopened", "panicked"} => plan = FreshPlan
  /\ pc = "planning" => Planned
  /\ PlanKeepsPipeline

WorkflowInv == CompileInv /\ PlanInv

-----------------------------------------------------------------------------
(* Validation.                                                             *)

\* A check that fails is reported.
LEMMA NotReported ==
  ASSUME NEW S, Failing(S) = {}, NEW name, NEW b \in BOOLEAN, <<name, b>> \in S
  PROVE  ~b
  BY DEF Failing

\* What validation accepts is sound.
LEMMA ValidIsSound ==
  ASSUME IsWorkflow(wf), Structural = {}, Configuration = {}, PipelineOrder = {}, DeliveryGuarantee = {}
  PROVE  Sound
  <1>1. StructuralSource = {} /\ StructuralOperators = {}
    BY DEF Structural
  <1>2. ~((wf.source.type # "") = (wf.sources # <<>>))
    <2>1. PICK T : /\ StructuralSource = Failing(T)
                   /\ <<"source", (wf.source.type # "") = (wf.sources # <<>>)>> \in T
      BY Zenon DEF StructuralSource
    <2>2. QED
      BY <1>1, <2>1, NotReported
  <1>3. \A i \in DOMAIN wf.pipeline : DOMAIN wf.pipeline[i].cfg = {wf.pipeline[i].type}
    <2>1. ~(\E i \in DOMAIN wf.pipeline : DOMAIN wf.pipeline[i].cfg # {wf.pipeline[i].type})
      BY <1>1, NotReported DEF StructuralOperators
    <2>2. QED
      BY <2>1
  <1>4. SourceIsExactlyOnce \/ wf.sink.type = "txnKafka" =>
          SourceIsExactlyOnce /\ wf.sink.type = "txnKafka" /\ Checkpointing
    <2> SUFFICES ASSUME SourceIsExactlyOnce \/ wf.sink.type = "txnKafka"
                 PROVE  SourceIsExactlyOnce /\ wf.sink.type = "txnKafka" /\ Checkpointing
      OBVIOUS
    <2>1. Failing({<<"source", ~SourceIsExactlyOnce>>, <<"sink", wf.sink.type # "txnKafka">>,
                   <<"checkpointing", ~Checkpointing>>}) = {}
      BY DEF DeliveryGuarantee
    <2>2. QED
      BY <2>1, NotReported
  <1>5. ASSUME wf.sources # <<>>
        PROVE  /\ wf.pipeline # <<>> /\ wf.pipeline[1].cfg["join"] # Nil
               /\ wf.pipeline[1].cfg["join"].left # wf.pipeline[1].cfg["join"].right
               /\ wf.pipeline[1].cfg["join"].left # ""
               /\ wf.pipeline[1].cfg["join"].right # ""
    <2>1. SourceNames # {}
      <3>1. wf.sources \in Seq({wf.sources[i] : i \in DOMAIN wf.sources})
        BY DEF IsWorkflow, IsSequence
      <3>2. 1 \in DOMAIN wf.sources
        BY <1>5, <3>1, EmptySeq
      <3>3. QED
        BY <3>2 DEF SourceNames
    <2>2. wf.pipeline # <<>> /\ "join" \in DOMAIN wf.pipeline[1].cfg
      <3>1. PICK T : PipelineOrder = Failing(T) /\ <<"join", SourceNames # {} /\ ~JoinComesFirst>> \in T
        BY Zenon DEF PipelineOrder
      <3>2. ~(SourceNames # {} /\ ~JoinComesFirst)
        BY <3>1, NotReported, Zenon
      <3>3. QED
        BY <2>1, <3>2 DEF JoinComesFirst
    <2>3. 1 \in DOMAIN wf.pipeline
      <3>1. wf.pipeline \in Seq({wf.pipeline[i] : i \in DOMAIN wf.pipeline})
        BY DEF IsWorkflow, IsSequence
      <3>2. QED
        BY <2>2, <3>1, EmptySeq
    <2>4. JoinConfig(wf.pipeline[1].cfg["join"]) = {}
      <3>1. UNION {OperatorConfig(b, wf.pipeline[1].cfg[b]) : b \in DOMAIN wf.pipeline[1].cfg} = {}
        <4>1. UNION {UNION {OperatorConfig(b, wf.pipeline[i].cfg[b]) : b \in DOMAIN wf.pipeline[i].cfg} :
                        i \in DOMAIN wf.pipeline} = {}
          BY DEF Configuration
        <4>2. \A S, x : UNION S = {} /\ x \in S => x = {}
          OBVIOUS
        <4>3. UNION {OperatorConfig(b, wf.pipeline[1].cfg[b]) : b \in DOMAIN wf.pipeline[1].cfg} \in
                {UNION {OperatorConfig(b, wf.pipeline[i].cfg[b]) : b \in DOMAIN wf.pipeline[i].cfg} :
                   i \in DOMAIN wf.pipeline}
          BY <2>3, Zenon
        <4>4. QED
          BY <4>1, <4>2, <4>3, Zenon
      <3>2. OperatorConfig("join", wf.pipeline[1].cfg["join"]) = {}
        BY <2>2, <3>1
      <3>3. QED
        BY <3>2 DEF OperatorConfig
    <2>5. ~(\/ wf.pipeline[1].cfg["join"].left = "" \/ wf.pipeline[1].cfg["join"].right = ""
            \/ wf.pipeline[1].cfg["join"].left = wf.pipeline[1].cfg["join"].right)
      <3>1. \E T : /\ JoinConfig(wf.pipeline[1].cfg["join"]) = Failing(T)
                   /\ <<"sources", \/ wf.pipeline[1].cfg["join"].left = ""
                                   \/ wf.pipeline[1].cfg["join"].right = ""
                                   \/ wf.pipeline[1].cfg["join"].left = wf.pipeline[1].cfg["join"].right>>
                        \in T
        BY Zenon DEF JoinConfig
      <3>2. QED
        BY <2>4, <3>1, NotReported
    <2>6. wf.pipeline[1].cfg["join"] # Nil
      BY <2>2, <2>3 DEF IsWorkflow, IsOperator
    <2>7. QED
      BY <2>2, <2>5, <2>6
  <1>6. QED
    BY <1>2, <1>3, <1>4, <1>5 DEF Sound, IsWorkflow

-----------------------------------------------------------------------------
(* Compilation.                                                            *)

\* Resolving the secrets of a source's block changes nothing but its password.
LEMMA ResolvedBlock ==
  ASSUME NEW k \in KafkaSourceSpec \cup {Nil}, NEW known
  PROVE  /\ ResolveSASL(k, known) = Nil <=> k = Nil
         /\ k # Nil => ResolveSASL(k, known).exactlyOnce = k.exactlyOnce
  <1> USE DEF KafkaSourceSpec, KafkaSourceBlock, Credentials
  <1>1. CASE k = Nil
    BY <1>1 DEF ResolveSASL
  <1>2. CASE k # Nil /\ k.sasl = Nil
    BY <1>2 DEF ResolveSASL
  <1>3. CASE k # Nil /\ k.sasl # Nil
    <2>1. PICK s : s = ResolveCredentials(k.sasl, known)
      OBVIOUS
    <2>2. ResolveSASL(k, known) = [k EXCEPT !.sasl = s]
      BY <1>3, <2>1 DEF ResolveSASL
    <2>3. k.sasl \in Credentials(Texts)
      BY <1>3
    <2>4. ResolveOne(k.sasl.password, known) \in Texts \cup {Nil}
      BY <2>3 DEF ResolveOne, Texts
    <2>5. s \in Credentials(Texts \cup {Nil})
      BY <2>1, <2>3, <2>4 DEF ResolveCredentials
    <2>6. [k EXCEPT !.sasl = s] \in KafkaSourceBlock(Texts \cup {Nil})
      BY <1>3, <2>5
    <2>7. [k EXCEPT !.sasl = s].exactlyOnce = k.exactlyOnce
      BY <1>3
    <2>8. QED
      BY <1>3, <2>2, <2>6, <2>7, DocsAreWorkflows
  <1>4. QED
    BY <1>1, <1>2, <1>3

\* Resolving the secrets changes nothing that the checks of the engine look at.
LEMMA ResolvedIsSound ==
  ASSUME IsWorkflow(wf), Sound, NEW known, wf' = Resolved(known)
  PROVE  Sound'
  <1>1. /\ wf'.source.type = wf.source.type /\ wf'.sink.type = wf.sink.type
        /\ wf'.env = wf.env /\ wf'.pipeline = wf.pipeline
        /\ wf'.source.kafka = ResolveSASL(wf.source.kafka, known)
    BY DEF Resolved, IsWorkflow, SourceSpec, SinkSpec
  <1>2. wf'.sources = <<>> <=> wf.sources = <<>>
    <2>1. wf.sources \in Seq({wf.sources[i] : i \in DOMAIN wf.sources})
      BY DEF IsWorkflow, IsSequence
    <2>2. DOMAIN wf'.sources = DOMAIN wf.sources
      BY DEF Resolved, IsWorkflow
    <2>3. PICK s : s = wf'.sources /\ s = [i \in DOMAIN wf.sources |-> s[i]]
      BY DEF Resolved, IsWorkflow
    <2>4. QED
      BY <2>1, <2>2, <2>3, EmptySeq
  <1>3. SourceIsExactlyOnce' <=> SourceIsExactlyOnce
    <2>1. wf.source.kafka \in KafkaSourceSpec \cup {Nil}
      BY DEF IsWorkflow, SourceSpec
    <2>2. QED
      BY <1>1, <2>1, ResolvedBlock DEF SourceIsExactlyOnce
  <1>4. Checkpointing' <=> Checkpointing
    BY <1>1 DEF Checkpointing
  <1>5. QED
    BY <1>1, <1>2, <1>3, <1>4 DEF Sound

\* Nothing of what the compiler looks at changes when the document does not.
LEMMA SoundKept ==
  ASSUME Sound, wf' = wf
  PROVE  Sound'
  BY DEF Sound, SourceIsExactlyOnce, Checkpointing

\* The document is validated: what is accepted is sound.
LEMMA CompileValidate ==
  ASSUME CompileInv, Validate
  PROVE  CompileInv'
  <1>1. pc = "loaded" /\ pc' \in {"valid", "rejected"} /\ UNCHANGED <<wf, env>>
    BY DEF Validate
  <1>2. pc' = "valid" => Sound
    <2> SUFFICES ASSUME pc' = "valid" PROVE Sound
      OBVIOUS
    <2>1. Structural = {} /\ Configuration = {} /\ PipelineOrder = {} /\ DeliveryGuarantee = {}
      BY DEF Validate
    <2>2. QED
      BY <1>1, <2>1, ValidIsSound DEF CompileInv
  <1>3. pc' = "valid" => Sound'
    BY <1>1, <1>2, SoundKept
  <1>4. Built'
    BY <1>1 DEF CompileInv, Built
  <1>5. IsWorkflow(wf)'
    BY <1>1 DEF CompileInv, IsWorkflow
  <1>6. QED
    BY <1>1, <1>3, <1>4, <1>5 DEF CompileInv

\* The secrets are resolved, and the document stays sound.
LEMMA CompileResolve ==
  ASSUME CompileInv, ResolveSecrets
  PROVE  CompileInv'
  <1>1. pc = "valid" /\ pc' \in {"resolved", "failed"} /\ env' = env /\ \E known : wf' = Resolved(known)
    BY DEF ResolveSecrets
  <1>2. Sound'
    BY <1>1, ResolvedIsSound DEF CompileInv
  <1>3. Built'
    BY <1>1 DEF CompileInv, Built
  <1>4. QED
    BY <1>1, <1>2, <1>3 DEF CompileInv

\* The runtime block decides whether checkpoints are on.
LEMMA CompileEnv ==
  ASSUME CompileInv, CompileRuntime
  PROVE  CompileInv'
  <1>1. pc = "resolved" /\ wf' = wf /\ pc' \in {"runtime", "failed"}
    BY DEF CompileRuntime
  <1>2. Sound'
    BY <1>1, SoundKept DEF CompileInv
  <1>3. CASE pc' = "runtime" /\ env' = [FreshEnv EXCEPT !.ckpt = Checkpointing]
    <2>1. /\ DOMAIN env' = {"ckpt", "source", "join", "ops", "sink"}
          /\ env'.ops = <<>> /\ env'.join = Nil
      BY <1>3 DEF FreshEnv
    <2>2. env'.ckpt <=> Checkpointing
      BY <1>3, Zenon DEF FreshEnv
    <2>3. Checkpointing' <=> Checkpointing
      BY <1>1 DEF Checkpointing
    <2>4. <<>> \in Seq(Ops)
      OBVIOUS
    <2>5. Built'
      BY <1>3, <2>1, <2>2, <2>3, <2>4 DEF Built
    <2>6. QED
      BY <1>1, <1>2, <2>5 DEF CompileInv
  <1>4. CASE pc' = "failed" /\ env' = env
    <2>1. Built'
      BY <1>4 DEF CompileInv, Built
    <2>2. QED
      BY <1>4, <2>1 DEF CompileInv
  <1>5. QED
    BY <1>3, <1>4 DEF CompileRuntime

\* A single source is compiled, or the join of two named ones.
LEMMA CompileSources ==
  ASSUME CompileInv, CompileStream
  PROVE  CompileInv'
  <1>1. pc = "runtime" /\ wf' = wf /\ pc' \in {"stream", "failed"} /\ Sound /\ Built
    BY DEF CompileStream, CompileInv
  <1>2. Sound' /\ (Checkpointing' <=> Checkpointing)
    BY <1>1, SoundKept DEF Checkpointing
  <1>3. CASE pc' = "failed" /\ env' = env
    BY <1>3 DEF CompileInv, Built
  <1>4. CASE /\ pc' = "stream" /\ wf.sources = <<>> /\ CompileSource(wf.source)
             /\ env' = [env EXCEPT !.source = wf.source.type]
    <2>1. /\ DOMAIN env' = {"ckpt", "source", "join", "ops", "sink"} /\ env'.ops = env.ops
          /\ env'.join = env.join /\ env'.source = wf.source.type /\ env'.ckpt = env.ckpt
      BY <1>1, <1>4 DEF Built
    <2>2. wf.source.type \in {"kafka", "file", "slice", "generator"}
      BY <1>4 DEF CompileSource
    <2>3. Built'
      BY <1>1, <1>2, <1>4, <2>1, <2>2 DEF Built
    <2>4. QED
      BY <1>2, <1>4, <2>3 DEF CompileInv
  <1>5. CASE /\ pc' = "stream" /\ wf.sources # <<>>
             /\ env' = [env EXCEPT !.join = wf.pipeline[1].cfg["join"]]
    <2>1. /\ DOMAIN env' = {"ckpt", "source", "join", "ops", "sink"} /\ env'.ops = env.ops
          /\ env'.join = wf.pipeline[1].cfg["join"] /\ env'.ckpt = env.ckpt
      BY <1>1, <1>5 DEF Built
    <2>2. Built'
      BY <1>1, <1>2, <1>5, <2>1 DEF Built
    <2>3. QED
      BY <1>2, <1>5, <2>2 DEF CompileInv
  <1>6. QED
    BY <1>3, <1>4, <1>5 DEF CompileStream

\* Every operator that compiles has a positive parallelism.
LEMMA StreamOpType ==
  ASSUME Sound, NEW i \in DOMAIN wf.pipeline
  PROVE  StreamOp(wf.pipeline[i].type, wf.pipeline[i].cfg[wf.pipeline[i].type]) \in Ops
  <1>0. PICK b, c : b = wf.pipeline[i].type /\ c = wf.pipeline[i].cfg[b]
    OBVIOUS
  <1>1. (b = "keyBy" => c.partitions \in Int) /\ (b \in {"map", "flatMap", "process"} => c.par \in Int)
    BY <1>0 DEF Sound, IsOperator
  <1>2. StreamOp(b, c) \in Ops
    <2>1. CASE b = "keyBy"
      BY <1>1, <2>1 DEF StreamOp, Ops, PartitionsOrDefault
    <2>2. CASE b \in {"reduce", "window", "join"}
      BY <2>2 DEF StreamOp, Ops
    <2>3. CASE b \in {"map", "flatMap", "process"}
      BY <1>1, <2>3 DEF StreamOp, Ops, ParallelismOrDefault
    <2>4. CASE b \notin {"keyBy", "reduce", "window", "join", "map", "flatMap", "process"}
      BY <2>4 DEF StreamOp, Ops
    <2>5. QED
      BY <2>1, <2>2, <2>3, <2>4
  <1>3. QED
    BY <1>0, <1>2

\* One more operator of the pipeline is applied.
LEMMA CompileOperator ==
  ASSUME CompileInv, ApplyOperator
  PROVE  CompileInv'
  <1>1. pc = "stream" /\ wf' = wf /\ pc' \in {"stream", "failed"} /\ Sound /\ Built
    BY DEF ApplyOperator, CompileInv
  <1>2. Sound' /\ (Checkpointing' <=> Checkpointing)
    BY <1>1, SoundKept DEF Checkpointing
  <1>3. CASE pc' = "failed" /\ env' = env
    BY <1>3 DEF CompileInv, Built
  <1>4. CASE pc' = pc /\ \E x \in Ops : env' = [env EXCEPT !.ops = Append(@, x)]
    <2>1. PICK x \in Ops : env' = [env EXCEPT !.ops = Append(@, x)]
      BY <1>4
    <2>2. /\ DOMAIN env' = {"ckpt", "source", "join", "ops", "sink"} /\ env'.ops = Append(env.ops, x)
          /\ env'.join = env.join /\ env'.ckpt = env.ckpt /\ env'.source = env.source
      BY <1>1, <2>1 DEF Built
    <2>3. env'.ops \in Seq(Ops)
      BY <1>1, <2>2 DEF Built
    <2>4. Built'
      BY <1>1, <1>2, <1>4, <2>2, <2>3 DEF Built
    <2>5. QED
      BY <1>1, <1>2, <1>4, <2>4 DEF CompileInv
  <1>5. Applied + 1 \in DOMAIN wf.pipeline
    <2>1. wf.pipeline \in Seq({wf.pipeline[i] : i \in DOMAIN wf.pipeline})
      BY <1>1 DEF Sound, IsSequence
    <2>2. DOMAIN wf.pipeline = 1 .. Len(wf.pipeline) /\ Len(wf.pipeline) \in Nat
      BY <2>1
    <2>3. Applied \in Nat /\ Applied < Len(wf.pipeline)
      BY <1>1 DEF ApplyOperator, Applied, Built
    <2>4. QED
      BY <2>2, <2>3
  <1>6. QED
    BY <1>1, <1>3, <1>4, <1>5, StreamOpType DEF ApplyOperator

\* The sink is compiled.
LEMMA CompileToSink ==
  ASSUME CompileInv, CompileSink
  PROVE  CompileInv'
  <1>1. pc = "stream" /\ wf' = wf /\ pc' \in {"compiled", "panicked", "failed"} /\ Sound /\ Built
    BY DEF CompileSink, CompileInv
  <1>2. Sound' /\ (Checkpointing' <=> Checkpointing)
    BY <1>1, SoundKept DEF Checkpointing
  <1>3. CASE pc' = "failed" /\ env' = env
    BY <1>3 DEF CompileInv, Built
  <1>4. CASE env' = [env EXCEPT !.sink = wf.sink.type]
    <2>1. /\ DOMAIN env' = {"ckpt", "source", "join", "ops", "sink"} /\ env'.ops = env.ops
          /\ env'.join = env.join /\ env'.ckpt = env.ckpt /\ env'.source = env.source
          /\ env'.sink = wf.sink.type
      BY <1>1, <1>4 DEF Built
    <2>2. Built'
      BY <1>1, <1>2, <2>1 DEF Built
    <2>3. QED
      BY <1>1, <1>2, <2>2 DEF CompileInv
  <1>5. QED
    BY <1>3, <1>4 DEF CompileSink

\* What the compiler builds, Execute starts.
LEMMA CompiledExecutes ==
  ASSUME CompileInv, Execute
  PROVE  CompileInv' /\ pc' = "planning"
  <1>1. pc = "compiled" /\ UNCHANGED <<wf, env, plan>> /\ Sound /\ Built
    BY DEF Execute, CompileInv
  <1>2. pc' = "planning"
    <2>1. CASE wf.sources = <<>>
      <3>1. env.join = Nil /\ env.source # "none"
        BY <1>1, <2>1 DEF Built
      <3>2. Coordinated => env.ckpt /\ CanResume
        <4> SUFFICES ASSUME Coordinated PROVE env.ckpt /\ CanResume
          OBVIOUS
        <4>1. wf.sink.type = "txnKafka"
          BY <1>1 DEF Built, Coordinated
        <4>2. SourceIsExactlyOnce /\ Checkpointing
          BY <1>1, <4>1 DEF Sound
        <4>3. env.source = "kafka"
          BY <1>1, <2>1, <4>2 DEF Built, SourceIsExactlyOnce
        <4>4. env.ckpt
          BY <1>1, <4>2 DEF Built
        <4>5. QED
          BY <4>3, <4>4 DEF CanResume
      <3>3. QED
        BY <3>1, <3>2 DEF Execute
    <2>2. CASE wf.sources # <<>>
      <3>1. env.join # Nil /\ env.join.left # env.join.right /\ env.join.left # ""
            /\ env.join.right # ""
        BY <1>1, <2>2 DEF Built, Sound
      <3>2. ~Coordinated
        BY <1>1, <2>2 DEF Built, Sound, SourceIsExactlyOnce, Coordinated
      <3>3. QED
        BY <3>1, <3>2 DEF Execute, JoinStarts
    <2>3. QED
      BY <2>1, <2>2
  <1>3. Sound' /\ (Checkpointing' <=> Checkpointing)
    BY <1>1, SoundKept DEF Checkpointing
  <1>4. Built'
    BY <1>1, <1>2, <1>3 DEF Built
  <1>5. QED
    BY <1>2, <1>3, <1>4 DEF CompileInv

-----------------------------------------------------------------------------
(* Planning.                                                               *)

\* One more stage.
LEMMA CoversAppend ==
  ASSUME NEW S \in Seq(Stages), NEW n \in Nat, Covers(S, n), NEW s \in Stages, Fits(s), s.from = n + 1,
         S # <<>> => Behind(S[Len(S)], s)
  PROVE  Covers(Append(S, s), s.to)
  <1>0. PICK T : T = Append(S, s)
    OBVIOUS
  <1>1. /\ T \in Seq(Stages) /\ Len(S) \in Nat /\ Len(T) = Len(S) + 1 /\ T[Len(S) + 1] = s
        /\ \A k \in 1 .. Len(S) : T[k] = S[k]
        /\ \A k \in 1 .. Len(S) + 1 : k \in 1 .. Len(S) \/ k = Len(S) + 1
    BY <1>0, AppendProperties
  <1>2. T # <<>> /\ T[Len(T)].to = s.to
    BY <1>1
  <1>3. T[1].from = 1
    <2>1. CASE S = <<>>
      <3>1. Len(S) = 0 /\ n = 0
        BY <2>1 DEF Covers
      <3>2. QED
        BY <1>1, <3>1
    <2>2. CASE S # <<>>
      <3>1. 1 \in 1 .. Len(S) /\ S[1].from = 1
        BY <2>2, EmptySeq DEF Covers
      <3>2. QED
        BY <1>1, <3>1
    <2>3. QED
      BY <2>1, <2>2
  <1>4. \A k \in 1 .. Len(T) : Fits(T[k])
    BY <1>1 DEF Covers
  <1>5. ASSUME NEW k \in 1 .. Len(T) - 1
        PROVE  Behind(T[k], T[k + 1])
    <2>1. k \in 1 .. Len(S) /\ T[k] = S[k]
      BY <1>1
    <2>2. CASE k = Len(S)
      <3>1. S # <<>>
        BY <2>1
      <3>2. T[k] = S[Len(S)] /\ T[k + 1] = s
        BY <1>1, <2>1, <2>2
      <3>3. QED
        BY <3>1, <3>2
    <2>3. CASE k # Len(S)
      <3>1. k \in 1 .. Len(S) - 1 /\ k + 1 \in 1 .. Len(S)
        BY <1>1, <2>1, <2>3
      <3>2. QED
        BY <1>1, <2>1, <3>1 DEF Covers
    <2>4. QED
      BY <2>2, <2>3
  <1>6. Covers(T, s.to)
    BY <1>2, <1>3, <1>4, <1>5 DEF Covers
  <1>7. QED
    BY <1>0, <1>6

\* The open group becomes a stage: all operators ahead of the current one are planned.
LEMMA FlushCovers ==
  ASSUME Planned, env.ops \in Seq(Ops)
  PROVE  /\ Flushed \in Seq(Stages) /\ Covers(Flushed, plan.at - 1)
         /\ Flushed # <<>> =>
              /\ Flushed[Len(Flushed)].to = plan.at - 1
              /\ Flushed[Len(Flushed)].kind = "stateless" =>
                   plan.group > 0 /\ Flushed[Len(Flushed)].par = plan.par
              /\ Flushed[Len(Flushed)].kind = "keyed" =>
                   plan.at > Len(env.ops) \/ env.ops[plan.at].kind # "stateful"
  <1>1. /\ plan.stages \in Seq(Stages) /\ plan.group \in Nat /\ plan.par \in Nat \ {0} /\ plan.at \in Nat
        /\ plan.group < plan.at /\ plan.at <= Len(env.ops) + 1 /\ Len(env.ops) \in Nat
        /\ Covers(plan.stages, plan.at - plan.group - 1)
    BY DEF Planned
  <1>2. CASE plan.group = 0
    <2>1. Flushed = plan.stages /\ plan.at - plan.group - 1 = plan.at - 1
      BY <1>1, <1>2 DEF Flushed
    <2>2. Covers(plan.stages, plan.at - 1)
      BY <1>1, <2>1
    <2>3. plan.stages # <<>> =>
            /\ plan.stages[Len(plan.stages)].kind # "stateless"
            /\ plan.stages[Len(plan.stages)].kind = "keyed" =>
                 plan.at > Len(env.ops) \/ env.ops[plan.at].kind # "stateful"
      BY <1>2 DEF Planned
    <2>4. plan.stages # <<>> => plan.stages[Len(plan.stages)].to = plan.at - 1
      BY <2>2 DEF Covers
    <2>5. QED
      BY <1>1, <2>1, <2>2, <2>3, <2>4
  <1>3. CASE plan.group > 0
    <2>0. PICK s : s = Stage("stateless", plan.at - plan.group, plan.at - 1, plan.par)
      OBVIOUS
    <2>1. /\ s \in Stages /\ s.kind = "stateless" /\ s.from = plan.at - plan.group
          /\ s.to = plan.at - 1 /\ s.par = plan.par
      BY <1>1, <1>3, <2>0 DEF Stage, Stages
    <2>2. Fits(s)
      <3>1. 1 <= s.from /\ s.from <= s.to /\ s.to <= Len(env.ops)
        BY <1>1, <1>3, <2>1
      <3>2. \A i \in s.from .. s.to : env.ops[i].kind = "stateless" /\ env.ops[i].par = s.par
        BY <2>1 DEF Planned
      <3>3. QED
        BY <2>1, <3>1, <3>2 DEF Fits
    <2>3. Flushed = Append(plan.stages, s) /\ s.from = (plan.at - plan.group - 1) + 1
      BY <1>1, <1>3, <2>0, <2>1 DEF Flushed
    <2>4. ASSUME plan.stages # <<>>
          PROVE  Behind(plan.stages[Len(plan.stages)], s)
      <3>1. plan.stages[Len(plan.stages)].to = plan.at - plan.group - 1
        BY <1>1, <2>4 DEF Covers
      <3>2. plan.stages[Len(plan.stages)].kind = "stateless" => plan.stages[Len(plan.stages)].par # plan.par
        BY <2>4 DEF Planned
      <3>3. QED
        BY <2>1, <2>3, <3>1, <3>2 DEF Behind
    <2>5. plan.at - plan.group - 1 \in Nat
      BY <1>1
    <2>6. Covers(Append(plan.stages, s), s.to)
      BY <1>1, <2>1, <2>2, <2>3, <2>4, <2>5, CoversAppend
    <2>7. /\ Append(plan.stages, s) \in Seq(Stages)
          /\ Append(plan.stages, s)[Len(Append(plan.stages, s))] = s
      BY <1>1, <2>1, AppendProperties
    <2>8. QED
      BY <1>3, <2>1, <2>3, <2>6, <2>7
  <1>4. QED
    BY <1>1, <1>2, <1>3

\* takeStateful finds the end of the stateful operators.
LEMMA TakeStatefulEnds ==
  ASSUME env.ops \in Seq(Ops), NEW i \in 1 .. Len(env.ops)
  PROVE  /\ TakeStateful(i) \in i .. Len(env.ops)
         /\ \A k \in i + 1 .. TakeStateful(i) : env.ops[k].kind = "stateful"
         /\ TakeStateful(i) = Len(env.ops) \/ env.ops[TakeStateful(i) + 1].kind # "stateful"
  <1> DEFINE T == {j \in i .. Len(env.ops) : j = Len(env.ops) \/ env.ops[j + 1].kind # "stateful"}
  <1>1. Len(env.ops) \in Nat /\ Len(env.ops) \in T /\ T \subseteq Nat
    OBVIOUS
  <1>2. PICK j \in T : \A k \in T : ~(<<k, j>> \in OpToRel(<, Nat))
    BY <1>1, NatLessThanWellFounded, WFMin
  <1>3. \A k \in T : ~(k < j)
    BY <1>1, <1>2 DEF OpToRel
  <1>4. \A k \in i + 1 .. j : env.ops[k].kind = "stateful"
    <2> SUFFICES ASSUME NEW k \in i + 1 .. j PROVE env.ops[k].kind = "stateful"
      OBVIOUS
    <2>1. k - 1 \in i .. Len(env.ops) /\ k - 1 < j /\ k - 1 # Len(env.ops) /\ (k - 1) + 1 = k
      BY <1>1
    <2>2. k - 1 \notin T
      BY <1>3, <2>1
    <2>3. QED
      BY <2>1, <2>2
  <1>5. \E x \in i .. Len(env.ops) :
          /\ \A k \in i + 1 .. x : env.ops[k].kind = "stateful"
          /\ x = Len(env.ops) \/ env.ops[x + 1].kind # "stateful"
    BY <1>4
  <1>6. QED
    BY <1>5 DEF TakeStateful

\* Covering depends on the operators alone.
LEMMA CoversKept ==
  ASSUME NEW S, NEW n, Covers(S, n), env' = env
  PROVE  Covers(S, n)'
  BY DEF Covers, Fits, Behind

\* A new stage closes the group: it starts at the current operator and ends before
\* the next one.
LEMMA PlanAppends ==
  ASSUME Planned, env.ops \in Seq(Ops), plan.at <= Len(env.ops), env' = env,
         NEW s \in Stages, s.kind \in {"keyed", "channel"}, Fits(s), s.from = plan.at,
         s.kind = "channel" => env.ops[plan.at].kind = "stateful",
         s.kind = "keyed" => s.to = Len(env.ops) \/ env.ops[s.to + 1].kind # "stateful",
         plan'.stages = Append(Flushed, s), plan'.group = 0, plan'.par = 1, plan'.at = s.to + 1,
         DOMAIN plan' = {"stages", "group", "par", "at"}
  PROVE  Planned'
  <1>1. /\ Flushed \in Seq(Stages) /\ Covers(Flushed, plan.at - 1) /\ plan.at - 1 \in Nat
        /\ plan.at \in Nat /\ Len(env.ops) \in Nat /\ s.to \in Nat /\ s.to <= Len(env.ops) /\ plan.at <= s.to
    <2>1. plan.at \in Nat /\ plan.group \in Nat /\ plan.group < plan.at
      BY DEF Planned
    <2>2. s.to \in Nat /\ s.to <= Len(env.ops) /\ plan.at <= s.to
      BY DEF Stages, Fits
    <2>3. QED
      BY <2>1, <2>2, FlushCovers
  <1>2. Flushed # <<>> => Behind(Flushed[Len(Flushed)], s)
    <2> SUFFICES ASSUME Flushed # <<>> PROVE Behind(Flushed[Len(Flushed)], s)
      OBVIOUS
    <2>1. /\ Flushed[Len(Flushed)].to = plan.at - 1
          /\ Flushed[Len(Flushed)].kind = "keyed" =>
               plan.at > Len(env.ops) \/ env.ops[plan.at].kind # "stateful"
      BY FlushCovers
    <2>2. ~(plan.at > Len(env.ops)) /\ s.from = (plan.at - 1) + 1
      BY <1>1
    <2>3. QED
      BY <2>1, <2>2 DEF Behind
  <1>3. PICK T : T = Append(Flushed, s)
    OBVIOUS
  <1>4. Covers(T, s.to)'
    BY <1>1, <1>2, <1>3, CoversAppend, CoversKept
  <1>5. T \in Seq(Stages) /\ T[Len(T)] = s
    BY <1>1, <1>3, AppendProperties
  <1>6. /\ plan'.stages = T /\ plan'.group = 0 /\ plan'.par = 1 /\ plan'.at = s.to + 1
        /\ DOMAIN plan' = {"stages", "group", "par", "at"}
    BY <1>3
  <1>7. Covers(plan.stages, plan.at - plan.group - 1)'
    <2>1. plan'.at - plan'.group - 1 = s.to
      BY <1>1, <1>6
    <2>2. QED
      BY <1>4, <1>6, <2>1 DEF Covers
  <1>8. plan'.stages # <<>> =>
          /\ plan'.stages[Len(plan'.stages)].kind # "stateless"
          /\ plan'.stages[Len(plan'.stages)].kind = "keyed" =>
               plan'.at > Len(env'.ops) \/ env'.ops[plan'.at].kind # "stateful"
    BY <1>1, <1>5, <1>6
  <1>9. \A i \in plan'.at - plan'.group .. plan'.at - 1 : FALSE
    BY <1>1, <1>6
  <1>10. plan'.at \in Nat /\ plan'.group < plan'.at /\ plan'.at <= Len(env'.ops) + 1
    BY <1>1, <1>6
  <1>11. QED
    BY <1>5, <1>6, <1>7, <1>8, <1>9, <1>10 DEF Planned

\* A keyed stage takes the keyBy and the stateful operators behind it.
LEMMA PlanKeyedStep ==
  ASSUME Planned, env.ops \in Seq(Ops), PlanKeyed
  PROVE  Planned' /\ pc' = "planning"
  <1>1. /\ pc = "planning" /\ plan.at <= Len(env.ops) /\ env.ops[plan.at].kind = "router"
        /\ plan.at \in 1 .. Len(env.ops) /\ env' = env
    BY DEF PlanKeyed, Planning, Planned
  <1>2. env.ops[plan.at] \in Ops /\ env.ops[plan.at].par \in Nat \ {0}
    <2>1. env.ops[plan.at] \in Ops
      BY <1>1, ElementOfSeq
    <2>2. QED
      BY <2>1 DEF Ops
  <1>3. PICK last : last = TakeStateful(plan.at)
    OBVIOUS
  <1>4. PICK s : s = Stage("keyed", plan.at, last, env.ops[plan.at].par)
    OBVIOUS
  <1>5. /\ plan' = [stages |-> Append(Flushed, s), group |-> 0, par |-> 1, at |-> last + 1]
        /\ pc' = pc
    BY <1>2, <1>3, <1>4 DEF PlanKeyed
  <1>6. /\ last \in plan.at .. Len(env.ops)
        /\ \A k \in plan.at + 1 .. last : env.ops[k].kind = "stateful"
        /\ last = Len(env.ops) \/ env.ops[last + 1].kind # "stateful"
    BY <1>1, <1>3, TakeStatefulEnds
  <1>7. s \in Stages /\ s.kind = "keyed" /\ s.from = plan.at /\ s.to = last
    BY <1>1, <1>2, <1>4, <1>6 DEF Stage, Stages
  <1>8. Fits(s)
    <2>1. \A i \in s.from .. s.to : i = s.from \/ i \in plan.at + 1 .. last
      BY <1>1, <1>6, <1>7
    <2>2. \A i \in s.from .. s.to : env.ops[i].kind = (IF i = s.from THEN "router" ELSE "stateful")
      BY <1>1, <1>6, <1>7, <2>1
    <2>3. QED
      BY <1>1, <1>6, <1>7, <2>2 DEF Fits
  <1>9. /\ plan'.stages = Append(Flushed, s) /\ plan'.group = 0 /\ plan'.par = 1 /\ plan'.at = s.to + 1
        /\ DOMAIN plan' = {"stages", "group", "par", "at"}
    BY <1>5, <1>7
  <1>10. QED
    BY <1>1, <1>5, <1>6, <1>7, <1>8, <1>9, PlanAppends

\* A stateful operator outside a keyed stage.
LEMMA PlanChannelStep ==
  ASSUME Planned, env.ops \in Seq(Ops), PlanChannel
  PROVE  Planned' /\ pc' = "planning"
  <1>1. /\ pc = "planning" /\ plan.at <= Len(env.ops) /\ env.ops[plan.at].kind = "stateful"
        /\ plan.at \in 1 .. Len(env.ops) /\ UNCHANGED <<pc, env>>
    BY DEF PlanChannel, Planning, Planned
  <1>2. PICK s : s = Stage("channel", plan.at, plan.at, 1)
    OBVIOUS
  <1>3. s \in Stages /\ s.kind = "channel" /\ s.from = plan.at /\ s.to = plan.at
    BY <1>1, <1>2 DEF Stage, Stages
  <1>4. /\ plan'.stages = Append(Flushed, s) /\ plan'.group = 0 /\ plan'.par = 1 /\ plan'.at = s.to + 1
        /\ DOMAIN plan' = {"stages", "group", "par", "at"}
    BY <1>2, <1>3 DEF PlanChannel
  <1>5. Fits(s)
    BY <1>1, <1>3 DEF Fits
  <1>6. QED
    BY <1>1, <1>3, <1>4, <1>5, PlanAppends

\* A stateless operator joins the open group or starts the next one.
LEMMA PlanStatelessStep ==
  ASSUME Planned, env.ops \in Seq(Ops), PlanStateless
  PROVE  Planned' /\ pc' = "planning"
  <1>1. /\ pc = "planning" /\ plan.at <= Len(env.ops) /\ env.ops[plan.at].kind = "stateless"
        /\ UNCHANGED <<pc, env>> /\ env'.ops = env.ops
        /\ plan.at \in 1 .. Len(env.ops) /\ plan.at \in Nat /\ Len(env.ops) \in Nat
    BY DEF PlanStateless, Planning, Planned
  <1>2. PICK par : par = env.ops[plan.at].par
    OBVIOUS
  <1>3. par \in Nat \ {0}
    <2>1. env.ops[plan.at] \in Ops
      BY <1>1, ElementOfSeq
    <2>2. QED
      BY <1>2, <2>1 DEF Ops
  <1>4. CASE plan.group > 0 /\ par # plan.par
    <2>1. plan' = [stages |-> Flushed, group |-> 1, par |-> par, at |-> plan.at + 1]
      BY <1>2, <1>4 DEF PlanStateless
    <2>2. PICK T : T = Flushed
      OBVIOUS
    <2>3. /\ plan'.stages = T /\ plan'.group = 1 /\ plan'.par = par /\ plan'.at = plan.at + 1
          /\ DOMAIN plan' = {"stages", "group", "par", "at"}
      BY <2>1, <2>2
    <2>4. T \in Seq(Stages) /\ Covers(T, plan.at - 1)
      BY <2>2, FlushCovers
    <2>5. Covers(plan.stages, plan.at - plan.group - 1)'
      <3>1. PICK n : n = plan.at - 1
        OBVIOUS
      <3>2. Covers(T, n)'
        BY <1>1, <2>4, <3>1, CoversKept
      <3>3. plan'.at - plan'.group - 1 = n
        BY <1>1, <2>3, <3>1
      <3>4. QED
        BY <2>3, <3>2, <3>3 DEF Covers
    <2>6. \A i \in plan'.at - plan'.group .. plan'.at - 1 : i = plan.at
      BY <1>1, <2>3
    <2>7. T # <<>> => (T[Len(T)].kind = "stateless" => T[Len(T)].par = plan.par)
      BY <2>2, FlushCovers
    <2>8. plan'.stages # <<>> =>
            (plan'.stages[Len(plan'.stages)].kind = "stateless" =>
               plan'.stages[Len(plan'.stages)].par # plan'.par)
      BY <1>4, <2>3, <2>7
    <2>9. plan'.group < plan'.at /\ plan'.at <= Len(env'.ops) + 1 /\ plan'.at \in Nat
      BY <1>1, <2>3
    <2>10. QED
      BY <1>1, <1>2, <1>3, <2>3, <2>4, <2>5, <2>6, <2>8, <2>9 DEF Planned
  <1>5. CASE ~(plan.group > 0 /\ par # plan.par)
    <2>1. /\ plan' = [plan EXCEPT !.par = par, !.group = @ + 1, !.at = @ + 1]
          /\ DOMAIN plan = {"stages", "group", "par", "at"}
      BY <1>2, <1>5 DEF PlanStateless, Planned
    <2>2. /\ plan'.stages = plan.stages /\ plan'.group = plan.group + 1 /\ plan'.par = par
          /\ plan'.at = plan.at + 1 /\ DOMAIN plan' = {"stages", "group", "par", "at"}
      BY <2>1
    <2>3. plan.group \in Nat /\ plan.group < plan.at /\ plan.par \in Nat \ {0}
      BY DEF Planned
    <2>4. Covers(plan.stages, plan.at - plan.group - 1)'
      <3>1. PICK T, n : T = plan.stages /\ n = plan.at - plan.group - 1
        OBVIOUS
      <3>2. Covers(T, n)'
        BY <1>1, <3>1, CoversKept DEF Planned
      <3>3. plan'.at - plan'.group - 1 = n /\ plan'.stages = T
        BY <1>1, <2>2, <2>3, <3>1
      <3>4. QED
        BY <3>2, <3>3 DEF Covers
    <2>5. \A i \in plan'.at - plan'.group .. plan'.at - 1 :
            i = plan.at \/ (i \in plan.at - plan.group .. plan.at - 1 /\ plan.group > 0)
      BY <1>1, <2>2, <2>3
    <2>6. plan.group > 0 => plan.par = par
      BY <1>5
    <2>7. \A i \in plan'.at - plan'.group .. plan'.at - 1 :
            env'.ops[i].kind = "stateless" /\ env'.ops[i].par = plan'.par
      <3>1. \A i \in plan.at - plan.group .. plan.at - 1 :
              env.ops[i].kind = "stateless" /\ env.ops[i].par = plan.par
        BY DEF Planned
      <3>2. QED
        BY <1>1, <1>2, <2>2, <2>5, <2>6, <3>1
    <2>8. plan'.stages # <<>> =>
            (plan'.stages[Len(plan'.stages)].kind = "stateless" =>
               plan'.stages[Len(plan'.stages)].par # plan'.par)
      BY <2>2, <2>6 DEF Planned
    <2>9. plan'.group < plan'.at /\ plan'.at <= Len(env'.ops) + 1 /\ plan'.at \in Nat
          /\ plan'.group \in Nat /\ plan'.group > 0
      BY <1>1, <2>2, <2>3
    <2>10. plan'.stages \in Seq(Stages)
      BY <2>2 DEF Planned
    <2>11. QED
      BY <1>1, <1>3, <2>2, <2>4, <2>7, <2>8, <2>9, <2>10 DEF Planned
  <1>6. QED
    BY <1>1, <1>4, <1>5

\* The last group is flushed: the stages hold the pipeline.
LEMMA PlanEndsStep ==
  ASSUME Planned, env.ops \in Seq(Ops), PlanEnds
  PROVE  PlanKeepsPipeline' /\ pc' = "running"
  <1>1. /\ pc' = "running" /\ env' = env /\ plan'.stages = Flushed /\ plan.at = Len(env.ops) + 1
        /\ Len(env.ops) \in Nat
    <2>1. pc' = "running" /\ env' = env /\ plan.at > Len(env.ops) /\ Len(env.ops) \in Nat
      BY DEF PlanEnds
    <2>2. plan.at \in Nat /\ plan.at <= Len(env.ops) + 1
      BY DEF Planned
    <2>3. plan'.stages = Flushed
      BY DEF PlanEnds, Planned
    <2>4. QED
      BY <2>1, <2>2, <2>3
  <1>2. PICK T : T = Flushed
    OBVIOUS
  <1>3. T \in Seq(Stages) /\ Covers(T, Len(env.ops))
    <2>1. plan.at - 1 = Len(env.ops)
      BY <1>1
    <2>2. QED
      BY <1>2, <2>1, FlushCovers
  <1>4. IF T = <<>> THEN env.ops = <<>> ELSE T[1].from = 1 /\ T[Len(T)].to = Len(env.ops)
    BY <1>1, <1>3, EmptySeq DEF Covers
  <1>5. DOMAIN T = 1 .. Len(T)
    BY <1>3
  <1>6. /\ \A n \in 1 .. Len(T) - 1 : T[n + 1].from = T[n].to + 1
        /\ \A n \in 1 .. Len(T) - 1 :
             /\ ~(T[n].kind = "stateless" /\ T[n + 1].kind = "stateless" /\ T[n].par = T[n + 1].par)
             /\ ~(T[n].kind = "keyed" /\ T[n + 1].kind = "channel")
    BY <1>3 DEF Covers, Behind
  <1>7. \A n \in DOMAIN T : \A i \in T[n].from .. T[n].to :
          CASE T[n].kind = "keyed" -> env.ops[i].kind = (IF i = T[n].from THEN "router" ELSE "stateful")
            [] T[n].kind = "stateless" -> env.ops[i].kind = "stateless" /\ env.ops[i].par = T[n].par
            [] OTHER -> env.ops[i].kind = "stateful"
    BY <1>3, <1>5 DEF Covers, Fits
  <1>8. QED
    BY <1>1, <1>2, <1>4, <1>6, <1>7 DEF PlanKeepsPipeline

\* Planning changes neither the document nor the environment.
LEMMA CompilePlans ==
  ASSUME CompileInv, pc = "planning", pc' \in {"planning", "running"}, UNCHANGED <<wf, env>>
  PROVE  CompileInv'
  <1>1. Sound' /\ (Checkpointing' <=> Checkpointing)
    BY SoundKept DEF CompileInv, Checkpointing
  <1>2. Built'
    BY <1>1 DEF CompileInv, Built
  <1>3. QED
    BY <1>1, <1>2 DEF CompileInv

\* Before planning starts the plan is empty.
LEMMA PlanNotStarted ==
  ASSUME PlanInv, pc \notin {"planning", "running", "unopened", "panicked"},
         pc' \notin {"planning", "running"}, plan' = plan
  PROVE  PlanInv'
  BY DEF PlanInv, PlanKeepsPipeline

\* Planning starts with an empty plan.
LEMMA PlanStarts ==
  ASSUME CompileInv, PlanInv, Execute
  PROVE  PlanInv'
  <1>1. pc = "compiled" /\ pc' = "planning" /\ env' = env /\ plan' = FreshPlan
    BY CompiledExecutes DEF Execute, PlanInv
  <1>2. Len(env'.ops) \in Nat
    BY <1>1 DEF CompileInv, Built
  <1>3. /\ plan'.stages = <<>> /\ plan'.group = 0 /\ plan'.par = 1 /\ plan'.at = 1
        /\ DOMAIN plan' = {"stages", "group", "par", "at"} /\ plan'.stages \in Seq(Stages)
    BY <1>1 DEF FreshPlan
  <1>4. Covers(plan.stages, plan.at - plan.group - 1)'
    BY <1>3 DEF Covers
  <1>5. Planned'
    BY <1>2, <1>3, <1>4 DEF Planned
  <1>6. QED
    BY <1>1, <1>5 DEF PlanInv, PlanKeepsPipeline

\* A store or a certificate that cannot be opened ends the run where it is.
LEMMA RunEnds ==
  ASSUME WorkflowInv, pc' \in {"unopened", "panicked"}, UNCHANGED <<wf, env, plan>>
  PROVE  WorkflowInv'
  <1>1. Built'
    BY DEF WorkflowInv, CompileInv, Built
  <1>2. QED
    BY <1>1 DEF WorkflowInv, CompileInv, PlanInv, PlanKeepsPipeline

\* Every step keeps the invariant.
LEMMA WorkflowStep ==
  ASSUME WorkflowInv, [Next]_vars
  PROVE  WorkflowInv'
  <1> USE DEF WorkflowInv
  <1>1. CASE UNCHANGED vars
    <2>1. UNCHANGED <<wf, pc, env, plan>>
      BY <1>1 DEF vars
    <2>2. CompileInv'
      BY <2>1 DEF CompileInv, Sound, Built, SourceIsExactlyOnce, Checkpointing, IsWorkflow
    <2>3. PlanInv'
      BY <2>1 DEF PlanInv, Planned, Covers, Fits, Behind, PlanKeepsPipeline
    <2>4. QED
      BY <2>2, <2>3
  <1>2. CASE Validate
    BY <1>2, CompileValidate, PlanNotStarted DEF Validate
  <1>3. CASE ResolveSecrets
    BY <1>3, CompileResolve, PlanNotStarted DEF ResolveSecrets
  <1>4. CASE CompileRuntime
    BY <1>4, CompileEnv, PlanNotStarted DEF CompileRuntime
  <1>5. CASE CompileStream
    BY <1>5, CompileSources, PlanNotStarted DEF CompileStream
  <1>6. CASE ApplyOperator
    BY <1>6, CompileOperator, PlanNotStarted DEF ApplyOperator
  <1>7. CASE CompileSink
    BY <1>7, CompileToSink, PlanNotStarted DEF CompileSink
  <1>8. CASE Execute
    BY <1>8, CompiledExecutes, PlanStarts
  <1>9. CASE PlanKeyed \/ PlanStateless \/ PlanChannel
    <2>1. pc = "planning" /\ UNCHANGED <<wf, env>>
      BY <1>9 DEF PlanKeyed, PlanStateless, PlanChannel, Planning
    <2>2. Planned /\ env.ops \in Seq(Ops)
      BY <2>1 DEF PlanInv, CompileInv, Built
    <2>3. Planned' /\ pc' = "planning"
      BY <1>9, <2>2, PlanKeyedStep, PlanStatelessStep, PlanChannelStep
    <2>4. PlanInv'
      BY <2>3 DEF PlanInv, PlanKeepsPipeline
    <2>5. QED
      BY <2>1, <2>3, <2>4, CompilePlans
  <1>10. CASE PlanEnds
    <2>1. pc = "planning" /\ UNCHANGED <<wf, env>>
      BY <1>10 DEF PlanEnds
    <2>2. Planned /\ env.ops \in Seq(Ops)
      BY <2>1 DEF PlanInv, CompileInv, Built
    <2>3. PlanKeepsPipeline' /\ pc' = "running"
      BY <1>10, <2>2, PlanEndsStep
    <2>4. QED
      BY <2>1, <2>3, CompilePlans DEF PlanInv
  <1>11. CASE BackendFails
    BY <1>11, RunEnds DEF BackendFails
  <1>12. CASE OpenReader
    BY <1>12, RunEnds DEF OpenReader
  <1>13. QED
    BY <1>1, <1>2, <1>3, <1>4, <1>5, <1>6, <1>7, <1>8, <1>9, <1>10, <1>11, <1>12 DEF Next

-----------------------------------------------------------------------------
(* The theorems.                                                           *)

\* The inductive invariant: what validation accepted stays sound, the environment
\* holds what the document asked for, and the stages cover what has been planned.
THEOREM WorkflowInvariant == Spec => []WorkflowInv
  <1>1. Init => WorkflowInv
    <2> SUFFICES ASSUME Init PROVE WorkflowInv
      OBVIOUS
    <2>1. IsWorkflow(wf) /\ pc = "loaded"
      BY DocsAreWorkflows DEF Init
    <2>2. DOMAIN env = {"ckpt", "source", "join", "ops", "sink"} /\ env.ops \in Seq(Ops)
      BY DEF Init, FreshEnv
    <2>3. CompileInv
      BY <2>1, <2>2 DEF CompileInv, Built
    <2>4. PlanInv
      BY <2>1 DEF Init, PlanInv, FreshPlan, PlanKeepsPipeline
    <2>5. QED
      BY <2>3, <2>4 DEF WorkflowInv
  <1>2. WorkflowInv /\ [Next]_vars => WorkflowInv'
    BY WorkflowStep
  <1>3. QED
    BY <1>1, <1>2, PTL DEF Spec

\* No document that Validate and the compiler accept is refused by Execute or by
\* the planner (Validate, CompileWorkflow, Execute, executeNativeJoin, BuildPlan).
THEOREM WhatCompilesStarts == Spec => []CompiledStarts
  <1>1. WorkflowInv => CompiledStarts
    BY DEF WorkflowInv, CompileInv, CompiledStarts
  <1>2. QED
    BY <1>1, WorkflowInvariant, PTL

\* The guarantee the compiler reports is the one that runs, for every combination
\* of source, sink and checkpointing that a document can ask for.
THEOREM ReportedGuaranteeRuns == Spec => []GuaranteeIsWhole
  <1>1. WorkflowInv => GuaranteeIsWhole
    <2> SUFFICES ASSUME WorkflowInv, pc = "running"
                 PROVE  /\ Coordinated <=> Delivery = "exactly-once"
                        /\ Coordinated => env.ckpt
                        /\ wf.sources = <<>> => (SourceIsExactlyOnce <=> Delivery = "exactly-once")
      BY DEF GuaranteeIsWhole
    <2>1. Sound /\ (env.ckpt <=> Checkpointing) /\ env.sink = wf.sink.type
      BY DEF WorkflowInv, CompileInv, Built
    <2>2. Delivery = "exactly-once" <=> SourceIsExactlyOnce /\ wf.sink.type = "txnKafka" /\ Checkpointing
      BY DEF Delivery
    <2>3. Coordinated <=> wf.sink.type = "txnKafka"
      BY <2>1 DEF Coordinated
    <2>4. QED
      BY <2>1, <2>2, <2>3 DEF Sound
  <1>2. QED
    BY <1>1, WorkflowInvariant, PTL

\* The planner's stages hold every operator of a pipeline of any length once and in
\* order, with the stateful operators behind their keyBy (BuildPlan, takeStateful).
THEOREM PlanIsThePipeline == Spec => []PlanKeepsPipeline
  <1>1. WorkflowInv => PlanKeepsPipeline
    BY DEF WorkflowInv, PlanInv
  <1>2. QED
    BY <1>1, WorkflowInvariant, PTL
=============================================================================
