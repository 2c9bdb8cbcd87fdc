------------------------------ MODULE Workflow ------------------------------
(***************************************************************************)
(* A declarative workflow on its way to a running pipeline: Validate,      *)
(* resolve secrets, compile runtime, source, operators and sink, the       *)
(* checks Execute makes before it starts, and the planner that groups the  *)
(* operators into stages.                                                  *)
(*                                                                         *)
(* A string that is only tested for being empty is a BOOLEAN; a sensitive  *)
(* text is one of Texts; an absent block is Nil; a watermark bound is 0     *)
(* when omitted and -1 when it is not positive.                            *)
(***************************************************************************)
EXTENDS Integers, Sequences, FiniteSets

CONSTANTS
  Nil,       \* an omitted block
  Docs,      \* candidate documents
  Functions  \* the refs the function registry holds

VARIABLES
  wf,    \* the document; from ResolveSecrets on, the resolved copy
  pc,    \* how far it has come
  env,   \* the execution environment that is built
  plan   \* the planner's stages, open group and position

vars == <<wf, pc, env, plan>>

-----------------------------------------------------------------------------
(* Documents.                                                              *)

Texts == {"", "plain", "ref", "broken"}  \* broken: "${" that is no reference

Credentials(texts) == [password : texts, known : BOOLEAN]
SASLSpec == Credentials(Texts)

TLSFiles == {"none", "good", "bad"}      \* bad: a certificate that cannot be read

KafkaSourceBlock(texts) ==
  [brokers : BOOLEAN, topic : BOOLEAN, group : BOOLEAN, parallel : BOOLEAN,
   exactlyOnce : BOOLEAN, startFrom : STRING, format : STRING,
   watermark : Int, sasl : Credentials(texts) \cup {Nil}, tls : TLSFiles]
KafkaSourceSpec == KafkaSourceBlock(Texts)

FileSpec == [path : BOOLEAN, format : STRING]

SourceSpec == [type : STRING, kafka : KafkaSourceSpec \cup {Nil}, file : FileSpec \cup {Nil}]

KafkaSinkSpec ==
  [brokers : BOOLEAN, topic : BOOLEAN, acks : STRING, format : STRING,
   onError : STRING, sasl : SASLSpec \cup {Nil}, tls : TLSFiles]

TxnKafkaSinkSpec ==
  [brokers : BOOLEAN, topic : BOOLEAN, txnID : BOOLEAN, format : STRING,
   sasl : SASLSpec \cup {Nil}, tls : TLSFiles]

PostgresSinkSpec ==
  [dsn : Texts, table : STRING, mapping : SUBSET STRING, mode : STRING,
   conflict : SUBSET STRING, update : SUBSET STRING, onError : STRING]

SinkSpec ==
  [type : STRING, kafka : KafkaSinkSpec \cup {Nil}, txnKafka : TxnKafkaSinkSpec \cup {Nil},
   postgres : PostgresSinkSpec \cup {Nil}, file : FileSpec \cup {Nil}]

CheckpointSpec == [interval : Int, retain : Int, dir : BOOLEAN]

\* The state backend, "none" when the block is omitted.
Backends == {"none", "", "memory", "pebble", "rocks"}

EnvSpec ==
  [buffer : Int, ckpt : CheckpointSpec \cup {Nil}, state : Backends]

\* The block of an operator is under its type; DOMAIN cfg are its configBlocks.
IsOperator(op) ==
  /\ DOMAIN op = {"id", "type", "cfg"} /\ op.id \in STRING
  /\ \A b \in DOMAIN op.cfg : op.cfg[b] # Nil
  /\ "keyBy" \in DOMAIN op.cfg => op.cfg["keyBy"].partitions \in Int
  /\ \A b \in DOMAIN op.cfg \cap {"map", "flatMap", "process"} : op.cfg[b].par \in Int

IsSequence(s) == s \in Seq({s[i] : i \in DOMAIN s})

IsWorkflow(d) ==
  /\ DOMAIN d = {"version", "name", "env", "source", "sources", "pipeline", "sink"}
  /\ d.env = Nil \/ d.env \in EnvSpec
  /\ d.source \in SourceSpec /\ d.sink \in SinkSpec
  /\ IsSequence(d.sources) /\ \A i \in DOMAIN d.sources : d.sources[i].source \in SourceSpec
  /\ IsSequence(d.pipeline) /\ \A i \in DOMAIN d.pipeline : IsOperator(d.pipeline[i])

\* Nil is no block, nor one with a secret that could not be resolved.
ASSUME DocsAreWorkflows ==
  Nil \notin KafkaSourceBlock(Texts \cup {Nil}) /\ \A d \in Docs : IsWorkflow(d)

SafeName(n) == n \notin {"", "a b", "../up"}  \* nameRe, on the names in use
SafeIdent(n) == n \notin {"", "drop table"}   \* tableRe and columnRe

-----------------------------------------------------------------------------
(* Validate.  Each part gives the paths it complains about.                *)

Failing(checks) == {c[1] : c \in {x \in checks : x[2]}}

HasDuplicate(s, field(_)) ==
  \E i, j \in DOMAIN s : i < j /\ field(s[i]) = field(s[j])

StructuralSource ==
  Failing(
    {<<"source", (wf.source.type # "") = (wf.sources # <<>>)>>,
     <<"source.type", wf.source.type \notin {"", "kafka", "slice", "generator"}>>,
     <<"sources.name", \/ HasDuplicate(wf.sources, LAMBDA s : s.name)
                       \/ \E i \in DOMAIN wf.sources : ~SafeName(wf.sources[i].name)>>,
     <<"sources.type", \E i \in DOMAIN wf.sources :
        wf.sources[i].source.type \notin {"kafka", "slice", "generator"}>>})

\* The single block of an operator must be the one its type names.
StructuralOperators ==
  Failing(
    {<<"id", \/ HasDuplicate(wf.pipeline, LAMBDA o : o.id)
             \/ \E i \in DOMAIN wf.pipeline : wf.pipeline[i].id = "">>,
     <<"block", \E i \in DOMAIN wf.pipeline :
        DOMAIN wf.pipeline[i].cfg # {wf.pipeline[i].type}>>})

Structural ==
  Failing({<<"version", wf.version \notin {"", "1"}>>, <<"name", ~SafeName(wf.name)>>,
           <<"sink", wf.sink.type \notin {"kafka", "txnKafka", "postgres", "stdout", "blackhole"}>>})
  \cup StructuralSource \cup StructuralOperators

EnvConfig(e) ==
  IF e = Nil THEN {}
  ELSE Failing(
    {<<"bufferSize", e.buffer < 0>>,
     <<"checkpointing", e.ckpt # Nil /\ (e.ckpt.interval <= 0 \/ e.ckpt.retain < 0)>>,
     <<"backend", e.state \in {"", "rocks"}>>})

SourceConfig(s) ==
  IF s.type # "kafka" THEN {}
  ELSE IF s.kafka = Nil THEN {"kafka"}
  ELSE Failing(
    {<<"brokers", ~s.kafka.brokers>>, <<"topic", ~s.kafka.topic>>,
     <<"parallel", s.kafka.parallel /\ s.kafka.group>>,
     <<"watermark", s.kafka.watermark < 0>>})

KafkaSinkConfig(k) ==
  IF k = Nil THEN {"kafka"}
  ELSE Failing({<<"brokers", ~k.brokers>>, <<"topic", ~k.topic>>})

TxnKafkaSinkConfig(k) ==
  IF k = Nil THEN {"txnKafka"}
  ELSE Failing({<<"brokers", ~k.brokers>>, <<"topic", ~k.topic>>,
                <<"transactionalID", ~k.txnID>>})

PostgresSinkConfig(p) ==
  IF p = Nil THEN {"postgres"}
  ELSE Failing(
    {<<"dsn", p.dsn = "">>, <<"table", p.table = "">>, <<"mapping", p.mapping = {}>>,
     <<"mode", \/ p.mode \notin {"", "insert", "upsert"}
               \/ p.mode # "upsert" /\ p.conflict \cup p.update # {}>>,
     <<"conflictColumns", p.mode = "upsert" /\ p.conflict = {}>>,
     <<"columns", ~(p.conflict \cup p.update \subseteq p.mapping)>>})

SinkConfig(s) ==
  CASE s.type = "kafka" -> KafkaSinkConfig(s.kafka)
    [] s.type = "txnKafka" -> TxnKafkaSinkConfig(s.txnKafka)
    [] s.type = "postgres" -> PostgresSinkConfig(s.postgres)
    [] OTHER -> {}

WindowConfig(w) ==
  Failing(
    {<<"allowedLateness", w.lateness < 0>>,
     <<"type", w.type \notin {"tumbling", "sliding", "session"}>>,
     <<"size", w.type \in {"tumbling", "sliding"} /\ w.size <= 0>>,
     <<"slide", w.type = "sliding" /\ (w.slide <= 0 \/ (w.size > 0 /\ w.slide > w.size))>>,
     <<"gap", w.type = "session" /\ w.gap <= 0>>})

JoinConfig(j) ==
  Failing(
    {<<"sources", j.left = "" \/ j.right = "" \/ j.left = j.right>>,
     <<"bounds", j.within < 0 \/ j.before < 0 \/ j.after < 0>>,
     <<"exclusive", j.within > 0 /\ (j.before > 0 \/ j.after > 0)>>,
     <<"missing", j.within = 0 /\ j.before = 0 /\ j.after = 0>>})

\* A filter's comparison, only checked for being there.
OperatorConfig(b, c) ==
  CASE b = "filter" -> Failing({<<"field", ~c.field>>, <<"operator", c.operator = "">>})
    [] b \in {"selectFields", "renameFields", "setFields"} -> Failing({<<b, c = 0>>})
    [] b = "keyBy" -> Failing({<<"field", ~c.field>>, <<"partitions", c.partitions < 0>>})
    [] b = "reduce" -> Failing({<<"function", c.function \notin {"count", "sum"}>>,
                                <<"field", c.function = "sum" /\ ~c.field>>})
    [] b = "window" -> WindowConfig(c)
    [] b = "join" -> JoinConfig(c)
    [] OTHER -> Failing({<<"ref", c.ref = "">>})

Configuration ==
  EnvConfig(wf.env) \cup SourceConfig(wf.source) \cup SinkConfig(wf.sink)
  \cup (UNION {SourceConfig(wf.sources[i].source) : i \in DOMAIN wf.sources})
  \cup (UNION {UNION {OperatorConfig(b, wf.pipeline[i].cfg[b]) : b \in DOMAIN wf.pipeline[i].cfg} :
                 i \in DOMAIN wf.pipeline})

OperatorType(i) == wf.pipeline[i].type
KeyBysBefore(i) == {k \in 1 .. i - 1 : OperatorType(k) = "keyBy"}
SourceNames == {wf.sources[i].name : i \in DOMAIN wf.sources}

\* The first operator joins two of the named sources.
JoinComesFirst ==
  /\ wf.pipeline # <<>> /\ "join" \in DOMAIN wf.pipeline[1].cfg
  /\ {wf.pipeline[1].cfg["join"].left, wf.pipeline[1].cfg["join"].right} \subseteq SourceNames

\* A reduce or a window after some keyBy, no window after the aggregation of
\* its group; several sources are joined first.
PipelineOrder ==
  Failing(
    {<<"order", \E i \in DOMAIN wf.pipeline :
        OperatorType(i) \in {"reduce", "window"} /\ KeyBysBefore(i) = {}>>,
     <<"aggregated", \E i \in DOMAIN wf.pipeline : OperatorType(i) = "window" /\
        \E r \in 1 .. i - 1 : /\ OperatorType(r) = "reduce"
                              /\ \A k \in KeyBysBefore(i) : k < r>>,
     <<"join", SourceNames # {} /\ ~JoinComesFirst>>})

SourceIsExactlyOnce ==
  wf.source.type = "kafka" /\ wf.source.kafka # Nil /\ wf.source.kafka.exactlyOnce

Checkpointing == wf.env # Nil /\ wf.env.ckpt # Nil /\ wf.env.ckpt.interval > 0

\* Mutant: a source that holds its commits back is not asked for a sink.
DeliveryOfSink ==
  IF wf.sink.type # "txnKafka" THEN {}
  ELSE Failing({<<"source", ~SourceIsExactlyOnce>>, <<"checkpointing", ~Checkpointing>>})

\* Mutant: checkpointing is not required.
DeliveryWithoutCheckpoints ==
  IF ~SourceIsExactlyOnce /\ wf.sink.type # "txnKafka" THEN {}
  ELSE Failing({<<"source", ~SourceIsExactlyOnce>>, <<"sink", wf.sink.type # "txnKafka">>})

\* Either end asking for exactly-once requires the whole of it.
DeliveryGuarantee ==
  IF ~SourceIsExactlyOnce /\ wf.sink.type # "txnKafka" THEN {}
  ELSE Failing({<<"source", ~SourceIsExactlyOnce>>, <<"sink", wf.sink.type # "txnKafka">>,
                <<"checkpointing", ~Checkpointing>>})

ConfiguresDirs ==
  wf.env # Nil /\ ((wf.env.ckpt # Nil /\ wf.env.ckpt.dir) \/ wf.env.state = "pebble")

\* A configured directory that cannot be created is one more error.
Validate ==
  /\ pc = "loaded"
  /\ \E dirs \in (IF ConfiguresDirs THEN {{}, {"dir"}} ELSE {{}}) :
       pc' = IF dirs \cup Structural \cup Configuration \cup PipelineOrder \cup DeliveryGuarantee = {}
             THEN "valid" ELSE "rejected"
  /\ UNCHANGED <<wf, env, plan>>

-----------------------------------------------------------------------------
(* Compile.                                                                *)

\* resolveOne, for what the resolver knows of a reference.
ResolveOne(text, known) ==
  CASE text = "broken" -> Nil
    [] text = "ref" /\ known \in {"missing", "nested"} -> Nil
    [] text = "ref" /\ known = "empty" -> ""
    [] text = "ref" /\ known = "value" -> "plain"
    [] OTHER -> text

ResolveCredentials(s, known) == [s EXCEPT !.password = ResolveOne(@, known)]

ResolveSASL(k, known) ==
  IF k = Nil \/ k.sasl = Nil THEN k
  ELSE [k EXCEPT !.sasl = ResolveCredentials(@, known)]

ResolvePostgres(p, known) ==
  IF p = Nil THEN p ELSE [p EXCEPT !.dsn = ResolveOne(@, known)]

\* Only the block the sink's type names is resolved.
Resolved(known) ==
  [wf EXCEPT
     !.source.kafka = ResolveSASL(@, known),
     !.sources = [i \in DOMAIN @ |-> [@[i] EXCEPT !.source.kafka = ResolveSASL(@, known)]],
     !.sink.kafka = IF wf.sink.type = "kafka" THEN ResolveSASL(@, known) ELSE @,
     !.sink.txnKafka = IF wf.sink.type = "txnKafka" THEN ResolveSASL(@, known) ELSE @,
     !.sink.postgres = IF wf.sink.type = "postgres" THEN ResolvePostgres(@, known) ELSE @]

Unresolved(k) == k # Nil /\ k.sasl # Nil /\ k.sasl.password = Nil

ResolveSecrets ==
  /\ pc = "valid"
  /\ \E known \in {"missing", "nested", "empty", "value"} :
       LET r == Resolved(known)
       IN  /\ wf' = r
           /\ pc' = IF \/ Unresolved(r.source.kafka) \/ Unresolved(r.sink.kafka)
                       \/ Unresolved(r.sink.txnKafka)
                       \/ \E i \in DOMAIN r.sources : Unresolved(r.sources[i].source.kafka)
                       \/ r.sink.postgres # Nil /\ r.sink.postgres.dsn = Nil
                    THEN "failed" ELSE "resolved"
  /\ UNCHANGED <<env, plan>>

FreshEnv ==
  [ckpt |-> FALSE, source |-> "none", join |-> Nil, ops |-> <<>>, sink |-> "none"]

RuntimeSound(e) ==
  e # Nil => /\ e.buffer >= 0 /\ e.state # "rocks"
             /\ e.ckpt # Nil => (e.ckpt.interval > 0 /\ e.ckpt.retain >= 0)

\* Directories are made below the workflow's name; that may fail.
CompileRuntime ==
  /\ pc = "resolved"
  /\ \/ /\ RuntimeSound(wf.env)
        /\ env' = [FreshEnv EXCEPT !.ckpt = Checkpointing] /\ pc' = "runtime"
     \/ /\ wf.env # Nil /\ (~RuntimeSound(wf.env) \/ wf.env.ckpt # Nil \/ wf.env.state = "pebble")
        /\ pc' = "failed" /\ UNCHANGED env
  /\ UNCHANGED <<wf, plan>>

CompileFormat(format) == format \in {"", "json"}

CompileSASL(s) == s = Nil \/ (s.known /\ s.password \notin {"ref", "broken"})

CompileFileSource(f) == f # Nil /\ f.path /\ CompileFormat(f.format)

\* Parallel mode would connect, and a group is required.  The TLS files are only
\* named here: the reader opens them, once the source runs (OpenReader).
CompileKafkaSource(k) ==
  /\ k # Nil /\ k.brokers /\ k.topic /\ ~k.parallel /\ k.group
  /\ k.startFrom \in {"", "earliest", "latest"}
  /\ CompileFormat(k.format) /\ k.watermark >= 0 /\ CompileSASL(k.sasl)

CompileSource(s) ==
  CASE s.type = "kafka" -> CompileKafkaSource(s.kafka)
    [] s.type = "file" -> CompileFileSource(s.file)
    [] OTHER -> s.type \in {"slice", "generator"}

\* One source, or two of the named ones and the join that heads the pipeline.
CompileStream ==
  /\ pc = "runtime"
  /\ IF wf.sources = <<>>
     THEN IF CompileSource(wf.source)
          THEN pc' = "stream" /\ env' = [env EXCEPT !.source = wf.source.type]
          ELSE pc' = "failed" /\ UNCHANGED env
     ELSE IF \A i \in DOMAIN wf.sources : CompileSource(wf.sources[i].source)
          THEN /\ pc' = "stream"
               /\ env' = [env EXCEPT !.join = wf.pipeline[1].cfg["join"]]
          ELSE pc' = "failed" /\ UNCHANGED env
  /\ UNCHANGED <<wf, plan>>

BuildReducer(c) == c.function = "count" \/ (c.function = "sum" /\ c.field)

BuildWindowAssigner(w) ==
  CASE w.type = "tumbling" -> w.size > 0
    [] w.type = "sliding" -> w.size > 0 /\ w.slide > 0
    [] OTHER -> w.type = "session" /\ w.gap > 0

Registered(c) == c.ref \in Functions

Buildable(b, c) ==
  CASE b = "reduce" -> BuildReducer(c)
    [] b = "window" -> BuildWindowAssigner(c)
    [] b \in {"map", "flatMap", "process"} -> Registered(c)
    [] OTHER -> TRUE

PartitionsOrDefault(n) == IF n <= 0 THEN 16 ELSE n

ParallelismOrDefault(n) == IF n <= 0 THEN 1 ELSE n

\* What the planner asks of an operator: router, Cloneable, SingleProcessor.
StreamOp(b, c) ==
  CASE b = "keyBy" -> [kind |-> "router", par |-> PartitionsOrDefault(c.partitions)]
    [] b \in {"reduce", "window", "join"} -> [kind |-> "stateful", par |-> 1]
    [] b \in {"map", "flatMap", "process"} ->
         [kind |-> "stateless", par |-> ParallelismOrDefault(c.par)]
    [] OTHER -> [kind |-> "stateless", par |-> 1]

\* The operators still to be applied start behind a native join.
Applied == Len(env.ops) + (IF env.join = Nil THEN 0 ELSE 1)

ApplyOperator ==
  /\ pc = "stream" /\ Applied < Len(wf.pipeline)
  /\ LET op == wf.pipeline[Applied + 1]
         b  == op.type
     IN  IF Buildable(b, op.cfg[b])
         THEN env' = [env EXCEPT !.ops = Append(@, StreamOp(b, op.cfg[b]))] /\ UNCHANGED pc
         ELSE pc' = "failed" /\ UNCHANGED env
  /\ UNCHANGED <<wf, plan>>

CompileFailurePolicy(p) == p \in {"", "drop", "fail"}

CompileAcks(a) == a \in {"", "leader", "one", "none", "all"}

CompileKafkaSink(k) ==
  /\ k # Nil /\ k.brokers /\ k.topic /\ CompileAcks(k.acks) /\ CompileFormat(k.format)
  /\ CompileFailurePolicy(k.onError) /\ CompileSASL(k.sasl)

\* NewKafkaSinkE reads the TLS files.
NewKafkaSinkE(k) == k.tls # "bad"

CompileTxnKafkaSink(k) ==
  k # Nil /\ k.brokers /\ k.topic /\ k.txnID /\ CompileFormat(k.format) /\ CompileSASL(k.sasl)

\* NewTxnKafkaSink panics when it cannot read them.
NewTxnKafkaSinkPanics(k) == k.tls = "bad"

ValidatePostgresColumns(p) ==
  /\ \A c \in p.conflict \cup p.update : SafeIdent(c)
  /\ p.conflict \cup p.update \subseteq p.mapping

BuildPostgresMapper(p) == SafeIdent(p.table) /\ \A c \in p.mapping : SafeIdent(c)

CompilePostgresMode(p) ==
  \/ p.mode \in {"", "insert"} /\ p.conflict \cup p.update = {}
  \/ p.mode = "upsert" /\ p.conflict # {}

CompilePostgresSink(p) ==
  /\ p # Nil /\ p.dsn \notin {"", "ref", "broken"} /\ p.mapping # {}
  /\ CompilePostgresMode(p) /\ ValidatePostgresColumns(p) /\ BuildPostgresMapper(p)
  /\ CompileFailurePolicy(p.onError)

CompileFileSink(f) == f # Nil /\ f.path /\ CompileFormat(f.format)

SinkCompiles(s) ==
  CASE s.type = "kafka" -> CompileKafkaSink(s.kafka) /\ NewKafkaSinkE(s.kafka)
    [] s.type = "txnKafka" -> CompileTxnKafkaSink(s.txnKafka)
    [] s.type = "postgres" -> CompilePostgresSink(s.postgres)
    [] s.type = "file" -> CompileFileSink(s.file)
    [] OTHER -> s.type \in {"stdout", "blackhole"}

CompileSink ==
  /\ pc = "stream" /\ Applied = Len(wf.pipeline)
  /\ IF SinkCompiles(wf.sink)
     THEN /\ env' = [env EXCEPT !.sink = wf.sink.type]
          /\ pc' = IF wf.sink.type = "txnKafka" /\ NewTxnKafkaSinkPanics(wf.sink.txnKafka)
                   THEN "panicked" ELSE "compiled"
     ELSE pc' = "failed" /\ UNCHANGED env
  /\ UNCHANGED <<wf, plan>>

\* The guarantee a compiled workflow reports.
Delivery ==
  IF SourceIsExactlyOnce /\ wf.sink.type = "txnKafka" /\ Checkpointing THEN "exactly-once"
  ELSE IF Checkpointing THEN "at-least-once" ELSE "at-most-once"

-----------------------------------------------------------------------------
(* Execute, up to the start of the stages.                                 *)

Coordinated == env.sink = "txnKafka"

CanResume == env.source \in {"kafka", "file"}

\* executeNativeJoin: both sources, an honest join, no transactional sink.
JoinStarts ==
  /\ env.join.left # "" /\ env.join.right # "" /\ env.join.left # env.join.right
  /\ ~Coordinated

Execute ==
  /\ pc = "compiled"
  /\ pc' = IF IF env.join = Nil
              THEN env.source # "none" /\ (Coordinated => env.ckpt /\ CanResume)
              ELSE JoinStarts
           THEN "planning" ELSE "refused"
  /\ UNCHANGED <<wf, env, plan>>

Stage(kind, from, to, par) == [kind |-> kind, from |-> from, to |-> to, par |-> par]

\* flush: the open group of stateless operators, [from, to], becomes a stage.
Flushed ==
  IF plan.group = 0 THEN plan.stages
  ELSE Append(plan.stages, Stage("stateless", plan.at - plan.group, plan.at - 1, plan.par))

Planning(kind) == pc = "planning" /\ plan.at <= Len(env.ops) /\ env.ops[plan.at].kind = kind

\* takeStateful: the last of the stateful operators right behind position i.
TakeStateful(i) ==
  CHOOSE j \in i .. Len(env.ops) :
    /\ \A k \in i + 1 .. j : env.ops[k].kind = "stateful"
    /\ j = Len(env.ops) \/ env.ops[j + 1].kind # "stateful"

\* A keyBy starts a keyed stage that takes the stateful operators behind it.
PlanKeyed ==
  /\ Planning("router")
  /\ IF env.ops[plan.at].par <= 0 THEN pc' = "refused" /\ UNCHANGED plan
     ELSE LET last == TakeStateful(plan.at)
          IN  /\ plan' = [stages |-> Append(Flushed, Stage("keyed", plan.at, last, env.ops[plan.at].par)),
                          group |-> 0, par |-> 1, at |-> last + 1]
              /\ UNCHANGED pc
  /\ UNCHANGED <<wf, env>>

\* Mutant: an operator of another parallelism joins the open group.
PlanStatelessMixed ==
  /\ Planning("stateless")
  /\ plan' = [plan EXCEPT !.par = env.ops[plan.at].par, !.group = @ + 1, !.at = @ + 1]
  /\ UNCHANGED <<wf, pc, env>>

\* Consecutive stateless operators of one parallelism share a stage.
PlanStateless ==
  /\ Planning("stateless")
  /\ LET par == env.ops[plan.at].par
     IN  plan' = IF plan.group > 0 /\ par # plan.par
                 THEN [stages |-> Flushed, group |-> 1, par |-> par, at |-> plan.at + 1]
                 ELSE [plan EXCEPT !.par = par, !.group = @ + 1, !.at = @ + 1]
  /\ UNCHANGED <<wf, pc, env>>

\* A stateful operator outside a keyed stage runs alone.
PlanChannel ==
  /\ Planning("stateful")
  /\ plan' = [stages |-> Append(Flushed, Stage("channel", plan.at, plan.at, 1)),
              group |-> 0, par |-> 1, at |-> plan.at + 1]
  /\ UNCHANGED <<wf, pc, env>>

PlanEnds ==
  /\ pc = "planning" /\ plan.at > Len(env.ops)
  /\ plan' = [plan EXCEPT !.stages = Flushed, !.group = 0]
  /\ pc' = "running"
  /\ UNCHANGED <<wf, env>>

\* A state backend is opened for each clone of a keyed stage, for a stateful
\* operator outside one, and for the native join before anything is planned.
OpensBackend ==
  \/ Planning("router") /\ env.ops[plan.at].par > 0 /\ TakeStateful(plan.at) > plan.at
  \/ Planning("stateful")
  \/ pc = "compiled" /\ env.join # Nil /\ JoinStarts

\* assignBackend: a Pebble store that does not open ends Execute with its error.
BackendFails ==
  /\ OpensBackend /\ wf.env # Nil /\ wf.env.state = "pebble"
  /\ pc' = "unopened"
  /\ UNCHANGED <<wf, env, plan>>

RunningSources ==
  IF wf.sources = <<>> THEN {wf.source}
  ELSE {wf.sources[i].source :
          i \in {k \in DOMAIN wf.sources : wf.sources[k].name \in {env.join.left, env.join.right}}}

\* buildDialer: a source's reader panics when it cannot read the TLS files.
OpenReader ==
  /\ pc = "running"
  /\ \E s \in RunningSources : s.type = "kafka" /\ s.kafka.tls = "bad"
  /\ pc' = "panicked"
  /\ UNCHANGED <<wf, env, plan>>

-----------------------------------------------------------------------------

Init ==
  /\ wf \in Docs /\ pc = "loaded" /\ env = FreshEnv
  /\ plan = [stages |-> <<>>, group |-> 0, par |-> 1, at |-> 1]

Next ==
  \/ Validate \/ ResolveSecrets \/ CompileRuntime \/ CompileStream \/ ApplyOperator
  \/ CompileSink \/ Execute
  \/ PlanKeyed \/ PlanStateless \/ PlanChannel \/ PlanEnds
  \/ BackendFails \/ OpenReader

Spec == Init /\ [][Next]_vars

-----------------------------------------------------------------------------
(* Properties.                                                             *)

\* What Validate and the compiler accept, Execute does not refuse: the checks of
\* the validator, of the compiler and of the engine agree on the delivery
\* guarantee, the joined sources and the partitions (Validate, CompileWorkflow,
\* Execute, executeNativeJoin, BuildPlan).
CompiledStarts == pc # "refused"

\* The guarantee the compiler reports is what runs: the engine coordinates
\* checkpoints exactly when exactly-once is reported, with checkpoints switched
\* on, and a single source holds its offset commits back exactly then
\* (deliveryGuarantee in validate.go and in compiler.go, Execute).
GuaranteeIsWhole ==
  pc = "running" =>
    /\ Coordinated <=> Delivery = "exactly-once"
    /\ Coordinated => env.ckpt
    /\ wf.sources = <<>> => (SourceIsExactlyOnce <=> Delivery = "exactly-once")

\* The stages of the plan hold every operator once and in order; a keyed stage
\* has the stateful operators behind its keyBy and no others; operators that
\* share a stateless stage have one parallelism, and neighbours of the same
\* parallelism are not split (BuildPlan, takeStateful).
PlanKeepsPipeline ==
  LET S == plan.stages
      kind(i) == env.ops[i].kind
  IN  pc = "running" =>
        /\ IF S = <<>> THEN env.ops = <<>>
           ELSE /\ S[1].from = 1 /\ S[Len(S)].to = Len(env.ops)
                /\ \A n \in 1 .. Len(S) - 1 : S[n + 1].from = S[n].to + 1
        /\ \A n \in DOMAIN S : \A i \in S[n].from .. S[n].to :
             CASE S[n].kind = "keyed" -> kind(i) = (IF i = S[n].from THEN "router" ELSE "stateful")
               [] S[n].kind = "stateless" -> kind(i) = "stateless" /\ env.ops[i].par = S[n].par
               [] OTHER -> kind(i) = "stateful"
        /\ \A n \in 1 .. Len(S) - 1 :
             /\ ~(S[n].kind = "stateless" /\ S[n + 1].kind = "stateless" /\ S[n].par = S[n + 1].par)
             /\ ~(S[n].kind = "keyed" /\ S[n + 1].kind = "channel")

\* A filter that is running compares with an operator that exists
\* (FilterConfig.Validate, CompareOp.Valid).
FiltersCompare ==
  pc = "running" =>
    \A i \in DOMAIN wf.pipeline : wf.pipeline[i].type = "filter" =>
      wf.pipeline[i].cfg["filter"].operator \in
        {"equals", "not_equals", "greater_than", "greater_than_or_equal", "less_than",
         "less_than_or_equal", "contains", "exists", "not_exists"}

=============================================================================
