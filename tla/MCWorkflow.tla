----------------------------- MODULE MCWorkflow -----------------------------
(***************************************************************************)
(* Documents for Workflow, in families: each varies one part of a document *)
(* over sound and unsound values and keeps the rest sound, except for the  *)
(* parts of the delivery guarantee, which are combined freely.             *)
(***************************************************************************)
EXTENDS Workflow, TLC

SASLs == {Nil, [password |-> "plain", known |-> TRUE], [password |-> "ref", known |-> TRUE],
          [password |-> "broken", known |-> TRUE], [password |-> "", known |-> FALSE]}

KafkaSource(eo) ==
  [brokers |-> TRUE, topic |-> TRUE, group |-> TRUE, parallel |-> FALSE, exactlyOnce |-> eo,
   startFrom |-> "", format |-> "json", watermark |-> 0, sasl |-> Nil, tls |-> "none"]

KafkaSources ==
  {[KafkaSource(eo) EXCEPT !.brokers = b, !.group = g, !.parallel = p] :
      eo, b, g, p \in BOOLEAN}
  \cup {[KafkaSource(FALSE) EXCEPT !.startFrom = f, !.format = c, !.watermark = w] :
      f \in {"latest", "middle"}, c \in {"", "avro"}, w \in {-1, 1}}
  \cup {[KafkaSource(TRUE) EXCEPT !.sasl = s, !.topic = t] : s \in SASLs, t \in BOOLEAN}
  \cup {[KafkaSource(eo) EXCEPT !.tls = t] : eo \in BOOLEAN, t \in {"good", "bad"}}

Source(type, k) == [type |-> type, kafka |-> k, file |-> Nil]
FileSource == [type |-> "file", kafka |-> Nil, file |-> [path |-> TRUE, format |-> "json"]]

SingleSources ==
  {Source("kafka", k) : k \in KafkaSources \cup {Nil}}
  \cup {Source(t, Nil) : t \in {"", "slice", "generator", "socket"}} \cup {FileSource}

NoSink == [type |-> "stdout", kafka |-> Nil, txnKafka |-> Nil, postgres |-> Nil, file |-> Nil]

KafkaSinks ==
  {[brokers |-> b, topic |-> TRUE, acks |-> a, format |-> "json", onError |-> p, sasl |-> s, tls |-> t] :
     b \in BOOLEAN, a \in {"", "two"}, p \in {"drop", "dlq"}, s \in SASLs, t \in {"none", "bad"}}

TxnKafkaSink == [brokers |-> TRUE, topic |-> TRUE, txnID |-> TRUE, format |-> "json", sasl |-> Nil, tls |-> "none"]

TxnKafkaSinks ==
  {[TxnKafkaSink EXCEPT !.txnID = i, !.sasl = s, !.tls = t] :
     i \in BOOLEAN, s \in SASLs, t \in {"none", "good", "bad"}}

PostgresSinks ==
  {[dsn |-> d, table |-> t, mapping |-> m, mode |-> o, conflict |-> c, update |-> u, onError |-> "fail"] :
     d \in Texts, t \in {"", "t", "drop table"}, m \in {{}, {"a"}, {"a", "drop table"}},
     o \in {"", "upsert", "merge"}, c \in {{}, {"a"}, {"b"}}, u \in {{}, {"a"}}}

Sinks ==
  {[NoSink EXCEPT !.type = t] : t \in {"", "stdout", "blackhole", "kafka", "txnKafka", "postgres"}}
  \cup {[NoSink EXCEPT !.type = "kafka", !.kafka = k] : k \in KafkaSinks}
  \cup {[NoSink EXCEPT !.type = "txnKafka", !.txnKafka = k] : k \in TxnKafkaSinks}
  \cup {[NoSink EXCEPT !.type = "postgres", !.postgres = p] : p \in PostgresSinks}
  \cup {[NoSink EXCEPT !.type = "file", !.file = [path |-> TRUE, format |-> ""]]}

TxnSink == [NoSink EXCEPT !.type = "txnKafka", !.txnKafka = TxnKafkaSink]

Ckpt(i) == [buffer |-> 0, ckpt |-> [interval |-> i, retain |-> 0, dir |-> FALSE], state |-> "none"]

Envs ==
  {Nil} \cup
  {[buffer |-> b, ckpt |-> c, state |-> s] : b \in {-1, 0}, s \in Backends,
     c \in {Nil} \cup {[interval |-> i, retain |-> r, dir |-> d] :
                         i \in {0, 1}, r \in {-1, 0}, d \in BOOLEAN}}

Doc == [version |-> "1", name |-> "w", env |-> Ckpt(1), source |-> Source("kafka", KafkaSource(FALSE)),
        sources |-> <<>>, pipeline |-> <<>>, sink |-> NoSink]

Op(t, c) == [type |-> t, cfg |-> (t :> c)]

Filter(o) == Op("filter", [field |-> TRUE, operator |-> o])
Window(t, size, slide, gap) ==
  Op("window", [type |-> t, size |-> size, slide |-> slide, gap |-> gap, lateness |-> 0])
Join(l, r, w, b) == Op("join", [left |-> l, right |-> r, within |-> w, before |-> b, after |-> 0])

Steps ==
  {Filter("equals"), Op("keyBy", [field |-> TRUE, partitions |-> 0]),
   Op("reduce", [function |-> "count", field |-> FALSE]), Window("tumbling", 1, 0, 0),
   Op("map", [ref |-> "f", par |-> 0]), Op("process", [ref |-> "f", par |-> 2]), Join("l", "r", 1, 0)}

BadSteps ==
  {Filter("bogus"), Filter(""), Op("setFields", 0), Op("setFields", 1),
   Op("keyBy", [field |-> TRUE, partitions |-> -1]), Op("reduce", [function |-> "max", field |-> TRUE]),
   Op("reduce", [function |-> "sum", field |-> FALSE]), Op("map", [ref |-> "", par |-> 1]),
   Op("flatMap", [ref |-> "g", par |-> 1]), Window("sliding", 2, 3, 0), Window("sliding", 2, 1, 0),
   Window("session", 0, 0, 1), Window("session", 0, 0, 0), Window("hopping", 1, 1, 1),
   Join("l", "l", 1, 0), Join("l", "r", 1, 1), Join("l", "r", 0, 0), Join("l", "r", 0, 1),
   [type |-> "map", cfg |-> <<>>]}

\* The operators of a pipeline, with their positions as ids.
Pipeline(s) == [i \in DOMAIN s |-> [id |-> <<"a", "b", "c", "d">>[i], type |-> s[i].type, cfg |-> s[i].cfg]]

KeyedBy == Op("keyBy", [field |-> TRUE, partitions |-> 2])

Pipelines ==
  {Pipeline(s) : s \in UNION {[1 .. n -> Steps] : n \in 0 .. 4}}
  \cup {Pipeline(<<KeyedBy, s>>) : s \in BadSteps}
  \cup {[Pipeline(<<KeyedBy, s>>) EXCEPT ![2].id = i] : s \in Steps, i \in {"", "a"}}

Named(eo) ==
  {<<>>, <<[name |-> "l", source |-> Source("kafka", KafkaSource(eo))], [name |-> "r", source |-> Source("slice", Nil)]>>,
   <<[name |-> "l", source |-> Source("kafka", [KafkaSource(eo) EXCEPT !.group = FALSE])],
     [name |-> "r", source |-> Source("generator", Nil)]>>,
   <<[name |-> "l", source |-> Source("generator", Nil)],
     [name |-> "r", source |-> Source("kafka", [KafkaSource(eo) EXCEPT !.tls = "bad"])]>>,
   <<[name |-> "l", source |-> Source("slice", Nil)], [name |-> "l", source |-> Source("socket", Nil)]>>,
   <<[name |-> "l", source |-> Source("slice", Nil)], [name |-> "a b", source |-> Source("kafka", Nil)]>>}

Joins ==
  {Pipeline(s) : s \in {<<>>, <<Filter("equals")>>, <<Join("l", "r", 1, 0)>>, <<Join("l", "x", 1, 0)>>,
                        <<Join("l", "r", 0, 1), KeyedBy, Filter("exists")>>}}

PebbleEnv == [Ckpt(1) EXCEPT !.state = "pebble"]

MCDocs ==
  {[Doc EXCEPT !.source = s, !.sink = k, !.env = e] :
     s \in SingleSources, k \in {NoSink, TxnSink}, e \in {Nil, Ckpt(1)}}
  \cup {[Doc EXCEPT !.sink = k] : k \in Sinks}
  \cup {[Doc EXCEPT !.source = Source("kafka", KafkaSource(TRUE)), !.sink = [TxnSink EXCEPT !.txnKafka = k]] :
          k \in TxnKafkaSinks}
  \cup {[Doc EXCEPT !.env = e] : e \in Envs}
  \cup {[Doc EXCEPT !.version = v, !.name = n] : v \in {"", "1", "2"}, n \in {"w", "a b"}}
  \cup {[Doc EXCEPT !.pipeline = p] : p \in Pipelines}
  \cup {[Doc EXCEPT !.pipeline = Pipeline(s), !.env = PebbleEnv] :
          s \in UNION {[1 .. n -> Steps] : n \in 0 .. 3}}
  \cup UNION {{[Doc EXCEPT !.source = s, !.sources = n, !.pipeline = p, !.sink = k, !.env = e] :
          s \in {Source("", Nil), Source("slice", Nil)}, n \in Named(eo), p \in Joins,
          k \in {NoSink, TxnSink}, e \in {Nil, Ckpt(1), PebbleEnv}} : eo \in BOOLEAN}

=============================================================================
