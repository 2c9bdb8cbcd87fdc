---------------------------- MODULE MCAtLeastOnce ----------------------------
(***************************************************************************)
(* Small jobs for AtLeastOnce: each source and each sink, with a record    *)
(* that cannot be encoded, or decoded, where that is handled.              *)
(***************************************************************************)
EXTENDS AtLeastOnce

Job(log, source, dest, opts, policy, batch, cap, bad, garbled) ==
  [log |-> log, source |-> source, sink |-> dest, opts |-> opts, policy |-> policy,
   batch |-> batch, cap |-> cap, bad |-> bad, garbled |-> garbled]

MCJobs ==
  {Job(<<2>>, "file", "kafka", {}, "fail", 1, 1, {<<1, 2>>}, {}),
   Job(<<2>>, "group", "kafka", {"async"}, "dlq", 1, 1, {<<1, 1>>}, {}),
   Job(<<2>>, "group", "http", {}, "drop", 2, 2, {<<1, 1>>}, {<<1, 2>>}),
   Job(<<2>>, "file", "s3", {}, "fail", 2, 1, {<<1, 2>>}, {}),
   Job(<<1, 1>>, "parallel", "postgres", {}, "fail", 1, 1, {<<1, 1>>}, {<<2, 1>>}),
   Job(<<2>>, "file", "file", {"append"}, "fail", 9, 1, {<<1, 2>>}, {}),
   Job(<<1>>, "file", "file", {}, "fail", 9, 1, {}, {})}

\* A file sink that appends, and one that truncates.
MCFileJobs == {Job(<<2>>, "file", "file", {"append"}, "fail", 9, 1, {}, {})}
MCTruncatingJobs == {Job(<<2>>, "file", "file", {}, "fail", 9, 1, {}, {})}

=============================================================================
