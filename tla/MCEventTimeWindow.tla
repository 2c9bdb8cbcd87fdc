------------------------- MODULE MCEventTimeWindow -------------------------
(***************************************************************************)
(* Small inputs for EventTimeWindow: partitions that progress at different *)
(* rates, records on window boundaries, one that bridges two sessions, one *)
(* out of order within the allowed lateness and one behind it.             *)
(***************************************************************************)
EXTENDS EventTimeWindow, TLC

\* Two times outside the range of the logs.
MCZeroTime == -100
MCAncient == -50

R(k, t) == [key |-> k, ts |-> t]

MCPartitions == {"p0", "p1"}

Job(log0, log1, kind, native, idleExit, group, shared, maxStarts) ==
  [log |-> ("p0" :> log0) @@ ("p1" :> log1), kind |-> kind, native |-> native,
   idleExit |-> idleExit, group |-> group, shared |-> shared,
   maxStarts |-> maxStarts]

MCJobs ==
  {Job(<<R("k1", 3), R("k1", 5)>>, <<R("k1", 4)>>, "session", TRUE, FALSE, FALSE, FALSE, 2),
   Job(<<R("k1", 7)>>, <<R("k2", 2), R("k1", 3)>>, "sliding", FALSE, FALSE, TRUE, FALSE, 2),
   Job(<<R("k1", 3), R("k1", 6), R("k1", 4), R("k1", 2)>>, <<>>, "tumbling",
       TRUE, TRUE, FALSE, FALSE, 2),
   Job(<<R("k1", 5)>>, <<R("k1", 1)>>, "tumbling", TRUE, FALSE, TRUE, TRUE, 3),
   Job(<<R("k1", 3)>>, <<R("k1", 4)>>, "sliding", TRUE, FALSE, FALSE, TRUE, 3)}

=============================================================================
