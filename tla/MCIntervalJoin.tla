--------------------------- MODULE MCIntervalJoin ---------------------------
(***************************************************************************)
(* Small inputs for IntervalJoin: records on both edges of the interval,   *)
(* one out of order on each side.                                          *)
(***************************************************************************)
EXTENDS IntervalJoin, TLC

\* Two times outside the range of the logs.
MCZeroTime == -100
MCAncient == -50

R(t) == [key |-> "k", ts |-> t]

Job(l, r, wiring, maxStarts) ==
  [log |-> ("left" :> l) @@ ("right" :> r), wiring |-> wiring, maxStarts |-> maxStarts]

MCJobs ==
  {Job(<<R(3), R(2)>>, <<R(1), R(4)>>, "stream", 2),
   Job(<<R(3), R(1)>>, <<R(2)>>, "native", 1)}

MCNativeJobs == {Job(<<R(1)>>, <<R(1)>>, "native", 2)}

\* Enough matches to fill every channel behind the operator.
MCBusyJobs == {Job(<<R(1), R(1), R(1)>>, <<R(1), R(1), R(1)>>, "native", 1)}

=============================================================================
