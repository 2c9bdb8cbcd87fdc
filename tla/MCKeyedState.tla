---------------------------- MODULE MCKeyedState ----------------------------
(* Each operator on each backend; a keyed process once with several value  *)
(* states and once with timers.                                            *)
EXTENDS KeyedState, TLC

CONSTANTS n1, n2

MCNames == {n1, n2}
MCTimes == 1 .. 3

Job(kind, lateness, workers, names, times, inputs) ==
  {[kind |-> kind, backend |-> b, lateness |-> lateness, workers |-> workers, names |-> names,
    times |-> times, inputs |-> inputs] :
     b \in {"memory", "pebble"}}

\* A Reduce behind several window workers.
MCManyWorkers == Job("reduce", 0, "many", {}, MCTimes, 3)

MCJobs ==
  Job("process", 0, "one", MCNames, {}, 3) \cup Job("process", 0, "one", {n1}, 1 .. 2, 3)
  \cup Job("reduce", 0, "one", {}, MCTimes, 4) \cup Job("reduce", 1, "one", {}, MCTimes, 4)
  \cup MCManyWorkers \cup Job("reduce", 1, "many", {}, MCTimes, 3)
  \cup Job("buffer", 0, "one", {}, {}, 4)

Symmetric == Permutations(Keys)

=============================================================================
