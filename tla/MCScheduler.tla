---------------------------- MODULE MCScheduler ----------------------------
(* Small instances of Scheduler for TLC.                                   *)
EXTENDS Scheduler, TLC

CONSTANTS a, b, c

(* b needs a; c is independent.                                            *)
ChainTasks == {a, b, c}
ChainDeps == a :> {} @@ b :> {a} @@ c :> {}
ChainRank == a :> 1 @@ b :> 2 @@ c :> 3

PairTasks == {a, b}
PairDeps == a :> {} @@ b :> {a}
FreePairDeps == a :> {} @@ b :> {}
PairRank == a :> 1 @@ b :> 2

AllAccept == [e \in Executors |-> Tasks]
OneSlot == [e \in Executors |-> 1]
TwoSlots == [e \in Executors |-> 2]
TwoAttempts == [t \in Tasks |-> 2]
(* A coordinator with one slot and a worker with two.                      *)
MixedSlots == [e \in Executors |-> e]
(* The coordinator runs everything, the workers never run a.               *)
SomeAccept == [e \in Executors |-> IF e = 1 THEN Tasks ELSE Tasks \ {a}]
=============================================================================
