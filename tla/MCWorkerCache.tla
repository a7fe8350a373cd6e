---------------------------- MODULE MCWorkerCache ----------------------------
(* Small instances of WorkerCache for TLC.                                 *)
EXTENDS WorkerCache, TLC

CONSTANTS s1, s2, task, x, c1, c2

TwoCoordinators == s1 :> c1 @@ s2 :> c2
OwnedByFirst == [p \in Processes |-> s1]
=============================================================================
