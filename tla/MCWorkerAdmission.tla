-------------------------- MODULE MCWorkerAdmission --------------------------
(* Small instances of WorkerAdmission for TLC.                             *)
EXTENDS WorkerAdmission, TLC

CONSTANTS c1, c2, small, large, u1, u2, u3, t1

LeaseCoordinator == (u1 :> c1) @@ (u2 :> c1) @@ (u3 :> c2) @@ (t1 :> c2)
LeaseType == (u1 :> small) @@ (u2 :> small) @@ (u3 :> small) @@ (t1 :> large)
Slots == (c1 :> (small :> 2 @@ large :> 1)) @@ (c2 :> (small :> 1 @@ large :> 1))
Peaks == small :> 1 @@ large :> 2

(* One lease each: the two types compete for the memory only.              *)
PairCoordinator == (u1 :> c1) @@ (t1 :> c2)
PairType == (u1 :> small) @@ (t1 :> large)
=============================================================================
