-------------------------- MODULE MCRecoveryJournal --------------------------
(* Small instances of RecoveryJournal for TLC.                             *)
EXTENDS RecoveryJournal, TLC

CONSTANTS decode, score, merge, shared, d1, d2, s1, m1

ThreeTasks == {decode, score, merge}
(* merge needs both others.                                                *)
JoinDeps == decode :> {} @@ score :> {} @@ merge :> {decode, score}
(* decode and score have equal output; two attempts of decode differ in    *)
(* their result record.                                                    *)
SharedResults ==
    decode :> {{shared, d1}, {shared, d2}} @@ score :> {{shared, s1}} @@ merge :> {{m1}}
=============================================================================
