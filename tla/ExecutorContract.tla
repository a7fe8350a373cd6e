--------------------------- MODULE ExecutorContract ---------------------------
(***************************************************************************)
(* What an Executor owes the scheduler (ExecutorEvents in executor.hpp):   *)
(* a lease is reported at most once and only after it was assigned, a      *)
(* lease the scheduler still waits for is never dropped without a report,  *)
(* and nothing is reported once stop() has returned.                       *)
(***************************************************************************)
CONSTANTS Leases, Reports

VARIABLES
    held,          \* leases handed to assign() and not yet disposed of
    abandoned,     \* leases the scheduler cancelled or expired
    report,        \* report[l]: how l ended, or "none"
    stopping, stopped

vars == <<held, abandoned, report, stopping, stopped>>

Init ==
    /\ held = {} /\ abandoned = {}
    /\ report = [l \in Leases |-> "none"]
    /\ stopping = FALSE /\ stopped = FALSE

Assign(l) ==
    /\ ~stopping /\ l \notin held /\ report[l] = "none"
    /\ held' = held \cup {l}
    /\ UNCHANGED <<abandoned, report, stopping, stopped>>

Abandon(l) ==
    /\ ~stopping
    /\ abandoned' = abandoned \cup {l}
    /\ UNCHANGED <<held, report, stopping, stopped>>

Report(l, r) ==
    /\ ~stopped /\ l \in held /\ r \in Reports
    /\ report' = [report EXCEPT ![l] = r]
    /\ held' = held \ {l}
    /\ UNCHANGED <<abandoned, stopping, stopped>>

(* Leases nobody waits for any more may be forgotten.                      *)
Forget(ls) ==
    /\ ls \subseteq held
    /\ stopping \/ ls \subseteq abandoned
    /\ held' = held \ ls
    /\ UNCHANGED <<abandoned, report, stopping, stopped>>

(* stop() is called, and returns.                                          *)
Stop ==
    /\ stopping' = TRUE
    /\ stopped' \in {stopped, TRUE}
    /\ UNCHANGED <<held, abandoned, report>>

Next ==
    \/ \E l \in Leases : Assign(l) \/ Abandon(l) \/ (\E r \in Reports : Report(l, r))
    \/ \E ls \in SUBSET Leases : Forget(ls)
    \/ Stop

Spec == Init /\ [][Next]_vars
=============================================================================
