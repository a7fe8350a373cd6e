---------------------------- MODULE BuildContract ----------------------------
(***************************************************************************)
(* What Scheduler::run() promises its caller (scheduler.hpp): the tasks    *)
(* an earlier run committed are taken over first; then every other task is *)
(* handed to the sink at most once and only after its dependencies; the    *)
(* build succeeds only when every task is committed.  Executors, leases,   *)
(* retries and the clock do not appear.                                    *)
(***************************************************************************)
EXTENDS Naturals

CONSTANTS Tasks, Deps

VARIABLES
    stage,        \* "resuming", "running" or the way the run ended
    committed,    \* tasks whose result is committed
    delivered     \* results handed to the sink by this run, per task

contractVars == <<stage, committed, delivered>>

ContractInit ==
    /\ stage = "resuming"
    /\ committed = {}
    /\ delivered = [t \in Tasks |-> 0]

TakeOver(t) ==
    /\ stage = "resuming"
    /\ t \notin committed
    /\ committed' = committed \cup {t}
    /\ UNCHANGED <<stage, delivered>>

Begin ==
    /\ stage = "resuming"
    /\ stage' = "running"
    /\ UNCHANGED <<committed, delivered>>

Commit(t) ==
    /\ stage = "running"
    /\ t \notin committed
    /\ Deps[t] \subseteq committed
    /\ committed' = committed \cup {t}
    /\ delivered' = [delivered EXCEPT ![t] = @ + 1]
    /\ UNCHANGED stage

Refuse ==
    /\ stage = "resuming"
    /\ stage' = "refused"
    /\ UNCHANGED <<committed, delivered>>

End(outcome) ==
    /\ stage = "running"
    /\ outcome = "succeeded" => committed = Tasks
    /\ stage' = outcome
    /\ UNCHANGED <<committed, delivered>>

ContractNext ==
    \/ \E t \in Tasks : TakeOver(t) \/ Commit(t)
    \/ Begin
    \/ Refuse
    \/ \E outcome \in {"succeeded", "failed", "cancelled"} : End(outcome)

ContractSpec == ContractInit /\ [][ContractNext]_contractVars

=============================================================================
