---------------------------- MODULE DurableResults ----------------------------
(***************************************************************************)
(* What the recovery journal promises the scheduler.  Results are stored   *)
(* one task at a time and only then acknowledged; a run that starts knows  *)
(* exactly the stored results, and only if the bytes of every one of them  *)
(* verify at that moment; a stored result is withdrawn only while no run   *)
(* relies on it.  The disk may damage or lose bytes at any time.           *)
(***************************************************************************)
CONSTANT Tasks

VARIABLES
    stored,      \* tasks whose result is in the journal
    intact,      \* those whose stored bytes verify
    running,     \* a scheduler run is using the journal
    done         \* tasks that run counts as complete

vars == <<stored, intact, running, done>>

Init == stored = {} /\ intact = {} /\ running = FALSE /\ done = {}

Recover ==
    /\ ~running /\ stored \subseteq intact
    /\ running' = TRUE /\ done' = stored
    /\ UNCHANGED <<stored, intact>>

Store(t) ==
    /\ running /\ t \notin stored
    /\ stored' = stored \cup {t}
    /\ UNCHANGED <<running, done>>

Acknowledge(t) ==
    /\ running /\ t \in stored \ done
    /\ done' = done \cup {t}
    /\ UNCHANGED <<stored, running>>

Stop == running /\ running' = FALSE /\ done' = {} /\ UNCHANGED stored

Withdraw(lost) ==
    /\ ~running
    /\ stored' = stored \ lost
    /\ UNCHANGED <<running, done>>

(* The disk changes, alone or together with a step.                        *)
Decay == UNCHANGED <<stored, running, done>>

Next ==
    /\ intact' \in SUBSET stored'
    /\ \/ Recover \/ Stop \/ Decay
       \/ \E t \in Tasks : Store(t) \/ Acknowledge(t)
       \/ \E lost \in SUBSET Tasks : Withdraw(lost)

Spec == Init /\ [][Next]_vars
=============================================================================
