------------------------ MODULE SchedulerOutcomeProofs ------------------------
(***************************************************************************)
(* What the scheduler owes the build: no task is lost, no task is tried    *)
(* more often than its policy allows, and a success is deterministic.      *)
(* OInv is inductive relative to IInv of SchedulerProofs.                  *)
(***************************************************************************)
EXTENDS SchedulerProofs

(* A task that waits misses a dependency.                                  *)
WaitingBlocked ==
    pc \notin {"resume", "threw"} =>
        \A t \in Tasks : phase[t] = "waiting" => ~(Deps[t] \subseteq complete)

(* A leased task has an attempt running, until the build fails.            *)
LeasedHeld ==
    pc # "done" /\ failure = None =>
        \A t \in Tasks : phase[t] = "leased" => active_leases[t] # {}

(* Until the build fails, every verified digest is the committed one.      *)
DigestsAgree ==
    failure = None =>
        \A t \in Tasks : /\ verified[t] \subseteq {committed_output_digest[t]}
                         /\ phase[t] # "committed" => verified[t] = {}

SuccessComplete == status = "succeeded" => pc = "done" /\ AllComplete

(* Without speculation a task has at most one attempt at a time.           *)
NoSpeculation == ~Speculative => pc # "speculate"

OneLeaseEach ==
    ~Speculative => \A l, r \in Active : leases[l].task = leases[r].task => l = r

AttemptsLeft ==
    ~Speculative /\ failure = None =>
        \A t \in Tasks : phase[t] # "committed" => failed_attempts[t] < MaxAttempts[t]

OInv ==
    /\ WaitingBlocked
    /\ LeasedHeld
    /\ DigestsAgree
    /\ SuccessComplete
    /\ NoSpeculation
    /\ OneLeaseEach
    /\ AttemptsLeft

-----------------------------------------------------------------------------

LEMMA InitOInv == Init => OInv
<1> SUFFICES ASSUME Init PROVE OInv
  OBVIOUS
<1>1. \A t \in Tasks : failed_attempts[t] = 0 /\ 0 < MaxAttempts[t]
  BY PolicyAssumption DEF Init
<1>2. AttemptsLeft
  BY <1>1 DEF AttemptsLeft
<1>3. QED
  BY <1>2 DEF Init, OInv, WaitingBlocked, LeasedHeld, DigestsAgree, SuccessComplete,
              NoSpeculation, OneLeaseEach, Active

(* The loop moves on, or the environment does, and no task changes.        *)
LEMMA QuietOInv ==
    ASSUME IInv, OInv, QuietStep
    PROVE  OInv'
<1> USE DEF taskVars, readyVars, leaseVars, lossVars, executorVars,
            outcomeVars, controlVars, envVars, observerVars
<1>1. UNCHANGED <<taskVars, readyVars, leaseVars, observerVars>>
  BY DEF QuietStep, RefuseResumed, BeginDispatch, NextExecutor, CheckUsable,
         BeginExpire, EndExpire, RequestCancel, Terminated, IgnoreStaleReport,
         BackoffElapses, vars
<1>2. /\ pc' = "done" <=> pc = "done"
      /\ pc' \notin {"resume", "threw"} => pc \notin {"resume", "threw"}
      /\ failure' = None => failure = None
      /\ status' = "succeeded" => status = "succeeded"
      /\ ~Speculative /\ pc' = "speculate" => pc = "speculate"
  BY DEF QuietStep, RefuseResumed, BeginDispatch, NextExecutor, CheckUsable,
         BeginExpire, EndExpire, RequestCancel, Terminated, IgnoreStaleReport,
         BackoffElapses, vars, None
<1>3. Active' = Active /\ AllComplete' = AllComplete
  BY <1>1 DEF Active, AllComplete
<1>4. QED
  BY <1>1, <1>2, <1>3 DEF OInv, WaitingBlocked, LeasedHeld, DigestsAgree,
         SuccessComplete, NoSpeculation, OneLeaseEach, AttemptsLeft

LEMMA TimerOInv ==
    ASSUME IInv, OInv, TimerStep
    PROVE  OInv'
<1> USE DEF taskVars, readyVars, outcomeVars, controlVars, observerVars
<1>1. UNCHANGED <<taskVars, readyVars, outcomeVars, controlVars, observerVars>>
  BY DEF TimerStep, OnHeartbeat, LeaseLapses, DeadlinePasses
<1>2. PICK l \in Active, timer \in {"running", "lapsed", "deadline"} :
        leases' = [leases EXCEPT ![l].timer = timer]
  BY DEF TimerStep, OnHeartbeat, LeaseLapses, DeadlinePasses
<1>3. Active' = Active /\ \A r \in Active : leases'[r].task = leases[r].task
  BY <1>2 DEF Active, IInv, TypeOK, Lease
<1>4. QED
  BY <1>1, <1>3 DEF OInv, WaitingBlocked, LeasedHeld, DigestsAgree, AllComplete,
         SuccessComplete, NoSpeculation, OneLeaseEach, AttemptsLeft

LEMMA ResumedOInv ==
    ASSUME IInv, OInv, NEW t \in Tasks, NEW d \in Digests, ApplyResumed(t, d)
    PROVE  OInv'
<1>1. /\ pc = "resume" /\ pc' = pc /\ phase[t] # "committed" /\ Active = {} /\ Active' = {}
      /\ phase' = [phase EXCEPT ![t] = "committed"]
      /\ committed_output_digest' = [committed_output_digest EXCEPT ![t] = d]
      /\ UNCHANGED <<failed_attempts, active_leases, status, failure, verified>>
  BY DEF ApplyResumed, IInv, BeforeStart, Active, leaseVars, outcomeVars, controlVars,
         observerVars
<1>2. DigestsAgree'
  BY <1>1 DEF DigestsAgree, OInv, IInv, TypeOK
<1>3. LeasedHeld' /\ AttemptsLeft'
  BY <1>1 DEF LeasedHeld, AttemptsLeft, OInv, IInv, TypeOK
<1>4. QED
  BY <1>1, <1>2, <1>3 DEF OInv, WaitingBlocked, SuccessComplete, NoSpeculation, OneLeaseEach

LEMMA StartOInv ==
    ASSUME IInv, OInv, Start
    PROVE  OInv'
<1>1. /\ pc' = "loop" /\ Active = {} /\ Active' = {}
      /\ phase' = [t \in Tasks |-> IF phase[t] = "waiting" /\ Deps[t] \subseteq complete
                                     THEN "ready" ELSE phase[t]]
      /\ UNCHANGED <<complete, committed_output_digest, failed_attempts, active_leases,
                     status, failure, verified>>
      /\ \A t \in Tasks : phase[t] \in {"waiting", "committed"}
      /\ status # "succeeded"
  BY DEF Start, FirstReady, IInv, BeforeStart, Active, leaseVars, outcomeVars, observerVars,
         OInv, SuccessComplete
<1>2. WaitingBlocked' /\ LeasedHeld'
  BY <1>1 DEF WaitingBlocked, LeasedHeld
<1>3. DigestsAgree' /\ AttemptsLeft'
  BY <1>1 DEF DigestsAgree, AttemptsLeft, OInv
<1>4. QED
  BY <1>1, <1>2, <1>3 DEF OInv, SuccessComplete, NoSpeculation, OneLeaseEach

(* Succeed is the only step that ends in "succeeded".                      *)
LEMMA ReturnOInv ==
    ASSUME IInv, OInv, Cancelled \/ Succeed \/ ReturnFailed
    PROVE  OInv'
<1>1. /\ pc' = "done" /\ pc \notin {"done", "threw"} /\ Active' = {}
      /\ UNCHANGED <<taskVars, readyVars, failure, observerVars>>
      /\ status' = "succeeded" => AllComplete
  BY DEF Cancelled, Succeed, ReturnFailed, Return, Active, outcomeVars, IInv, OutcomeAgrees
<1>2. WaitingBlocked'
  BY <1>1 DEF WaitingBlocked, OInv, IInv, BeforeStart, Cancelled, Succeed, ReturnFailed,
              taskVars, readyVars
<1>3. DigestsAgree' /\ AttemptsLeft'
  BY <1>1 DEF DigestsAgree, AttemptsLeft, OInv, taskVars, observerVars
<1>4. QED
  BY <1>1, <1>2, <1>3 DEF OInv, LeasedHeld, SuccessComplete, NoSpeculation, OneLeaseEach,
                          AllComplete, readyVars

(* A grant holds the lease it gives; without speculation its task was in   *)
(* the ready queue, and a queued task holds no lease.                      *)
LEMMA GrantOInv ==
    ASSUME IInv, OInv, DispatchGrant \/ SpeculativeGrant
    PROVE  OInv'
<1>1. PICK t \in Tasks, speculative \in BOOLEAN :
        /\ phase[t] \in {"ready", "leased"}
        /\ ~Speculative => phase[t] = "ready"
        /\ Grant(t, cursor, speculative)
  <2>1. CASE DispatchGrant
    BY <2>1 DEF DispatchGrant, Pickable, IInv, PhaseReady
  <2>2. CASE SpeculativeGrant
    <3>1. PICK l \in Active : /\ phase[leases[l].task] # "committed"
                              /\ Grant(leases[l].task, cursor, TRUE)
      BY <2>2 DEF SpeculativeGrant, Duplicable
    <3>2. leases[l].task \in Tasks /\ phase[leases[l].task] = "leased"
      BY <3>1, LeasedExecutor DEF IInv, PhaseLeased
    <3>3. Speculative
      BY <2>2 DEF SpeculativeGrant, OInv, NoSpeculation
    <3>4. QED
      BY <3>1, <3>2, <3>3
  <2>3. QED
    BY <2>1, <2>2
<1>2. /\ pc \in {"dispatch", "speculate"} /\ pc' = pc
      /\ next_lease_number \notin Active
      /\ Active' = Active \cup {next_lease_number}
      /\ \A l \in Active : leases'[l] = leases[l]
      /\ leases'[next_lease_number].task = t
      /\ phase' = [phase EXCEPT ![t] = "leased"]
      /\ active_leases' = [active_leases EXCEPT ![t] = @ \cup {next_lease_number}]
      /\ UNCHANGED <<failed_attempts, committed_output_digest, complete, status, failure,
                     verified>>
  <2>1. next_lease_number \notin Active
    BY DEF IInv, TypeOK
  <2>2. pc \in {"dispatch", "speculate"}
    BY DEF DispatchGrant, SpeculativeGrant
  <2>3. /\ Active' = Active \cup {next_lease_number}
        /\ \A l \in Active : leases'[l] = leases[l]
        /\ leases'[next_lease_number].task = t
    BY <1>1, <2>1 DEF Grant, Active
  <2>4. QED
    BY <1>1, <2>1, <2>2, <2>3 DEF Grant, controlVars, outcomeVars, observerVars
<1>3. WaitingBlocked' /\ LeasedHeld'
  BY <1>2 DEF WaitingBlocked, LeasedHeld, OInv, IInv, TypeOK
<1>4. DigestsAgree' /\ AttemptsLeft'
  BY <1>1, <1>2 DEF DigestsAgree, AttemptsLeft, OInv, IInv, TypeOK
<1>5. OneLeaseEach'
  <2>1. ~Speculative => \A l \in Active : leases[l].task # t
    BY <1>1 DEF IInv, PhaseLeased
  <2>2. QED
    BY <1>2, <2>1 DEF OneLeaseEach, OInv
<1>6. QED
  BY <1>2, <1>3, <1>4, <1>5 DEF OInv, SuccessComplete, NoSpeculation, AllComplete

(* A failed attempt: the task is queued again unless another attempt of it *)
(* runs or it was the last one, and so is every other task whose attempts  *)
(* all go with the executor.                                               *)
LEMMA AttemptFailedOInv ==
    ASSUME IInv, OInv, pc \notin {"resume", "threw", "done"}, failure = None,
           NEW l \in Active, NEW q \in BOOLEAN, AttemptFailed(l, q), pc' = pc
    PROVE  OInv'
<1> DEFINE t == leases[l].task
           abandoned == Abandoned(l, q)
           gone == abandoned \cup {l}
           idle == phase[t] # "committed" /\ active_leases[t] \subseteq gone
           exhausted == idle /\ failed_attempts[t] + 1 >= MaxAttempts[t]
           retried == IF idle /\ ~exhausted THEN {t} ELSE {}
           S == (Freed(gone) \cap {leases[r].task : r \in abandoned}) \cup retried
<1>1. t \in Tasks /\ gone \in SUBSET Active
  BY LeasedExecutor DEF IInv, Abandoned, LeasesOf
<1>2. /\ Release(gone)
      /\ Requeue(S)
      /\ failed_attempts' = [failed_attempts EXCEPT ![t] = @ + 1]
      /\ IF exhausted THEN status' = "failed" /\ failure' = "retries_exhausted"
                      ELSE UNCHANGED outcomeVars
      /\ UNCHANGED <<committed_output_digest, complete, observerVars>>
  BY DEF AttemptFailed, Exhausted
<1>3. /\ Active' = Active \ gone
      /\ \A r \in Active' : leases'[r] = leases[r]
      /\ \A u \in Tasks : active_leases'[u] = active_leases[u] \ gone
  BY <1>2 DEF Release, Active
<1>4. \A u \in Tasks : phase'[u] = IF u \in S THEN "ready" ELSE phase[u]
  BY <1>2 DEF Requeue
<1>5. \A u \in S : phase[u] # "committed"
  BY DEF Freed
<1>6. failure' = None => ~exhausted
  BY <1>2 DEF None
<1>7. \A u \in Tasks : active_leases[u] = {r \in Active : leases[r].task = u}
  BY DEF IInv, TaskLeases
<1>8. LeasedHeld'
  <2> SUFFICES ASSUME failure' = None, NEW u \in Tasks, phase'[u] = "leased",
                      active_leases[u] \subseteq gone
               PROVE  FALSE
    BY <1>3 DEF LeasedHeld
  <2>1. u \notin S /\ phase[u] = "leased" /\ active_leases[u] # {}
    BY <1>4 DEF OInv, LeasedHeld
  <2>2. CASE u = t
    BY <1>6, <2>1, <2>2
  <2>3. CASE u # t
    <3>1. PICK r \in active_leases[u] : leases[r].task = u /\ r \in abandoned
      BY <1>7, <2>1, <2>3
    <3>2. u \in Freed(gone)
      BY <2>1, <3>1 DEF Freed
    <3>3. QED
      BY <2>1, <3>1, <3>2
  <2>4. QED
    BY <2>2, <2>3
<1>9. AttemptsLeft'
  <2> SUFFICES ASSUME ~Speculative, failure' = None, NEW u \in Tasks, phase'[u] # "committed"
               PROVE  failed_attempts'[u] < MaxAttempts[u]
    BY DEF AttemptsLeft
  <2>1. phase[u] # "committed" /\ failed_attempts[u] < MaxAttempts[u]
    BY <1>4, <1>5 DEF OInv, AttemptsLeft
  <2>2. CASE u # t
    BY <1>1, <1>2, <2>1, <2>2 DEF IInv, TypeOK
  <2>3. CASE u = t
    <3>1. active_leases[t] \subseteq gone
      BY <1>1, <1>7 DEF OInv, OneLeaseEach
    <3>2. ~(failed_attempts[t] + 1 >= MaxAttempts[t])
      BY <1>6, <2>1, <2>3, <3>1
    <3>3. failed_attempts'[t] = failed_attempts[t] + 1
      BY <1>1, <1>2 DEF IInv, TypeOK
    <3>4. failed_attempts[t] \in Nat /\ MaxAttempts[t] \in Nat
      BY <1>1, PolicyAssumption DEF IInv, TypeOK
    <3>5. QED
      BY <2>3, <3>2, <3>3, <3>4
  <2>4. QED
    BY <2>2, <2>3
<1>10. WaitingBlocked' /\ DigestsAgree'
  BY <1>2, <1>4, <1>5 DEF WaitingBlocked, DigestsAgree, OInv, observerVars
<1>11. OneLeaseEach'
  BY <1>3 DEF OneLeaseEach, OInv
<1>12. SuccessComplete' /\ NoSpeculation'
  BY <1>2 DEF SuccessComplete, NoSpeculation, OInv, outcomeVars
<1>13. QED
  BY <1>8, <1>9, <1>10, <1>11, <1>12 DEF OInv

(* The handlers that end in attempt_failed().                              *)
LEMMA FailingOInv ==
    ASSUME IInv, OInv,
           NEW l, \/ OnDefectiveResult(l) \/ OnInvalidResult(l) \/ OnExecutorLost(l)
                  \/ ExpireLease(l)
    PROVE  OInv'
<1>1. l \in Active /\ failure = None /\ pc \in {"wait", "expire"} /\ pc' = pc
  BY DEF OnDefectiveResult, OnInvalidResult, OnExecutorLost, ExpireLease, Reported,
         Receiving, controlVars
<1>2. \E q \in BOOLEAN : AttemptFailed(l, q)
  <2>1. LossQuarantines(l) \in BOOLEAN
    BY DEF LossQuarantines, NewLossEvent
  <2>2. QED
    BY <2>1 DEF OnDefectiveResult, OnInvalidResult, OnExecutorLost, ExpireLease
<1>3. QED
  BY <1>1, <1>2, AttemptFailedOInv

(* on_rejected() counts nothing against the task and queues it again.      *)
LEMMA RejectedOInv ==
    ASSUME IInv, OInv, NEW l, OnRejected(l)
    PROVE  OInv'
<1>1. /\ l \in Active /\ pc = "wait" /\ pc' = pc /\ failure = None
      /\ Release({l}) /\ Requeue(Freed({l}))
      /\ UNCHANGED <<failed_attempts, committed_output_digest, complete, status, failure,
                     verified>>
  BY DEF OnRejected, Reported, Receiving, controlVars, outcomeVars, observerVars
<1>2. /\ Active' = Active \ {l}
      /\ \A r \in Active' : leases'[r] = leases[r]
      /\ \A u \in Tasks : active_leases'[u] = active_leases[u] \ {l}
  BY <1>1 DEF Release, Active
<1>3. /\ \A u \in Tasks : phase'[u] = IF u \in Freed({l}) THEN "ready" ELSE phase[u]
      /\ \A u \in Freed({l}) : phase[u] # "committed"
  BY <1>1 DEF Requeue, Freed
<1>4. LeasedHeld'
  <2> SUFFICES ASSUME NEW u \in Tasks, phase'[u] = "leased", active_leases[u] \subseteq {l}
               PROVE  FALSE
    BY <1>2 DEF LeasedHeld
  <2>1. u \notin Freed({l}) /\ phase[u] = "leased" /\ active_leases[u] # {}
    BY <1>1, <1>3 DEF OInv, LeasedHeld
  <2>2. active_leases[u] = {r \in Active : leases[r].task = u}
    BY <1>1 DEF IInv, TaskLeases
  <2>3. u = leases[l].task
    BY <2>1, <2>2
  <2>4. QED
    BY <2>1, <2>3 DEF Freed
<1>5. WaitingBlocked' /\ DigestsAgree'
  BY <1>1, <1>3 DEF WaitingBlocked, DigestsAgree, OInv
<1>6. OneLeaseEach'
  BY <1>2 DEF OneLeaseEach, OInv
<1>7. AttemptsLeft'
  BY <1>1, <1>3 DEF AttemptsLeft, OInv
<1>8. QED
  BY <1>1, <1>4, <1>5, <1>6, <1>7 DEF OInv, SuccessComplete, NoSpeculation

(* A lease ends with its task's phase untouched: the task is committed, or *)
(* the build fails.                                                        *)
LEMMA EndedOInv ==
    ASSUME IInv, OInv, pc = "wait", failure = None, pc' = pc,
           NEW l \in Active, Release({l}),
           \/ UNCHANGED outcomeVars /\ phase[leases[l].task] = "committed" /\ DigestsAgree'
           \/ status' = "failed" /\ failure' # None,
           UNCHANGED <<phase, failed_attempts, committed_output_digest, complete>>
    PROVE  OInv'
<1>1. /\ Active' = Active \ {l}
      /\ \A r \in Active' : leases'[r] = leases[r]
      /\ \A u \in Tasks : active_leases'[u] = active_leases[u] \ {l}
  BY DEF Release, Active
<1>2. LeasedHeld'
  <2> SUFFICES ASSUME failure' = None, NEW u \in Tasks, phase[u] = "leased"
               PROVE  active_leases'[u] # {}
    BY DEF LeasedHeld
  <2>1. active_leases[u] # {} /\ phase[leases[l].task] = "committed"
    BY DEF OInv, LeasedHeld
  <2>2. l \notin active_leases[u]
    BY <2>1 DEF IInv, TaskLeases
  <2>3. QED
    BY <1>1, <2>1, <2>2
<1>3. DigestsAgree'
  BY DEF DigestsAgree
<1>4. OneLeaseEach' /\ AttemptsLeft' /\ WaitingBlocked'
  BY <1>1 DEF OneLeaseEach, AttemptsLeft, WaitingBlocked, OInv, outcomeVars
<1>5. QED
  BY <1>2, <1>3, <1>4 DEF OInv, SuccessComplete, NoSpeculation, outcomeVars

LEMMA FailedResultOInv ==
    ASSUME IInv, OInv, NEW l, NEW retryable \in BOOLEAN, OnFailedResult(l, retryable)
    PROVE  OInv'
<1>1. l \in Active /\ failure = None /\ pc = "wait" /\ pc' = pc
  BY DEF OnFailedResult, Reported, Receiving, controlVars
<1>2. CASE AttemptFailed(l, FALSE)
  BY <1>1, <1>2, AttemptFailedOInv
<1>3. CASE ~AttemptFailed(l, FALSE)
  <2>1. /\ Release({l})
        /\ \/ UNCHANGED outcomeVars /\ phase[leases[l].task] = "committed"
           \/ status' = "failed" /\ failure' = "permanent_task_failure"
        /\ UNCHANGED <<phase, failed_attempts, committed_output_digest, complete, verified>>
    BY <1>3 DEF OnFailedResult, readyVars, observerVars
  <2>2. UNCHANGED outcomeVars => DigestsAgree'
    BY <2>1 DEF DigestsAgree, OInv, outcomeVars
  <2>3. QED
    BY <1>1, <2>1, <2>2, EndedOInv DEF None
<1>4. QED
  BY <1>2, <1>3

(* A duplicate that agrees adds no digest; one that differs, and a sink    *)
(* that throws, fail the build.                                            *)
LEMMA UncommittedEndOInv ==
    ASSUME IInv, OInv, NEW l, NEW d \in Digests, OnCommitThrows(l, d) \/ OnDuplicate(l, d)
    PROVE  OInv'
<1>1. VerifiedSuccess(l, d)
  BY DEF OnCommitThrows, OnDuplicate
<1>2. /\ \/ /\ UNCHANGED outcomeVars
            /\ phase[leases[l].task] = "committed"
            /\ d = committed_output_digest[leases[l].task]
         \/ status' = "failed" /\ failure' # None
      /\ UNCHANGED <<phase, committed_output_digest, complete>>
  BY DEF OnCommitThrows, OnDuplicate, None, readyVars
<1>3. leases[l].task \in Tasks /\ UNCHANGED failed_attempts
  BY <1>1, VerifiedType
<1>4. UNCHANGED outcomeVars => DigestsAgree'
  BY <1>1, <1>2, <1>3, VerifiedType
     DEF VerifiedSuccess, DigestsAgree, OInv, IInv, TypeOK, outcomeVars
<1>5. QED
  BY <1>1, <1>2, <1>3, <1>4, VerifiedType, EndedOInv

(* commit(): a dependent that stays waiting misses another dependency.     *)
LEMMA CommitOInv ==
    ASSUME IInv, OInv, NEW l, NEW d \in Digests, OnCommit(l, d)
    PROVE  OInv'
<1> DEFINE t == leases[l].task
<1>1. VerifiedSuccess(l, d)
  BY DEF OnCommit
<1>2. /\ l \in Active /\ failure = None /\ pc = "wait" /\ pc' = pc
      /\ t \in Tasks /\ Release({l})
      /\ UNCHANGED failed_attempts
      /\ verified' = [verified EXCEPT ![t] = @ \cup {d}]
  BY <1>1, VerifiedType DEF VerifiedSuccess
<1>3. phase[t] = "leased" /\ t \notin complete
  BY <1>2 DEF OnCommit, IInv, PhaseLeased, PhaseComplete
<1>4. /\ committed_output_digest' = [committed_output_digest EXCEPT ![t] = d]
      /\ \A u \in Tasks : phase'[u] = IF u = t THEN "committed"
                                       ELSE IF u \in NewlyReady(t) THEN "ready"
                                       ELSE phase[u]
      /\ complete' = complete \cup {t}
      /\ UNCHANGED outcomeVars
  BY DEF OnCommit, Complete
<1>5. \A u \in NewlyReady(t) : phase[u] = "waiting"
  BY DEF NewlyReady
<1>6. /\ Active' = Active \ {l}
      /\ \A r \in Active' : leases'[r] = leases[r]
      /\ \A u \in Tasks : active_leases'[u] = active_leases[u] \ {l}
  BY <1>2 DEF Release, Active
<1> HIDE DEF t
<1>7. WaitingBlocked'
  <2> SUFFICES ASSUME NEW u \in Tasks, phase'[u] = "waiting", Deps[u] \subseteq complete'
               PROVE  FALSE
    BY DEF WaitingBlocked
  <2>1. u # t /\ phase[u] = "waiting" /\ u \notin NewlyReady(t)
    BY <1>4
  <2>2. ~(Deps[u] \subseteq complete)
    BY <1>2, <2>1 DEF OInv, WaitingBlocked
  <2>3. t \in Deps[u] /\ Deps[u] \ complete = {t}
    BY <1>3, <1>4, <2>2
  <2>4. pending_dependencies[u] = 1
    BY <2>3, FS_Singleton DEF IInv, PendingCounts
  <2>5. QED
    BY <2>1, <2>3, <2>4 DEF NewlyReady, Dependents
<1>8. LeasedHeld'
  <2> SUFFICES ASSUME NEW u \in Tasks, phase'[u] = "leased"
               PROVE  active_leases'[u] # {}
    BY DEF LeasedHeld
  <2>1. u # t /\ phase[u] = "leased"
    BY <1>4
  <2>2. active_leases[u] # {} /\ l \notin active_leases[u]
    BY <1>2, <2>1 DEF OInv, LeasedHeld, IInv, TaskLeases, t
  <2>3. QED
    BY <1>6, <2>2
<1>9. DigestsAgree'
  <2> SUFFICES ASSUME NEW u \in Tasks
               PROVE  /\ verified'[u] \subseteq {committed_output_digest'[u]}
                      /\ phase'[u] # "committed" => verified'[u] = {}
    BY DEF DigestsAgree
  <2>1. /\ verified[u] \subseteq {committed_output_digest[u]}
        /\ phase[u] # "committed" => verified[u] = {}
    BY <1>2 DEF OInv, DigestsAgree
  <2>2. CASE u = t
    BY <1>2, <1>3, <1>4, <2>1, <2>2 DEF IInv, TypeOK
  <2>3. CASE u # t
    BY <1>2, <1>4, <2>1, <2>3, <1>5 DEF IInv, TypeOK
  <2>4. QED
    BY <2>2, <2>3
<1>10. OneLeaseEach'
  BY <1>6 DEF OneLeaseEach, OInv
<1>11. AttemptsLeft'
  BY <1>2, <1>4, <1>5 DEF AttemptsLeft, OInv
<1>12. SuccessComplete' /\ NoSpeculation'
  BY <1>2, <1>4 DEF SuccessComplete, NoSpeculation, OInv, outcomeVars
<1>13. QED
  BY <1>7, <1>8, <1>9, <1>10, <1>11, <1>12 DEF OInv

LEMMA NextOInv == IInv /\ OInv /\ [Next]_vars => OInv'
<1> SUFFICES ASSUME IInv, OInv, [Next]_vars PROVE OInv'
  OBVIOUS
<1>1. CASE UNCHANGED vars
  BY <1>1, QuietOInv DEF QuietStep
<1>2. CASE \E t \in Tasks, d \in Digests : ApplyResumed(t, d)
  BY <1>2, ResumedOInv
<1>3. CASE LoopStep
  <2>1. CASE QuietStep
    BY <2>1, QuietOInv
  <2>2. CASE \E l \in ended : ExpireLease(l)
    BY <2>2, FailingOInv
  <2>3. QED
    BY <1>3, <2>1, <2>2, StartOInv, ReturnOInv, GrantOInv DEF LoopStep, QuietStep
<1>4. ASSUME NEW l \in inflight, Receive(l)
      PROVE  OInv'
  <2>1. CASE QuietStep
    BY <2>1, QuietOInv
  <2>2. CASE OnHeartbeat(l)
    BY <2>2, TimerOInv DEF TimerStep
  <2>3. CASE \E retryable \in BOOLEAN : OnFailedResult(l, retryable)
    BY <2>3, FailedResultOInv
  <2>4. CASE \E d \in Digests : OnCommit(l, d) \/ OnCommitThrows(l, d) \/ OnDuplicate(l, d)
    BY <2>4, CommitOInv, UncommittedEndOInv
  <2>5. QED
    BY <1>4, <2>1, <2>2, <2>3, <2>4, FailingOInv, RejectedOInv DEF Receive, QuietStep
<1>5. CASE \E l \in Active : LeaseLapses(l) \/ DeadlinePasses(l)
  BY <1>5, TimerOInv DEF TimerStep
<1>6. CASE QuietStep
  BY <1>6, QuietOInv
<1>7. QED
  BY <1>1, <1>2, <1>3, <1>4, <1>5, <1>6 DEF Next, QuietStep

-----------------------------------------------------------------------------

(* OInv holds in every reachable state.                                    *)
THEOREM OutcomeInvariance == Spec => []OInv
<1>1. QED
  BY InitOInv, NextOInv, Invariance, PTL DEF Spec

(* Whatever failures, rejections, expiries and quarantines happen, no task *)
(* falls out of the scheduler's books: it is committed, queued, running or *)
(* waiting for a dependency that is not committed.                         *)
THEOREM TasksAreKept == Spec => []NoTaskLost
<1>1. IInv /\ OInv => NoTaskLost
  <2> SUFFICES ASSUME IInv, OInv, Building
               PROVE  /\ ready_queue = {t \in Tasks : phase[t] = "ready"}
                      /\ \A t \in Tasks :
                           /\ phase[t] = "waiting" <=> /\ t \notin complete
                                                       /\ ~(Deps[t] \subseteq complete)
                           /\ phase[t] = "leased" <=> /\ t \notin complete
                                                      /\ active_leases[t] # {}
    BY DEF NoTaskLost
  <2>1. pc \notin {"resume", "threw", "done"} /\ failure = None
    BY DEF Building, Running
  <2>2. ASSUME NEW t \in Tasks
        PROVE  phase[t] = "waiting" <=> t \notin complete /\ ~(Deps[t] \subseteq complete)
    BY <2>1 DEF IInv, OInv, TypeOK, Phase, PhaseComplete, DepsFirst, WaitingBlocked
  <2>3. ASSUME NEW t \in Tasks
        PROVE  phase[t] = "leased" <=> t \notin complete /\ active_leases[t] # {}
    <3>1. active_leases[t] = {l \in Active : leases[l].task = t}
      BY <2>1 DEF IInv, TaskLeases
    <3>2. QED
      BY <2>1, <3>1 DEF IInv, OInv, PhaseComplete, PhaseLeased, LeasedHeld
  <2>4. QED
    BY <2>2, <2>3 DEF IInv, PhaseReady
<1>2. QED
  BY <1>1, Invariance, OutcomeInvariance, PTL

(* Without speculative duplicates a task in the ready queue has an attempt *)
(* left, so max_attempts bounds the attempts that fail.                    *)
THEOREM AttemptsAreBounded == Spec => [](~Speculative => RetriesBounded)
<1>1. IInv /\ OInv => (~Speculative => RetriesBounded)
  BY DEF IInv, OInv, RetriesBounded, Building, AttemptsLeft, PhaseReady
<1>2. QED
  BY <1>1, Invariance, OutcomeInvariance, PTL

(* A build that succeeds has committed every task, and every verified      *)
(* result of a task, duplicates included, has the committed digest.        *)
THEOREM SuccessAgrees == Spec => []SuccessIsDeterministic
<1>1. IInv /\ OInv => SuccessIsDeterministic
  BY DEF IInv, OInv, SuccessIsDeterministic, SuccessComplete, DigestsAgree, OutcomeAgrees
<1>2. QED
  BY <1>1, Invariance, OutcomeInvariance, PTL

-----------------------------------------------------------------------------
(* One dropped session is one loss event.                                  *)

(* The horizon lies past every lease that shares the latest loss event.    *)
HorizonCovers == \A e \in Executors : \A l \in sharing[e] : l < loss_horizon[e]

(* The horizon and the counter move in the step of a loss, and only there  *)
(* does the counter go up; note_executor_recovery() may reset the counter. *)
LEMMA LossStep ==
    ASSUME IInv, [Next]_vars
    PROVE  \/ UNCHANGED lossVars
           \/ /\ UNCHANGED <<loss_horizon, sharing>>
              /\ \E l \in Active : \E d \in Digests : VerifiedSuccess(l, d)
           \/ \E l \in Active : /\ l \in Handled
                                /\ next_lease_number' = next_lease_number
                                /\ NewLossEvent(l)
                                /\ CountExecutorLoss(l)
<1> USE DEF lossVars, executorVars, leaseVars
<1>1. CASE LoopStep /\ ~(\E l \in ended : ExpireLease(l))
  BY <1>1 DEF LoopStep, Start, Cancelled, Succeed, ReturnFailed, BeginDispatch,
         DispatchGrant, SpeculativeGrant, Grant, NextExecutor, CheckUsable, BeginExpire,
         EndExpire
<1>2. CASE \E l \in ended : ExpireLease(l)
  <2>1. PICK l \in ended : ExpireLease(l)
    BY <1>2
  <2>2. /\ l \in Active /\ CountExecutorLoss(l)
        /\ next_lease_number' = next_lease_number
    BY <2>1 DEF ExpireLease, AttemptFailed
  <2>3. l \in Handled
    BY <2>1 DEF ExpireLease, Handled
  <2>4. QED
    BY <2>2, <2>3 DEF CountExecutorLoss
<1>3. CASE \E l \in inflight : Receive(l)
  <2>1. PICK l \in inflight : Receive(l)
    BY <1>3
  <2>2. CASE \E d \in Digests : OnCommit(l, d) \/ OnCommitThrows(l, d) \/ OnDuplicate(l, d)
    <3>1. PICK d \in Digests : VerifiedSuccess(l, d)
      BY <2>2 DEF OnCommit, OnCommitThrows, OnDuplicate
    <3>2. l \in Active /\ UNCHANGED <<loss_horizon, sharing>>
      BY <3>1 DEF VerifiedSuccess, Reported
    <3>3. QED
      BY <3>1, <3>2
  <2>3. CASE OnExecutorLost(l)
    <3>1. /\ l \in Active /\ CountExecutorLoss(l)
          /\ next_lease_number' = next_lease_number
      BY <2>3 DEF OnExecutorLost, Reported, AttemptFailed
    <3>2. l \in Handled
      BY <2>1, <2>3 DEF OnExecutorLost, Reported, Handled
    <3>3. QED
      BY <3>1, <3>2 DEF CountExecutorLoss
  <2>4. CASE \/ IgnoreStaleReport(l) \/ OnHeartbeat(l) \/ OnDefectiveResult(l)
             \/ OnInvalidResult(l) \/ OnRejected(l)
             \/ \E retryable \in BOOLEAN : OnFailedResult(l, retryable)
    BY <2>4 DEF IgnoreStaleReport, OnHeartbeat, OnDefectiveResult, OnInvalidResult,
           OnRejected, OnFailedResult
  <2>5. QED
    BY <2>1, <2>2, <2>3, <2>4 DEF Receive
<1>4. CASE \/ \E t \in Tasks, d \in Digests : ApplyResumed(t, d)
           \/ RefuseResumed \/ RequestCancel
  BY <1>4 DEF ApplyResumed, RefuseResumed, RequestCancel
<1>5. CASE \/ \E l \in Active : LeaseLapses(l) \/ DeadlinePasses(l)
           \/ \E x \in Executors : BackoffElapses(x)
  BY <1>5 DEF LeaseLapses, DeadlinePasses, BackoffElapses
<1>6. CASE Terminated \/ UNCHANGED vars
  BY <1>6 DEF Terminated, vars
<1>7. QED
  BY <1>1, <1>2, <1>3, <1>4, <1>5, <1>6 DEF Next

LEMMA HorizonStep == IInv /\ HorizonCovers /\ [Next]_vars => HorizonCovers'
<1> SUFFICES ASSUME IInv, HorizonCovers, [Next]_vars
             PROVE  HorizonCovers'
  OBVIOUS
<1>1. CASE UNCHANGED <<loss_horizon, sharing>>
  BY <1>1 DEF HorizonCovers
<1>2. CASE \E l \in Active : NewLossEvent(l) /\ CountExecutorLoss(l)
  <2>1. PICK l \in Active : NewLossEvent(l) /\ CountExecutorLoss(l)
    BY <1>2
  <2> DEFINE x == leases[l].executor
  <2>2. /\ loss_horizon' = [loss_horizon EXCEPT ![x] = next_lease_number]
        /\ sharing' = [sharing EXCEPT ![x] = LeasesOf(x)]
    BY <2>1 DEF CountExecutorLoss
  <2>3. \A r \in LeasesOf(x) : r < next_lease_number
    BY DEF LeasesOf, IInv, TypeOK
  <2> HIDE DEF x
  <2>4. QED
    BY <2>2, <2>3 DEF HorizonCovers, IInv, TypeOK
<1>3. QED
  BY <1>1, <1>2, LossStep DEF lossVars

THEOREM HorizonInvariance == Spec => []HorizonCovers
<1>1. Init => HorizonCovers
  BY DEF Init, HorizonCovers
<1>2. QED
  BY <1>1, HorizonStep, Invariance, PTL DEF Spec

(* A lease in flight when a loss of its executor was counted never raises  *)
(* the count itself: such leases lie below the horizon, and only a lease   *)
(* at or above it is counted.                                              *)
THEOREM LossesAreShared == Spec => LossesShareAnEvent
<1>1. IInv /\ HorizonCovers /\ [Next]_vars =>
        [\A e \in Executors : consecutive_loss_events'[e] > consecutive_loss_events[e] =>
            \E l \in LeasesOf(e) \cap Handled : l \notin sharing[e]]_vars
  <2> SUFFICES ASSUME IInv, HorizonCovers, [Next]_vars, NEW e \in Executors,
                      consecutive_loss_events'[e] > consecutive_loss_events[e]
               PROVE  \E l \in LeasesOf(e) \cap Handled : l \notin sharing[e]
    OBVIOUS
  <2>1. consecutive_loss_events[e] \in Nat
    BY DEF IInv, TypeOK
  <2>2. consecutive_loss_events' # consecutive_loss_events
    BY <2>1
  <2>3. CASE \E l \in Active : \E d \in Digests : VerifiedSuccess(l, d)
    <3>1. PICK l \in Active : \E d \in Digests : VerifiedSuccess(l, d)
      BY <2>3
    <3>2. leases[l].executor \in Executors
      BY LeasedExecutor DEF IInv
    <3>3. \/ consecutive_loss_events' = consecutive_loss_events
          \/ consecutive_loss_events' =
               [consecutive_loss_events EXCEPT ![leases[l].executor] = 0]
      BY <3>1 DEF VerifiedSuccess
    <3>4. consecutive_loss_events'[e] \in {0, consecutive_loss_events[e]}
      BY <3>2, <3>3 DEF IInv, TypeOK
    <3>5. QED
      BY <2>1, <3>4
  <2>4. CASE \E l \in Active : l \in Handled /\ NewLossEvent(l) /\ CountExecutorLoss(l)
    <3>1. PICK l \in Active : l \in Handled /\ NewLossEvent(l) /\ CountExecutorLoss(l)
      BY <2>4
    <3>2. consecutive_loss_events' =
            [consecutive_loss_events EXCEPT ![leases[l].executor] = @ + 1]
      BY <3>1 DEF CountExecutorLoss
    <3>3. leases[l].executor = e
      BY <2>1, <3>2 DEF IInv, TypeOK
    <3>4. l >= loss_horizon[e]
      BY <3>1, <3>3 DEF NewLossEvent
    <3>5. l \in Nat /\ loss_horizon[e] \in Nat
      BY DEF IInv, TypeOK
    <3>6. l \notin sharing[e]
      BY <3>4, <3>5 DEF HorizonCovers
    <3>7. QED
      BY <3>1, <3>3, <3>6 DEF LeasesOf
  <2>5. QED
    BY <2>2, <2>3, <2>4, LossStep DEF lossVars
<1>2. QED
  BY <1>1, Invariance, HorizonInvariance, PTL DEF Spec, LossesShareAnEvent

=============================================================================
