--------------------------- MODULE SchedulerProofs ---------------------------
(***************************************************************************)
(* What holds of the scheduler for every task graph, every fleet and every *)
(* policy.  IInv is the inductive invariant; the theorems at the end       *)
(* follow from it.                                                         *)
(***************************************************************************)
EXTENDS Scheduler, FiniteSetTheorems, TLAPS

(* The three records of the leases agree.  After the run leases_ is        *)
(* cleared and the other two are not read any more.                        *)
TaskLeases ==
    pc # "done" => \A t \in Tasks :
                     active_leases[t] = {l \in Active : leases[l].task = t}

SlotCounts ==
    pc # "done" => \A e \in Executors : /\ active[e] = Cardinality(LeasesOf(e))
                                        /\ active[e] <= Slots[e]

QuarantineEmpty == \A e \in quarantined : LeasesOf(e) = {}

(* ReadySet counts what it should count.                                   *)
PendingCounts ==
    \A t \in Tasks : pending_dependencies[t] = Cardinality(Deps[t] \ complete)

PhaseComplete == complete = {t \in Tasks : phase[t] = "committed"}

PhaseReady == ready_queue = {t \in Tasks : phase[t] = "ready"}

(* A lease belongs to a task whose dependencies are complete.              *)
PhaseLeased ==
    \A l \in Active : /\ phase[leases[l].task] \in {"leased", "committed"}
                      /\ attempts_started[leases[l].task] > 0

DepsFirst ==
    \A t \in Tasks : phase[t] \in {"ready", "leased"} => Deps[t] \subseteq complete

BeforeStart ==
    pc \in {"resume", "threw"} =>
        /\ Active = {} /\ quarantined = {} /\ failure = None
        /\ \A t \in Tasks : /\ attempts_started[t] = 0
                            /\ phase[t] \in {"waiting", "committed"}

OutcomeAgrees ==
    /\ failure # None => status = "failed"
    /\ pc \notin {"done", "threw"} /\ failure = None => status = "running"

IInv ==
    /\ TypeOK
    /\ TaskLeases
    /\ SlotCounts
    /\ QuarantineEmpty
    /\ PendingCounts
    /\ PhaseComplete
    /\ PhaseReady
    /\ PhaseLeased
    /\ DepsFirst
    /\ BeforeStart
    /\ OutcomeAgrees
    /\ CommittedExactlyOnce

-----------------------------------------------------------------------------
(* Facts about the operators.                                              *)

(* The leases held at any time, and those of one executor, are finitely    *)
(* many.                                                                   *)
LEMMA ActiveFinite ==
    ASSUME TypeOK
    PROVE  /\ IsFiniteSet(Active)
           /\ \A e \in Executors : IsFiniteSet(LeasesOf(e))
<1>1. IsFiniteSet(1..(next_lease_number - 1))
  BY FS_Interval DEF TypeOK
<1>2. IsFiniteSet(Active)
  BY <1>1, FS_Subset DEF TypeOK
<1>3. \A e \in Executors : LeasesOf(e) \subseteq Active
  BY DEF LeasesOf
<1>4. QED
  BY <1>2, <1>3, FS_Subset

(* release() keeps the three records of the leases in agreement, whatever  *)
(* set of leases ends.                                                     *)
LEMMA ReleaseKeepsBooks ==
    ASSUME TypeOK, TaskLeases, SlotCounts, QuarantineEmpty, pc # "done",
           NEW R \in SUBSET Active, Release(R)
    PROVE  /\ Active' = Active \ R
           /\ \A l \in Active' : leases'[l] = leases[l]
           /\ leases' \in [Active' -> Lease]
           /\ active_leases' \in [Tasks -> SUBSET Nat]
           /\ \A t \in Tasks : active_leases'[t] = {l \in Active' : leases'[l].task = t}
           /\ active' \in [Executors -> Nat]
           /\ \A e \in Executors : /\ LeasesOf(e)' = LeasesOf(e) \ R
                                   /\ active'[e] = Cardinality(LeasesOf(e)')
                                   /\ active'[e] <= Slots[e]
<1>1. Active' = Active \ R /\ \A l \in Active' : leases'[l] = leases[l]
  BY DEF Release, Active
<1>2. leases' \in [Active' -> Lease]
  BY <1>1 DEF Release, TypeOK, Active
<1>3. active_leases' \in [Tasks -> SUBSET Nat]
  BY DEF Release, TypeOK
<1>4. \A t \in Tasks : active_leases'[t] = {l \in Active' : leases'[l].task = t}
  BY <1>1 DEF Release, TaskLeases
<1>5. \A e \in Executors : LeasesOf(e)' = LeasesOf(e) \ R
  BY <1>1 DEF LeasesOf
<1>6. ASSUME NEW e \in Executors
      PROVE  /\ active'[e] = Cardinality(LeasesOf(e)')
             /\ active'[e] \in Nat
             /\ active'[e] <= Slots[e]
  <2>1. IsFiniteSet(LeasesOf(e))
    BY ActiveFinite
  <2>2. Cardinality(LeasesOf(e) \ R) = Cardinality(LeasesOf(e)) - Cardinality(LeasesOf(e) \cap R)
    BY <2>1, FS_Difference
  <2>3. active'[e] = Cardinality(LeasesOf(e) \ R)
    BY <2>2 DEF Release, SlotCounts
  <2>4. /\ Cardinality(LeasesOf(e) \ R) \in Nat
        /\ Cardinality(LeasesOf(e)) \in Nat
        /\ Cardinality(LeasesOf(e) \ R) <= Cardinality(LeasesOf(e))
    BY <2>1, FS_Difference, FS_Subset, FS_CardinalityType
  <2>5. Cardinality(LeasesOf(e)) <= Slots[e] /\ Slots[e] \in Nat
    BY ExecutorsAssumption DEF SlotCounts
  <2>6. QED
    BY <1>5, <2>3, <2>4, <2>5
<1>7. active' \in [Executors -> Nat]
  BY <1>6 DEF Release
<1>8. QED
  BY <1>1, <1>2, <1>3, <1>4, <1>5, <1>6, <1>7

(* ReadySet::complete() of a task that is not complete keeps every counter *)
(* equal to the number of dependencies still missing.                      *)
LEMMA CompleteKeepsCounts ==
    ASSUME TypeOK, PendingCounts, NEW t \in Tasks, t \notin complete, Complete(t)
    PROVE  /\ complete' \subseteq Tasks
           /\ pending_dependencies' \in [Tasks -> Nat]
           /\ PendingCounts'
<1>1. complete' = complete \cup {t} /\ complete' \subseteq Tasks
  BY DEF Complete, TypeOK
<1>2. ASSUME NEW u \in Tasks
      PROVE  /\ pending_dependencies'[u] = Cardinality(Deps[u] \ complete')
             /\ pending_dependencies'[u] \in Nat
  <2>1. IsFiniteSet(Deps[u] \ complete)
    BY TasksAssumption, DepsAssumption, FS_Subset
  <2>2. Deps[u] \ complete' = (Deps[u] \ complete) \ {t}
    BY <1>1
  <2>3. /\ Cardinality(Deps[u] \ complete') =
             IF t \in Deps[u] \ complete THEN Cardinality(Deps[u] \ complete) - 1
                                        ELSE Cardinality(Deps[u] \ complete)
        /\ IsFiniteSet(Deps[u] \ complete')
    BY <2>1, <2>2, FS_RemoveElement
  <2>4. Cardinality(Deps[u] \ complete') \in Nat
    BY <2>3, FS_CardinalityType
  <2>5. pending_dependencies'[u] = Cardinality(Deps[u] \ complete')
    BY <2>3 DEF Complete, PendingCounts
  <2>6. QED
    BY <2>4, <2>5
<1>3. pending_dependencies' \in [Tasks -> Nat]
  BY <1>2 DEF Complete
<1>4. QED
  BY <1>1, <1>2, <1>3 DEF PendingCounts

(* The executor of a lease is not quarantined, and quarantine leaves the   *)
(* executor nothing.                                                       *)
LEMMA LeasedExecutor ==
    ASSUME TypeOK, QuarantineEmpty, NEW l \in Active
    PROVE  /\ leases[l].task \in Tasks
           /\ leases[l].executor \in Executors
           /\ leases[l].executor \notin quarantined
           /\ l \in LeasesOf(leases[l].executor)
BY DEF TypeOK, QuarantineEmpty, LeasesOf, Lease

-----------------------------------------------------------------------------
(* IInv is inductive.                                                      *)

LEMMA InitIInv == Init => IInv
<1> SUFFICES ASSUME Init PROVE IInv
  OBVIOUS
<1>1. Active = {} /\ \A e \in Executors : LeasesOf(e) = {}
  BY DEF Init, Active, LeasesOf
<1>2. \A t \in Tasks : IsFiniteSet(Deps[t]) /\ Cardinality(Deps[t]) \in Nat
  BY TasksAssumption, DepsAssumption, FS_Subset, FS_CardinalityType
<1>3. TypeOK
  <2>1. leases \in [Active -> Lease]
    BY <1>1 DEF Init
  <2>2. Active \subseteq 1..(next_lease_number - 1)
    BY <1>1
  <2>3. cursor \in Executors
    BY ExecutorsAssumption DEF Init, Executors
  <2>4. pending_dependencies \in [Tasks -> Nat]
    BY <1>2 DEF Init
  <2>5. next_lease_number \in Nat \ {0} /\ rejections \in Nat
    BY DEF Init
  <2>6. inflight \subseteq 1..(next_lease_number - 1)
    BY DEF Init
  <2>7. QED
    BY <2>1, <2>2, <2>3, <2>4, <2>5, <2>6 DEF Init, TypeOK, Phase
<1>4. SlotCounts
  <2>1. \A e \in Executors : 0 <= Slots[e]
    BY ExecutorsAssumption
  <2>2. \A e \in Executors : active[e] = 0 /\ Cardinality(LeasesOf(e)) = 0
    BY <1>1, FS_EmptySet DEF Init
  <2>3. QED
    BY <2>1, <2>2 DEF SlotCounts
<1>5. PendingCounts
  <2>1. \A t \in Tasks : Deps[t] \ complete = Deps[t]
    BY DEF Init
  <2>2. QED
    BY <2>1 DEF Init, PendingCounts
<1>6. QED
  BY <1>1, <1>3, <1>4, <1>5
     DEF Init, IInv, TaskLeases, QuarantineEmpty, PhaseComplete, PhaseReady,
         PhaseLeased, DepsFirst, BeforeStart, OutcomeAgrees, CommittedExactlyOnce, Active

(* Steps that move the loop, or an environment step, and leave the tasks,  *)
(* the leases and the executors' counters alone.                           *)
QuietStep ==
    \/ RefuseResumed \/ BeginDispatch \/ NextExecutor \/ CheckUsable
    \/ BeginExpire \/ EndExpire \/ RequestCancel \/ Terminated
    \/ \E l \in inflight : IgnoreStaleReport(l)
    \/ \E e \in Executors : BackoffElapses(e)
    \/ UNCHANGED vars

LEMMA QuietIInv ==
    ASSUME IInv, QuietStep
    PROVE  IInv'
<1> USE DEF IInv, taskVars, readyVars, leaseVars, lossVars, executorVars,
            outcomeVars, controlVars, envVars, observerVars
<1>1. UNCHANGED <<taskVars, readyVars, leaseVars, active, lossVars, quarantined,
                  observerVars, rejections>>
  BY DEF QuietStep, RefuseResumed, BeginDispatch, NextExecutor, CheckUsable,
         BeginExpire, EndExpire, RequestCancel, Terminated, IgnoreStaleReport,
         BackoffElapses, vars
<1>2. /\ Active' = Active
      /\ \A e \in Executors : LeasesOf(e)' = LeasesOf(e)
  BY <1>1 DEF Active, LeasesOf
<1>3. /\ pc = "done" => pc' = "done"
      /\ pc' \in {"resume", "threw"} => pc \in {"resume", "threw"}
      /\ pc \in {"resume", "threw"} => failure' = failure
  BY DEF QuietStep, RefuseResumed, BeginDispatch, NextExecutor, CheckUsable,
         BeginExpire, EndExpire, RequestCancel, Terminated, IgnoreStaleReport,
         BackoffElapses, vars, Running, Receiving, TypeOK
<1>4. TypeOK'
  <2>1. cursor' \in Executors
    <3>1. CASE NextExecutor
      BY <3>1, ExecutorsAssumption DEF NextExecutor, TypeOK, Executors
    <3>2. CASE BeginDispatch
      BY <3>2, ExecutorsAssumption DEF BeginDispatch, Executors
    <3>3. QED
      BY <3>1, <3>2
         DEF QuietStep, RefuseResumed, CheckUsable, BeginExpire, EndExpire,
             RequestCancel, Terminated, IgnoreStaleReport, BackoffElapses, vars, TypeOK
  <2>2. /\ declined' \subseteq declined
        /\ inflight' \subseteq inflight
        /\ ended' \subseteq ended \cup Active
    BY DEF QuietStep, RefuseResumed, BeginDispatch, NextExecutor, CheckUsable,
           BeginExpire, EndExpire, RequestCancel, Terminated, IgnoreStaleReport,
           BackoffElapses, vars
  <2>3. cancel_requested' \in BOOLEAN
    BY DEF QuietStep, RefuseResumed, BeginDispatch, NextExecutor, CheckUsable,
           BeginExpire, EndExpire, RequestCancel, Terminated, IgnoreStaleReport,
           BackoffElapses, vars, TypeOK
  <2>4. pc' \in {"resume", "loop", "dispatch", "speculate", "check", "wait",
                  "expire", "done", "threw"}
    BY DEF QuietStep, RefuseResumed, BeginDispatch, NextExecutor, CheckUsable,
           BeginExpire, EndExpire, RequestCancel, Terminated, IgnoreStaleReport,
           BackoffElapses, vars, TypeOK
  <2>5. /\ status' \in {"running", "succeeded", "failed", "cancelled"}
        /\ failure' \in FailureKind \cup {None}
    BY DEF QuietStep, RefuseResumed, BeginDispatch, NextExecutor, CheckUsable,
           BeginExpire, EndExpire, RequestCancel, Terminated, IgnoreStaleReport,
           BackoffElapses, vars, TypeOK, FailureKind
  <2>6. QED
    BY <1>1, <1>2, <2>1, <2>2, <2>3, <2>4, <2>5 DEF TypeOK
<1>5. TaskLeases' /\ SlotCounts' /\ QuarantineEmpty'
  BY <1>1, <1>2, <1>3 DEF TaskLeases, SlotCounts, QuarantineEmpty, TypeOK
<1>6. PendingCounts' /\ PhaseComplete' /\ PhaseReady' /\ PhaseLeased' /\ DepsFirst'
  BY <1>1, <1>2 DEF PendingCounts, PhaseComplete, PhaseReady, PhaseLeased, DepsFirst
<1>7. BeforeStart' /\ CommittedExactlyOnce'
  BY <1>1, <1>2, <1>3 DEF BeforeStart, CommittedExactlyOnce
<1>8. OutcomeAgrees'
  BY DEF QuietStep, RefuseResumed, BeginDispatch, NextExecutor, CheckUsable,
         BeginExpire, EndExpire, RequestCancel, Terminated, IgnoreStaleReport,
         BackoffElapses, vars, OutcomeAgrees, None, Running, Receiving
<1>9. QED
  BY <1>4, <1>5, <1>6, <1>7, <1>8

(* The clock moves a lease's timer, or a heartbeat turns it back.          *)
TimerStep ==
    \/ \E l \in inflight : OnHeartbeat(l)
    \/ \E l \in Active : LeaseLapses(l) \/ DeadlinePasses(l)

LEMMA TimerIInv ==
    ASSUME IInv, TimerStep
    PROVE  IInv'
<1> USE DEF IInv, taskVars, readyVars, lossVars, executorVars,
            outcomeVars, controlVars, envVars, observerVars
<1>1. UNCHANGED <<taskVars, readyVars, next_lease_number, executorVars, outcomeVars,
                  controlVars, envVars, observerVars>>
  BY DEF TimerStep, OnHeartbeat, LeaseLapses, DeadlinePasses
<1>2. PICK l \in Active, timer \in {"running", "lapsed", "deadline"} :
        leases' = [leases EXCEPT ![l].timer = timer]
  BY DEF TimerStep, OnHeartbeat, LeaseLapses, DeadlinePasses
<1>3. /\ Active' = Active
      /\ leases' \in [Active -> Lease]
      /\ \A r \in Active : /\ leases'[r].task = leases[r].task
                           /\ leases'[r].executor = leases[r].executor
  BY <1>2 DEF Active, TypeOK, Lease
<1>4. \A e \in Executors : LeasesOf(e)' = LeasesOf(e)
  BY <1>3 DEF LeasesOf
<1>5. TypeOK'
  BY <1>1, <1>3 DEF TypeOK
<1>6. TaskLeases' /\ SlotCounts' /\ QuarantineEmpty'
  BY <1>1, <1>3, <1>4 DEF TaskLeases, SlotCounts, QuarantineEmpty, TypeOK
<1>7. PendingCounts' /\ PhaseComplete' /\ PhaseReady' /\ PhaseLeased' /\ DepsFirst'
  BY <1>1, <1>3 DEF PendingCounts, PhaseComplete, PhaseReady, PhaseLeased, DepsFirst
<1>8. BeforeStart' /\ CommittedExactlyOnce' /\ OutcomeAgrees'
  BY <1>1, <1>3 DEF BeforeStart, CommittedExactlyOnce, OutcomeAgrees
<1>9. QED
  BY <1>5, <1>6, <1>7, <1>8

LEMMA ResumedIInv ==
    ASSUME IInv, NEW t \in Tasks, NEW d \in Digests, ApplyResumed(t, d)
    PROVE  IInv'
<1> USE DEF IInv, leaseVars, lossVars, executorVars, outcomeVars, controlVars,
            envVars, observerVars
<1>1. /\ pc = "resume" /\ phase[t] # "committed" /\ t \notin complete
      /\ phase' = [phase EXCEPT ![t] = "committed"]
      /\ UNCHANGED <<attempts_started, failed_attempts, avoid, active_leases,
                     ready_queue, leaseVars, executorVars, outcomeVars,
                     controlVars, envVars, observerVars>>
  BY DEF ApplyResumed, PhaseComplete
<1>2. /\ Active' = Active /\ Active = {}
      /\ \A e \in Executors : LeasesOf(e)' = LeasesOf(e)
  BY <1>1 DEF Active, LeasesOf, BeforeStart
<1>3. /\ complete' \subseteq Tasks
      /\ pending_dependencies' \in [Tasks -> Nat]
      /\ PendingCounts'
      /\ complete' = complete \cup {t}
  BY <1>1, CompleteKeepsCounts DEF ApplyResumed, Complete
<1>4. TypeOK'
  BY <1>1, <1>2, <1>3 DEF TypeOK, ApplyResumed, Phase
<1>5. TaskLeases' /\ SlotCounts' /\ QuarantineEmpty' /\ PhaseLeased'
  BY <1>1, <1>2 DEF TaskLeases, SlotCounts, QuarantineEmpty, PhaseLeased, TypeOK
<1>6. PhaseComplete' /\ PhaseReady' /\ DepsFirst'
  BY <1>1, <1>3 DEF PhaseComplete, PhaseReady, DepsFirst, BeforeStart, TypeOK
<1>7. BeforeStart' /\ OutcomeAgrees'
  BY <1>1, <1>2 DEF BeforeStart, OutcomeAgrees, TypeOK
<1>8. CommittedExactlyOnce'
  BY <1>1, <1>3 DEF CommittedExactlyOnce, BeforeStart, TypeOK
<1>9. QED
  BY <1>3, <1>4, <1>5, <1>6, <1>7, <1>8

LEMMA StartIInv ==
    ASSUME IInv, Start
    PROVE  IInv'
<1> USE DEF IInv, leaseVars, lossVars, executorVars, outcomeVars, envVars, observerVars
<1>1. /\ pc = "resume" /\ pc' = "loop"
      /\ UNCHANGED <<attempts_started, failed_attempts, avoid, active_leases,
                     committed_output_digest, pending_dependencies, complete,
                     leaseVars, executorVars, outcomeVars, cursor, ended,
                     envVars, observerVars>>
  BY DEF Start
<1>2. /\ Active' = Active /\ Active = {}
      /\ \A e \in Executors : LeasesOf(e)' = LeasesOf(e)
  BY <1>1 DEF Active, LeasesOf, BeforeStart
<1>3. PICK first \in SUBSET Tasks :
        /\ \A u \in Tasks : u \in first <=> phase[u] = "waiting" /\ Deps[u] \subseteq complete
        /\ phase' = [u \in Tasks |-> IF u \in first THEN "ready" ELSE phase[u]]
        /\ ready_queue' = ready_queue \cup first
  <2> DEFINE W == {u \in Tasks : phase[u] = "waiting" /\ Deps[u] \subseteq complete}
  <2>1. W \in SUBSET Tasks
    OBVIOUS
  <2>2. QED
    BY <2>1 DEF Start, FirstReady
<1>4. TypeOK'
  BY <1>1, <1>2, <1>3 DEF TypeOK, Phase
<1>5. TaskLeases' /\ SlotCounts' /\ QuarantineEmpty' /\ PhaseLeased' /\ PendingCounts'
  BY <1>1, <1>2 DEF TaskLeases, SlotCounts, QuarantineEmpty, PhaseLeased,
                    PendingCounts, TypeOK
<1>6. PhaseComplete' /\ PhaseReady' /\ DepsFirst'
  BY <1>1, <1>3 DEF PhaseComplete, PhaseReady, DepsFirst, TypeOK
<1>7. BeforeStart' /\ OutcomeAgrees' /\ CommittedExactlyOnce'
  BY <1>1 DEF BeforeStart, OutcomeAgrees, CommittedExactlyOnce
<1>8. QED
  BY <1>4, <1>5, <1>6, <1>7

(* The run ends.                                                           *)
LEMMA ReturnIInv ==
    ASSUME IInv, Cancelled \/ Succeed \/ ReturnFailed
    PROVE  IInv'
<1> USE DEF IInv, taskVars, readyVars, lossVars, executorVars, outcomeVars, observerVars
<1>1. /\ pc' = "done" /\ pc # "threw"
      /\ leases' = [l \in {} |-> None]
      /\ inflight' = {}
      /\ UNCHANGED <<taskVars, readyVars, next_lease_number, executorVars, failure,
                     cursor, ended, rejections, cancel_requested, observerVars>>
      /\ status' \in {"succeeded", "failed", "cancelled"}
      /\ failure # None => status' = "failed"
  BY DEF Cancelled, Succeed, ReturnFailed, Return, OutcomeAgrees
<1>2. /\ Active' = {}
      /\ \A e \in Executors : LeasesOf(e)' = {}
  BY <1>1 DEF Active, LeasesOf
<1>3. TypeOK'
  <2>1. leases' \in [Active' -> Lease] /\ Active' \subseteq 1..(next_lease_number' - 1)
    BY <1>1, <1>2
  <2>2. QED
    BY <1>1, <2>1 DEF TypeOK
<1>4. TaskLeases' /\ SlotCounts' /\ QuarantineEmpty' /\ PhaseLeased'
  BY <1>1, <1>2 DEF TaskLeases, SlotCounts, QuarantineEmpty, PhaseLeased, TypeOK
<1>5. PendingCounts' /\ PhaseComplete' /\ PhaseReady' /\ DepsFirst'
  BY <1>1 DEF PendingCounts, PhaseComplete, PhaseReady, DepsFirst
<1>6. BeforeStart' /\ OutcomeAgrees' /\ CommittedExactlyOnce'
  BY <1>1 DEF BeforeStart, OutcomeAgrees, CommittedExactlyOnce
<1>7. QED
  BY <1>3, <1>4, <1>5, <1>6

(* A grant, ordinary or speculative, goes to an executor with a free slot  *)
(* that is not quarantined and to a task that is ready or leased.          *)
LEMMA GrantIInv ==
    ASSUME IInv, DispatchGrant \/ SpeculativeGrant
    PROVE  IInv'
<1> USE DEF IInv, lossVars, outcomeVars, controlVars, observerVars
<1>1. PICK t \in Tasks, speculative \in BOOLEAN :
        /\ phase[t] \in {"ready", "leased"}
        /\ Grant(t, cursor, speculative)
  <2>1. CASE DispatchGrant
    BY <2>1 DEF DispatchGrant, Pickable, PhaseReady
  <2>2. CASE SpeculativeGrant
    <3>1. PICK l \in Active : /\ phase[leases[l].task] # "committed"
                              /\ Grant(leases[l].task, cursor, TRUE)
      BY <2>2 DEF SpeculativeGrant, Duplicable
    <3>2. leases[l].task \in Tasks /\ phase[leases[l].task] = "leased"
      BY <3>1, LeasedExecutor DEF PhaseLeased
    <3>3. QED
      BY <3>1, <3>2
  <2>3. QED
    BY <2>1, <2>2
<1>2. /\ pc \in {"dispatch", "speculate"}
      /\ cursor \in Executors /\ cursor \notin quarantined
      /\ active[cursor] < Slots[cursor]
  BY DEF DispatchGrant, SpeculativeGrant, HasFreeSlot, TypeOK
<1> DEFINE n == next_lease_number
           new == [task |-> t, executor |-> cursor, speculative |-> speculative,
                   timer |-> "running"]
<1>3. n \in Nat \ {0} /\ n \notin Active /\ Active \subseteq Nat
  BY DEF TypeOK
<1>4. /\ Active' = Active \cup {n}
      /\ leases'[n] = new
      /\ \A l \in Active : leases'[l] = leases[l]
      /\ leases'[n].task = t /\ leases'[n].executor = cursor
      /\ new \in Lease
      /\ leases' \in [Active' -> Lease]
  BY <1>1, <1>2, <1>3 DEF Grant, Active, TypeOK, Lease
<1>5. /\ phase' = [phase EXCEPT ![t] = "leased"]
      /\ active_leases' = [active_leases EXCEPT ![t] = @ \cup {n}]
      /\ active' = [active EXCEPT ![cursor] = @ + 1]
      /\ attempts_started' = [attempts_started EXCEPT ![t] = @ + 1]
      /\ ready_queue' = ready_queue \ {t}
      /\ next_lease_number' = n + 1
      /\ inflight' = inflight \cup {n}
      /\ UNCHANGED <<failed_attempts, avoid, committed_output_digest,
                     pending_dependencies, complete, lossVars, quarantined,
                     declined, outcomeVars, controlVars, rejections,
                     cancel_requested, observerVars>>
  BY <1>1 DEF Grant
<1>6. TypeOK'
  <2>1. Active' \subseteq 1..(next_lease_number' - 1)
    BY <1>3, <1>4, <1>5 DEF TypeOK
  <2>2. inflight' \subseteq 1..(next_lease_number' - 1)
    BY <1>3, <1>5 DEF TypeOK
  <2>3. /\ attempts_started' \in [Tasks -> Nat]
        /\ active' \in [Executors -> Nat]
        /\ active_leases' \in [Tasks -> SUBSET Nat]
        /\ phase' \in [Tasks -> Phase]
    BY <1>2, <1>3, <1>5 DEF TypeOK, Phase
  <2>4. QED
    BY <1>3, <1>4, <1>5, <2>1, <2>2, <2>3 DEF TypeOK
<1> HIDE DEF n, new
<1>7. TaskLeases'
  <2> SUFFICES ASSUME NEW u \in Tasks
               PROVE  active_leases'[u] = {l \in Active' : leases'[l].task = u}
    BY DEF TaskLeases
  <2>1. active_leases[u] = {l \in Active : leases[l].task = u}
    BY <1>2 DEF TaskLeases
  <2>2. active_leases'[u] = IF u = t THEN active_leases[u] \cup {n} ELSE active_leases[u]
    BY <1>5 DEF TypeOK
  <2>3. QED
    BY <1>3, <1>4, <2>1, <2>2
<1>8. SlotCounts'
  <2> SUFFICES ASSUME NEW e \in Executors
               PROVE  /\ active'[e] = Cardinality(LeasesOf(e)')
                      /\ active'[e] <= Slots[e]
    BY DEF SlotCounts
  <2>1. IsFiniteSet(LeasesOf(e)) /\ n \notin LeasesOf(e)
    BY <1>3, ActiveFinite DEF LeasesOf
  <2>2. active[e] = Cardinality(LeasesOf(e)) /\ active[e] <= Slots[e] /\ active[e] \in Nat
    BY <1>2 DEF SlotCounts, TypeOK
  <2>3. CASE e = cursor
    <3>1. LeasesOf(e)' = LeasesOf(e) \cup {n}
      BY <1>4, <2>3 DEF LeasesOf
    <3>2. Cardinality(LeasesOf(e)') = Cardinality(LeasesOf(e)) + 1
      BY <2>1, <3>1, FS_AddElement
    <3>3. Slots[e] \in Nat
      BY ExecutorsAssumption
    <3>4. active'[e] = active[e] + 1
      BY <1>5, <2>3 DEF TypeOK
    <3>5. QED
      BY <1>2, <2>2, <2>3, <3>2, <3>3, <3>4
  <2>4. CASE e # cursor
    <3>1. LeasesOf(e)' = LeasesOf(e)
      BY <1>3, <1>4, <2>4 DEF LeasesOf
    <3>2. active'[e] = active[e]
      BY <1>5, <2>4 DEF TypeOK
    <3>3. QED
      BY <2>2, <3>1, <3>2
  <2>5. QED
    BY <2>3, <2>4
<1>9. QuarantineEmpty'
  BY <1>2, <1>3, <1>4, <1>5 DEF QuarantineEmpty, LeasesOf
<1>10. PhaseLeased'
  BY <1>3, <1>4, <1>5, LeasedExecutor DEF PhaseLeased, TypeOK
<1>11. PendingCounts' /\ PhaseComplete' /\ PhaseReady' /\ DepsFirst'
  BY <1>1, <1>5 DEF PendingCounts, PhaseComplete, PhaseReady, DepsFirst, TypeOK
<1>12. BeforeStart' /\ OutcomeAgrees'
  BY <1>2, <1>5 DEF BeforeStart, OutcomeAgrees
<1>13. CommittedExactlyOnce'
  BY <1>1, <1>5 DEF CommittedExactlyOnce, PhaseComplete, TypeOK
<1>14. QED
  BY <1>6, <1>7, <1>8, <1>9, <1>10, <1>11, <1>12, <1>13

(* Putting tasks back in the ready queue is safe when the leases that end  *)
(* are all the leases they have.                                           *)
LEMMA RequeueKeepsPhases ==
    ASSUME IInv, pc # "done",
           NEW R \in SUBSET Active, Release(R),
           NEW S, Requeue(S),
           \A t \in S : /\ t \in Tasks /\ phase[t] = "leased"
                        /\ active_leases[t] \subseteq R,
           UNCHANGED <<attempts_started, pending_dependencies, complete, sink_commits>>
    PROVE  /\ phase' \in [Tasks -> Phase]
           /\ ready_queue' \subseteq Tasks
           /\ PendingCounts' /\ PhaseComplete' /\ PhaseReady' /\ PhaseLeased'
           /\ DepsFirst' /\ CommittedExactlyOnce'
<1> USE DEF IInv
<1>1. Active' = Active \ R /\ \A l \in Active' : leases'[l] = leases[l]
  BY ReleaseKeepsBooks
<1>2. /\ phase' = [t \in Tasks |-> IF t \in S THEN "ready" ELSE phase[t]]
      /\ ready_queue' = ready_queue \cup S
  BY DEF Requeue
<1>3. phase' \in [Tasks -> Phase] /\ ready_queue' \subseteq Tasks
  BY <1>2 DEF TypeOK, Phase
<1>4. PendingCounts' /\ PhaseComplete' /\ PhaseReady' /\ DepsFirst' /\ CommittedExactlyOnce'
  BY <1>2 DEF PendingCounts, PhaseComplete, PhaseReady, DepsFirst, CommittedExactlyOnce
<1>5. PhaseLeased'
  <2> SUFFICES ASSUME NEW l \in Active'
               PROVE  /\ phase'[leases'[l].task] \in {"leased", "committed"}
                      /\ attempts_started'[leases'[l].task] > 0
    BY DEF PhaseLeased
  <2>1. l \in Active /\ l \notin R /\ leases'[l] = leases[l] /\ leases[l].task \in Tasks
    BY <1>1, LeasedExecutor
  <2>2. l \in active_leases[leases[l].task]
    BY <2>1 DEF TaskLeases
  <2>3. leases[l].task \notin S
    BY <2>1, <2>2
  <2>4. QED
    BY <1>2, <2>1, <2>3 DEF PhaseLeased
<1>6. QED
  BY <1>3, <1>4, <1>5

(* A failed attempt, with or without the quarantine of its executor.       *)
LEMMA AttemptFailedIInv ==
    ASSUME IInv, pc \notin {"resume", "threw", "done"}, failure = None,
           NEW l \in Active, NEW q \in BOOLEAN, AttemptFailed(l, q),
           pc' = pc, cursor' = cursor, ended' \subseteq ended,
           inflight' \subseteq inflight, declined' \subseteq declined,
           cancel_requested' = cancel_requested, rejections' = rejections,
           consecutive_loss_events' \in [Executors -> Nat],
           loss_horizon' \in [Executors -> Nat],
           sharing' \in [Executors -> SUBSET Nat]
    PROVE  IInv'
<1> USE DEF IInv, outcomeVars, observerVars
<1> DEFINE t == leases[l].task
           e == leases[l].executor
           abandoned == Abandoned(l, q)
           gone == abandoned \cup {l}
           idle == phase[t] # "committed" /\ active_leases[t] \subseteq gone
           exhausted == idle /\ failed_attempts[t] + 1 >= MaxAttempts[t]
           retried == IF idle /\ ~exhausted THEN {t} ELSE {}
           S == (Freed(gone) \cap {leases[r].task : r \in abandoned}) \cup retried
<1>1. /\ t \in Tasks /\ e \in Executors /\ e \notin quarantined
      /\ l \in LeasesOf(e)
  BY LeasedExecutor
<1>2. /\ gone \in SUBSET Active
      /\ q => LeasesOf(e) \subseteq gone
  BY <1>1 DEF Abandoned, LeasesOf
<1>3. /\ Release(gone)
      /\ Requeue(S)
      /\ quarantined' = IF q THEN quarantined \cup {e} ELSE quarantined
      /\ failed_attempts' = [failed_attempts EXCEPT ![t] = @ + 1]
      /\ avoid' \in [Tasks -> SUBSET Executors]
      /\ \/ status' = "failed" /\ failure' = "retries_exhausted"
         \/ UNCHANGED outcomeVars
      /\ UNCHANGED <<attempts_started, committed_output_digest,
                     pending_dependencies, complete, next_lease_number,
                     observerVars>>
  BY <1>1 DEF AttemptFailed, Exhausted, TypeOK
<1>4. ASSUME NEW u \in S
      PROVE  u \in Tasks /\ phase[u] = "leased" /\ active_leases[u] \subseteq gone
  <2>1. phase[t] \in {"leased", "committed"}
    BY DEF PhaseLeased
  <2>2. CASE u \in retried
    BY <1>1, <2>1, <2>2
  <2>3. CASE u \in Freed(gone)
    <3>1. PICK r \in gone : u = leases[r].task
      BY <2>3 DEF Freed
    <3>2. r \in Active /\ u \in Tasks /\ phase[u] \in {"leased", "committed"}
      BY <1>2, <3>1, LeasedExecutor DEF PhaseLeased
    <3>3. QED
      BY <2>3, <3>2 DEF Freed
  <2>4. QED
    BY <2>2, <2>3
<1> HIDE DEF t, e, gone, S
<1>5. /\ Active' = Active \ gone
      /\ leases' \in [Active' -> Lease]
      /\ active_leases' \in [Tasks -> SUBSET Nat]
      /\ active' \in [Executors -> Nat]
      /\ \A x \in Executors : LeasesOf(x)' = LeasesOf(x) \ gone
      /\ TaskLeases' /\ SlotCounts'
  <2>1. pc # "done"
    OBVIOUS
  <2>2. QED
    BY <1>2, <1>3, <2>1, ReleaseKeepsBooks DEF TaskLeases, SlotCounts
<1>6. /\ phase' \in [Tasks -> Phase] /\ ready_queue' \subseteq Tasks
      /\ PendingCounts' /\ PhaseComplete' /\ PhaseReady' /\ PhaseLeased'
      /\ DepsFirst' /\ CommittedExactlyOnce'
  BY <1>2, <1>3, <1>4, RequeueKeepsPhases
<1>7. TypeOK'
  <2>1. Active' \subseteq 1..(next_lease_number' - 1) /\ inflight' \subseteq 1..(next_lease_number' - 1)
    BY <1>3, <1>5 DEF TypeOK
  <2>2. failed_attempts' \in [Tasks -> Nat] /\ quarantined' \subseteq Executors
    BY <1>1, <1>3 DEF TypeOK
  <2>3. failure' \in FailureKind \cup {None} /\ status' \in {"running", "succeeded", "failed", "cancelled"}
    BY <1>3 DEF TypeOK, FailureKind
  <2>4. QED
    BY <1>3, <1>5, <1>6, <2>1, <2>2, <2>3 DEF TypeOK
<1>8. QuarantineEmpty'
  BY <1>1, <1>2, <1>3, <1>5 DEF QuarantineEmpty, TypeOK
<1>9. BeforeStart' /\ OutcomeAgrees'
  BY <1>3 DEF BeforeStart, OutcomeAgrees, None
<1>10. QED
  BY <1>5, <1>6, <1>7, <1>8, <1>9

LEMMA CountLossType ==
    ASSUME TypeOK, QuarantineEmpty, NEW l \in Active, CountExecutorLoss(l)
    PROVE  /\ consecutive_loss_events' \in [Executors -> Nat]
           /\ loss_horizon' \in [Executors -> Nat]
           /\ sharing' \in [Executors -> SUBSET Nat]
<1>1. leases[l].executor \in Executors
  BY LeasedExecutor
<1>2. LeasesOf(leases[l].executor) \in SUBSET Nat
  <2>1. Active \subseteq Nat
    BY DEF TypeOK
  <2>2. QED
    BY <2>1, Zenon DEF LeasesOf
<1>3. QED
  BY <1>1, <1>2 DEF CountExecutorLoss, TypeOK, lossVars

(* The handlers that end in attempt_failed().                              *)
LEMMA FailingIInv ==
    ASSUME IInv,
           NEW l, \/ OnDefectiveResult(l) \/ OnInvalidResult(l) \/ OnExecutorLost(l)
                  \/ ExpireLease(l)
    PROVE  IInv'
<1> USE DEF IInv, lossVars, controlVars, envVars
<1>1. /\ l \in Active /\ failure = None /\ pc \in {"wait", "expire"}
      /\ pc' = pc /\ cursor' = cursor /\ ended' \subseteq ended
      /\ inflight' \subseteq inflight /\ declined' \subseteq declined
      /\ cancel_requested' = cancel_requested /\ rejections' = rejections
  BY DEF OnDefectiveResult, OnInvalidResult, OnExecutorLost, ExpireLease, Reported, Receiving
<1>2. \E q \in BOOLEAN : AttemptFailed(l, q)
  <2>1. LossQuarantines(l) \in BOOLEAN
    BY DEF LossQuarantines, NewLossEvent
  <2>2. QED
    BY <2>1 DEF OnDefectiveResult, OnInvalidResult, OnExecutorLost, ExpireLease
<1>3. /\ consecutive_loss_events' \in [Executors -> Nat]
      /\ loss_horizon' \in [Executors -> Nat]
      /\ sharing' \in [Executors -> SUBSET Nat]
  BY <1>1, CountLossType
     DEF OnDefectiveResult, OnInvalidResult, OnExecutorLost, ExpireLease, TypeOK
<1>4. QED
  BY <1>1, <1>2, <1>3, AttemptFailedIInv

(* on_rejected(): the task is requeued, nothing else changes.              *)
LEMMA RejectedIInv ==
    ASSUME IInv, NEW l, OnRejected(l)
    PROVE  IInv'
<1> USE DEF IInv, lossVars, controlVars, outcomeVars, observerVars
<1>1. /\ l \in Active /\ pc = "wait" /\ pc' = pc /\ UNCHANGED <<cursor, ended>>
      /\ inflight' \subseteq inflight
      /\ rejections' = rejections + 1
      /\ declined' = declined \cup {leases[l].executor}
      /\ Release({l}) /\ Requeue(Freed({l}))
      /\ UNCHANGED <<attempts_started, failed_attempts, avoid,
                     committed_output_digest, pending_dependencies, complete,
                     next_lease_number, lossVars, quarantined, outcomeVars,
                     observerVars, cancel_requested>>
  BY DEF OnRejected, Reported, Receiving
<1>2. leases[l].executor \in Executors /\ {l} \in SUBSET Active
  BY <1>1, LeasedExecutor
<1>3. \A u \in Freed({l}) : /\ u \in Tasks /\ phase[u] = "leased"
                            /\ active_leases[u] \subseteq {l}
  BY <1>1, LeasedExecutor DEF Freed, PhaseLeased
<1>4. /\ Active' = Active \ {l}
      /\ leases' \in [Active' -> Lease]
      /\ active_leases' \in [Tasks -> SUBSET Nat]
      /\ active' \in [Executors -> Nat]
      /\ \A x \in Executors : LeasesOf(x)' = LeasesOf(x) \ {l}
      /\ TaskLeases' /\ SlotCounts'
  BY <1>1, <1>2, ReleaseKeepsBooks DEF TaskLeases, SlotCounts
<1>5. /\ phase' \in [Tasks -> Phase] /\ ready_queue' \subseteq Tasks
      /\ PendingCounts' /\ PhaseComplete' /\ PhaseReady' /\ PhaseLeased'
      /\ DepsFirst' /\ CommittedExactlyOnce'
  BY <1>1, <1>2, <1>3, RequeueKeepsPhases
<1>6. TypeOK'
  BY <1>1, <1>2, <1>4, <1>5 DEF TypeOK
<1>7. QuarantineEmpty' /\ BeforeStart' /\ OutcomeAgrees'
  BY <1>1, <1>4 DEF QuarantineEmpty, BeforeStart, OutcomeAgrees, TypeOK
<1>8. QED
  BY <1>4, <1>5, <1>6, <1>7

(* A lease ends with its task's phase untouched: a failed result that is   *)
(* permanent or comes after the commit, a commit that throws, a duplicate. *)
LEMMA EndedIInv ==
    ASSUME IInv, pc = "wait", failure = None,
           NEW l \in Active, Release({l}),
           pc' = pc, cursor' = cursor, ended' = ended,
           inflight' \subseteq inflight, declined' \subseteq declined,
           \/ UNCHANGED outcomeVars
           \/ status' = "failed" /\ failure' \in FailureKind,
           consecutive_loss_events' \in [Executors -> Nat],
           verified' \in [Tasks -> SUBSET Digests],
           UNCHANGED <<phase, attempts_started, failed_attempts, avoid,
                       committed_output_digest, readyVars, next_lease_number,
                       loss_horizon, sharing, quarantined, rejections, cancel_requested,
                       sink_commits>>
    PROVE  IInv'
<1> USE DEF IInv, outcomeVars, readyVars
<1>1. /\ Active' = Active \ {l}
      /\ \A r \in Active' : leases'[r] = leases[r]
      /\ leases' \in [Active' -> Lease]
      /\ active_leases' \in [Tasks -> SUBSET Nat]
      /\ active' \in [Executors -> Nat]
      /\ \A x \in Executors : LeasesOf(x)' = LeasesOf(x) \ {l}
      /\ TaskLeases' /\ SlotCounts'
  BY ReleaseKeepsBooks DEF TaskLeases, SlotCounts
<1>2. TypeOK'
  BY <1>1 DEF TypeOK
<1>3. PendingCounts' /\ PhaseComplete' /\ PhaseReady' /\ PhaseLeased' /\ DepsFirst'
  BY <1>1 DEF PendingCounts, PhaseComplete, PhaseReady, PhaseLeased, DepsFirst
<1>4. QuarantineEmpty' /\ BeforeStart' /\ OutcomeAgrees' /\ CommittedExactlyOnce'
  BY <1>1 DEF QuarantineEmpty, BeforeStart, OutcomeAgrees, CommittedExactlyOnce,
              TypeOK, FailureKind, None
<1>5. QED
  BY <1>1, <1>2, <1>3, <1>4

LEMMA FailedResultIInv ==
    ASSUME IInv, NEW l, NEW retryable \in BOOLEAN, OnFailedResult(l, retryable)
    PROVE  IInv'
<1> USE DEF lossVars, controlVars
<1>1. /\ l \in Active /\ failure = None /\ pc = "wait"
      /\ pc' = pc /\ cursor' = cursor /\ ended' = ended
      /\ inflight' \subseteq inflight /\ declined' \subseteq declined
      /\ UNCHANGED <<lossVars, rejections, cancel_requested>>
  BY DEF OnFailedResult, Reported, Receiving
<1>2. /\ consecutive_loss_events' \in [Executors -> Nat]
      /\ loss_horizon' \in [Executors -> Nat]
      /\ sharing' \in [Executors -> SUBSET Nat]
  BY <1>1 DEF IInv, TypeOK
<1>3. CASE AttemptFailed(l, FALSE)
  BY <1>1, <1>2, <1>3, AttemptFailedIInv
<1>4. CASE ~AttemptFailed(l, FALSE)
  <2>1. /\ Release({l})
        /\ \/ UNCHANGED outcomeVars
           \/ status' = "failed" /\ failure' = "permanent_task_failure"
        /\ UNCHANGED <<phase, attempts_started, failed_attempts, avoid,
                       committed_output_digest, readyVars, next_lease_number,
                       quarantined, observerVars>>
    BY <1>4 DEF OnFailedResult
  <2>2. verified' \in [Tasks -> SUBSET Digests]
    BY <2>1 DEF observerVars, IInv, TypeOK
  <2>3. QED
    BY <1>1, <1>2, <2>1, <2>2, EndedIInv DEF observerVars, FailureKind
<1>5. QED
  BY <1>3, <1>4

LEMMA VerifiedType ==
    ASSUME IInv, NEW l, NEW d \in Digests, VerifiedSuccess(l, d)
    PROVE  /\ l \in Active /\ failure = None /\ pc = "wait"
           /\ pc' = pc /\ cursor' = cursor /\ ended' = ended
           /\ inflight' \subseteq inflight /\ declined' \subseteq declined
           /\ leases[l].task \in Tasks
           /\ Release({l})
           /\ consecutive_loss_events' \in [Executors -> Nat]
           /\ verified' \in [Tasks -> SUBSET Digests]
           /\ UNCHANGED <<attempts_started, failed_attempts, avoid,
                          next_lease_number, loss_horizon, sharing, quarantined,
                          rejections, cancel_requested>>
<1>1. l \in Active
  BY DEF VerifiedSuccess, Reported
<1>2. leases[l].task \in Tasks /\ leases[l].executor \in Executors
  BY <1>1, LeasedExecutor DEF IInv
<1>3. consecutive_loss_events' \in [Executors -> Nat]
  BY <1>2 DEF VerifiedSuccess, IInv, TypeOK
<1>4. verified' \in [Tasks -> SUBSET Digests]
  BY <1>2 DEF VerifiedSuccess, IInv, TypeOK
<1>5. QED
  BY <1>1, <1>2, <1>3, <1>4 DEF VerifiedSuccess, Reported, Receiving, controlVars

LEMMA UncommittedEndIInv ==
    ASSUME IInv, NEW l, NEW d \in Digests, OnCommitThrows(l, d) \/ OnDuplicate(l, d)
    PROVE  IInv'
<1>1. VerifiedSuccess(l, d)
  BY DEF OnCommitThrows, OnDuplicate
<1>2. /\ \/ UNCHANGED outcomeVars
         \/ status' = "failed" /\ failure' \in FailureKind
      /\ UNCHANGED <<phase, committed_output_digest, readyVars, sink_commits>>
  BY DEF OnCommitThrows, OnDuplicate, FailureKind
<1>3. QED
  BY <1>1, <1>2, VerifiedType, EndedIInv

(* commit(): the task was leased, so its dependencies are complete; the    *)
(* dependents that become ready miss no other dependency.                  *)
LEMMA CommitIInv ==
    ASSUME IInv, NEW l, NEW d \in Digests, OnCommit(l, d)
    PROVE  IInv'
<1> USE DEF IInv
<1> DEFINE t == leases[l].task
           freed == {u \in Dependents(t) : /\ pending_dependencies[u] = 1
                                           /\ phase[u] = "waiting"}
<1>1. VerifiedSuccess(l, d)
  BY DEF OnCommit
<1>2. /\ l \in Active /\ failure = None /\ pc = "wait"
      /\ pc' = pc /\ cursor' = cursor /\ ended' = ended
      /\ inflight' \subseteq inflight /\ declined' \subseteq declined
      /\ t \in Tasks
      /\ Release({l})
      /\ consecutive_loss_events' \in [Executors -> Nat]
      /\ verified' \in [Tasks -> SUBSET Digests]
      /\ UNCHANGED <<attempts_started, failed_attempts, avoid,
                     next_lease_number, loss_horizon, sharing, quarantined,
                     rejections, cancel_requested>>
  BY <1>1, VerifiedType
<1>3. /\ phase[t] = "leased" /\ t \notin complete /\ attempts_started[t] > 0
      /\ t \notin ready_queue
  BY <1>2 DEF OnCommit, PhaseLeased, PhaseComplete, PhaseReady
<1>4. /\ sink_commits' = [sink_commits EXCEPT ![t] = @ + 1]
      /\ committed_output_digest' = [committed_output_digest EXCEPT ![t] = d]
      /\ phase' = [u \in Tasks |-> IF u = t THEN "committed"
                                   ELSE IF u \in freed THEN "ready"
                                   ELSE phase[u]]
      /\ ready_queue' = (ready_queue \ {t}) \cup freed
      /\ Complete(t)
      /\ UNCHANGED outcomeVars
  BY DEF OnCommit, NewlyReady
<1>5. /\ complete' \subseteq Tasks
      /\ pending_dependencies' \in [Tasks -> Nat]
      /\ PendingCounts'
      /\ complete' = complete \cup {t}
  BY <1>2, <1>3, <1>4, CompleteKeepsCounts DEF Complete
<1>6. ASSUME NEW u \in freed
      PROVE  u \in Tasks /\ phase[u] = "waiting" /\ Deps[u] \subseteq complete'
  <2>1. u \in Tasks /\ t \in Deps[u] /\ pending_dependencies[u] = 1 /\ phase[u] = "waiting"
    BY DEF Dependents
  <2>2. pending_dependencies'[u] = 0
    BY <1>4, <2>1 DEF Complete
  <2>3. IsFiniteSet(Deps[u] \ complete') /\ Cardinality(Deps[u] \ complete') = 0
    BY <1>5, <2>1, <2>2, TasksAssumption, DepsAssumption, FS_Subset DEF PendingCounts
  <2>4. Deps[u] \ complete' = {}
    BY <2>3, FS_EmptySet
  <2>5. QED
    BY <2>1, <2>4
<1> HIDE DEF t, freed
<1>7. /\ Active' = Active \ {l}
      /\ \A r \in Active' : leases'[r] = leases[r]
      /\ leases' \in [Active' -> Lease]
      /\ active_leases' \in [Tasks -> SUBSET Nat]
      /\ active' \in [Executors -> Nat]
      /\ \A x \in Executors : LeasesOf(x)' = LeasesOf(x) \ {l}
      /\ TaskLeases' /\ SlotCounts'
  BY <1>2, ReleaseKeepsBooks DEF TaskLeases, SlotCounts
<1>8. TypeOK'
  <2>1. phase' \in [Tasks -> Phase] /\ ready_queue' \subseteq Tasks
    BY <1>4, <1>6 DEF TypeOK, Phase
  <2>2. sink_commits' \in [Tasks -> Nat] /\ committed_output_digest' \in [Tasks -> Digests \cup {None}]
    BY <1>2, <1>4 DEF TypeOK
  <2>3. QED
    BY <1>2, <1>4, <1>5, <1>7, <2>1, <2>2 DEF TypeOK, outcomeVars
<1>9. PhaseComplete' /\ PhaseReady' /\ DepsFirst'
  <2>1. \A u \in Tasks : phase'[u] = IF u = t THEN "committed"
                                     ELSE IF u \in freed THEN "ready"
                                     ELSE phase[u]
    BY <1>4
  <2>2. PhaseComplete'
    BY <1>5, <1>6, <2>1 DEF PhaseComplete
  <2>3. PhaseReady'
    BY <1>3, <1>4, <1>6, <2>1 DEF PhaseReady
  <2>4. DepsFirst'
    BY <1>5, <1>6, <2>1 DEF DepsFirst
  <2>5. QED
    BY <2>2, <2>3, <2>4
<1>10. PhaseLeased'
  <2> SUFFICES ASSUME NEW r \in Active'
               PROVE  /\ phase'[leases'[r].task] \in {"leased", "committed"}
                      /\ attempts_started'[leases'[r].task] > 0
    BY DEF PhaseLeased
  <2>1. r \in Active /\ leases'[r] = leases[r] /\ leases[r].task \in Tasks
    BY <1>7, LeasedExecutor
  <2>2. phase[leases[r].task] \in {"leased", "committed"} /\ attempts_started[leases[r].task] > 0
    BY <2>1 DEF PhaseLeased
  <2>3. leases[r].task \notin freed
    BY <1>6, <2>2
  <2>4. QED
    BY <1>2, <1>4, <2>1, <2>2, <2>3
<1>11. CommittedExactlyOnce'
  BY <1>2, <1>3, <1>4, <1>5 DEF CommittedExactlyOnce, TypeOK
<1>12. QuarantineEmpty' /\ BeforeStart' /\ OutcomeAgrees'
  BY <1>2, <1>4, <1>7 DEF QuarantineEmpty, BeforeStart, OutcomeAgrees, outcomeVars, TypeOK
<1>13. QED
  BY <1>5, <1>7, <1>8, <1>9, <1>10, <1>11, <1>12

LEMMA NextIInv == IInv /\ [Next]_vars => IInv'
<1> SUFFICES ASSUME IInv, [Next]_vars PROVE IInv'
  OBVIOUS
<1>1. CASE UNCHANGED vars
  BY <1>1, QuietIInv DEF QuietStep
<1>2. CASE \E t \in Tasks, d \in Digests : ApplyResumed(t, d)
  BY <1>2, ResumedIInv
<1>3. CASE LoopStep
  <2>1. CASE QuietStep
    BY <2>1, QuietIInv
  <2>2. CASE \E l \in ended : ExpireLease(l)
    BY <2>2, FailingIInv
  <2>3. QED
    BY <1>3, <2>1, <2>2, StartIInv, ReturnIInv, GrantIInv DEF LoopStep, QuietStep
<1>4. ASSUME NEW l \in inflight, Receive(l)
      PROVE  IInv'
  <2>1. CASE QuietStep
    BY <2>1, QuietIInv
  <2>2. CASE OnHeartbeat(l)
    BY <2>2, TimerIInv DEF TimerStep
  <2>3. CASE \E retryable \in BOOLEAN : OnFailedResult(l, retryable)
    BY <2>3, FailedResultIInv
  <2>4. CASE \E d \in Digests : OnCommit(l, d) \/ OnCommitThrows(l, d) \/ OnDuplicate(l, d)
    BY <2>4, CommitIInv, UncommittedEndIInv
  <2>5. QED
    BY <1>4, <2>1, <2>2, <2>3, <2>4, FailingIInv, RejectedIInv DEF Receive, QuietStep
<1>5. CASE \E l \in Active : LeaseLapses(l) \/ DeadlinePasses(l)
  BY <1>5, TimerIInv DEF TimerStep
<1>6. CASE QuietStep
  BY <1>6, QuietIInv
<1>7. QED
  BY <1>1, <1>2, <1>3, <1>4, <1>5, <1>6 DEF Next, QuietStep

-----------------------------------------------------------------------------

(* IInv holds in every reachable state.                                    *)
THEOREM Invariance == Spec => []IInv
<1>1. QED
  BY InitIInv, NextIInv, PTL DEF Spec

(* Type correctness of the scheduler's state: no counter of leases, slots  *)
(* or missing dependencies ever goes below zero.                           *)
THEOREM TypeCorrect == Spec => []TypeOK
<1>1. IInv => TypeOK
  BY DEF IInv
<1>2. QED
  BY <1>1, Invariance, PTL

(* leases_, active_leases and active agree, slots() is never exceeded and  *)
(* a quarantined executor holds no lease.                                  *)
THEOREM LeasesAccounted == Spec => []LeaseBookkeeping
<1>1. IInv => LeaseBookkeeping
  BY DEF IInv, LeaseBookkeeping, TaskLeases, SlotCounts, QuarantineEmpty, Running, TypeOK
<1>2. QED
  BY <1>1, Invariance, PTL

(* The sink sees each task exactly once, and a resumed task never.         *)
THEOREM ExactlyOnce == Spec => []CommittedExactlyOnce
<1>1. IInv => CommittedExactlyOnce
  BY DEF IInv
<1>2. QED
  BY <1>1, Invariance, PTL

-----------------------------------------------------------------------------
(* A committed result is final.                                            *)

LEMMA FinalStep ==
    ASSUME IInv, [Next]_vars, NEW t \in Tasks, phase[t] = "committed"
    PROVE  /\ phase'[t] = "committed"
           /\ committed_output_digest'[t] = committed_output_digest[t]
<1> USE DEF taskVars, readyVars, outcomeVars
<1>1. ASSUME NEW l \in Active, NEW q \in BOOLEAN, AttemptFailed(l, q)
      PROVE  /\ phase'[t] = "committed"
             /\ committed_output_digest'[t] = committed_output_digest[t]
  BY <1>1 DEF AttemptFailed, Requeue, Freed
<1>2. CASE \E u \in Tasks, d \in Digests : ApplyResumed(u, d)
  BY <1>2 DEF ApplyResumed, IInv, TypeOK
<1>3. CASE LoopStep
  <2>1. CASE \E l \in ended : ExpireLease(l)
    <3>1. PICK l \in Active : AttemptFailed(l, LossQuarantines(l))
      BY <2>1 DEF ExpireLease
    <3>2. LossQuarantines(l) \in BOOLEAN
      BY DEF LossQuarantines, NewLossEvent
    <3>3. QED
      BY <1>1, <3>1, <3>2
  <2>2. CASE DispatchGrant \/ SpeculativeGrant
    <3>1. PICK u \in Tasks : /\ u # t
                             /\ phase' = [phase EXCEPT ![u] = "leased"]
                             /\ UNCHANGED committed_output_digest
      BY <2>2, LeasedExecutor
         DEF DispatchGrant, SpeculativeGrant, Grant, Pickable, Duplicable, IInv, PhaseReady
    <3>2. QED
      BY <3>1 DEF IInv, TypeOK
  <2>3. CASE Start
    BY <2>3 DEF Start, FirstReady
  <2>4. CASE Cancelled \/ Succeed \/ ReturnFailed \/ BeginDispatch \/ NextExecutor
             \/ CheckUsable \/ BeginExpire \/ EndExpire
    BY <2>4 DEF Cancelled, Succeed, ReturnFailed, BeginDispatch, NextExecutor,
                CheckUsable, BeginExpire, EndExpire
  <2>5. QED
    BY <1>3, <2>1, <2>2, <2>3, <2>4 DEF LoopStep
<1>4. ASSUME NEW l \in inflight, Receive(l)
      PROVE  /\ phase'[t] = "committed"
             /\ committed_output_digest'[t] = committed_output_digest[t]
  <2>1. CASE IgnoreStaleReport(l) \/ OnHeartbeat(l)
    BY <2>1 DEF IgnoreStaleReport, OnHeartbeat
  <2>2. CASE OnDefectiveResult(l) \/ OnInvalidResult(l) \/ OnExecutorLost(l)
    <3>1. l \in Active /\ \E q \in BOOLEAN : AttemptFailed(l, q)
      BY <2>2 DEF OnDefectiveResult, OnInvalidResult, OnExecutorLost, Reported,
                  LossQuarantines, NewLossEvent
    <3>2. QED
      BY <1>1, <3>1
  <2>3. CASE OnRejected(l)
    BY <2>3 DEF OnRejected, Requeue, Freed
  <2>4. CASE \E retryable \in BOOLEAN : OnFailedResult(l, retryable)
    <3>1. l \in Active
      BY <2>4 DEF OnFailedResult, Reported
    <3>2. CASE AttemptFailed(l, FALSE)
      BY <1>1, <3>1, <3>2
    <3>3. CASE ~AttemptFailed(l, FALSE)
      BY <2>4, <3>3 DEF OnFailedResult
    <3>4. QED
      BY <3>2, <3>3
  <2>5. CASE \E d \in Digests : OnCommit(l, d) \/ OnCommitThrows(l, d) \/ OnDuplicate(l, d)
    <3>1. PICK d \in Digests : OnCommit(l, d) \/ OnCommitThrows(l, d) \/ OnDuplicate(l, d)
      BY <2>5
    <3>2. CASE OnCommit(l, d)
      <4>1. leases[l].task \in Tasks /\ leases[l].task # t
        BY <3>2, VerifiedType DEF OnCommit
      <4>2. QED
        BY <3>2, <4>1 DEF OnCommit, NewlyReady, IInv, TypeOK
    <3>3. CASE OnCommitThrows(l, d) \/ OnDuplicate(l, d)
      BY <3>3 DEF OnCommitThrows, OnDuplicate
    <3>4. QED
      BY <3>1, <3>2, <3>3
  <2>6. QED
    BY <1>4, <2>1, <2>2, <2>3, <2>4, <2>5 DEF Receive
<1>5. CASE \/ \E l \in Active : LeaseLapses(l) \/ DeadlinePasses(l)
           \/ \E e \in Executors : BackoffElapses(e)
           \/ RefuseResumed \/ RequestCancel \/ Terminated \/ UNCHANGED vars
  BY <1>5 DEF LeaseLapses, DeadlinePasses, BackoffElapses, RefuseResumed,
              RequestCancel, Terminated, vars
<1>6. QED
  BY <1>2, <1>3, <1>4, <1>5 DEF Next

(* No step of the scheduler takes a committed task back or replaces its    *)
(* digest.                                                                 *)
THEOREM CommitsAreFinal == Spec => CommitIsFinal
<1>1. IInv /\ [Next]_vars =>
        [\A t \in Tasks : phase[t] = "committed" =>
            /\ phase'[t] = "committed"
            /\ committed_output_digest'[t] = committed_output_digest[t]]_vars
  BY FinalStep
<1>2. QED
  BY <1>1, Invariance, PTL DEF Spec, CommitIsFinal

-----------------------------------------------------------------------------
(* The scheduler implements BuildContract.                                 *)

LEMMA ContractInitially == Init => Contract!ContractInit
BY DEF Init, Contract!ContractInit, Stage

(* A step that is inside the loop before and after, and commits nothing,   *)
(* changes nothing the contract sees.                                      *)
LEMMA InvisibleStep ==
    ASSUME pc \notin {"resume", "threw", "done"}, pc' \notin {"resume", "threw", "done"},
           UNCHANGED <<complete, sink_commits>>
    PROVE  UNCHANGED Contract!contractVars
BY DEF Contract!contractVars, Stage

LEMMA ContractStep ==
    IInv /\ [Next]_vars => [Contract!ContractNext]_Contract!contractVars
<1> SUFFICES ASSUME IInv, [Next]_vars
             PROVE  [Contract!ContractNext]_Contract!contractVars
  OBVIOUS
<1> USE DEF taskVars, readyVars, outcomeVars, controlVars, envVars, observerVars
<1>1. CASE \E t \in Tasks, d \in Digests : ApplyResumed(t, d)
  <2>1. PICK t \in Tasks : /\ pc = "resume" /\ pc' = "resume"
                           /\ t \notin complete /\ complete' = complete \cup {t}
                           /\ sink_commits' = sink_commits
    BY <1>1 DEF ApplyResumed, Complete, IInv, PhaseComplete
  <2>2. Contract!TakeOver(t)
    BY <2>1 DEF Contract!TakeOver, Stage
  <2>3. QED
    BY <2>2 DEF Contract!ContractNext
<1>2. CASE RefuseResumed
  BY <1>2 DEF RefuseResumed, Contract!ContractNext, Contract!Refuse, Stage
<1>3. CASE Start
  BY <1>3 DEF Start, Contract!ContractNext, Contract!Begin, Stage
<1>4. CASE Cancelled \/ Succeed \/ ReturnFailed
  <2>1. /\ pc \notin {"resume", "threw", "done"} /\ pc' = "done"
        /\ status' \in {"succeeded", "failed", "cancelled"}
        /\ status' = "succeeded" => complete = Tasks
        /\ UNCHANGED <<complete, sink_commits>>
    BY <1>4 DEF Cancelled, Succeed, ReturnFailed, Return, AllComplete, IInv,
                OutcomeAgrees, BeforeStart
  <2>2. Contract!End(status')
    BY <2>1 DEF Contract!End, Stage
  <2>3. QED
    BY <2>1, <2>2 DEF Contract!ContractNext
<1>5. CASE \E l \in inflight, d \in Digests : OnCommit(l, d)
  <2>1. PICK l \in inflight, d \in Digests : OnCommit(l, d)
    BY <1>5
  <2>2. /\ leases[l].task \in Tasks /\ pc = "wait" /\ pc' = pc /\ l \in Active
    BY <2>1, VerifiedType DEF OnCommit
  <2>3. /\ leases[l].task \notin complete
        /\ Deps[leases[l].task] \subseteq complete
    BY <2>1, <2>2 DEF OnCommit, IInv, PhaseLeased, PhaseComplete, DepsFirst
  <2>4. Contract!Commit(leases[l].task)
    BY <2>1, <2>2, <2>3 DEF OnCommit, Complete, Contract!Commit, Stage
  <2>5. QED
    BY <2>2, <2>4 DEF Contract!ContractNext
<1>6. CASE Terminated \/ UNCHANGED vars
  BY <1>6 DEF Terminated, vars, Contract!contractVars, Stage
<1>7. CASE BeginDispatch \/ DispatchGrant \/ SpeculativeGrant \/ NextExecutor \/ CheckUsable
           \/ BeginExpire \/ (\E l \in ended : ExpireLease(l)) \/ EndExpire
  <2>1. /\ pc \notin {"resume", "threw", "done"} /\ pc' \notin {"resume", "threw", "done"}
        /\ UNCHANGED <<complete, sink_commits>>
    BY <1>7 DEF BeginDispatch, DispatchGrant, SpeculativeGrant, Grant, NextExecutor,
                CheckUsable, BeginExpire, ExpireLease, AttemptFailed, EndExpire
  <2>2. QED
    BY <2>1, InvisibleStep
<1>8. CASE \/ \E l \in inflight : Receive(l) /\ ~\E d \in Digests : OnCommit(l, d)
           \/ \E l \in Active : LeaseLapses(l) \/ DeadlinePasses(l)
           \/ \E e \in Executors : BackoffElapses(e)
           \/ RequestCancel
  <2> DEFINE Quiet == /\ pc \notin {"resume", "threw", "done"} /\ pc' = pc
                      /\ UNCHANGED <<complete, sink_commits>>
  <2>1. ASSUME NEW l \in inflight, IgnoreStaleReport(l) \/ OnHeartbeat(l)
        PROVE  Quiet
    BY <2>1 DEF IgnoreStaleReport, OnHeartbeat, Receiving
  <2>2. ASSUME NEW l \in inflight, OnDefectiveResult(l) \/ OnInvalidResult(l)
        PROVE  Quiet
    BY <2>2 DEF OnDefectiveResult, OnInvalidResult, Reported, Receiving, AttemptFailed
  <2>3. ASSUME NEW l \in inflight, OnExecutorLost(l)
        PROVE  Quiet
    BY <2>3 DEF OnExecutorLost, Reported, Receiving, AttemptFailed
  <2>4. ASSUME NEW l \in inflight, OnRejected(l)
        PROVE  Quiet
    BY <2>4 DEF OnRejected, Reported, Receiving
  <2>5. ASSUME NEW l \in inflight, NEW retryable \in BOOLEAN, OnFailedResult(l, retryable)
        PROVE  Quiet
    BY <2>5 DEF OnFailedResult, Reported, Receiving, AttemptFailed
  <2>6. ASSUME NEW l \in inflight, NEW d \in Digests,
               OnCommitThrows(l, d) \/ OnDuplicate(l, d)
        PROVE  Quiet
    BY <2>6 DEF OnCommitThrows, OnDuplicate, VerifiedSuccess, Reported, Receiving
  <2>7. ASSUME \/ \E l \in Active : LeaseLapses(l) \/ DeadlinePasses(l)
               \/ \E e \in Executors : BackoffElapses(e)
               \/ RequestCancel
        PROVE  Quiet
    BY <2>7 DEF LeaseLapses, DeadlinePasses, BackoffElapses, RequestCancel, Running
  <2>8. Quiet
    <3> HIDE DEF Quiet
    <3> QED
      BY <1>8, <2>1, <2>2, <2>3, <2>4, <2>5, <2>6, <2>7 DEF Receive
  <2>9. QED
    BY <2>8, InvisibleStep
<1>9. QED
  BY <1>1, <1>2, <1>3, <1>4, <1>5, <1>6, <1>7, <1>8 DEF Next, LoopStep

(* Seen from the sink and the caller, Scheduler::run() does what           *)
(* BuildContract allows, for every graph, fleet and policy.                *)
THEOREM Implementation == Spec => ImplementsContract
<1>1. QED
  BY ContractInitially, ContractStep, Invariance, PTL
     DEF Spec, ImplementsContract, Contract!ContractSpec

=============================================================================
