------------------------------ MODULE Scheduler ------------------------------
(***************************************************************************)
(* The task scheduler of packages/svp-exec: one Scheduler::run().          *)
(*                                                                         *)
(* SchedulerRun is single-threaded.  Executors report through an inbox     *)
(* that the loop drains between two dispatch rounds, so a handler is one   *)
(* atomic step here, and everything an executor may still report is a      *)
(* lease id in `inflight`: its events arrive in any order and at any later *)
(* round, also after the scheduler abandoned the lease.                    *)
(*                                                                         *)
(* The clock is abstracted to what the code compares: a lease's timer is   *)
(* "running", "lapsed" (expires_at <= now) or "deadline" (deadline_at <=   *)
(* now); `declined` holds the executors whose declined_until is later than *)
(* now.  Time passes between any two steps of the loop.                    *)
(***************************************************************************)
EXTENDS Naturals, FiniteSets

CONSTANTS
    Tasks,               \* the nodes of the TaskGraph
    Deps,                \* Deps[t]: the tasks t depends on
    Rank,                \* Rank[t]: position of t in ReadyQueue order
    NumExecutors,        \* executors are indices, in the order given to run()
    Slots,               \* Slots[e]: Executor::slots()
    Accepts,             \* Accepts[e]: the tasks Executor::accepts()
    RepeatedLosses,      \* executors whose LossQuarantine is after_repeated_losses
    MaxAttempts,         \* max_attempts_for(policy, task type), per task
    QuarantineAfter,     \* RetryPolicy::quarantine_after_loss_events
    PreferDifferent,     \* RetryPolicy::prefer_different_executor
    Speculative,         \* SchedulerPolicy::speculative_duplicates
    Digests,             \* output digests a task function may produce
    MaxRejections        \* bound: lease rejections in one run

Executors == 1..NumExecutors

ASSUME TasksAssumption == IsFiniteSet(Tasks)
ASSUME DepsAssumption == Deps \in [Tasks -> SUBSET Tasks]
ASSUME RankAssumption ==
    /\ Rank \in [Tasks -> Nat]
    /\ \A t, u \in Tasks : Rank[t] = Rank[u] => t = u
ASSUME ExecutorsAssumption ==
    /\ NumExecutors \in Nat \ {0}
    /\ Slots \in [Executors -> Nat \ {0}]
    /\ Accepts \in [Executors -> SUBSET Tasks]
    /\ RepeatedLosses \subseteq Executors
ASSUME PolicyAssumption ==
    /\ MaxAttempts \in [Tasks -> Nat \ {0}]
    /\ QuarantineAfter \in Nat \ {0}
    /\ PreferDifferent \in BOOLEAN
    /\ Speculative \in BOOLEAN
    /\ MaxRejections \in Nat

None == "none"
ASSUME DigestsAssumption == None \notin Digests

VARIABLES
    pc,                  \* where execute() is
    cursor,              \* the executor index of the dispatch loops
    (* TaskRecord *)
    phase, attempts_started, failed_attempts, avoid, active_leases,
    committed_output_digest,
    (* ReadySet and ReadyQueue *)
    pending_dependencies, complete, ready_queue,
    (* leases_ and next_lease_number_; a lease id is its grant_sequence *)
    leases, next_lease_number,
    (* ExecutorRecord *)
    active, consecutive_loss_events, loss_horizon, quarantined, declined,
    (* BuildOutcome *)
    status, failure,
    ended,               \* the lease ids expire_leases() collected
    (* environment *)
    inflight,            \* leases an executor may still report on
    rejections,          \* leases rejected so far
    cancel_requested,    \* the CancellationToken
    (* observers *)
    sink_commits,        \* successful sink_.commit() calls, per task
    verified,            \* digests of the verified successes, per task
    sharing              \* leases held at the latest counted loss, per executor

taskVars == <<phase, attempts_started, failed_attempts, avoid, active_leases,
              committed_output_digest>>
readyVars == <<pending_dependencies, complete, ready_queue>>
leaseVars == <<leases, next_lease_number>>
lossVars == <<consecutive_loss_events, loss_horizon, sharing>>
executorVars == <<active, lossVars, quarantined, declined>>
outcomeVars == <<status, failure>>
controlVars == <<pc, cursor, ended>>
envVars == <<inflight, rejections, cancel_requested>>
observerVars == <<sink_commits, verified>>
vars == <<taskVars, readyVars, leaseVars, executorVars, outcomeVars,
          controlVars, envVars, observerVars>>

Lease == [task : Tasks, executor : Executors, speculative : BOOLEAN,
          timer : {"running", "lapsed", "deadline"}]
Phase == {"waiting", "ready", "leased", "committed"}
FailureKind == {"no_usable_executor", "permanent_task_failure",
                "retries_exhausted", "commit_failed", "determinism_incident"}

Active == DOMAIN leases
LeasesOf(e) == {l \in Active : leases[l].executor = e}
Dependents(t) == {u \in Tasks : t \in Deps[u]}

TypeOK ==
    /\ pc \in {"resume", "loop", "dispatch", "speculate", "check", "wait",
               "expire", "done", "threw"}
    /\ cursor \in Executors
    /\ phase \in [Tasks -> Phase]
    /\ attempts_started \in [Tasks -> Nat]
    /\ failed_attempts \in [Tasks -> Nat]
    /\ avoid \in [Tasks -> SUBSET Executors]
    /\ active_leases \in [Tasks -> SUBSET Nat]
    /\ committed_output_digest \in [Tasks -> Digests \cup {None}]
    /\ pending_dependencies \in [Tasks -> Nat]
    /\ complete \subseteq Tasks
    /\ ready_queue \subseteq Tasks
    /\ next_lease_number \in Nat \ {0}
    /\ Active \subseteq 1..(next_lease_number - 1)
    /\ leases \in [Active -> Lease]
    /\ active \in [Executors -> Nat]
    /\ consecutive_loss_events \in [Executors -> Nat]
    /\ loss_horizon \in [Executors -> Nat]
    /\ sharing \in [Executors -> SUBSET Nat]
    /\ quarantined \subseteq Executors
    /\ declined \subseteq Executors
    /\ status \in {"running", "succeeded", "failed", "cancelled"}
    /\ failure \in FailureKind \cup {None}
    /\ ended \subseteq Nat
    /\ inflight \subseteq 1..(next_lease_number - 1)
    /\ rejections \in Nat
    /\ cancel_requested \in BOOLEAN
    /\ sink_commits \in [Tasks -> Nat]
    /\ verified \in [Tasks -> SUBSET Digests]

Init ==
    /\ pc = "resume"
    /\ cursor = 1
    /\ phase = [t \in Tasks |-> "waiting"]
    /\ attempts_started = [t \in Tasks |-> 0]
    /\ failed_attempts = [t \in Tasks |-> 0]
    /\ avoid = [t \in Tasks |-> {}]
    /\ active_leases = [t \in Tasks |-> {}]
    /\ committed_output_digest = [t \in Tasks |-> None]
    /\ pending_dependencies = [t \in Tasks |-> Cardinality(Deps[t])]
    /\ complete = {}
    /\ ready_queue = {}
    /\ leases = [l \in {} |-> None]
    /\ next_lease_number = 1
    /\ active = [e \in Executors |-> 0]
    /\ consecutive_loss_events = [e \in Executors |-> 0]
    /\ loss_horizon = [e \in Executors |-> 0]
    /\ sharing = [e \in Executors |-> {}]
    /\ quarantined = {}
    /\ declined = {}
    /\ status = "running"
    /\ failure = None
    /\ ended = {}
    /\ inflight = {}
    /\ rejections = 0
    /\ cancel_requested = FALSE
    /\ sink_commits = [t \in Tasks |-> 0]
    /\ verified = [t \in Tasks |-> {}]

-----------------------------------------------------------------------------
(* Resumed results, and the head of execute().                             *)

(* ReadySet::complete(t): t is complete and its dependents wait for one    *)
(* task less.                                                              *)
Complete(t) ==
    /\ complete' = complete \cup {t}
    /\ pending_dependencies' =
         [u \in Tasks |-> IF t \in Deps[u] THEN pending_dependencies[u] - 1
                                           ELSE pending_dependencies[u]]

(* One CommittedResult of the span handed to apply_resumed().  The resumed *)
(* set need not be closed under dependencies: journal resume may demote a  *)
(* dependency and keep its dependents.                                     *)
ApplyResumed(t, d) ==
    /\ pc = "resume"
    /\ phase[t] # "committed"
    /\ phase' = [phase EXCEPT ![t] = "committed"]
    /\ committed_output_digest' = [committed_output_digest EXCEPT ![t] = d]
    /\ Complete(t)
    /\ UNCHANGED <<attempts_started, failed_attempts, avoid, active_leases,
                   ready_queue, leaseVars, executorVars, outcomeVars,
                   controlVars, envVars, observerVars>>

(* A resumed result that names no task, repeats one, fails verification or *)
(* is not a success: apply_resumed() throws before any executor starts.    *)
RefuseResumed ==
    /\ pc = "resume"
    /\ pc' = "threw"
    /\ UNCHANGED <<taskVars, readyVars, leaseVars, executorVars, outcomeVars,
                   cursor, ended, envVars, observerVars>>

(* Mutants of FirstReady: resumed tasks are queued too; a task is queued   *)
(* before its dependencies are complete.                                   *)
FirstReadyWithResumed == {t \in Tasks : Deps[t] \subseteq complete}
FirstReadyTooEarly == {t \in Tasks : phase[t] = "waiting"}

(* The tasks execute() queues before its loop.                             *)
FirstReady == {t \in Tasks : phase[t] = "waiting" /\ Deps[t] \subseteq complete}

Start ==
    /\ pc = "resume"
    /\ pc' = "loop"
    /\ phase' = [t \in Tasks |-> IF t \in FirstReady THEN "ready" ELSE phase[t]]
    /\ ready_queue' = ready_queue \cup FirstReady
    /\ UNCHANGED <<attempts_started, failed_attempts, avoid, active_leases,
                   committed_output_digest, pending_dependencies, complete,
                   leaseVars, executorVars, outcomeVars, cursor, ended,
                   envVars, observerVars>>

-----------------------------------------------------------------------------
(* The top of the loop, and the ways out of it.                            *)

(* abandon_outstanding_leases(), then run() stops the executors: nothing   *)
(* is reported any more.                                                   *)
Return ==
    /\ pc' = "done"
    /\ leases' = [l \in {} |-> None]
    /\ inflight' = {}

AllComplete == complete = Tasks

Cancelled ==
    /\ pc = "loop" /\ failure = None
    /\ cancel_requested
    /\ status' = "cancelled"
    /\ Return
    /\ UNCHANGED <<taskVars, readyVars, next_lease_number, executorVars, failure,
                   cursor, ended, rejections, cancel_requested, observerVars>>

Succeed ==
    /\ pc = "loop" /\ failure = None
    /\ ~cancel_requested
    /\ AllComplete /\ Active = {}
    /\ status' = "succeeded"
    /\ Return
    /\ UNCHANGED <<taskVars, readyVars, next_lease_number, executorVars, failure,
                   cursor, ended, rejections, cancel_requested, observerVars>>

(* Once fail_build() ran, the rest of the batch and of the expired leases  *)
(* is skipped and the loop ends.                                           *)
ReturnFailed ==
    /\ pc \notin {"done", "threw"} /\ failure # None
    /\ Return
    /\ UNCHANGED <<taskVars, readyVars, next_lease_number, executorVars,
                   outcomeVars, cursor, ended, rejections, cancel_requested,
                   observerVars>>

(* Mutant of BeginDispatch: the round starts without a look at the token.  *)
BeginDispatchUnasked ==
    /\ pc = "loop" /\ failure = None
    /\ ~(AllComplete /\ Active = {})
    /\ pc' = "dispatch"
    /\ cursor' = 1
    /\ UNCHANGED <<taskVars, readyVars, leaseVars, executorVars, outcomeVars,
                   ended, envVars, observerVars>>

BeginDispatch ==
    /\ pc = "loop" /\ failure = None
    /\ ~cancel_requested
    /\ ~(AllComplete /\ Active = {})
    /\ pc' = "dispatch"
    /\ cursor' = 1
    /\ UNCHANGED <<taskVars, readyVars, leaseVars, executorVars, outcomeVars,
                   ended, envVars, observerVars>>

-----------------------------------------------------------------------------
(* Dispatch.                                                               *)

HasOtherUsableExecutor(t, e) ==
    \E o \in Executors \ {e} :
        o \notin quarantined /\ o \notin avoid[t] /\ t \in Accepts[o]

(* The ready tasks pick_task(e) does not pass over; it takes the first.    *)
Pickable(e) ==
    {t \in ready_queue : /\ t \in Accepts[e]
                         /\ \/ ~PreferDifferent
                            \/ e \notin avoid[t]
                            \/ ~HasOtherUsableExecutor(t, e)}

(* Leases of other executors that dispatch_speculative may duplicate on e. *)
Duplicable(e) ==
    {l \in Active : LET t == leases[l].task IN
                    /\ leases[l].executor # e
                    /\ phase[t] # "committed"
                    /\ Cardinality(active_leases[t]) = 1
                    /\ e \notin avoid[t]
                    /\ t \in Accepts[e]}

HasFreeSlot(e) ==
    e \notin declined /\ e \notin quarantined /\ active[e] < Slots[e]

Grant(t, e, speculative) ==
    LET l == next_lease_number
        new == [task |-> t, executor |-> e, speculative |-> speculative,
                timer |-> "running"]
    IN  /\ leases' = [r \in Active \cup {l} |-> IF r = l THEN new ELSE leases[r]]
        /\ next_lease_number' = l + 1
        /\ phase' = [phase EXCEPT ![t] = "leased"]
        /\ attempts_started' = [attempts_started EXCEPT ![t] = @ + 1]
        /\ active_leases' = [active_leases EXCEPT ![t] = @ \cup {l}]
        /\ ready_queue' = ready_queue \ {t}
        /\ active' = [active EXCEPT ![e] = @ + 1]
        /\ inflight' = inflight \cup {l}
        /\ UNCHANGED <<failed_attempts, avoid, committed_output_digest,
                       pending_dependencies, complete, lossVars, quarantined,
                       declined, outcomeVars, controlVars, rejections,
                       cancel_requested, observerVars>>

DispatchGrant ==
    /\ pc = "dispatch" /\ failure = None
    /\ HasFreeSlot(cursor)
    /\ \E t \in Pickable(cursor) :
         /\ \A u \in Pickable(cursor) : Rank[t] <= Rank[u]
         /\ Grant(t, cursor, FALSE)

(* The longest-running candidate is duplicated: granted_at never decreases *)
(* from one lease number to the next.  Leases granted within one clock     *)
(* tick are taken in lease number order.                                   *)
SpeculativeGrant ==
    /\ pc = "speculate" /\ failure = None
    /\ HasFreeSlot(cursor)
    /\ \E l \in Duplicable(cursor) :
         /\ \A r \in Duplicable(cursor) : l <= r
         /\ Grant(leases[l].task, cursor, TRUE)

(* The executor at the cursor takes nothing more.  After the last one the  *)
(* speculative pass runs if nothing is ready, and then the check that the  *)
(* build can still make progress.                                          *)
NextExecutor ==
    /\ failure = None
    /\ \/ pc = "dispatch" /\ ~(HasFreeSlot(cursor) /\ Pickable(cursor) # {})
       \/ pc = "speculate" /\ ~(HasFreeSlot(cursor) /\ Duplicable(cursor) # {})
    /\ IF cursor < NumExecutors
         THEN cursor' = cursor + 1 /\ pc' = pc
         ELSE /\ cursor' = 1
              /\ pc' = IF pc = "dispatch" /\ Speculative /\ ready_queue = {}
                         THEN "speculate" ELSE "check"
    /\ UNCHANGED <<taskVars, readyVars, leaseVars, executorVars, outcomeVars,
                   ended, envVars, observerVars>>

NobodyDeclining == declined \subseteq quarantined

CheckUsable ==
    /\ pc = "check" /\ failure = None
    /\ \/ /\ Active = {} /\ NobodyDeclining
          /\ status' = "failed" /\ failure' = "no_usable_executor"
          /\ pc' = pc
       \/ /\ ~(Active = {} /\ NobodyDeclining)
          /\ pc' = "wait"
          /\ UNCHANGED outcomeVars
    /\ UNCHANGED <<taskVars, readyVars, leaseVars, executorVars, cursor, ended,
                   envVars, observerVars>>

-----------------------------------------------------------------------------
(* Ending leases.                                                          *)

(* Mutant of Release: every executor gives back the slots.                 *)
ReleaseAllExecutors(R) ==
    /\ leases' = [r \in Active \ R |-> leases[r]]
    /\ active' = [e \in Executors |-> active[e] - Cardinality(R)]
    /\ active_leases' = [t \in Tasks |-> active_leases[t] \ R]

(* release() of every lease in R.                                          *)
Release(R) ==
    /\ leases' = [r \in Active \ R |-> leases[r]]
    /\ active' = [e \in Executors |-> active[e] - Cardinality(LeasesOf(e) \cap R)]
    /\ active_leases' = [t \in Tasks |-> active_leases[t] \ R]

(* Mutants of Freed: active_leases is read before the release; a           *)
(* committed task is not excepted.                                         *)
FreedBeforeRelease(R) ==
    {t \in {leases[r].task : r \in R} : /\ phase[t] # "committed"
                                        /\ active_leases[t] = {}}
FreedThoughCommitted(R) ==
    {t \in {leases[r].task : r \in R} : active_leases[t] \subseteq R}

(* The tasks of the leases R that nothing else is running: released and    *)
(* not committed, they go back to the ready queue.                         *)
Freed(R) ==
    {t \in {leases[r].task : r \in R} : /\ phase[t] # "committed"
                                        /\ active_leases[t] \subseteq R}

Requeue(S) ==
    /\ phase' = [t \in Tasks |-> IF t \in S THEN "ready" ELSE phase[t]]
    /\ ready_queue' = ready_queue \cup S

(* Mutant of Abandoned: quarantine() leaves the other leases running.      *)
AbandonedNone(l, quarantining) == {}

(* The leases quarantine() abandons besides l, the one that just ended.    *)
Abandoned(l, quarantining) ==
    IF quarantining /\ leases[l].executor \notin quarantined
      THEN LeasesOf(leases[l].executor) \ {l} ELSE {}

(* Mutant of Exhausted: off by one.                                        *)
ExhaustedOneLate(t) == failed_attempts[t] + 1 > MaxAttempts[t]

(* The attempt of t that just failed was its last one.                     *)
Exhausted(t) == failed_attempts[t] + 1 >= MaxAttempts[t]

(* release(l), then quarantine() of its executor if `quarantining`, then   *)
(* attempt_failed() for its task.  An abandoned lease costs its task no    *)
(* attempt, but the task avoids the executor.                              *)
AttemptFailed(l, quarantining) ==
    LET t == leases[l].task
        e == leases[l].executor
        abandoned == Abandoned(l, quarantining)
        gone == abandoned \cup {l}
        idle == phase[t] # "committed" /\ active_leases[t] \subseteq gone
        exhausted == idle /\ Exhausted(t)
        retried == IF idle /\ ~exhausted THEN {t} ELSE {}
        avoiding == {leases[r].task : r \in gone}
    IN  /\ Release(gone)
        /\ quarantined' = IF quarantining THEN quarantined \cup {e} ELSE quarantined
        /\ failed_attempts' = [failed_attempts EXCEPT ![t] = @ + 1]
        /\ avoid' = [u \in Tasks |-> IF u \in avoiding THEN avoid[u] \cup {e}
                                                       ELSE avoid[u]]
        /\ Requeue((Freed(gone) \cap {leases[r].task : r \in abandoned})
                     \cup retried)
        /\ IF exhausted
             THEN status' = "failed" /\ failure' = "retries_exhausted"
             ELSE UNCHANGED outcomeVars
        /\ UNCHANGED <<attempts_started, committed_output_digest,
                       pending_dependencies, complete, next_lease_number,
                       observerVars>>

(* count_executor_loss(): a lease granted before the loss horizon belongs  *)
(* to a loss event that is already counted.                                *)
NewLossEvent(l) ==
    /\ leases[l].executor \in RepeatedLosses
    /\ l >= loss_horizon[leases[l].executor]

LossQuarantines(l) ==
    /\ NewLossEvent(l)
    /\ consecutive_loss_events[leases[l].executor] + 1 >= QuarantineAfter

(* Mutant of CountExecutorLoss: every lost lease is counted.               *)
CountExecutorLossEach(l) ==
    LET e == leases[l].executor
    IN  IF e \in RepeatedLosses
          THEN /\ consecutive_loss_events' = [consecutive_loss_events EXCEPT ![e] = @ + 1]
               /\ loss_horizon' = [loss_horizon EXCEPT ![e] = next_lease_number]
               /\ sharing' = [sharing EXCEPT ![e] = LeasesOf(e)]
          ELSE UNCHANGED lossVars

CountExecutorLoss(l) ==
    LET e == leases[l].executor
    IN  IF NewLossEvent(l)
          THEN /\ consecutive_loss_events' = [consecutive_loss_events EXCEPT ![e] = @ + 1]
               /\ loss_horizon' = [loss_horizon EXCEPT ![e] = next_lease_number]
               /\ sharing' = [sharing EXCEPT ![e] = LeasesOf(e)]
          ELSE UNCHANGED lossVars

-----------------------------------------------------------------------------
(* apply(): the events of one lease.  Every event of a lease that is not   *)
(* in leases_ any more is ignored.                                         *)

Receiving(l) == pc = "wait" /\ failure = None /\ l \in inflight

(* What on_finished, on_failed and on_rejected share: the executor has     *)
(* made its one report, and its lease is still held.                       *)
Reported(l) ==
    /\ Receiving(l)
    /\ l \in Active
    /\ inflight' = inflight \ {l}
    /\ UNCHANGED <<controlVars, cancel_requested>>

IgnoreStaleReport(l) ==
    /\ Receiving(l)
    /\ l \notin Active
    /\ inflight' = inflight \ {l}
    /\ UNCHANGED <<taskVars, readyVars, leaseVars, executorVars, outcomeVars,
                   controlVars, rejections, cancel_requested, observerVars>>

OnHeartbeat(l) ==
    /\ Receiving(l)
    /\ l \in Active
    /\ leases[l].timer = "lapsed"
    /\ leases' = [leases EXCEPT ![l].timer = "running"]
    /\ UNCHANGED <<taskVars, readyVars, next_lease_number, executorVars,
                   outcomeVars, controlVars, envVars, observerVars>>

(* on_finished() with a result that find_result_defect() refuses.          *)
OnDefectiveResult(l) ==
    /\ Reported(l)
    /\ declined' = declined \ {leases[l].executor}
    /\ AttemptFailed(l, TRUE)
    /\ UNCHANGED <<lossVars, rejections>>

(* on_finished() with a verified result that reports a failure.            *)
OnFailedResult(l, retryable) ==
    /\ Reported(l)
    /\ declined' = declined \ {leases[l].executor}
    /\ IF phase[leases[l].task] # "committed" /\ retryable
         THEN AttemptFailed(l, FALSE)
         ELSE /\ Release({l})
              /\ IF phase[leases[l].task] # "committed"
                   THEN status' = "failed" /\ failure' = "permanent_task_failure"
                   ELSE UNCHANGED outcomeVars
              /\ UNCHANGED <<phase, attempts_started, failed_attempts, avoid,
                             committed_output_digest, readyVars,
                             next_lease_number, quarantined, observerVars>>
    /\ UNCHANGED <<lossVars, rejections>>

(* on_verified_success(): release, note_executor_recovery, and commit the  *)
(* first result of the task or compare a later one with it.                *)
VerifiedSuccess(l, d) ==
    LET t == leases[l].task
        e == leases[l].executor
    IN  /\ Reported(l)
        /\ Release({l})
        /\ declined' = declined \ {e}
        /\ consecutive_loss_events' =
             IF l >= loss_horizon[e]
               THEN [consecutive_loss_events EXCEPT ![e] = 0]
               ELSE consecutive_loss_events
        /\ verified' = [verified EXCEPT ![t] = @ \cup {d}]
        /\ UNCHANGED <<attempts_started, failed_attempts, avoid,
                       next_lease_number, loss_horizon, sharing, quarantined, rejections>>

(* mark_ready_dependents(): the dependents whose last dependency t was.    *)
NewlyReady(t) ==
    {u \in Dependents(t) : pending_dependencies[u] = 1 /\ phase[u] = "waiting"}

(* Mutant of OnCommit: every verified result is committed.                 *)
OnCommitEach(l, d) ==
    LET t == leases[l].task
    IN  /\ VerifiedSuccess(l, d)
        /\ sink_commits' = [sink_commits EXCEPT ![t] = @ + 1]
        /\ committed_output_digest' = [committed_output_digest EXCEPT ![t] = d]
        /\ phase' = [u \in Tasks |-> IF u = t THEN "committed"
                                     ELSE IF u \in NewlyReady(t) THEN "ready"
                                     ELSE phase[u]]
        /\ ready_queue' = (ready_queue \ {t}) \cup NewlyReady(t)
        /\ Complete(t)
        /\ UNCHANGED outcomeVars

(* commit(): the sink takes the result, and the dependents whose last      *)
(* dependency this was become ready.                                       *)
OnCommit(l, d) ==
    LET t == leases[l].task
    IN  /\ VerifiedSuccess(l, d)
        /\ phase[t] # "committed"
        /\ sink_commits' = [sink_commits EXCEPT ![t] = @ + 1]
        /\ committed_output_digest' = [committed_output_digest EXCEPT ![t] = d]
        /\ phase' = [u \in Tasks |-> IF u = t THEN "committed"
                                     ELSE IF u \in NewlyReady(t) THEN "ready"
                                     ELSE phase[u]]
        /\ ready_queue' = (ready_queue \ {t}) \cup NewlyReady(t)
        /\ Complete(t)
        /\ UNCHANGED outcomeVars

(* The sink throws: the build fails and the task stays uncommitted.        *)
OnCommitThrows(l, d) ==
    /\ VerifiedSuccess(l, d)
    /\ phase[leases[l].task] # "committed"
    /\ status' = "failed" /\ failure' = "commit_failed"
    /\ UNCHANGED <<phase, committed_output_digest, readyVars, sink_commits>>

(* Mutant of OnDuplicate: the digests are not compared.                    *)
OnDuplicateTrusted(l, d) ==
    /\ VerifiedSuccess(l, d)
    /\ phase[leases[l].task] = "committed"
    /\ UNCHANGED <<outcomeVars, phase, committed_output_digest, readyVars,
                   sink_commits>>

OnDuplicate(l, d) ==
    /\ VerifiedSuccess(l, d)
    /\ phase[leases[l].task] = "committed"
    /\ IF d = committed_output_digest[leases[l].task]
         THEN UNCHANGED outcomeVars
         ELSE status' = "failed" /\ failure' = "determinism_incident"
    /\ UNCHANGED <<phase, committed_output_digest, readyVars, sink_commits>>

(* on_failed(invalid_result).                                              *)
OnInvalidResult(l) ==
    /\ Reported(l)
    /\ AttemptFailed(l, TRUE)
    /\ UNCHANGED <<lossVars, declined, rejections>>

(* on_failed(executor_lost).                                               *)
OnExecutorLost(l) ==
    /\ Reported(l)
    /\ CountExecutorLoss(l)
    /\ AttemptFailed(l, LossQuarantines(l))
    /\ UNCHANGED <<declined, rejections>>

(* on_rejected(): nothing is counted, the executor backs off.              *)
OnRejected(l) ==
    /\ Reported(l)
    /\ rejections < MaxRejections
    /\ rejections' = rejections + 1
    /\ Release({l})
    /\ declined' = declined \cup {leases[l].executor}
    /\ Requeue(Freed({l}))
    /\ UNCHANGED <<attempts_started, failed_attempts, avoid,
                   committed_output_digest, pending_dependencies, complete,
                   next_lease_number, lossVars, quarantined, outcomeVars,
                   observerVars>>

-----------------------------------------------------------------------------
(* expire_leases(), after the batch.                                       *)

(* Mutant of BeginExpire: only lapsed leases end, deadlines do not.        *)
BeginExpireLapsed ==
    /\ pc = "wait" /\ failure = None
    /\ pc' = "expire"
    /\ ended' = {l \in Active : leases[l].timer = "lapsed"}
    /\ UNCHANGED <<taskVars, readyVars, leaseVars, executorVars, outcomeVars,
                   cursor, envVars, observerVars>>

BeginExpire ==
    /\ pc = "wait" /\ failure = None
    /\ pc' = "expire"
    /\ ended' = {l \in Active : leases[l].timer # "running"}
    /\ UNCHANGED <<taskVars, readyVars, leaseVars, executorVars, outcomeVars,
                   cursor, envVars, observerVars>>

(* One collected lease, past its deadline (cancelled) or lapsed: both are  *)
(* a loss of the executor and a failed attempt.  The map's order of lease  *)
(* ids is an order of strings, so any order is allowed here.               *)
ExpireLease(l) ==
    /\ pc = "expire" /\ failure = None
    /\ l \in ended
    /\ l \in Active
    /\ ended' = ended \ {l}
    /\ CountExecutorLoss(l)
    /\ AttemptFailed(l, LossQuarantines(l))
    /\ UNCHANGED <<pc, cursor, declined, envVars>>

(* Released by an earlier expiry's quarantine, or nothing is left.         *)
EndExpire ==
    /\ pc = "expire" /\ failure = None
    /\ ended \cap Active = {}
    /\ pc' = "loop"
    /\ ended' = {}
    /\ UNCHANGED <<taskVars, readyVars, leaseVars, executorVars, outcomeVars,
                   cursor, envVars, observerVars>>

-----------------------------------------------------------------------------
(* The clock and the user.                                                 *)

Running == pc \notin {"resume", "done", "threw"}

LeaseLapses(l) ==
    /\ Running /\ l \in Active
    /\ leases[l].timer = "running"
    /\ leases' = [leases EXCEPT ![l].timer = "lapsed"]
    /\ UNCHANGED <<taskVars, readyVars, next_lease_number, executorVars,
                   outcomeVars, controlVars, envVars, observerVars>>

DeadlinePasses(l) ==
    /\ Running /\ l \in Active
    /\ leases[l].timer # "deadline"
    /\ leases' = [leases EXCEPT ![l].timer = "deadline"]
    /\ UNCHANGED <<taskVars, readyVars, next_lease_number, executorVars,
                   outcomeVars, controlVars, envVars, observerVars>>

BackoffElapses(e) ==
    /\ Running /\ e \in declined
    /\ declined' = declined \ {e}
    /\ UNCHANGED <<taskVars, readyVars, leaseVars, active, lossVars, quarantined,
                   outcomeVars, controlVars, envVars, observerVars>>

RequestCancel ==
    /\ Running /\ ~cancel_requested
    /\ cancel_requested' = TRUE
    /\ UNCHANGED <<taskVars, readyVars, leaseVars, executorVars, outcomeVars,
                   controlVars, inflight, rejections, observerVars>>

Terminated == pc \in {"done", "threw"} /\ UNCHANGED vars

LoopStep ==
    \/ Start \/ Cancelled \/ Succeed \/ ReturnFailed \/ BeginDispatch
    \/ DispatchGrant \/ SpeculativeGrant \/ NextExecutor \/ CheckUsable
    \/ BeginExpire \/ (\E l \in ended : ExpireLease(l)) \/ EndExpire

Receive(l) ==
    \/ IgnoreStaleReport(l) \/ OnHeartbeat(l)
    \/ OnDefectiveResult(l) \/ OnInvalidResult(l) \/ OnExecutorLost(l)
    \/ OnRejected(l)
    \/ \E retryable \in BOOLEAN : OnFailedResult(l, retryable)
    \/ \E d \in Digests : OnCommit(l, d) \/ OnCommitThrows(l, d) \/ OnDuplicate(l, d)

Next ==
    \/ \E t \in Tasks, d \in Digests : ApplyResumed(t, d)
    \/ RefuseResumed
    \/ LoopStep
    \/ \E l \in inflight : Receive(l)
    \/ \E l \in Active : LeaseLapses(l) \/ DeadlinePasses(l)
    \/ \E e \in Executors : BackoffElapses(e)
    \/ RequestCancel
    \/ Terminated

Spec == Init /\ [][Next]_vars

(* The loop's thread keeps running: inbox_.wait() returns at the latest    *)
(* after max_idle_wait.  Nothing is assumed of the executors.              *)
FairSpec == Spec /\ WF_vars(LoopStep)

(* The clock moves on: attempt deadlines and rejection backoffs pass.      *)
ClockAdvances ==
    /\ WF_vars(\E l \in Active : DeadlinePasses(l))
    /\ WF_vars(\E e \in Executors : BackoffElapses(e))

-----------------------------------------------------------------------------
(* Properties.                                                             *)

Building == Running /\ failure = None

(* Three records of who runs what agree between any two handlers: leases_, *)
(* TaskRecord::active_leases and ExecutorRecord::active; no executor holds *)
(* more leases than slots() and a quarantined one holds none.              *)
LeaseBookkeeping ==
    Running =>
        /\ \A t \in Tasks : active_leases[t] = {l \in Active : leases[l].task = t}
        /\ \A e \in Executors : /\ active[e] = Cardinality(LeasesOf(e))
                                /\ active[e] <= Slots[e]
                                /\ e \in quarantined => LeasesOf(e) = {}

(* No task is lost: whatever mix of failures, rejections, expiries and     *)
(* quarantines happened, an uncommitted task waits for a dependency that   *)
(* is itself uncommitted, or has an attempt running, or is in the ready    *)
(* queue; and the last two only once all its dependencies are committed.   *)
NoTaskLost ==
    Building =>
        /\ ready_queue = {t \in Tasks : phase[t] = "ready"}
        /\ \A t \in Tasks :
             /\ phase[t] = "waiting" <=> t \notin complete /\ ~(Deps[t] \subseteq complete)
             /\ phase[t] = "leased" <=> t \notin complete /\ active_leases[t] # {}

(* "The first verified result for a task is committed to the sink, exactly *)
(* once" (scheduler.hpp), and a resumed task, which no attempt ever runs,  *)
(* never.                                                                  *)
CommittedExactlyOnce ==
    \A t \in Tasks :
        sink_commits[t] = IF t \in complete /\ attempts_started[t] > 0 THEN 1 ELSE 0

(* A build that succeeds has committed every task, and no verified result  *)
(* that came back for a task, duplicates included, differs from the        *)
(* committed one.                                                          *)
SuccessIsDeterministic ==
    status = "succeeded" =>
        /\ AllComplete
        /\ \A t \in Tasks : verified[t] \subseteq {committed_output_digest[t]}

(* Without speculative duplicates a task in the ready queue has an attempt *)
(* left: the build fails in the step that uses up the last one.            *)
RetriesBounded ==
    Building => \A t \in ready_queue : failed_attempts[t] < MaxAttempts[t]

(* A committed result is final: no late failure, expiry, rejection or      *)
(* quarantine of a duplicate attempt makes the task ready again or changes *)
(* its digest.                                                             *)
CommitIsFinal ==
    [][\A t \in Tasks : phase[t] = "committed" =>
            /\ phase'[t] = "committed"
            /\ committed_output_digest'[t] = committed_output_digest[t]]_vars

(* The lease whose report or expiry the step handles.                      *)
Handled == (inflight \ inflight') \cup (ended \ ended')

(* One dropped session is one loss event: a lease that was in flight when  *)
(* its executor's latest loss was counted never raises the count again, in *)
(* whatever order and however much later its own loss is reported, it      *)
(* lapses or its deadline passes.                                          *)
LossesShareAnEvent ==
    [][\A e \in Executors :
            consecutive_loss_events'[e] > consecutive_loss_events[e] =>
                \E l \in LeasesOf(e) \cap Handled : l \notin sharing[e]]_vars

(* "the build waits rather than failing for lack of a usable executor"     *)
(* (scheduler.hpp): the build fails for lack of one only if no executor    *)
(* outside quarantine accepts a ready task.                                *)
NoUsableExecutorIsTrue ==
    failure = "no_usable_executor" =>
        \A t \in ready_queue, e \in Executors :
            e \in quarantined \/ t \notin Accepts[e]

(* Every run ends, however the executors behave, as long as they do not    *)
(* reject leases for ever: deadlines bound every attempt, max_attempts     *)
(* every task, and the loop never waits for something that cannot happen.  *)
Terminates == ClockAdvances => <>(pc \in {"done", "threw"})

(* Cancellation ends the run, whatever the executors, the leases and the   *)
(* deadlines do: no attempt has to return first.                           *)
CancelEndsRun == cancel_requested ~> pc = "done"

Stage == IF pc = "resume" THEN "resuming"
         ELSE IF pc = "threw" THEN "refused"
         ELSE IF pc = "done" THEN status
         ELSE "running"

Contract == INSTANCE BuildContract WITH
    stage <- Stage,
    committed <- complete,
    delivered <- sink_commits

(* The scheduler implements BuildContract: seen from the sink and the      *)
(* caller, every step is one of the contract's or changes nothing.         *)
ImplementsContract == Contract!ContractSpec

=============================================================================
