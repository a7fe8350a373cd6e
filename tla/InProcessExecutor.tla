-------------------------- MODULE InProcessExecutor --------------------------
(***************************************************************************)
(* The coordinator's own executor: threads that run queued leases, and the *)
(* thread that sends heartbeats for the running ones.                      *)
(*                                                                         *)
(* assign(), cancel() and stop() run on the scheduler's thread, so one at  *)
(* a time; they meet the worker threads under one mutex.  A worker decides *)
(* under the mutex whether to report and reports after leaving it.  The    *)
(* heartbeat thread copies the leases and sends outside its lock.  A task  *)
(* function may run for ever, but returns once its token is set: it polls  *)
(* the token at its safe points (cancellation_token.hpp).                  *)
(***************************************************************************)
EXTENDS Naturals, Sequences, FiniteSets, SequencesExt

CONSTANTS
    Leases,
    Threads,         \* InProcessExecutorOptions::threads
    None             \* no lease

ASSUME ExecutorAssumption ==
    /\ IsFiniteSet(Leases) /\ IsFiniteSet(Threads)
    /\ Threads # {} /\ None \notin Leases

VARIABLES
    queue,           \* State::queue
    running,         \* State::running; its leases
    requested,       \* those whose CancellationToken is set
    dropped,         \* State::dropped
    stopping,        \* State::stopping
    pc, lease,       \* per thread: where it is in work(), and assignment.lease
    beating, batch,  \* LeaseHeartbeats::leases_, and lease_ids of the round
    beater,          \* the heartbeat thread: "loop", "send", "over"
    beatsEnd,        \* LeaseHeartbeats::stopping_
    call,            \* the scheduler's thread: "idle", "cancel", "stop", "join", "beats", "over"
    givenUp,         \* the lease being cancelled
    assigned, abandoned, report   \* what the scheduler saw of each lease

shared == <<queue, running, requested, dropped, stopping>>
workers == <<pc, lease>>
beats == <<beating, batch, beater, beatsEnd>>
caller == <<call, givenUp>>
seen == <<assigned, abandoned, report>>
vars == <<shared, workers, beats, caller, seen>>

TypeOK ==
    /\ queue \in Seq(Leases) /\ stopping \in BOOLEAN
    /\ running \subseteq Leases /\ requested \subseteq Leases /\ dropped \subseteq Leases
    /\ pc \in [Threads -> {"check", "asleep", "run", "done", "report", "over"}]
    /\ lease \in [Threads -> Leases \cup {None}]
    /\ beating \subseteq Leases /\ batch \subseteq Leases
    /\ beater \in {"loop", "send", "over"} /\ beatsEnd \in BOOLEAN
    /\ call \in {"idle", "cancel", "stop", "join", "beats", "over"}
    /\ givenUp \in Leases \cup {None}
    /\ assigned \subseteq Leases /\ abandoned \subseteq Leases
    /\ report \in [Leases -> {"none", "finished"}]

(* start() has returned: every thread is about to look at the queue.       *)
Init ==
    /\ queue = <<>> /\ running = {} /\ requested = {} /\ dropped = {} /\ stopping = FALSE
    /\ pc = [w \in Threads |-> "check"] /\ lease = [w \in Threads |-> None]
    /\ beating = {} /\ batch = {} /\ beater = "loop" /\ beatsEnd = FALSE
    /\ call = "idle" /\ givenUp = None
    /\ assigned = {} /\ abandoned = {} /\ report = [l \in Leases |-> "none"]

Goto(w, s) == pc' = [pc EXCEPT ![w] = s]
Asleep == {w \in Threads : pc[w] = "asleep"}
WakeAll == [w \in Threads |-> IF pc[w] = "asleep" THEN "check" ELSE pc[w]]

-----------------------------------------------------------------------------
(* The scheduler's thread.                                                 *)

(* assign(), with its notify_one().                                        *)
Assign(l) ==
    /\ call = "idle" /\ l \notin assigned
    /\ queue' = Append(queue, l) /\ assigned' = assigned \cup {l}
    /\ IF Asleep = {} THEN UNCHANGED pc ELSE \E w \in Asleep : Goto(w, "check")
    /\ UNCHANGED <<running, requested, dropped, stopping, lease, beats, caller, abandoned, report>>

(* The scheduler gives a lease up, at its expiry, its deadline or the      *)
(* build's end, and calls cancel() or lease_expired().                     *)
GiveUp(l) ==
    /\ call = "idle" /\ l \in assigned \ abandoned /\ report[l] = "none"
    /\ call' = "cancel" /\ givenUp' = l
    /\ abandoned' = abandoned \cup {l}
    /\ UNCHANGED <<shared, workers, beats, assigned, report>>

(* cancel() of a queued lease takes it out of the queue.                   *)
Unqueue(l) ==
    /\ \E i \in DOMAIN queue : queue[i] = l /\ queue' = RemoveAt(queue, i)
    /\ UNCHANGED <<requested, dropped>>

(* Mutant: the result is dropped, but the task is not told.                *)
CancelDropsOnly ==
    /\ call = "cancel" /\ call' = "idle" /\ givenUp' = None
    /\ IF givenUp \in Range(queue) THEN Unqueue(givenUp)
       ELSE /\ dropped' = IF givenUp \in running THEN dropped \cup {givenUp} ELSE dropped
            /\ UNCHANGED <<queue, requested>>
    /\ UNCHANGED <<running, stopping, workers, beats, seen>>

(* cancel(): out of the queue, or dropped and told to stop; a lease whose  *)
(* report is already decided is left alone.                                *)
Cancel ==
    LET told == {givenUp} \cap running IN
    /\ call = "cancel" /\ call' = "idle" /\ givenUp' = None
    /\ IF givenUp \in Range(queue) THEN Unqueue(givenUp)
       ELSE /\ dropped' = dropped \cup told /\ requested' = requested \cup told
            /\ UNCHANGED queue
    /\ UNCHANGED <<running, stopping, workers, beats, seen>>

(* stop() is called; then the flag, the queue and the tokens; the joins;   *)
(* the heartbeats.                                                         *)
CallStop ==
    /\ call = "idle" /\ call' = "stop"
    /\ UNCHANGED <<shared, workers, beats, givenUp, seen>>

Stop ==
    /\ call = "stop" /\ call' = "join"
    /\ stopping' = TRUE /\ queue' = <<>> /\ requested' = requested \cup running
    /\ pc' = WakeAll
    /\ UNCHANGED <<running, dropped, lease, beats, givenUp, seen>>

(* Mutant: the threads are not joined.                                     *)
ThreadsDetached ==
    /\ call = "join" /\ call' = "beats" /\ beatsEnd' = TRUE
    /\ UNCHANGED <<shared, workers, beating, batch, beater, givenUp, seen>>

ThreadsJoined ==
    /\ call = "join" /\ \A w \in Threads : pc[w] = "over"
    /\ call' = "beats" /\ beatsEnd' = TRUE
    /\ UNCHANGED <<shared, workers, beating, batch, beater, givenUp, seen>>

(* Mutant: the heartbeat thread is not joined.                             *)
HeartbeatsDetached ==
    /\ call = "beats" /\ call' = "over"
    /\ UNCHANGED <<shared, workers, beats, givenUp, seen>>

HeartbeatsJoined ==
    /\ call = "beats" /\ beater = "over"
    /\ call' = "over"
    /\ UNCHANGED <<shared, workers, beats, givenUp, seen>>

-----------------------------------------------------------------------------
(* A worker thread: work().                                                *)
Sleep(w) ==
    /\ pc[w] = "check" /\ ~stopping /\ queue = <<>>
    /\ Goto(w, "asleep")
    /\ UNCHANGED <<shared, lease, beats, caller, seen>>

SpuriousWake(w) ==
    /\ pc[w] = "asleep" /\ Goto(w, "check")
    /\ UNCHANGED <<shared, lease, beats, caller, seen>>

Leave(w) ==
    /\ pc[w] = "check" /\ stopping
    /\ Goto(w, "over")
    /\ UNCHANGED <<shared, lease, beats, caller, seen>>

Take(w) ==
    /\ pc[w] = "check" /\ ~stopping /\ queue # <<>>
    /\ queue' = Tail(queue) /\ lease' = [lease EXCEPT ![w] = Head(queue)]
    /\ running' = running \cup {Head(queue)} /\ beating' = beating \cup {Head(queue)}
    /\ Goto(w, "run")
    /\ UNCHANGED <<requested, dropped, stopping, batch, beater, beatsEnd, caller, seen>>

(* run_task_attempt() returns, whatever the task function threw.           *)
TaskReturns(w) ==
    /\ pc[w] = "run"
    /\ beating' = beating \ {lease[w]}
    /\ Goto(w, "done")
    /\ UNCHANGED <<shared, lease, batch, beater, beatsEnd, caller, seen>>

(* Under the mutex: whether anyone still waits for the result.             *)
Decide(w) ==
    LET l == lease[w] IN
    /\ pc[w] = "done"
    /\ running' = running \ {l}
    /\ IF stopping
       THEN UNCHANGED dropped /\ Goto(w, "check")
       ELSE /\ dropped' = dropped \ {l}
            /\ Goto(w, IF l \in dropped THEN "check" ELSE "report")
    /\ lease' = [lease EXCEPT ![w] = IF pc'[w] = "report" THEN l ELSE None]
    /\ UNCHANGED <<queue, requested, stopping, beats, caller, seen>>

(* events->attempt_finished(), outside the mutex.                          *)
Report(w) ==
    /\ pc[w] = "report"
    /\ report' = [report EXCEPT ![lease[w]] = "finished"]
    /\ lease' = [lease EXCEPT ![w] = None] /\ Goto(w, "check")
    /\ UNCHANGED <<shared, beats, caller, assigned, abandoned>>

Work(w) == Sleep(w) \/ Leave(w) \/ Take(w) \/ Decide(w) \/ Report(w)

-----------------------------------------------------------------------------
(* The heartbeat thread: LeaseHeartbeats::loop().                          *)
BeatDue ==
    /\ beater = "loop" /\ ~beatsEnd /\ beating # {}
    /\ batch' = beating /\ beater' = "send"
    /\ UNCHANGED <<shared, workers, beating, beatsEnd, caller, seen>>

SendBeat ==
    /\ beater = "send" /\ batch # {}
    /\ \E l \in batch : batch' = batch \ {l}
    /\ UNCHANGED <<shared, workers, beating, beater, beatsEnd, caller, seen>>

BeatsSent ==
    /\ beater = "send" /\ batch = {}
    /\ beater' = "loop"
    /\ UNCHANGED <<shared, workers, beating, batch, beatsEnd, caller, seen>>

BeatsOver ==
    /\ beater = "loop" /\ beatsEnd
    /\ beater' = "over"
    /\ UNCHANGED <<shared, workers, beating, batch, beatsEnd, caller, seen>>

Beat == BeatDue \/ SendBeat \/ BeatsSent \/ BeatsOver

-----------------------------------------------------------------------------
Return == Cancel \/ Stop \/ ThreadsJoined \/ HeartbeatsJoined

Next ==
    \/ \E l \in Leases : Assign(l) \/ GiveUp(l)
    \/ \E w \in Threads : Work(w) \/ TaskReturns(w) \/ SpuriousWake(w)
    \/ CallStop \/ Return \/ Beat

Spec == Init /\ [][Next]_vars

(* The threads run, the scheduler goes on with its call and gives a lease  *)
(* up in the end (its deadline), and a task whose token is set returns.    *)
FairSpec ==
    /\ Spec
    /\ WF_vars(Return) /\ WF_vars(Beat)
    /\ \A l \in Leases : WF_vars(GiveUp(l))
    /\ \A w \in Threads :
          WF_vars(Work(w)) /\ WF_vars(lease[w] \in requested /\ TaskReturns(w))

-----------------------------------------------------------------------------
(* executor.hpp: "Every lease handed to Executor::assign ends in exactly   *)
(* one attempt_finished, attempt_failed, or attempt_rejected unless the    *)
(* scheduler has already abandoned it", and "no events are delivered after *)
(* it returns" (stop()).                                                   *)
Held == Range(queue) \cup (Range(lease) \ {None})
Contract == INSTANCE ExecutorContract WITH
    Reports <- {"finished"},
    held <- Held,
    stopping <- (call \notin {"idle", "cancel"}),
    stopped <- (call = "over")
ImplementsExecutorContract == Contract!Spec

(* "no events are delivered after it returns": nor heartbeats, although a  *)
(* round of them is sent from a copy, outside the lock.                    *)
QuietOnceStopped == call = "over" => batch = {} /\ beater = "over"

(* Hung tasks do not clog the executor: each lease it holds is reported or *)
(* let go of, and a call of the scheduler returns, stop() included, even   *)
(* if every thread was inside a task that would never end by itself.       *)
LeasesSettle ==
    /\ \A l \in Leases : l \in Held ~> l \notin Held
    /\ call # "idle" ~> call \in {"idle", "over"}
=============================================================================
