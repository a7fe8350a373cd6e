---------------------------- MODULE RemoteExecutor ----------------------------
(***************************************************************************)
(* RemoteExecutor and the worker at the other end of its sessions.         *)
(*                                                                         *)
(* The scheduler thread calls assign(), cancel(), lease_expired() and      *)
(* stop(); another thread may call close_idle_session(); every session has *)
(* a thread that connects, sends queued ASSIGNs, reads worker frames and   *)
(* reports.  They share the executor's mutex, but frames are written and   *)
(* events delivered outside it.  The worker reads frames on one thread and *)
(* runs each lease on a thread of its own.  A connection may break and a   *)
(* worker die at any moment, losing any suffix of the frames in flight.    *)
(*                                                                         *)
(* A lease stands for its (task, attempt) pair too: the scheduler never    *)
(* repeats either.  Heartbeats change no state here and are left out.      *)
(***************************************************************************)
EXTENDS Naturals, Sequences, FiniteSets, SequencesExt

CONSTANTS
    Leases,
    SendBuffer,      \* frames a connection takes while the worker reads none
    MaxSessions,     \* bound: sessions one executor opens
    MaxFaults        \* bound: sessions that meet a fault or an expired lease

ASSUME BoundsAssumption == MaxSessions \in Nat \ {0} /\ MaxFaults \in Nat
ASSUME BufferAssumption == SendBuffer \in Nat \ {0}
ASSUME LeasesAssumption == "none" \notin Leases

Sessions == 1..MaxSessions
NoSession == 0
Idle == <<"idle", NoSession, "none">>
NoClaim == <<"none", "none">>

VARIABLES
    home,            \* home[l]: the session l was assigned to
    cancelled,       \* leases given up by cancel() or lease_expired()
    report,          \* report[l]: the events delivered that end l
    current,         \* State::current; the sessions before it are retired
    phase,           \* phase[s]: where the thread of session s is
    known,           \* Session::leases of all sessions together
    retiring, ready, \* sessions with that flag
    pending,         \* ASSIGNs queued in Session::pending, then the ones
                     \* mark_ready() handed to the session thread
    claim,           \* claim[s]: lease taken out of known, event still to come
    orphans,         \* orphans[s]: leases the ended session has yet to report
    ending,          \* ending[s]: WorkerSessionEnd
    link,            \* link[s]: the connection
    toWorker, toCoordinator,
    worker,          \* worker[s]: the worker loop of session s
    attempt,         \* attempt[l]: the thread running l on the worker
    dropped,         \* RunningLease::dropped
    writing,         \* a frame a caller's thread is about to write
    stop, stopAt,    \* progress of stop(), and the session it is closing
    broken           \* sessions that met a fault or an expired lease

leaseVars == <<home, cancelled, report>>
sessionVars == <<current, phase, known, retiring, ready, pending, claim, orphans, ending>>
linkVars == <<link, toWorker, toCoordinator>>
workerVars == <<worker, attempt, dropped>>
callVars == <<writing, stop, stopAt>>
vars == <<leaseVars, sessionVars, linkVars, workerVars, callVars, broken>>

Threads == {"scheduler", "closer"}
Frames == ({"ASSIGN", "CANCEL", "RESULT", "REJECT"} \X Leases)
          \cup {<<"SHUTDOWN", "none">>, <<"ERROR", "none">>}
Calls == ({"ASSIGN", "CANCEL", "SHUTDOWN"} \X Sessions \X (Leases \cup {"none"})) \cup {Idle}
Kinds == {"finished", "rejected", "executor_lost", "invalid_result"}

Of(s) == {l \in known : home[l] = s}
Finished(s) == phase[s] \in {"report", "done"}
Stopping == stop # "no"
Connected(s) == link[s] # "none"
Running(s) == {l \in Leases : home[l] = s /\ attempt[l] \in {"running", "answering"}}
Live(s) == s # NoSession /\ ~Finished(s) /\ s \notin retiring

CoordinatorTypes ==
    /\ home \in [Leases -> Sessions \cup {NoSession}]
    /\ cancelled \in SUBSET Leases
    /\ report \in [Leases -> Seq(Kinds)]
    /\ current \in Sessions \cup {NoSession}
    /\ phase \in [Sessions -> {"none", "connecting", "preamble", "flush", "pump", "over",
                               "report", "done"}]
    /\ known \in SUBSET Leases
    /\ retiring \in SUBSET Sessions /\ ready \in SUBSET Sessions
    /\ pending \in [Sessions -> Seq(Leases)]
    /\ claim \in [Sessions -> (Leases \X Kinds) \cup {NoClaim}]
    /\ orphans \in [Sessions -> SUBSET Leases]
    /\ ending \in [Sessions -> {"executor_lost", "invalid_result", "protocol_error"}]
    /\ writing \in [Threads -> Calls]
    /\ stop \in {"no", "close", "write", "wait", "join", "stopped"}
    /\ stopAt \in 0..(MaxSessions + 1)
    /\ broken \in SUBSET Sessions

WorkerTypes ==
    /\ link \in [Sessions -> {"none", "up", "down"}]
    /\ toWorker \in [Sessions -> Seq(Frames)]
    /\ toCoordinator \in [Sessions -> Seq(Frames)]
    /\ worker \in [Sessions -> {"none", "serving", "closing", "gone"}]
    /\ attempt \in [Leases -> {"none", "running", "answering", "done"}]
    /\ dropped \in SUBSET Leases

(* An ASSIGN is queued only for a lease the session will answer for.       *)
QueuedIsKnown ==
    \A s \in Sessions : \A i \in 1..Len(pending[s]) : s \notin ready => pending[s][i] \in Of(s)

TypeOK == CoordinatorTypes /\ WorkerTypes /\ QueuedIsKnown

Init ==
    /\ home = [l \in Leases |-> NoSession] /\ cancelled = {}
    /\ report = [l \in Leases |-> <<>>]
    /\ current = NoSession /\ phase = [s \in Sessions |-> "none"]
    /\ known = {} /\ retiring = {} /\ ready = {}
    /\ pending = [s \in Sessions |-> <<>>]
    /\ claim = [s \in Sessions |-> NoClaim]
    /\ orphans = [s \in Sessions |-> {}]
    /\ ending = [s \in Sessions |-> "executor_lost"]
    /\ link = [s \in Sessions |-> "none"]
    /\ toWorker = [s \in Sessions |-> <<>>] /\ toCoordinator = [s \in Sessions |-> <<>>]
    /\ worker = [s \in Sessions |-> "none"]
    /\ attempt = [l \in Leases |-> "none"] /\ dropped = {}
    /\ writing = [t \in Threads |-> Idle]
    /\ stop = "no" /\ stopAt = NoSession
    /\ broken = {}

-----------------------------------------------------------------------------
(* The connection: an ordered stream each way.  When it breaks, the        *)
(* coordinator still reads a prefix of what was under way; a frame cut in  *)
(* two is one that did not arrive.  The worker drops its leases at the end *)
(* of its input and can answer nobody, so it is not followed any further.  *)

Cut(s, kept) ==
    /\ link' = [link EXCEPT ![s] = IF @ = "up" THEN "down" ELSE @]
    /\ toWorker' = [toWorker EXCEPT ![s] = <<>>]
    /\ toCoordinator' = [toCoordinator EXCEPT ![s] = SubSeq(@, 1, kept)]
    /\ worker' = [worker EXCEPT ![s] = IF @ = "none" THEN @ ELSE "gone"]
    /\ attempt' = [l \in Leases |-> IF l \in Running(s) THEN "done" ELSE attempt[l]]
    /\ dropped' = dropped \cup Running(s)

(* Session s meets a fault, within the bound.                              *)
Fault(s) ==
    /\ Cardinality(broken \cup {s}) <= MaxFaults
    /\ broken' = broken \cup {s}

(* stream->cancel() or the connector's cancel(), or the same from outside. *)
Break(s) == \E kept \in 0..Len(toCoordinator[s]) : Cut(s, kept)

(* A write waits, with the writer's mutex and without a timeout, until the *)
(* connection takes the frame.  A write to a connection that is gone       *)
(* throws, and every caller swallows it: the session's reader sees the end.*)
Writable(s) == link[s] = "up" => Len(toWorker[s]) < SendBuffer
Send(s, frame) ==
    /\ Writable(s)
    /\ toWorker' = IF link[s] = "up" THEN [toWorker EXCEPT ![s] = Append(@, frame)] ELSE toWorker
    /\ UNCHANGED <<link, toCoordinator>>

Answer(s, frame) ==
    /\ toCoordinator' = IF link[s] = "up" THEN [toCoordinator EXCEPT ![s] = Append(@, frame)]
                        ELSE toCoordinator
    /\ UNCHANGED <<link, toWorker>>

-----------------------------------------------------------------------------
(* The scheduler thread.                                                   *)

Callable == writing["scheduler"] = Idle /\ ~Stopping

(* Mutant: a session told to close still takes leases.                     *)
LiveSessionIgnoresRetiring ==
    IF current # NoSession /\ ~Finished(current) THEN current ELSE current + 1

(* live_session(): the session a new lease goes to.                        *)
LiveSession == IF Live(current) THEN current ELSE current + 1

Assign(l) ==
    LET s == LiveSession IN
    /\ Callable /\ home[l] = NoSession /\ s \in Sessions
    /\ home' = [home EXCEPT ![l] = s]
    /\ known' = known \cup {l}
    /\ current' = s
    /\ phase' = IF s = current THEN phase ELSE [phase EXCEPT ![s] = "connecting"]
    /\ IF s \in ready
       THEN writing' = [writing EXCEPT !["scheduler"] = <<"ASSIGN", s, l>>] /\ UNCHANGED pending
       ELSE pending' = [pending EXCEPT ![s] = Append(@, l)] /\ UNCHANGED writing
    /\ UNCHANGED <<cancelled, report, retiring, ready, claim, orphans, ending, linkVars,
                   workerVars, stop, stopAt, broken>>

(* Mutant: cancelling forgets the lease.                                   *)
MarkCancelledForgets(l) == cancelled' = cancelled \cup {l} /\ known' = known \ {l}

(* mark_cancelled(): the lease stays known, so that a result under way is  *)
(* recognised.                                                             *)
MarkCancelled(l) == cancelled' = cancelled \cup {l} /\ UNCHANGED known

(* erase_if on the queue, which holds a lease at most once.                *)
Without(q, l) ==
    IF \E i \in DOMAIN q : q[i] = l THEN RemoveAt(q, CHOOSE i \in DOMAIN q : q[i] = l) ELSE q

Cancel(l) ==
    LET s == home[l] IN
    /\ Callable /\ s # NoSession /\ l \notin cancelled
    /\ MarkCancelled(l)
    /\ IF l \notin known THEN UNCHANGED <<pending, writing>>
       ELSE IF s \in ready
       THEN writing' = [writing EXCEPT !["scheduler"] = <<"CANCEL", s, l>>] /\ UNCHANGED pending
       ELSE pending' = [pending EXCEPT ![s] = Without(@, l)]
            /\ UNCHANGED writing
    /\ UNCHANGED <<home, report, current, phase, retiring, ready, claim, orphans, ending,
                   linkVars, workerVars, stop, stopAt, broken>>

(* lease_expired(): the session stopped heartbeating and is torn down.     *)
LeaseExpired(l) ==
    LET s == home[l] IN
    /\ Callable /\ s # NoSession /\ l \notin cancelled
    /\ MarkCancelled(l)
    /\ IF l \in known THEN retiring' = retiring \cup {s} /\ Fault(s) /\ Break(s)
       ELSE UNCHANGED <<retiring, broken, linkVars, workerVars>>
    /\ UNCHANGED <<home, report, current, phase, ready, pending, claim, orphans, ending,
                   callVars>>

(* The frame that assign(), cancel() or close_idle_session() writes after  *)
(* it released the mutex.                                                  *)
Write(t) ==
    LET w == writing[t] IN
    /\ w # Idle
    /\ Send(w[2], <<w[1], w[3]>>)
    /\ writing' = [writing EXCEPT ![t] = Idle]
    /\ UNCHANGED <<leaseVars, sessionVars, workerVars, stop, stopAt, broken>>

(* close_idle_session(), from another thread.                              *)
CloseIdleSession ==
    LET s == current IN
    /\ writing["closer"] = Idle
    /\ Live(s) /\ ~Stopping /\ Of(s) = {}
    /\ retiring' = retiring \cup {s}
    /\ IF s \in ready
       THEN writing' = [writing EXCEPT !["closer"] = <<"SHUTDOWN", s, "none">>]
            /\ UNCHANGED <<linkVars, workerVars>>
       ELSE Break(s) /\ UNCHANGED writing
    /\ UNCHANGED <<leaseVars, current, phase, known, ready, pending, claim, orphans, ending,
                   stop, stopAt, broken>>

-----------------------------------------------------------------------------
(* The thread of session s: run_session().                                 *)

(* connect_within_window() and adopt_connection().                         *)
Connect(s) ==
    /\ phase[s] = "connecting"
    /\ IF s \in retiring \/ Stopping
       THEN phase' = [phase EXCEPT ![s] = "over"] /\ UNCHANGED <<link, worker>>
       ELSE /\ phase' = [phase EXCEPT ![s] = "preamble"]
            /\ link' = [link EXCEPT ![s] = "up"]
            /\ worker' = [worker EXCEPT ![s] = "serving"]
    /\ UNCHANGED <<leaseVars, current, known, retiring, ready, pending, claim, orphans, ending,
                   toWorker, toCoordinator, attempt, dropped, callVars, broken>>

(* The reconnect window ran out, the peer is not the worker, or the        *)
(* session was told to end while connecting.                               *)
ConnectFails(s) ==
    /\ phase[s] = "connecting"
    /\ phase' = [phase EXCEPT ![s] = "over"]
    /\ IF s \in retiring \/ Stopping THEN UNCHANGED broken ELSE Fault(s)
    /\ UNCHANGED <<leaseVars, current, known, retiring, ready, pending, claim, orphans, ending,
                   linkVars, workerVars, callVars>>

(* Mutant: the queue is not handed over.                                   *)
MarkReadyLosesQueue(s) == ready' = ready \cup {s} /\ pending' = [pending EXCEPT ![s] = <<>>]

MarkReady(s) == ready' = ready \cup {s} /\ UNCHANGED pending

(* The session preamble succeeded, perhaps on answers that were buffered   *)
(* when the connection went.                                               *)
Preamble(s) ==
    /\ phase[s] = "preamble"
    /\ MarkReady(s)
    /\ phase' = [phase EXCEPT ![s] = "flush"]
    /\ UNCHANGED <<leaseVars, current, known, retiring, claim, orphans, ending, linkVars,
                   workerVars, callVars, broken>>

(* The preamble threw: the connection went, or the worker turned the       *)
(* session down.                                                           *)
PreambleFails(s) ==
    /\ phase[s] = "preamble"
    /\ phase' = [phase EXCEPT ![s] = "over"]
    /\ IF link[s] = "up" THEN Fault(s) ELSE UNCHANGED broken
    /\ UNCHANGED <<leaseVars, current, known, retiring, ready, pending, claim, orphans, ending,
                   linkVars, workerVars, callVars>>

(* Writes one queued ASSIGN; when all are written, or one write threw,     *)
(* goes on to read.                                                        *)
Flush(s) ==
    /\ phase[s] = "flush"
    /\ IF pending[s] # <<>> /\ link[s] = "up"
       THEN /\ Send(s, <<"ASSIGN", Head(pending[s])>>)
            /\ pending' = [pending EXCEPT ![s] = Tail(@)]
            /\ UNCHANGED phase
       ELSE /\ pending' = [pending EXCEPT ![s] = <<>>]
            /\ phase' = [phase EXCEPT ![s] = "pump"]
            /\ UNCHANGED linkVars
    /\ UNCHANGED <<leaseVars, current, known, retiring, ready, claim, orphans, ending,
                   workerVars, callVars, broken>>

(* claim_result() and claim_rejected() of a lease the session knows.       *)
Claim(s, l, kind) ==
    /\ known' = known \ {l}
    /\ claim' = IF l \in cancelled THEN claim ELSE [claim EXCEPT ![s] = <<l, kind>>]

(* pump_worker_frames() reads one frame.                                   *)
Read(s) ==
    /\ phase[s] = "pump" /\ claim[s] = NoClaim /\ toCoordinator[s] # <<>>
    /\ toCoordinator' = [toCoordinator EXCEPT ![s] = Tail(@)]
    /\ LET frame == Head(toCoordinator[s])
           l == frame[2]
       IN \/ /\ frame[1] \in {"RESULT", "REJECT"} /\ l \in Of(s)
             /\ Claim(s, l, IF frame[1] = "RESULT" THEN "finished" ELSE "rejected")
             /\ UNCHANGED <<phase, ending>>
          \/ /\ frame[1] = "ERROR" \/ l \notin Of(s)
             /\ phase' = [phase EXCEPT ![s] = "over"]
             /\ ending' = [ending EXCEPT ![s] = IF frame[1] = "ERROR" THEN "protocol_error"
                                                ELSE "invalid_result"]
             /\ UNCHANGED <<known, claim>>
    /\ UNCHANGED <<leaseVars, current, retiring, ready, pending, orphans, link, toWorker,
                   workerVars, callVars, broken>>

(* The event of a claimed lease, delivered without the mutex.              *)
Deliver(s) ==
    /\ claim[s] # NoClaim
    /\ report' = [report EXCEPT ![claim[s][1]] = Append(@, claim[s][2])]
    /\ claim' = [claim EXCEPT ![s] = NoClaim]
    /\ UNCHANGED <<home, cancelled, current, phase, known, retiring, ready, pending, orphans,
                   ending, linkVars, workerVars, callVars, broken>>

EndOfStream(s) ==
    /\ phase[s] = "pump" /\ claim[s] = NoClaim
    /\ link[s] = "down" /\ toCoordinator[s] = <<>>
    /\ phase' = [phase EXCEPT ![s] = "over"]
    /\ UNCHANGED <<leaseVars, current, known, retiring, ready, pending, claim, orphans, ending,
                   linkVars, workerVars, callVars, broken>>

(* Mutant: queued ASSIGNs survive the session.                             *)
FinishKeepsPending(s) ==
    /\ phase[s] = "over"
    /\ phase' = [phase EXCEPT ![s] = "report"]
    /\ Cut(s, 0)
    /\ UNCHANGED pending
    /\ orphans' = [orphans EXCEPT ![s] = IF Stopping THEN {} ELSE Of(s) \ cancelled]
    /\ known' = known \ Of(s)
    /\ UNCHANGED <<leaseVars, current, retiring, ready, claim, ending, callVars, broken>>

(* The end of run_session(), under the mutex: take_live().                 *)
Finish(s) ==
    /\ phase[s] = "over"
    /\ phase' = [phase EXCEPT ![s] = "report"]
    /\ Cut(s, 0)
    /\ pending' = [pending EXCEPT ![s] = <<>>]
    /\ orphans' = [orphans EXCEPT ![s] = IF Stopping THEN {} ELSE Of(s) \ cancelled]
    /\ known' = known \ Of(s)
    /\ UNCHANGED <<leaseVars, current, retiring, ready, claim, ending, callVars, broken>>

(* One attempt_failed() per orphan, then the thread ends.                  *)
ReportOrphan(s) ==
    /\ phase[s] = "report"
    /\ \/ \E l \in orphans[s] :
             /\ report' = [report EXCEPT ![l] =
                    Append(@, IF ending[s] = "invalid_result" THEN "invalid_result"
                              ELSE "executor_lost")]
             /\ orphans' = [orphans EXCEPT ![s] = @ \ {l}]
             /\ UNCHANGED phase
       \/ /\ orphans[s] = {}
          /\ phase' = [phase EXCEPT ![s] = "done"]
          /\ UNCHANGED <<report, orphans>>
    /\ UNCHANGED <<home, cancelled, current, known, retiring, ready, pending, claim, ending,
                   linkVars, workerVars, callVars, broken>>

-----------------------------------------------------------------------------
(* The worker of session s: run_worker_loop() behind the agent's           *)
(* admission.                                                              *)

(* CANCEL and SHUTDOWN drop leases.                                        *)
Drop(ls) == dropped' = dropped \cup ls

(* The agent declines the lease: no slot, or not enough memory.            *)
WorkerRejects(s) ==
    /\ worker[s] = "serving" /\ toWorker[s] # <<>> /\ Head(toWorker[s])[1] = "ASSIGN"
    /\ link' = link
    /\ toWorker' = [toWorker EXCEPT ![s] = Tail(@)]
    /\ toCoordinator' = IF link[s] = "up"
                        THEN [toCoordinator EXCEPT ![s] =
                                 Append(@, <<"REJECT", Head(toWorker[s])[2]>>)]
                        ELSE toCoordinator
    /\ UNCHANGED <<leaseVars, sessionVars, workerVars, callVars, broken>>

WorkerReads(s) ==
    /\ worker[s] = "serving" /\ toWorker[s] # <<>>
    /\ toWorker' = [toWorker EXCEPT ![s] = Tail(@)]
    /\ LET frame == Head(toWorker[s])
           l == frame[2]
       IN \/ /\ frame[1] = "ASSIGN" /\ l \notin Running(s)
             /\ attempt' = [attempt EXCEPT ![l] = "running"]
             /\ UNCHANGED <<worker, dropped, toCoordinator>>
          \/ /\ frame[1] = "ASSIGN" /\ l \in Running(s)
             /\ worker' = [worker EXCEPT ![s] = "closing"]
             /\ Drop(Running(s))
             /\ toCoordinator' = [toCoordinator EXCEPT ![s] = Append(@, <<"ERROR", "none">>)]
             /\ UNCHANGED attempt
          \/ /\ frame[1] = "CANCEL"
             /\ Drop({l} \cap Running(s))
             /\ UNCHANGED <<worker, attempt, toCoordinator>>
          \/ /\ frame[1] = "SHUTDOWN"
             /\ worker' = [worker EXCEPT ![s] = "closing"]
             /\ Drop(Running(s))
             /\ UNCHANGED <<attempt, toCoordinator>>
    /\ UNCHANGED <<leaseVars, sessionVars, link, callVars, broken>>

(* The task function returned; the thread looks whether its lease was      *)
(* dropped and writes the RESULT after it let go of the mutex.             *)
TaskReturns(l) ==
    /\ attempt[l] = "running"
    /\ attempt' = [attempt EXCEPT ![l] = IF l \in dropped THEN "done" ELSE "answering"]
    /\ UNCHANGED <<leaseVars, sessionVars, linkVars, worker, dropped, callVars, broken>>

TaskAnswers(l) ==
    /\ attempt[l] = "answering"
    /\ Answer(home[l], <<"RESULT", l>>)
    /\ attempt' = [attempt EXCEPT ![l] = "done"]
    /\ UNCHANGED <<leaseVars, sessionVars, worker, dropped, callVars, broken>>

(* close() has joined the task threads, or the agent's grace period is     *)
(* over and it kills the session process; the connection is closed.        *)
WorkerCloses(s) ==
    /\ worker[s] = "closing"
    /\ worker' = [worker EXCEPT ![s] = "gone"]
    /\ attempt' = [l \in Leases |-> IF l \in Running(s) THEN "done" ELSE attempt[l]]
    /\ link' = [link EXCEPT ![s] = "down"]
    /\ UNCHANGED <<leaseVars, sessionVars, toWorker, toCoordinator, dropped, callVars, broken>>

(* The network fails or the worker process dies.                           *)
LoseConnection(s) ==
    /\ link[s] = "up"
    /\ Break(s)
    /\ Fault(s)
    /\ UNCHANGED <<leaseVars, sessionVars, callVars>>

-----------------------------------------------------------------------------
(* stop(), on the scheduler thread: close_session() for every session.     *)

StopBegins ==
    /\ Callable
    /\ IF current = NoSession THEN stop' = "stopped" /\ UNCHANGED stopAt
       ELSE stop' = "close" /\ stopAt' = 1
    /\ UNCHANGED <<leaseVars, sessionVars, linkVars, workerVars, writing, broken>>

StopCloses ==
    LET s == stopAt IN
    /\ stop = "close"
    /\ IF Finished(s) THEN stop' = "join" /\ UNCHANGED <<linkVars, workerVars>>
       ELSE IF Connected(s) THEN stop' = "write" /\ UNCHANGED <<linkVars, workerVars>>
       ELSE stop' = "join" /\ Break(s)
    /\ UNCHANGED <<leaseVars, sessionVars, writing, stopAt, broken>>

(* The SHUTDOWN is written outside the mutex, before the grace period.     *)
StopWrites ==
    /\ stop = "write" /\ stop' = "wait"
    /\ Send(stopAt, <<"SHUTDOWN", "none">>)
    /\ UNCHANGED <<leaseVars, sessionVars, workerVars, writing, stopAt, broken>>

(* Mutant: no grace period.                                                *)
StopWaitsForever ==
    /\ stop = "wait" /\ Finished(stopAt) /\ stop' = "join"
    /\ UNCHANGED <<leaseVars, sessionVars, linkVars, workerVars, writing, stopAt, broken>>

(* The session finished, or shutdown_grace ran out.                        *)
StopWaits ==
    /\ stop = "wait"
    /\ stop' = "join"
    /\ IF Finished(stopAt) THEN UNCHANGED <<linkVars, workerVars>> ELSE Break(stopAt)
    /\ UNCHANGED <<leaseVars, sessionVars, writing, stopAt, broken>>

(* Mutant: a finished session is not joined.                               *)
StopJoinsUnfinished ==
    /\ stop = "join" /\ Finished(stopAt)
    /\ IF stopAt = current THEN stop' = "stopped" /\ UNCHANGED stopAt
       ELSE stop' = "close" /\ stopAt' = stopAt + 1
    /\ UNCHANGED <<leaseVars, sessionVars, linkVars, workerVars, writing, broken>>

StopJoins ==
    /\ stop = "join" /\ phase[stopAt] = "done"
    /\ IF stopAt = current THEN stop' = "stopped" /\ UNCHANGED stopAt
       ELSE stop' = "close" /\ stopAt' = stopAt + 1
    /\ UNCHANGED <<leaseVars, sessionVars, linkVars, workerVars, writing, broken>>

-----------------------------------------------------------------------------
Scheduler ==
    \/ \E l \in Leases : Assign(l) \/ Cancel(l) \/ LeaseExpired(l)
    \/ StopBegins
Stop == StopCloses \/ StopWrites \/ StopWaits \/ StopJoins

(* What a session thread does by itself, and what it does when the worker  *)
(* has answered.                                                           *)
SessionThread(s) ==
    \/ Connect(s) \/ ConnectFails(s) \/ Flush(s) \/ Read(s) \/ Deliver(s)
    \/ EndOfStream(s) \/ Finish(s) \/ ReportOrphan(s)
    \/ link[s] = "down" /\ PreambleFails(s)
Handshake(s) == Preamble(s) \/ PreambleFails(s)

Worker(s) ==
    \/ WorkerReads(s) \/ WorkerRejects(s) \/ WorkerCloses(s)
Task(l) == TaskReturns(l) \/ TaskAnswers(l)

Next ==
    \/ Scheduler \/ CloseIdleSession \/ Stop
    \/ \E t \in Threads : Write(t)
    \/ \E s \in Sessions : SessionThread(s) \/ Handshake(s) \/ Worker(s)
                          \/ LoseConnection(s)
    \/ \E l \in Leases : Task(l)

Spec == Init /\ [][Next]_vars

(* The coordinator's own threads run; nothing is assumed of the scheduler, *)
(* the worker or the network.                                              *)
FairSpec ==
    /\ Spec
    /\ WF_vars(Stop)
    /\ \A t \in Threads : WF_vars(Write(t))
    /\ \A s \in Sessions : WF_vars(SessionThread(s))

-----------------------------------------------------------------------------
(* A session with a worker that keeps to the protocol is never ended for   *)
(* bad bytes or a protocol error (which would quarantine the worker),      *)
(* however cancels, expiries and late results cross on the wire.           *)
HonestWorkerIsTrusted ==
    \A s \in Sessions : ending[s] = "executor_lost"

(* A lease is reported lost only if its session met a fault or one of its  *)
(* leases expired: closing idle sessions, stopping and cancelling cost no  *)
(* attempt and count no loss against the worker.                           *)
LossHasACause ==
    \A l \in Leases : report[l] = <<"executor_lost">> => home[l] \in broken

(* The leases the executor answers for, and the last event of each lease.  *)
Held == {l \in Leases : l \in known \/ \E s \in Sessions : claim[s][1] = l \/ l \in orphans[s]}
LastEvent == [l \in Leases |-> IF report[l] = <<>> THEN "none" ELSE report[l][Len(report[l])]]

(* The executor keeps the contract of ExecutorEvents and Executor::stop(). *)
Contract == INSTANCE ExecutorContract WITH
    Reports <- Kinds, held <- Held, abandoned <- cancelled, report <- LastEvent,
    stopping <- Stopping, stopped <- (stop = "stopped")
ImplementsExecutorContract == Contract!Spec

(* stop() returns, even if the worker hangs and the network is silent, as  *)
(* long as no connection stays full: the grace period ends what the        *)
(* SHUTDOWN does not.  (close_session(), join of every session thread.)    *)
(* The SHUTDOWN itself is written without a timeout, before the grace      *)
(* period: a worker that never reads again holds stop() in that write.     *)
StopReturns ==
    []<>(\A s \in Sessions : Writable(s)) => (Stopping ~> (stop = "stopped"))

(* If the worker runs, tasks return and handshakes end, every lease is     *)
(* reported unless the scheduler gave it up or stopped the executor.       *)
WorkerRuns ==
    /\ \A s \in Sessions : WF_vars(Worker(s)) /\ WF_vars(Handshake(s))
    /\ \A l \in Leases : WF_vars(Task(l))
EveryLeaseEnds ==
    WorkerRuns => \A l \in Leases :
        (home[l] # NoSession) ~> (report[l] # <<>> \/ l \in cancelled \/ Stopping)
=============================================================================
