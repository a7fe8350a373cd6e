---------------------------- MODULE RecoveryJournal ----------------------------
(***************************************************************************)
(* The contents of svp-exec's recovery journal over any number of builds   *)
(* of one output: the task and artifact rows of build.sqlite, the files    *)
(* under blobs/pending and blobs/completed, and the one thread that writes *)
(* them: record_task_graph(), JournalResultCommitSink::commit(),           *)
(* RecoveryJournal::resume() and load_committed_results().  A build may    *)
(* die or lose power between any two writes, any write or deletion may     *)
(* fail, and published blobs may be damaged on disk.                       *)
(*                                                                         *)
(* A blob is named by its digest, so tasks with equal outputs share it.    *)
(* A SQLite transaction (WAL, synchronous=FULL) is atomic and durable when *)
(* it ends; a rename is durable once the directory is synced.              *)
(***************************************************************************)
EXTENDS Naturals

CONSTANTS
    Tasks,
    Deps,            \* Deps[t]: TaskSpec::depends_on
    Blobs,           \* digests
    Results,         \* Results[t]: the blob sets attempts of t may commit: the
                     \* outputs and the result record, which differs by attempt
    MaxFaults        \* bound: crashes, power losses, errors and damages

ASSUME DepsAssumption == Deps \in [Tasks -> SUBSET Tasks]
ASSUME ResultsAssumption == Results \in [Tasks -> SUBSET ((SUBSET Blobs) \ {{}})]
ASSUME BoundsAssumption == MaxFaults \in Nat

TaskState == {"planned", "ready", "leased", "running", "result_received",
              "committed", "failed_retryable", "failed_permanent"}

VARIABLES
    status,          \* task.status, or "unrecorded"
    rows,            \* rows[t]: blobs named by the artifact rows of t
    attempted,       \* tasks with a task_attempt row
    completed,       \* completed[b]: the state of blobs/completed/<b>
    pending,         \* staged files in blobs/pending
    litter,          \* staged files there that could not be deleted
    pc,              \* where the coordinator thread is
    cur, result,     \* the task being committed, and the blobs of its result
    todo,            \* blobs of the result still to stage or to publish
    done,            \* tasks the scheduler of this run counts as complete
    faults,
    (* observers *)
    stuck,           \* files of completed/ the latest resume could not delete
    cut              \* files of completed/ whose build ended after the rename
                     \* and before the sync, and that no sync followed yet

journalVars == <<status, rows, attempted, completed, pending, litter, stuck, cut>>
commitVars == <<cur, result, todo>>
vars == <<journalVars, pc, commitVars, done, faults>>

NoTask == "none"

(* A file under completed/ is whole and durable ("synced"), renamed but    *)
(* its directory not yet synced ("unsynced"), fails verification or was    *)
(* deleted from outside ("damaged"), or replaces a damaged one without yet *)
(* being durable ("repaired").                                             *)
BlobState == {"absent", "unsynced", "synced", "damaged", "repaired"}

TypeOK ==
    /\ status \in [Tasks -> TaskState \cup {"unrecorded"}]
    /\ rows \in [Tasks -> SUBSET Blobs]
    /\ \A t \in Tasks : rows[t] # {} <=> status[t] = "committed"
    /\ attempted \in SUBSET Tasks
    /\ completed \in [Blobs -> BlobState]
    /\ pending \in SUBSET Blobs /\ litter \in SUBSET Blobs
    /\ stuck \in SUBSET Blobs /\ cut \in SUBSET Blobs
    /\ pc \in {"down", "record", "discard_pending", "resume", "discard_completed",
               "record_missing", "load", "running", "advance", "stage", "publish",
               "sync", "insert_rows", "insert_attempt"}
    /\ cur \in Tasks \cup {NoTask}
    /\ result \in SUBSET Blobs /\ todo \in SUBSET result
    /\ done \in SUBSET Tasks
    /\ faults \in 0..MaxFaults

Committed == {t \in Tasks : status[t] = "committed"}

(* check_blob() finds the file and its digest.                             *)
Valid(b) == completed[b] \in {"unsynced", "synced", "repaired"}

(* Mutant: only the tasks of the current run count.                        *)
ReferencedByRun == UNION {rows[t] : t \in done}

Referenced == UNION {rows[t] : t \in Tasks}

(* RecoveryJournal::create() has just made the journal.                    *)
Init ==
    /\ status = [t \in Tasks |-> "unrecorded"]
    /\ rows = [t \in Tasks |-> {}]
    /\ attempted = {}
    /\ completed = [b \in Blobs |-> "absent"]
    /\ pending = {} /\ litter = {}
    /\ stuck = {} /\ cut = {}
    /\ pc = "record"
    /\ cur = NoTask /\ result = {} /\ todo = {}
    /\ done = {}
    /\ faults = 0

-----------------------------------------------------------------------------
(* record_task_graph() for a new build, and the tasks resume found missing *)
(* because the recording build died: one transaction per task.             *)
RecordTask(t) ==
    /\ pc \in {"record", "record_missing"}
    /\ status[t] = "unrecorded"
    /\ status' = [status EXCEPT ![t] = "planned"]
    /\ UNCHANGED <<rows, attempted, completed, pending, litter, stuck, cut, pc,
                   commitVars, done, faults>>

GraphRecorded ==
    /\ pc \in {"record", "record_missing"}
    /\ \A t \in Tasks : status[t] # "unrecorded"
    /\ pc' = IF pc = "record" THEN "running" ELSE "load"
    /\ UNCHANGED <<journalVars, commitVars, done, faults>>

-----------------------------------------------------------------------------
(* JournalResultCommitSink::commit(), called by the scheduler.             *)

NextTowardResult(s) ==
    CASE s \in {"planned", "failed_retryable"} -> "ready"
      [] s \in {"ready", "leased"} -> "running"
      [] s = "running" -> "result_received"

(* The scheduler commits a task that is not complete, after its            *)
(* dependencies, with the verified result of some attempt.                 *)
BeginCommit(t) ==
    /\ pc = "running"
    /\ t \notin done /\ Deps[t] \subseteq done
    /\ \E r \in Results[t] : result' = r /\ todo' = r
    /\ cur' = t
    /\ pc' = "advance"
    /\ UNCHANGED <<journalVars, done, faults>>

(* advance_to_result_received(): one transaction per edge.  A committed or *)
(* failed_permanent task cannot commit a result: it throws.                *)
Advance ==
    /\ pc = "advance"
    /\ \/ /\ status[cur] = "result_received"
          /\ pc' = "stage"
          /\ UNCHANGED <<status, commitVars, done>>
       \/ /\ status[cur] \notin {"result_received", "committed", "failed_permanent"}
          /\ status' = [status EXCEPT ![cur] = NextTowardResult(@)]
          /\ UNCHANGED <<pc, commitVars, done>>
    /\ UNCHANGED <<rows, attempted, completed, pending, litter, stuck, cut, faults>>

(* store_task_artifacts(): every blob is staged (written, synced, hashed)  *)
(* before the first is published.                                          *)
Stage ==
    /\ pc = "stage"
    /\ \E b \in todo :
          /\ pending' = pending \cup {b}
          /\ todo' = (IF todo = {b} THEN result ELSE todo \ {b})
          /\ pc' = (IF todo = {b} THEN "publish" ELSE "stage")
    /\ UNCHANGED <<status, rows, attempted, completed, litter, stuck, cut, cur,
                   result, done, faults>>

(* Identical content another task committed is shared, once it verifies.   *)
Shared(b) == Valid(b)

(* The files a deletion leaves behind: fs::remove() may fail, and its      *)
(* error is ignored everywhere.                                            *)
Leftovers(files) == IF faults < MaxFaults THEN SUBSET files ELSE {{}}
CountFault(left) == faults' = IF left = {} THEN faults ELSE faults + 1

(* publish_staged_blob() up to the rename.                                 *)
Publish ==
    /\ pc = "publish"
    /\ \E b \in todo :
          \/ /\ Shared(b)
             /\ \E left \in Leftovers({b}) : litter' = litter \cup left /\ CountFault(left)
             /\ pending' = pending \ {b}
             /\ todo' = todo \ {b}
             /\ pc' = (IF todo = {b} THEN "insert_rows" ELSE "publish")
             /\ UNCHANGED <<completed, stuck>>
          \/ /\ ~Shared(b)
             /\ pending' = pending \ {b}
             /\ completed' = [completed EXCEPT ![b] =
                                  IF @ = "damaged" THEN "repaired" ELSE "unsynced"]
             /\ stuck' = stuck \ {b}
             /\ todo' = todo \ {b}
             /\ pc' = "sync"
             /\ UNCHANGED <<litter, faults>>
    /\ UNCHANGED <<status, rows, attempted, cut, cur, result, done>>

(* Mutant: a blob is published without syncing the directory.              *)
SyncSkipped ==
    /\ pc = "sync"
    /\ pc' = (IF todo = {} THEN "insert_rows" ELSE "publish")
    /\ UNCHANGED <<journalVars, commitVars, done, faults>>

(* ... and its sync_directory().                                           *)
Sync ==
    /\ pc = "sync"
    /\ completed' = [b \in Blobs |-> IF Valid(b) THEN "synced" ELSE completed[b]]
    /\ cut' = {}
    /\ pc' = (IF todo = {} THEN "insert_rows" ELSE "publish")
    /\ UNCHANGED <<status, rows, attempted, pending, litter, stuck, commitVars, done,
                   faults>>

(* The transaction of commit_task().                                       *)
InsertRows ==
    /\ pc = "insert_rows"
    /\ rows' = [rows EXCEPT ![cur] = result]
    /\ status' = [status EXCEPT ![cur] = "committed"]
    /\ pc' = "insert_attempt"
    /\ UNCHANGED <<attempted, completed, pending, litter, stuck, cut, commitVars,
                   done, faults>>

(* record_task_attempt() (INSERT OR REPLACE); commit() returns.            *)
InsertAttempt ==
    /\ pc = "insert_attempt"
    /\ attempted' = attempted \cup {cur}
    /\ done' = done \cup {cur}
    /\ cur' = NoTask /\ result' = {} /\ todo' = {}
    /\ pc' = "running"
    /\ UNCHANGED <<status, rows, completed, pending, litter, stuck, cut, faults>>

-----------------------------------------------------------------------------
(* --resume: open() and resume_scheduler_state().                          *)

Open ==
    /\ pc = "down"
    /\ pc' = "discard_pending"
    /\ UNCHANGED <<journalVars, commitVars, done, faults>>

(* Mutant: resume trusts what it finds in pending/.                        *)
DiscardPendingSkipped ==
    /\ pc = "discard_pending"
    /\ pc' = "resume"
    /\ UNCHANGED <<journalVars, commitVars, done, faults>>

DiscardPending ==
    /\ pc = "discard_pending"
    /\ \E left \in Leftovers(pending \cup litter) : litter' = left /\ CountFault(left)
    /\ pending' = {}
    /\ pc' = "resume"
    /\ UNCHANGED <<status, rows, attempted, completed, stuck, cut, commitVars, done>>

(* Mutant: resume demotes nothing.                                         *)
DemotesNothing(t) == FALSE

(* verify_committed_tasks() demotes a task one of whose blobs is not valid.*)
Demoted(t) == status[t] = "committed" /\ \E b \in rows[t] : ~Valid(b)

(* Mutant: demotion leaves the artifact rows behind.                       *)
ResumeKeepsRows ==
    /\ pc = "resume"
    /\ LET kept == {t \in Committed : ~Demoted(t)}
       IN  status' = [t \in Tasks |->
               IF status[t] = "unrecorded" \/ t \in kept THEN status[t]
               ELSE IF Deps[t] \subseteq kept THEN "ready" ELSE "planned"]
    /\ pc' = "discard_completed"
    /\ UNCHANGED <<rows, attempted, completed, pending, litter, stuck, cut,
                   commitVars, done, faults>>

(* The transaction of resume(): demotion, and every task that is not       *)
(* committed restarts as ready or planned.  The attempt rows stay.         *)
Resume ==
    /\ pc = "resume"
    /\ LET kept == {t \in Committed : ~Demoted(t)}
       IN  /\ rows' = [t \in Tasks |-> IF Demoted(t) THEN {} ELSE rows[t]]
           /\ status' = [t \in Tasks |->
                  IF status[t] = "unrecorded" \/ t \in kept THEN status[t]
                  ELSE IF Deps[t] \subseteq kept THEN "ready" ELSE "planned"]
    /\ pc' = "discard_completed"
    /\ UNCHANGED <<attempted, completed, pending, litter, stuck, cut, commitVars,
                   done, faults>>

(* discard_unreferenced_completed(), after the commit.                     *)
DiscardCompleted ==
    /\ pc = "discard_completed"
    /\ LET unreferenced == {b \in Blobs \ Referenced : completed[b] # "absent"}
       IN  \E left \in Leftovers(unreferenced) :
             /\ completed' = [b \in Blobs |-> IF b \in Referenced \cup left
                                              THEN completed[b] ELSE "absent"]
             /\ stuck' = left
             /\ cut' = cut \cap (Referenced \cup left)
             /\ CountFault(left)
    /\ pc' = "record_missing"
    /\ UNCHANGED <<status, rows, attempted, pending, litter, commitVars, done>>

(* Mutants: the results are not verified; nothing is loaded.               *)
LoadUnverified ==
    /\ pc = "load"
    /\ done' = Committed
    /\ pc' = "running"
    /\ UNCHANGED <<journalVars, commitVars, faults>>
LoadNothing ==
    /\ pc = "load"
    /\ pc' = "running"
    /\ UNCHANGED <<journalVars, commitVars, done, faults>>

(* load_committed_results() verifies every blob it reads; it throws if one *)
(* was damaged since resume() looked.                                      *)
Load ==
    /\ pc = "load"
    /\ \/ /\ \A t \in Committed, b \in Blobs : b \in rows[t] => Valid(b)
          /\ done' = Committed
          /\ pc' = "running"
       \/ /\ \E t \in Committed : \E b \in rows[t] : ~Valid(b)
          /\ pc' = "down"
          /\ UNCHANGED done
    /\ UNCHANGED <<journalVars, commitVars, faults>>

-----------------------------------------------------------------------------
(* Faults.                                                                 *)

GoDown ==
    /\ faults < MaxFaults /\ faults' = faults + 1
    /\ pc # "down" /\ pc' = "down"
    /\ cur' = NoTask /\ result' = {} /\ todo' = {}
    /\ done' = {}

Unsynced == {b \in Blobs : completed[b] \in {"unsynced", "repaired"}}

(* The observer cut: the build ended between a rename and its sync.        *)
NoteCut == cut' = IF pc = "sync" THEN cut \cup Unsynced ELSE cut

(* The process dies: what it wrote stays.                                  *)
Crash ==
    /\ GoDown /\ NoteCut
    /\ UNCHANGED <<status, rows, attempted, completed, pending, litter, stuck>>

(* Power is lost: renames that were not synced may be undone, and staged   *)
(* files gone.                                                             *)
PowerLoss ==
    /\ GoDown /\ NoteCut
    /\ \E gone \in SUBSET Unsynced :
          completed' = [b \in Blobs |-> IF b \notin gone THEN completed[b]
                                        ELSE IF completed[b] = "repaired" THEN "damaged"
                                        ELSE "absent"]
    /\ \E left \in SUBSET pending : pending' = left
    /\ UNCHANGED <<status, rows, attempted, litter, stuck>>

(* A write or a check fails and the build ends with an error; the artifact *)
(* store discards what it staged, as far as it can.                        *)
Throw ==
    /\ GoDown /\ NoteCut /\ pc # "running"
    /\ \/ /\ pc \in {"stage", "publish", "sync"}
          /\ \E left \in SUBSET pending : litter' = litter \cup left
          /\ pending' = {}
       \/ pc \notin {"stage", "publish", "sync"} /\ UNCHANGED <<pending, litter>>
    /\ UNCHANGED <<status, rows, attempted, completed, stuck>>

(* A published blob is truncated, altered or deleted on disk.              *)
Damage(b) ==
    /\ faults < MaxFaults /\ faults' = faults + 1
    /\ Valid(b)
    /\ completed' = [completed EXCEPT ![b] = "damaged"]
    /\ UNCHANGED <<status, rows, attempted, pending, litter, stuck, cut, pc,
                   commitVars, done>>

CommitStep == Advance \/ Stage \/ Publish \/ Sync \/ InsertRows \/ InsertAttempt
ResumeStep == DiscardPending \/ Resume \/ DiscardCompleted \/ Load

Step ==
    \/ \E t \in Tasks : RecordTask(t) \/ BeginCommit(t)
    \/ GraphRecorded \/ CommitStep \/ ResumeStep

Fault == Crash \/ PowerLoss \/ Throw \/ (\E b \in Blobs : Damage(b))

Next == Step \/ Open \/ Fault

Spec == Init /\ [][Next]_vars

(* The coordinator thread runs, the build's tasks produce results, and the *)
(* user resumes a build that ended early.                                  *)
FairSpec == Spec /\ WF_vars(Step) /\ WF_vars(Open)

-----------------------------------------------------------------------------
(* Properties.                                                             *)

(* commit_task() publishes before it records: whatever crash, power loss,  *)
(* error or failed deletion came before, the blobs a committed task's rows *)
(* name are durable, unless they were damaged on disk, replace a damaged   *)
(* file right now, or were published by a build that ended before the sync *)
(* of its rename: such a file, if it is still there, is shared unsynced.   *)
DurableRows ==
    \A t \in Committed : \A b \in rows[t] :
        \/ completed[b] \in {"synced", "damaged"}
        \/ completed[b] = "repaired" /\ pc = "sync"
        \/ b \in cut

(* "a crash after this point leaves unreferenced completed blobs (removed  *)
(* by resume), never rows that point at missing bytes" (commit_task()).    *)
NeverMissing ==
    \A t \in Committed : \A b \in rows[t] : completed[b] # "absent"

(* A committed task is taken back only by resume, and only because one of  *)
(* its own blobs fails verification: damaged on disk, or cut off from its  *)
(* sync by the end of the build that renamed it.  No other crash, error,   *)
(* shared blob, failed deletion or cleanup costs finished work.            *)
NoWorkLost ==
    [][\A t \in Tasks : (status[t] = "committed" /\ status'[t] # "committed")
            => /\ pc = "resume"
               /\ \E b \in rows[t] : ~Valid(b) /\ (completed[b] = "damaged" \/ b \in cut)]_vars

(* Once a build is under way nothing unverified is left from earlier ones: *)
(* but for the files whose deletion failed, pending/ is empty and every    *)
(* completed blob belongs to a committed task.                             *)
NoGarbage ==
    pc = "running" =>
        /\ pending = {}
        /\ \A b \in Blobs \ stuck : completed[b] # "absent" => \E t \in Committed : b \in rows[t]

(* The sink never finds a task it cannot commit: whatever is left in the   *)
(* journal, a task that runs is not committed already.                     *)
SinkAccepts ==
    pc \in {"advance", "stage", "publish", "sync", "insert_rows"} =>
        status[cur] \notin {"committed", "failed_permanent", "unrecorded"}

(* The journal implements DurableResults.                                  *)
Durable == INSTANCE DurableResults
             WITH stored <- Committed, done <- done,
                  intact <- {t \in Committed : \A b \in rows[t] : Valid(b)},
                  running <- pc \in {"running", "advance", "stage", "publish",
                                     "sync", "insert_rows", "insert_attempt"}
ImplementsDurableResults == Durable!Spec

(* Once faults stop, resuming finishes the build from wherever it was.     *)
BuildFinishes == <>[](pc = "running" /\ done = Tasks /\ Committed = Tasks)
=============================================================================
