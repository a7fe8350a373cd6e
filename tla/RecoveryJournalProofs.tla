------------------------- MODULE RecoveryJournalProofs -------------------------
(***************************************************************************)
(* What is proved about RecoveryJournal for every graph, every set of      *)
(* results and any number of builds and faults.                            *)
(***************************************************************************)
EXTENDS RecoveryJournal, TLAPS

Committing == {"advance", "stage", "publish", "sync", "insert_rows"}
Running == Committing \cup {"running", "insert_attempt"}

(* While the sink commits, it works on a task of the graph with one of its *)
(* results.                                                                *)
CommitInv ==
    /\ pc \in Committing \cup {"insert_attempt"} =>
           cur \in Tasks /\ cur \notin done /\ result \in Results[cur]
    /\ pc \in {"stage", "publish", "sync", "insert_rows"} =>
           status[cur] = "result_received"
    /\ pc = "advance" => todo = result

(* A run counts exactly the committed tasks as complete, save the one      *)
(* whose commit() has not returned yet.                                    *)
DoneInv ==
    /\ pc \in Committing \cup {"running"} => done = Committed
    /\ pc = "insert_attempt" => done \cup {cur} = Committed
    /\ pc \notin Running => done = {}
    /\ pc = "record" => Committed = {}
    /\ pc \in Running \cup {"load"} => \A t \in Tasks : status[t] # "unrecorded"
    /\ \A t \in Tasks : status[t] # "failed_permanent"

(* A blob that is not durable is being published right now, or the build   *)
(* that published it was cut short.  A build that runs has seen the bytes  *)
(* of every blob its rows name.                                            *)
BlobInv ==
    /\ DurableRows
    /\ pc # "sync" => Unsynced \subseteq cut
    /\ pc \in Running => \A b \in Referenced : completed[b] # "absent"
    /\ pc \in {"publish", "sync", "insert_rows"} =>
           \A b \in result \ todo : completed[b] # "absent"
    /\ pc = "insert_rows" => todo = {}

(* What lies in the two blob directories, by what the coordinator does.    *)
GarbageInv ==
    /\ pc \notin {"down", "discard_pending", "stage", "publish", "sync"} => pending = {}
    /\ pc = "stage" => pending = result \ todo
    /\ pc \in {"publish", "sync"} => pending = todo
    /\ pc \notin {"down", "discard_pending", "resume", "discard_completed",
                  "publish", "sync", "insert_rows"} =>
           \A b \in Blobs \ stuck : completed[b] # "absent" => b \in Referenced
    /\ pc \in {"publish", "sync", "insert_rows"} =>
           \A b \in Blobs \ stuck : completed[b] # "absent" => b \in Referenced \cup result

Inv == TypeOK /\ CommitInv /\ DoneInv

Clean == BlobInv /\ GarbageInv
-----------------------------------------------------------------------------
(* The invariant holds initially and every step preserves it.              *)

LEMMA InitInv == Init => Inv /\ Clean
  BY BoundsAssumption
     DEF Init, Inv, Clean, TypeOK, BlobState, TaskState, CommitInv, DoneInv,
         BlobInv, GarbageInv, DurableRows, Unsynced, Referenced, Committed, Committing, Running

(* A result names at least one blob: its record.                           *)
LEMMA ResultNamesBlobs ==
    ASSUME Inv, pc \in Committing \cup {"insert_attempt"} PROVE result # {}
  BY ResultsAssumption DEF Inv, CommitInv

LEMMA TypeStep == ASSUME Inv, [Next]_vars PROVE TypeOK'
<1> USE BoundsAssumption, ResultsAssumption
    DEF Inv, TypeOK, BlobState, TaskState, CommitInv, Committing, Committed,
        Valid, Referenced, journalVars, commitVars, CountFault, NoteCut, Unsynced
<1>1. ASSUME NEW t \in Tasks, RecordTask(t)
      PROVE  TypeOK'
  BY <1>1 DEF RecordTask
<1>2. ASSUME NEW t \in Tasks, BeginCommit(t)
      PROVE  TypeOK'
  BY <1>2 DEF BeginCommit
<1>3. CASE GraphRecorded
  BY <1>3 DEF GraphRecorded
<1>4. CASE Advance
  <2>1. cur \in Tasks /\ status[cur] # "unrecorded"
    BY <1>4 DEF Advance, DoneInv, Running
  <2>2. status[cur] \notin {"result_received", "committed", "failed_permanent"} =>
            NextTowardResult(status[cur]) \in TaskState \ {"committed"}
    BY <2>1 DEF NextTowardResult
  <2>3. QED
    BY <1>4, <2>1, <2>2 DEF Advance
<1>5. CASE Stage
  BY <1>5 DEF Stage
<1>6. CASE Publish
  <2>1. PICK b \in todo :
           \/ /\ Shared(b)
              /\ \E left \in Leftovers({b}) : litter' = litter \cup left /\ CountFault(left)
              /\ pending' = pending \ {b}
              /\ todo' = todo \ {b}
              /\ pc' = (IF todo = {b} THEN "insert_rows" ELSE "publish")
              /\ UNCHANGED <<completed, stuck>>
           \/ /\ ~Shared(b)
              /\ pending' = pending \ {b}
              /\ completed' = [completed EXCEPT ![b] =
                                   IF @ = "damaged" THEN "repaired" ELSE "unsynced"]
              /\ stuck' = stuck \ {b}
              /\ todo' = todo \ {b}
              /\ pc' = "sync"
              /\ UNCHANGED <<litter, faults>>
    BY <1>6 DEF Publish
  <2>2. UNCHANGED <<status, rows, attempted, cut, cur, result, done>>
    BY <1>6 DEF Publish
  <2>3. faults' \in 0..MaxFaults /\ litter' \in SUBSET Blobs
    BY <2>1 DEF Leftovers
  <2>4. completed' \in [Blobs -> BlobState] /\ stuck' \in SUBSET Blobs
    BY <2>1
  <2>5. QED
    BY <2>1, <2>2, <2>3, <2>4
<1>7. CASE Sync
  BY <1>7 DEF Sync
<1>8. CASE InsertRows
  <2>1. cur \in Tasks /\ result # {}
    BY <1>8, ResultNamesBlobs DEF InsertRows
  <2>2. QED
    BY <1>8, <2>1 DEF InsertRows
<1>9. CASE InsertAttempt
  BY <1>9 DEF InsertAttempt
<1>10. CASE Open
  BY <1>10 DEF Open
<1>11. CASE DiscardPending
  BY <1>11 DEF DiscardPending, Leftovers
<1>12. CASE Resume
  BY <1>12 DEF Resume, Demoted
<1>13. CASE DiscardCompleted
  BY <1>13 DEF DiscardCompleted, Leftovers
<1>14. CASE Load
  BY <1>14 DEF Load
<1>15. CASE Crash
  BY <1>15 DEF Crash, GoDown
<1>16. CASE PowerLoss
  BY <1>16 DEF PowerLoss, GoDown
<1>17. CASE Throw
  BY <1>17 DEF Throw, GoDown
<1>18. ASSUME NEW b \in Blobs, Damage(b)
      PROVE  TypeOK'
  BY <1>18 DEF Damage
<1>19. CASE UNCHANGED vars
  BY <1>19 DEF vars
<1>20. QED
  BY <1>1, <1>2, <1>3, <1>4, <1>5, <1>6, <1>7, <1>8, <1>9, <1>10,
     <1>11, <1>12, <1>13, <1>14, <1>15, <1>16, <1>17, <1>18, <1>19
     DEF Next, Step, CommitStep, ResumeStep, Fault

LEMMA CommitInvStep == ASSUME Inv, [Next]_vars PROVE CommitInv'
<1> USE DEF Inv, TypeOK, CommitInv, DoneInv, Running, Committing, Committed,
            journalVars, commitVars, CountFault, NoteCut, Unsynced
<1>1. ASSUME NEW t \in Tasks, RecordTask(t)
      PROVE  CommitInv'
  BY <1>1 DEF RecordTask
<1>2. ASSUME NEW t \in Tasks, BeginCommit(t)
      PROVE  CommitInv'
  BY <1>2 DEF BeginCommit
<1>3. CASE GraphRecorded
  BY <1>3 DEF GraphRecorded
<1>4. CASE Advance
  BY <1>4 DEF Advance, NextTowardResult
<1>5. CASE Stage
  BY <1>5 DEF Stage
<1>6. CASE Publish
  BY <1>6 DEF Publish, Shared
<1>7. CASE Sync
  BY <1>7 DEF Sync
<1>8. CASE InsertRows
  BY <1>8 DEF InsertRows
<1>9. CASE InsertAttempt
  BY <1>9 DEF InsertAttempt
<1>10. CASE Open
  BY <1>10 DEF Open
<1>11. CASE DiscardPending
  BY <1>11 DEF DiscardPending, Leftovers
<1>12. CASE Resume
  BY <1>12 DEF Resume, Demoted
<1>13. CASE DiscardCompleted
  BY <1>13 DEF DiscardCompleted, Leftovers
<1>14. CASE Load
  BY <1>14 DEF Load
<1>15. CASE Crash
  BY <1>15 DEF Crash, GoDown
<1>16. CASE PowerLoss
  BY <1>16 DEF PowerLoss, GoDown
<1>17. CASE Throw
  BY <1>17 DEF Throw, GoDown
<1>18. ASSUME NEW b \in Blobs, Damage(b)
      PROVE  CommitInv'
  BY <1>18 DEF Damage
<1>19. CASE UNCHANGED vars
  BY <1>19 DEF vars
<1>20. QED
  BY <1>1, <1>2, <1>3, <1>4, <1>5, <1>6, <1>7, <1>8, <1>9, <1>10,
     <1>11, <1>12, <1>13, <1>14, <1>15, <1>16, <1>17, <1>18, <1>19
     DEF Next, Step, CommitStep, ResumeStep, Fault

LEMMA DoneInvStep == ASSUME Inv, [Next]_vars PROVE DoneInv'
<1> USE DEF Inv, TypeOK, TaskState, CommitInv, DoneInv, Running, Committing,
            Committed, journalVars, commitVars, CountFault, NoteCut, Unsynced
<1>1. ASSUME NEW t \in Tasks, RecordTask(t)
      PROVE  DoneInv'
  BY <1>1 DEF RecordTask
<1>2. ASSUME NEW t \in Tasks, BeginCommit(t)
      PROVE  DoneInv'
  BY <1>2 DEF BeginCommit
<1>3. CASE GraphRecorded
  BY <1>3 DEF GraphRecorded
<1>4. CASE Advance
  BY <1>4 DEF Advance, NextTowardResult
<1>5. CASE Stage
  BY <1>5 DEF Stage
<1>6. CASE Publish
  BY <1>6 DEF Publish, Shared
<1>7. CASE Sync
  BY <1>7 DEF Sync
<1>8. CASE InsertRows
  BY <1>8 DEF InsertRows
<1>9. CASE InsertAttempt
  BY <1>9 DEF InsertAttempt
<1>10. CASE Open
  BY <1>10 DEF Open
<1>11. CASE DiscardPending
  BY <1>11 DEF DiscardPending, Leftovers
<1>12. CASE Resume
  BY <1>12 DEF Resume, Demoted
<1>13. CASE DiscardCompleted
  BY <1>13 DEF DiscardCompleted, Leftovers
<1>14. CASE Load
  BY <1>14 DEF Load
<1>15. CASE Crash
  BY <1>15 DEF Crash, GoDown
<1>16. CASE PowerLoss
  BY <1>16 DEF PowerLoss, GoDown
<1>17. CASE Throw
  BY <1>17 DEF Throw, GoDown
<1>18. ASSUME NEW b \in Blobs, Damage(b)
      PROVE  DoneInv'
  BY <1>18 DEF Damage
<1>19. CASE UNCHANGED vars
  BY <1>19 DEF vars
<1>20. QED
  BY <1>1, <1>2, <1>3, <1>4, <1>5, <1>6, <1>7, <1>8, <1>9, <1>10,
     <1>11, <1>12, <1>13, <1>14, <1>15, <1>16, <1>17, <1>18, <1>19
     DEF Next, Step, CommitStep, ResumeStep, Fault

LEMMA InvStep == ASSUME Inv, [Next]_vars PROVE Inv'
  BY TypeStep, CommitInvStep, DoneInvStep DEF Inv

(* The blob directories.                                                   *)
LEMMA BlobInvStep ==
    ASSUME Inv, BlobInv, [Next]_vars PROVE BlobInv'
<1> USE DEF Inv, TypeOK, BlobState, CommitInv, DoneInv, Committing, Running, BlobInv, DurableRows,
            Committed, Valid, Referenced, journalVars, commitVars, CountFault, NoteCut, Unsynced
<1>1. ASSUME NEW t \in Tasks, RecordTask(t)
      PROVE  BlobInv'
  BY <1>1 DEF RecordTask
<1>2. ASSUME NEW t \in Tasks, BeginCommit(t)
      PROVE  BlobInv'
  BY <1>2 DEF BeginCommit
<1>3. CASE GraphRecorded
  BY <1>3 DEF GraphRecorded
<1>4. CASE Advance
  BY <1>4 DEF Advance, NextTowardResult
<1>5. CASE Stage
  BY <1>5 DEF Stage
<1>6. CASE Publish
  BY <1>6 DEF Publish, Shared
<1>7. CASE Sync
  BY <1>7 DEF Sync
<1>8. CASE InsertRows
  BY <1>8 DEF InsertRows
<1>9. CASE InsertAttempt
  BY <1>9 DEF InsertAttempt
<1>10. CASE Open
  BY <1>10 DEF Open
<1>11. CASE DiscardPending
  BY <1>11 DEF DiscardPending, Leftovers
<1>12. CASE Resume
  BY <1>12 DEF Resume, Demoted
<1>13. CASE DiscardCompleted
  BY <1>13 DEF DiscardCompleted, Leftovers
<1>14. CASE Load
  BY <1>14 DEF Load
<1>15. CASE Crash
  BY <1>15 DEF Crash, GoDown
<1>16. CASE PowerLoss
  BY <1>16 DEF PowerLoss, GoDown
<1>17. CASE Throw
  BY <1>17 DEF Throw, GoDown
<1>18. ASSUME NEW b \in Blobs, Damage(b)
      PROVE  BlobInv'
  BY <1>18 DEF Damage
<1>19. CASE UNCHANGED vars
  BY <1>19 DEF vars
<1>20. QED
  BY <1>1, <1>2, <1>3, <1>4, <1>5, <1>6, <1>7, <1>8, <1>9, <1>10,
     <1>11, <1>12, <1>13, <1>14, <1>15, <1>16, <1>17, <1>18, <1>19
     DEF Next, Step, CommitStep, ResumeStep, Fault

LEMMA GarbageInvStep ==
    ASSUME Inv, GarbageInv, [Next]_vars PROVE GarbageInv'
<1> USE DEF Inv, TypeOK, BlobState, CommitInv, Committing, GarbageInv,
            Committed, Valid, Referenced, journalVars, commitVars, CountFault, NoteCut, Unsynced
<1>1. ASSUME NEW t \in Tasks, RecordTask(t)
      PROVE  GarbageInv'
  BY <1>1 DEF RecordTask
<1>2. ASSUME NEW t \in Tasks, BeginCommit(t)
      PROVE  GarbageInv'
  BY <1>2 DEF BeginCommit
<1>3. CASE GraphRecorded
  BY <1>3 DEF GraphRecorded
<1>4. CASE Advance
  BY <1>4 DEF Advance, NextTowardResult
<1>5. CASE Stage
  BY <1>5 DEF Stage
<1>6. CASE Publish
  <2>1. PICK b \in todo :
           /\ pending' = pending \ {b} /\ todo' = todo \ {b}
           /\ \A c \in Blobs \ {b} : completed'[c] = completed[c] /\ (c \in stuck' <=> c \in stuck)
           /\ pc' \in {"publish", "sync", "insert_rows"}
           /\ pc' = "insert_rows" => todo = {b}
    BY <1>6 DEF Publish
  <2>2. UNCHANGED <<rows, result>> /\ pc = "publish"
    BY <1>6 DEF Publish
  <2>3. QED
    BY <2>1, <2>2
<1>7. CASE Sync
  BY <1>7 DEF Sync
<1>8. CASE InsertRows
  BY <1>8 DEF InsertRows
<1>9. CASE InsertAttempt
  BY <1>9 DEF InsertAttempt
<1>10. CASE Open
  BY <1>10 DEF Open
<1>11. CASE DiscardPending
  BY <1>11 DEF DiscardPending, Leftovers
<1>12. CASE Resume
  BY <1>12 DEF Resume, Demoted
<1>13. CASE DiscardCompleted
  BY <1>13 DEF DiscardCompleted, Leftovers
<1>14. CASE Load
  BY <1>14 DEF Load
<1>15. CASE Crash
  BY <1>15 DEF Crash, GoDown
<1>16. CASE PowerLoss
  BY <1>16 DEF PowerLoss, GoDown
<1>17. CASE Throw
  BY <1>17 DEF Throw, GoDown
<1>18. ASSUME NEW b \in Blobs, Damage(b)
      PROVE  GarbageInv'
  BY <1>18 DEF Damage
<1>19. CASE UNCHANGED vars
  BY <1>19 DEF vars
<1>20. QED
  BY <1>1, <1>2, <1>3, <1>4, <1>5, <1>6, <1>7, <1>8, <1>9, <1>10,
     <1>11, <1>12, <1>13, <1>14, <1>15, <1>16, <1>17, <1>18, <1>19
     DEF Next, Step, CommitStep, ResumeStep, Fault

-----------------------------------------------------------------------------
(* At every step of a build the journal's rows, the commit or resume in    *)
(* progress and the set of finished tasks fit together.                    *)
THEOREM Invariance == Spec => []Inv
<1>1. QED
  BY InitInv, InvStep, PTL DEF Spec

(* The tables and directories always have a legal shape, and artifact rows *)
(* exist exactly for the committed tasks.                                  *)
THEOREM TypeCorrect == Spec => []TypeOK
<1>1. Inv => TypeOK
  BY DEF Inv
<1>2. QED
  BY <1>1, Invariance, PTL

(* JournalResultCommitSink::commit() never throws because of the state an  *)
(* earlier build or an interrupted commit left the task in.                *)
THEOREM SinkAlwaysAccepts == Spec => []SinkAccepts
<1>1. Inv => SinkAccepts
  BY DEF Inv, CommitInv, DoneInv, SinkAccepts, Committing, Running, Committed
<1>2. QED
  BY <1>1, Invariance, PTL

(* What lies in pending/ and completed/ and whether it is durable follow   *)
(* from where the build is, from the deletions that failed and from the    *)
(* publications that were cut short.                                       *)
THEOREM CleanInvariance == Spec => [](Inv /\ Clean)
<1>1. ASSUME Inv /\ Clean, [Next]_vars PROVE (Inv /\ Clean)'
  BY <1>1, InvStep, BlobInvStep, GarbageInvStep DEF Clean
<1>2. QED
  BY <1>1, InitInv, PTL DEF Spec

(* Rows name bytes that no crash or power loss can take away, under any    *)
(* failing deletion, save the files whose publication was cut short        *)
(* between the rename and the sync.                                        *)
THEOREM RowsAreDurable == Spec => []DurableRows
<1>1. Clean => DurableRows
  BY DEF Clean, BlobInv
<1>2. QED
  BY <1>1, CleanInvariance, PTL

(* A build that is under way has nothing unverified in its journal but     *)
(* files whose deletion failed.                                            *)
THEOREM GarbageIsCollected == Spec => []NoGarbage
<1>1. Inv /\ Clean => NoGarbage
  BY DEF Inv, TypeOK, Clean, GarbageInv, NoGarbage, Referenced, Committed
<1>2. QED
  BY <1>1, CleanInvariance, PTL

(* Only a blob of its own that was damaged, or whose publication was cut   *)
(* short, takes a committed task back.                                     *)
THEOREM WorkIsKept == Spec => NoWorkLost
<1> DEFINE Kept == \A t \in Tasks : (status[t] = "committed" /\ status'[t] # "committed")
                     => /\ pc = "resume"
                        /\ \E b \in rows[t] : ~Valid(b) /\ (completed[b] = "damaged" \/ b \in cut)
<1>1. ASSUME Inv /\ Clean, [Next]_vars PROVE Kept
  <2> USE <1>1 DEF Inv, TypeOK, TaskState, BlobState, CommitInv, Committing,
                   journalVars, commitVars
  <2>1. CASE Resume
    <3>1. \A t \in Committed : Demoted(t) =>
             \E b \in rows[t] : ~Valid(b) /\ (completed[b] = "damaged" \/ b \in cut)
      BY <2>1 DEF Resume, Demoted, Committed, Valid, Clean, BlobInv, DurableRows
    <3>2. QED
      BY <2>1, <3>1 DEF Resume, Committed
  <2>2. CASE Advance
    BY <2>2 DEF Advance
  <2>3. CASE InsertRows
    BY <2>3 DEF InsertRows
  <2>4. ASSUME NEW t \in Tasks, RecordTask(t) PROVE Kept
    BY <2>4 DEF RecordTask
  <2>5. CASE UNCHANGED status
    BY <2>5
  <2>6. (\E t \in Tasks : BeginCommit(t)) => UNCHANGED status
    BY DEF BeginCommit
  <2>7. (GraphRecorded \/ Stage \/ Publish \/ Sync \/ InsertAttempt) => UNCHANGED status
    BY DEF GraphRecorded, Stage, Publish, Sync, InsertAttempt
  <2>8. (Open \/ DiscardPending \/ DiscardCompleted \/ Load) => UNCHANGED status
    BY DEF Open, DiscardPending, DiscardCompleted, Load
  <2>9. (Fault \/ UNCHANGED vars) => UNCHANGED status
    BY DEF Fault, Crash, PowerLoss, Throw, Damage, vars
  <2>10. QED
    BY <2>1, <2>2, <2>3, <2>4, <2>5, <2>6, <2>7, <2>8, <2>9
       DEF Next, Step, CommitStep, ResumeStep
<1>2. QED
  BY <1>1, CleanInvariance, PTL DEF Spec, NoWorkLost

-----------------------------------------------------------------------------
(* Refinement of DurableResults.                                           *)

LEMMA IntactIsStored ==
    {t \in Committed : \A b \in rows[t] : Valid(b)}' \in SUBSET Committed'
  OBVIOUS

(* Most steps change nothing of what DurableResults sees but, at most,     *)
(* which bytes verify.                                                     *)
LEMMA DurableDecay ==
    ASSUME Committed' = Committed, done' = done, pc \in Running <=> pc' \in Running
    PROVE  Durable!Next
<1>1. Durable!Decay
  BY DEF Durable!Decay, Running, Committing
<1>2. QED
  BY <1>1, IntactIsStored DEF Durable!Next

LEMMA SameCommitted == ASSUME UNCHANGED status PROVE Committed' = Committed
  BY DEF Committed

LEMMA DurableStep == ASSUME Inv, [Next]_vars PROVE [Durable!Next]_(Durable!vars)
<1> USE DEF Inv, TypeOK, CommitInv, DoneInv, Running, Committing, journalVars, commitVars, CountFault, NoteCut, Unsynced
<1>1. ASSUME NEW t \in Tasks, RecordTask(t) PROVE Durable!Next
  BY <1>1, DurableDecay DEF RecordTask, Committed
<1>2. ASSUME NEW t \in Tasks, BeginCommit(t) PROVE Durable!Next
  BY <1>2, DurableDecay, SameCommitted DEF BeginCommit
<1>3. CASE GraphRecorded
  <2>1. CASE pc = "record"
    <3>1. Durable!Recover
      BY <1>3, <2>1 DEF GraphRecorded, Durable!Recover, Committed, Valid
    <3>2. QED
      BY <3>1, IntactIsStored DEF Durable!Next
  <2>2. CASE pc # "record"
    BY <1>3, <2>2, DurableDecay, SameCommitted DEF GraphRecorded
  <2>3. QED
    BY <2>1, <2>2
<1>4. CASE Advance
  <2>1. status[cur] \in TaskState \ {"result_received", "committed", "failed_permanent"} =>
            NextTowardResult(status[cur]) # "committed"
    BY DEF NextTowardResult, TaskState
  <2>2. cur \in Tasks /\ status[cur] \in TaskState
    BY <1>4 DEF Advance
  <2>3. Committed' = Committed
    BY <1>4, <2>1, <2>2 DEF Advance, Committed
  <2>4. QED
    BY <1>4, <2>3, DurableDecay DEF Advance
<1>5. CASE Stage \/ Publish \/ Sync
  BY <1>5, DurableDecay, SameCommitted DEF Stage, Publish, Sync
<1>6. CASE InsertRows
  <2>1. cur \in Tasks \ Committed /\ Committed' = Committed \cup {cur}
    BY <1>6 DEF InsertRows, Committed
  <2>2. Durable!Store(cur)
    BY <1>6, <2>1 DEF InsertRows, Durable!Store
  <2>3. QED
    BY <2>1, <2>2, IntactIsStored DEF Durable!Next
<1>7. CASE InsertAttempt
  <2>1. cur \in Tasks /\ cur \in Committed \ done /\ Committed' = Committed
    BY <1>7 DEF InsertAttempt, Committed
  <2>2. Durable!Acknowledge(cur)
    BY <1>7, <2>1 DEF InsertAttempt, Durable!Acknowledge
  <2>3. QED
    BY <2>1, <2>2, IntactIsStored DEF Durable!Next
<1>8. CASE Open \/ DiscardPending \/ DiscardCompleted
  BY <1>8, DurableDecay, SameCommitted DEF Open, DiscardPending, DiscardCompleted
<1>9. CASE Resume
  <2> DEFINE lost == {t \in Tasks : Demoted(t)}
  <2>1. Committed' = Committed \ lost
    BY <1>9 DEF Resume, Committed, Demoted
  <2>2. Durable!Withdraw(lost)
    BY <1>9, <2>1 DEF Resume, Durable!Withdraw
  <2>3. lost \in SUBSET Tasks
    OBVIOUS
  <2>4. QED
    BY <2>2, <2>3, IntactIsStored DEF Durable!Next
<1>10. CASE Load
  <2>1. CASE pc' = "running"
    <3>1. \A u \in Committed : \A b \in rows[u] : Valid(b)
      BY <1>10, <2>1 DEF Load, Committed
    <3>2. Durable!Recover
      BY <1>10, <2>1, <3>1 DEF Load, Durable!Recover, Committed, Valid
    <3>3. QED
      BY <3>2, IntactIsStored DEF Durable!Next
  <2>2. CASE pc' # "running"
    BY <1>10, <2>2, DurableDecay, SameCommitted DEF Load
  <2>3. QED
    BY <2>1, <2>2
<1>11. CASE Crash \/ PowerLoss \/ Throw
  <2>1. UNCHANGED status /\ GoDown
    BY <1>11 DEF Crash, PowerLoss, Throw
  <2>2. CASE pc \in Running
    <3>1. Durable!Stop
      BY <2>1, <2>2 DEF GoDown, Durable!Stop, Committed
    <3>2. QED
      BY <3>1, IntactIsStored DEF Durable!Next
  <2>3. CASE pc \notin Running
    BY <2>1, <2>3, DurableDecay, SameCommitted DEF GoDown
  <2>4. QED
    BY <2>2, <2>3
<1>12. ASSUME NEW b \in Blobs, Damage(b) PROVE Durable!Next
  BY <1>12, DurableDecay, SameCommitted DEF Damage
<1>13. CASE UNCHANGED vars
  BY <1>13 DEF vars, Durable!vars, Committed, Valid
<1>14. QED
  BY <1>1, <1>2, <1>3, <1>4, <1>5, <1>6, <1>7, <1>8, <1>9, <1>10, <1>11, <1>12, <1>13
     DEF Next, Step, CommitStep, ResumeStep, Fault

(* For the scheduler the journal is a store of results: a run starts with  *)
(* exactly the stored ones and only if the bytes of all of them verify, a  *)
(* result counts once it is stored, and none is withdrawn under a run.     *)
THEOREM Implementation == Spec => ImplementsDurableResults
<1>1. Init => Durable!Init
  BY DEF Init, Durable!Init, Committed, Valid
<1>2. QED
  BY <1>1, DurableStep, Invariance, PTL DEF Spec, ImplementsDurableResults, Durable!Spec

=============================================================================
