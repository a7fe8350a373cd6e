------------------------- MODULE JournalDirectoryProofs -------------------------
(***************************************************************************)
(* What is proved about JournalDirectory for any number of processes,      *)
(* sessions and retries, with overlapping creations and deletions.         *)
(***************************************************************************)
EXTENDS JournalDirectory, TLAPS

(* Where a process that passed lock_file() in create() or open() can be.   *)
PastLock == {"init_db", "write_manifest", "read_manifest", "open_db", "using"}

(* Who holds a lock, by what it does.  A process opens the lock file only  *)
(* without holding one, so its descriptor never changes under a lock.      *)
LockPhases ==
    \A p \in Processes :
        /\ pc[p] \in PastLock \cup {"same_file"} => locked[p]
        /\ pc[p] \in {"idle", "mkdir", "make_locks", "open_lock", "flock",
                      "discard", "catch"} => ~locked[p]
        /\ pc[p] = "make_blobs" => (locked[p] <=> op[p] # "create")
        /\ pc[p] = "read_manifest" => op[p] = "open"

(* flock(): an open file has one exclusive holder.                         *)
OneHolder ==
    \A p, q \in Processes : locked[p] /\ locked[q] /\ fd[p] = fd[q] => p = q

Inv == TypeOK /\ LockPhases /\ OneHolder

LEMMA InitInv == Init => Inv
<1> SUFFICES ASSUME Init PROVE Inv
  OBVIOUS
<1>1. DirectoryOK
  <2>1. tree \in [Names -> Nat] /\ \A x \in Names : tree[x] = 0
    BY DEF Init, EmptyTree
  <2>2. next_inode \in Nat \ {0} /\ starts \in 0..Starts
    BY BoundsAssumption DEF Init, Starts
  <2>3. root \in BOOLEAN /\ overlap \in BOOLEAN
    BY DEF Init
  <2>4. QED
    BY <2>1, <2>2, <2>3 DEF DirectoryOK
<1>2. ProcessesOK
  BY BoundsAssumption DEF Init, ProcessesOK, Steps
<1>3. LockPhases /\ OneHolder
  BY DEF Init, LockPhases, OneHolder, PastLock
<1>4. QED
  BY <1>1, <1>2, <1>3 DEF Inv, TypeOK

(* What the steps below use of the types.                                  *)
LEMMA TypeFacts ==
    ASSUME TypeOK
    PROVE  /\ \A x \in Names : tree[x] \in Nat
           /\ \A p \in Processes : session[p] \in Nat
           /\ starts \in Nat /\ starts + 1 \in Nat
           /\ next_inode \in Nat /\ next_inode + 1 \in Nat
           /\ Present \in SUBSET Names
           /\ "lock" \in Names /\ "manifest" \in Names
  BY BoundsAssumption DEF TypeOK, DirectoryOK, ProcessesOK, Present, Names, Starts

-----------------------------------------------------------------------------
(* The directory.                                                          *)

(* A process that fails leaves the directory as it is.                     *)
LEMMA FailKeepsDirectory ==
    ASSUME DirectoryOK, NEW p \in Processes, Fail(p) \/ Leave(p), UNCHANGED overlap
    PROVE  DirectoryOK'
  BY DEF Fail, Leave, DirectoryOK, Starts

LEMMA DirectoryStep == ASSUME TypeOK, [Next]_vars PROVE DirectoryOK'
<1> USE BoundsAssumption, FailKeepsDirectory, TypeFacts DEF TypeOK, DirectoryOK, Names, Starts
<1>a. UNCHANGED overlap
  BY DEF Next, vars
<1> USE <1>a
<1>1. ASSUME NEW p \in Processes, NEW mode \in Modes, Start(p, mode) PROVE DirectoryOK'
  BY <1>1 DEF Start
<1>2. ASSUME NEW p \in Processes, NEW x \in Names, RemoveEntry(p, x) PROVE DirectoryOK'
  BY <1>2 DEF RemoveEntry
<1>3. ASSUME NEW p \in Processes, Mkdir(p) PROVE DirectoryOK'
  BY <1>3 DEF Mkdir
<1>4. ASSUME NEW p \in Processes, MakeLocks(p) PROVE DirectoryOK'
  BY <1>4 DEF MakeLocks
<1>5. ASSUME NEW p \in Processes, MakeBlobs(p) PROVE DirectoryOK'
  BY <1>5 DEF MakeBlobs
<1>6. ASSUME NEW p \in Processes, OpenLock(p) PROVE DirectoryOK'
  BY <1>6 DEF OpenLock
<1>7. ASSUME NEW p \in Processes, Flock(p) PROVE DirectoryOK'
  BY <1>7 DEF Flock, Contended
<1>8. ASSUME NEW p \in Processes, SameFile(p) PROVE DirectoryOK'
  BY <1>8 DEF SameFile, AfterLock
<1>9. ASSUME NEW p \in Processes, InitDatabase(p) PROVE DirectoryOK'
  BY <1>9 DEF InitDatabase
<1>10. ASSUME NEW p \in Processes, WriteManifest(p) PROVE DirectoryOK'
  BY <1>10 DEF WriteManifest
<1>11. ASSUME NEW p \in Processes, ReadManifest(p) PROVE DirectoryOK'
  BY <1>11 DEF ReadManifest
<1>12. ASSUME NEW p \in Processes, OpenDatabase(p) PROVE DirectoryOK'
  BY <1>12 DEF OpenDatabase
<1>13. ASSUME NEW p \in Processes, Discard(p) PROVE DirectoryOK'
  BY <1>13 DEF Discard
<1>14. ASSUME NEW p \in Processes, RemoveRoot(p) PROVE DirectoryOK'
  <2>1. CASE Leave(p)
    BY <2>1
  <2>2. CASE ~Leave(p)
    BY <1>14, <2>2 DEF RemoveRoot, Present
  <2>3. QED
    BY <2>1, <2>2
<1>15. ASSUME NEW p \in Processes, Finish(p) PROVE DirectoryOK'
  BY <1>15 DEF Finish
<1>16. ASSUME NEW p \in Processes, Close(p) PROVE DirectoryOK'
  BY <1>16 DEF Close
<1>17. ASSUME NEW p \in Processes, IoError(p) PROVE DirectoryOK'
  BY <1>17 DEF IoError
<1>18. ASSUME NEW p \in Processes, Crash(p) PROVE DirectoryOK'
  BY <1>18 DEF Crash
<1>19. CASE UNCHANGED vars
  BY <1>19 DEF vars, procVars
<1>20. QED
  BY <1>1, <1>2, <1>3, <1>4, <1>5, <1>6, <1>7, <1>8, <1>9, <1>10,
     <1>11, <1>12, <1>13, <1>14, <1>15, <1>16, <1>17, <1>18, <1>19 DEF Next, Step

-----------------------------------------------------------------------------
(* The processes.                                                          *)

LEMMA CloseLockType ==
    ASSUME ProcessesOK, NEW p \in Processes, CloseLock(p)
    PROVE  fd' \in [Processes -> Nat] /\ locked' \in [Processes -> BOOLEAN]
  BY DEF CloseLock, ProcessesOK

LEMMA LeaveKeepsProcesses ==
    ASSUME ProcessesOK, NEW p \in Processes, EndCall(p) PROVE ProcessesOK'
  BY BoundsAssumption DEF EndCall, CloseLock, Goto, ProcessesOK, Steps

LEMMA FailKeepsProcesses ==
    ASSUME ProcessesOK, NEW p \in Processes, Fail(p) \/ Leave(p) PROVE ProcessesOK'
<1>1. CASE Leave(p)
  BY <1>1, LeaveKeepsProcesses DEF Leave
<1>2. CASE ~Leave(p)
  <2>1. Present \in SUBSET Names
    BY DEF Present
  <2>2. /\ Goto(p, "catch") /\ CloseLock(p)
        /\ seen' = [seen EXCEPT ![p] = Present]
        /\ UNCHANGED <<op, retry, session>>
    BY <1>2 DEF Fail
  <2>3. pc' \in [Processes -> Steps]
    BY <2>2 DEF Goto, ProcessesOK, Steps
  <2>4. QED
    BY <2>1, <2>2, <2>3, CloseLockType DEF ProcessesOK
<1>3. QED
  BY <1>1, <1>2 DEF Fail

LEMMA ProcessesStep == ASSUME TypeOK, [Next]_vars PROVE ProcessesOK'
<1> USE BoundsAssumption, FailKeepsProcesses, LeaveKeepsProcesses, TypeFacts
    DEF TypeOK, ProcessesOK, Goto, CloseLock, Steps, Deleting
<1>1. ASSUME NEW p \in Processes, NEW mode \in Modes, Start(p, mode) PROVE ProcessesOK'
  <2>1. /\ session' = [session EXCEPT ![p] = starts + 1]
        /\ UNCHANGED <<fd, locked, retry, seen>>
    BY <1>1 DEF Start
  <2>2. pc' \in [Processes -> Steps] /\ op' \in [Processes -> {"create", "open", "remove"}]
    BY <1>1 DEF Start
  <2>3. QED
    BY <2>1, <2>2
<1>2. ASSUME NEW p \in Processes, NEW x \in Names, RemoveEntry(p, x) PROVE ProcessesOK'
  BY <1>2 DEF RemoveEntry
<1>3. ASSUME NEW p \in Processes, Mkdir(p) PROVE ProcessesOK'
  BY <1>3 DEF Mkdir
<1>4. ASSUME NEW p \in Processes, MakeLocks(p) PROVE ProcessesOK'
  BY <1>4 DEF MakeLocks
<1>5. ASSUME NEW p \in Processes, MakeBlobs(p) PROVE ProcessesOK'
  BY <1>5 DEF MakeBlobs
<1>6. ASSUME NEW p \in Processes, OpenLock(p) PROVE ProcessesOK'
  <2>1. CASE Fail(p)
    BY <2>1
  <2>2. CASE ~Fail(p)
    <3>1. tree'["lock"] \in Nat
      BY <1>6, <2>2 DEF OpenLock, DirectoryOK
    <3>2. QED
      BY <1>6, <2>2, <3>1 DEF OpenLock
  <2>3. QED
    BY <2>1, <2>2
<1>7. ASSUME NEW p \in Processes, Flock(p) PROVE ProcessesOK'
  BY <1>7 DEF Flock, Contended
<1>8. ASSUME NEW p \in Processes, SameFile(p) PROVE ProcessesOK'
  <2>1. CASE Fail(p)
    BY <2>1
  <2>2. CASE ~Fail(p) /\ retry' = [retry EXCEPT ![p] = 0]
    <3>1. AfterLock(p) \in Steps
      BY DEF AfterLock
    <3>2. (IF op[p] = "remove" THEN Present ELSE {}) \in SUBSET Names
      OBVIOUS
    <3>3. QED
      BY <1>8, <2>2, <3>1, <3>2 DEF SameFile
  <2>3. CASE ~Fail(p) /\ retry' # [retry EXCEPT ![p] = 0]
    <3> HIDE DEF CloseLock
    <3>1. /\ retry[p] < MaxRelinkRetries /\ retry' = [retry EXCEPT ![p] = retry[p] + 1]
          /\ pc' = [pc EXCEPT ![p] = "open_lock"] /\ CloseLock(p)
          /\ UNCHANGED <<op, seen, session>>
      BY <1>8, <2>3 DEF SameFile
    <3>2. retry' \in [Processes -> 0..MaxRelinkRetries]
      BY <3>1
    <3>3. QED
      BY <3>1, <3>2, CloseLockType
  <2>4. QED
    BY <2>1, <2>2, <2>3
<1>9. ASSUME NEW p \in Processes, InitDatabase(p) PROVE ProcessesOK'
  BY <1>9 DEF InitDatabase
<1>10. ASSUME NEW p \in Processes, WriteManifest(p) PROVE ProcessesOK'
  BY <1>10 DEF WriteManifest
<1>11. ASSUME NEW p \in Processes, ReadManifest(p) PROVE ProcessesOK'
  BY <1>11 DEF ReadManifest
<1>12. ASSUME NEW p \in Processes, OpenDatabase(p) PROVE ProcessesOK'
  BY <1>12 DEF OpenDatabase
<1>13. ASSUME NEW p \in Processes, Discard(p) PROVE ProcessesOK'
  BY <1>13 DEF Discard
<1>14. ASSUME NEW p \in Processes, RemoveRoot(p) PROVE ProcessesOK'
  <2>1. CASE EndCall(p)
    BY <2>1
  <2>2. CASE ~EndCall(p)
    <3> HIDE DEF CloseLock
    <3>1. /\ pc' = [pc EXCEPT ![p] = "mkdir"] /\ CloseLock(p)
          /\ UNCHANGED <<op, retry, seen, session>>
      BY <1>14, <2>2 DEF RemoveRoot, Leave
    <3>2. QED
      BY <3>1, CloseLockType
  <2>3. QED
    BY <2>1, <2>2
<1>15. ASSUME NEW p \in Processes, Finish(p) PROVE ProcessesOK'
  BY <1>15 DEF Finish
<1>16. ASSUME NEW p \in Processes, Close(p) PROVE ProcessesOK'
  BY <1>16 DEF Close
<1>17. ASSUME NEW p \in Processes, IoError(p) PROVE ProcessesOK'
  BY <1>17 DEF IoError
<1>18. ASSUME NEW p \in Processes, Crash(p) PROVE ProcessesOK'
  BY <1>18 DEF Crash
<1>19. CASE UNCHANGED vars
  BY <1>19 DEF vars, procVars
<1>20. QED
  BY <1>1, <1>2, <1>3, <1>4, <1>5, <1>6, <1>7, <1>8, <1>9, <1>10,
     <1>11, <1>12, <1>13, <1>14, <1>15, <1>16, <1>17, <1>18, <1>19 DEF Next, Step

-----------------------------------------------------------------------------
(* The locks.                                                              *)

LEMMA PhasesStep == ASSUME Inv, [Next]_vars PROVE LockPhases'
<1> USE DEF Inv, TypeOK, ProcessesOK, LockPhases, PastLock, Deleting, Goto, CloseLock, EndCall, Leave, Fail
<1>1. ASSUME NEW p \in Processes, NEW mode \in Modes, Start(p, mode) PROVE LockPhases'
  BY <1>1 DEF Start
<1>2. ASSUME NEW p \in Processes, NEW x \in Names, RemoveEntry(p, x) PROVE LockPhases'
  BY <1>2 DEF RemoveEntry
<1>3. ASSUME NEW p \in Processes, Mkdir(p) PROVE LockPhases'
  BY <1>3 DEF Mkdir
<1>4. ASSUME NEW p \in Processes, MakeLocks(p) PROVE LockPhases'
  BY <1>4 DEF MakeLocks
<1>5. ASSUME NEW p \in Processes, MakeBlobs(p) PROVE LockPhases'
  BY <1>5 DEF MakeBlobs
<1>6. ASSUME NEW p \in Processes, OpenLock(p) PROVE LockPhases'
  BY <1>6 DEF OpenLock
<1>7. ASSUME NEW p \in Processes, Flock(p) PROVE LockPhases'
  BY <1>7 DEF Flock, Contended
<1>8. ASSUME NEW p \in Processes, SameFile(p) PROVE LockPhases'
  BY <1>8 DEF SameFile, AfterLock
<1>9. ASSUME NEW p \in Processes, InitDatabase(p) PROVE LockPhases'
  BY <1>9 DEF InitDatabase
<1>10. ASSUME NEW p \in Processes, WriteManifest(p) PROVE LockPhases'
  BY <1>10 DEF WriteManifest
<1>11. ASSUME NEW p \in Processes, ReadManifest(p) PROVE LockPhases'
  BY <1>11 DEF ReadManifest
<1>12. ASSUME NEW p \in Processes, OpenDatabase(p) PROVE LockPhases'
  BY <1>12 DEF OpenDatabase
<1>13. ASSUME NEW p \in Processes, Discard(p) PROVE LockPhases'
  BY <1>13 DEF Discard
<1>14. ASSUME NEW p \in Processes, RemoveRoot(p) PROVE LockPhases'
  BY <1>14 DEF RemoveRoot
<1>15. ASSUME NEW p \in Processes, Finish(p) PROVE LockPhases'
  BY <1>15 DEF Finish
<1>16. ASSUME NEW p \in Processes, Close(p) PROVE LockPhases'
  BY <1>16 DEF Close
<1>17. ASSUME NEW p \in Processes, IoError(p) PROVE LockPhases'
  BY <1>17 DEF IoError
<1>18. ASSUME NEW p \in Processes, Crash(p) PROVE LockPhases'
  BY <1>18 DEF Crash
<1>19. CASE UNCHANGED vars
  BY <1>19 DEF vars, procVars
<1>20. QED
  BY <1>1, <1>2, <1>3, <1>4, <1>5, <1>6, <1>7, <1>8, <1>9, <1>10,
     <1>11, <1>12, <1>13, <1>14, <1>15, <1>16, <1>17, <1>18, <1>19 DEF Next, Step

LEMMA HolderStep == ASSUME Inv, [Next]_vars PROVE OneHolder'
<1> USE DEF Inv, TypeOK, ProcessesOK, LockPhases, OneHolder, PastLock, Deleting, Goto, CloseLock,
            EndCall, Leave, Fail
<1>1. ASSUME NEW p \in Processes, NEW mode \in Modes, Start(p, mode) PROVE OneHolder'
  BY <1>1 DEF Start
<1>2. ASSUME NEW p \in Processes, NEW x \in Names, RemoveEntry(p, x) PROVE OneHolder'
  BY <1>2 DEF RemoveEntry
<1>3. ASSUME NEW p \in Processes, Mkdir(p) PROVE OneHolder'
  BY <1>3 DEF Mkdir
<1>4. ASSUME NEW p \in Processes, MakeLocks(p) PROVE OneHolder'
  BY <1>4 DEF MakeLocks
<1>5. ASSUME NEW p \in Processes, MakeBlobs(p) PROVE OneHolder'
  BY <1>5 DEF MakeBlobs
<1>6. ASSUME NEW p \in Processes, OpenLock(p) PROVE OneHolder'
  BY <1>6 DEF OpenLock
<1>7. ASSUME NEW p \in Processes, Flock(p) PROVE OneHolder'
  BY <1>7 DEF Flock, Contended
<1>8. ASSUME NEW p \in Processes, SameFile(p) PROVE OneHolder'
  BY <1>8 DEF SameFile, AfterLock
<1>9. ASSUME NEW p \in Processes, InitDatabase(p) PROVE OneHolder'
  BY <1>9 DEF InitDatabase
<1>10. ASSUME NEW p \in Processes, WriteManifest(p) PROVE OneHolder'
  BY <1>10 DEF WriteManifest
<1>11. ASSUME NEW p \in Processes, ReadManifest(p) PROVE OneHolder'
  BY <1>11 DEF ReadManifest
<1>12. ASSUME NEW p \in Processes, OpenDatabase(p) PROVE OneHolder'
  BY <1>12 DEF OpenDatabase
<1>13. ASSUME NEW p \in Processes, Discard(p) PROVE OneHolder'
  BY <1>13 DEF Discard
<1>14. ASSUME NEW p \in Processes, RemoveRoot(p) PROVE OneHolder'
  BY <1>14 DEF RemoveRoot
<1>15. ASSUME NEW p \in Processes, Finish(p) PROVE OneHolder'
  BY <1>15 DEF Finish
<1>16. ASSUME NEW p \in Processes, Close(p) PROVE OneHolder'
  BY <1>16 DEF Close
<1>17. ASSUME NEW p \in Processes, IoError(p) PROVE OneHolder'
  BY <1>17 DEF IoError
<1>18. ASSUME NEW p \in Processes, Crash(p) PROVE OneHolder'
  BY <1>18 DEF Crash
<1>19. CASE UNCHANGED vars
  BY <1>19 DEF vars, procVars
<1>20. QED
  BY <1>1, <1>2, <1>3, <1>4, <1>5, <1>6, <1>7, <1>8, <1>9, <1>10,
     <1>11, <1>12, <1>13, <1>14, <1>15, <1>16, <1>17, <1>18, <1>19 DEF Next, Step

(* Inv holds in every reachable state.                                     *)
THEOREM Invariance == Spec => []Inv
<1>1. Inv /\ [Next]_vars => Inv'
  BY DirectoryStep, ProcessesStep, PhasesStep, HolderStep DEF Inv, TypeOK
<1>2. QED
  BY <1>1, InitInv, PTL DEF Spec

(* The directory has no entries without a root, and every process is at a  *)
(* known step.                                                             *)
THEOREM TypeCorrect == Spec => []TypeOK
<1>1. Inv => TypeOK
  BY DEF Inv
<1>2. QED
  BY <1>1, Invariance, PTL

(* Only a successful check of the path gets a process through lock_file(). *)
LEMMA ThroughStep ==
    ASSUME Inv, [Next]_vars, NEW p \in Processes, ~Through(p), Through(p)'
    PROVE  SameFile(p) /\ tree["lock"] = fd[p]
<1> USE DEF Inv, TypeOK, ProcessesOK, LockPhases, PastLock, Through, Deleting, Goto, CloseLock,
            EndCall, Leave, Fail
<1>1. ASSUME NEW r \in Processes, NEW mode \in Modes, Start(r, mode) PROVE FALSE
  BY <1>1 DEF Start
<1>2. ASSUME NEW r \in Processes, NEW x \in Names, RemoveEntry(r, x) PROVE FALSE
  BY <1>2 DEF RemoveEntry
<1>3. ASSUME NEW r \in Processes, Mkdir(r) PROVE FALSE
  BY <1>3 DEF Mkdir
<1>4. ASSUME NEW r \in Processes, MakeLocks(r) \/ MakeBlobs(r) PROVE FALSE
  BY <1>4 DEF MakeLocks, MakeBlobs
<1>5. ASSUME NEW r \in Processes, OpenLock(r) PROVE FALSE
  BY <1>5 DEF OpenLock
<1>6. ASSUME NEW r \in Processes, Flock(r) PROVE FALSE
  BY <1>6 DEF Flock
<1>7. ASSUME NEW r \in Processes, SameFile(r)
      PROVE  SameFile(p) /\ tree["lock"] = fd[p]
  <2>1. CASE tree["lock"] = fd[r]
    <3>1. r = p
      BY <1>7, <2>1 DEF SameFile
    <3>2. QED
      BY <1>7, <2>1, <3>1
  <2>2. CASE tree["lock"] # fd[r]
    BY <1>7, <2>2 DEF SameFile
  <2>3. QED
    BY <2>1, <2>2
<1>8. ASSUME NEW r \in Processes, InitDatabase(r) \/ WriteManifest(r) PROVE FALSE
  BY <1>8 DEF InitDatabase, WriteManifest
<1>9. ASSUME NEW r \in Processes, ReadManifest(r) \/ OpenDatabase(r) PROVE FALSE
  BY <1>9 DEF ReadManifest, OpenDatabase
<1>10. ASSUME NEW r \in Processes, Discard(r) \/ Finish(r) PROVE FALSE
  BY <1>10 DEF Discard, Finish
<1>11. ASSUME NEW r \in Processes, RemoveRoot(r) PROVE FALSE
  BY <1>11 DEF RemoveRoot
<1>12. ASSUME NEW r \in Processes, Close(r) \/ Crash(r) \/ IoError(r) PROVE FALSE
  BY <1>12 DEF Close, Crash, IoError
<1>13. CASE UNCHANGED vars
  BY <1>13 DEF vars, procVars
<1>14. QED
  BY <1>1, <1>2, <1>3, <1>4, <1>5, <1>6, <1>7, <1>8, <1>9, <1>10, <1>11, <1>12, <1>13
     DEF Next, Step

(* Whoever gets through lock_file() holds the file at the path, and nobody *)
(* else who got through holds it, however deletions, creations and crashes *)
(* fall between open(), flock() and the check: the check pins the file to  *)
(* the path, and a file has one holder.                                    *)
THEOREM LockIsExclusive == Spec => LockExcludes
<1>1. Inv /\ [Next]_vars =>
        [\A p \in Processes : (~Through(p) /\ Through(p)') =>
            /\ tree["lock"] = fd[p]
            /\ \A q \in Processes \ {p} : Through(q) => fd[q] # tree["lock"]]_vars
  <2> SUFFICES ASSUME Inv, [Next]_vars, NEW p \in Processes, ~Through(p), Through(p)'
               PROVE  /\ tree["lock"] = fd[p]
                      /\ \A q \in Processes \ {p} : Through(q) => fd[q] # tree["lock"]
    OBVIOUS
  <2>1. SameFile(p) /\ tree["lock"] = fd[p]
    BY ThroughStep
  <2>2. locked[p]
    BY <2>1 DEF SameFile, Inv, LockPhases
  <2>3. QED
    BY <2>1, <2>2 DEF Inv, OneHolder, Through
<1>2. QED
  BY <1>1, Invariance, PTL DEF Spec, LockExcludes

-----------------------------------------------------------------------------
(* Builds that start and delete one at a time.                             *)

(* Without overlap one process at a time creates, opens or deletes.        *)
Busy(p) == pc[p] \notin {"idle", "using"}

OneBusy == \A p, q \in Processes : Busy(p) /\ Busy(q) => p = q

(* What a process at work knows of the directory.  Until it has the lock   *)
(* an established journal may be in use.                                   *)
AtLock(p) ==
    /\ pc[p] \in {"open_lock", "flock", "same_file"} \cup PastLock =>
          root /\ tree["locks"] # 0
    /\ pc[p] \in {"flock", "same_file"} \cup PastLock => tree["lock"] = fd[p] /\ fd[p] # 0
    /\ pc[p] # "idle" => session[p] # 0

Creating(p) ==
    /\ op[p] = "create" /\ pc[p] \in {"make_locks", "make_blobs", "open_lock", "flock",
                                      "same_file", "init_db"} =>
          root /\ tree["db"] = 0 /\ tree["manifest"] = 0
    /\ op[p] = "create" /\ pc[p] \in {"make_blobs", "open_lock", "flock", "same_file"} =>
          tree["locks"] # 0
    /\ op[p] = "create" /\ pc[p] \in {"open_lock", "flock", "same_file"} => tree["blobs"] # 0
    /\ pc[p] \in {"init_db", "write_manifest"} => op[p] = "create" /\ tree["blobs"] # 0
    /\ pc[p] = "write_manifest" => tree["db"] = session[p] /\ tree["manifest"] = 0

Opening(p) ==
    /\ pc[p] = "make_blobs" /\ op[p] # "create" =>
          /\ root /\ tree["locks"] # 0 /\ tree["lock"] = fd[p] /\ fd[p] # 0
          /\ tree["manifest"] = session[p]
    /\ pc[p] = "open_db" => tree["blobs"] # 0 /\ tree["manifest"] = session[p]

Removing(p) ==
    /\ pc[p] = "discard" => op[p] = "remove"
    /\ pc[p] = "removing" => Present \subseteq seen[p]

(* A journal in use is whole, and the others wait for its lock at most.    *)
Contending == {"idle", "make_locks", "discard", "open_lock", "flock"}

Owning(p) ==
    pc[p] = "using" =>
        /\ tree["blobs"] # 0
        /\ tree["db"] = session[p] /\ tree["manifest"] = session[p]
        /\ \A q \in Processes \ {p} : /\ pc[q] \in Contending
                                      /\ pc[q] # "idle" => op[q] # "create"

(* The database and the manifest at the path belong to one session.        *)
OneSession == tree["db"] # 0 /\ tree["manifest"] # 0 => tree["db"] = tree["manifest"]

QuietInv ==
    /\ OneBusy
    /\ OneSession
    /\ \A p \in Processes : /\ AtLock(p) /\ Creating(p) /\ Opening(p)
                            /\ Removing(p) /\ Owning(p)

QInv == ~overlap => QuietInv

LEMMA InitQInv == Init => QInv
  BY DEF Init, QInv, QuietInv, OneBusy, Busy, OneSession, AtLock, Creating, Opening,
         Removing, Owning, PastLock, EmptyTree, Names

(* A process that creates, or has got past the lock, is alone.             *)
LEMMA Alone ==
    ASSUME QuietInv, NEW p \in Processes, Busy(p),
           pc[p] \notin Contending \/ op[p] = "create"
    PROVE  \A q \in Processes \ {p} : pc[q] = "idle"
  BY DEF QuietInv, OneBusy, Busy, Owning, Contending

(* A step of p touches nothing of the other processes.                     *)
Moves(p) ==
    \A q \in Processes \ {p} :
        /\ pc'[q] = pc[q] /\ op'[q] = op[q] /\ fd'[q] = fd[q]
        /\ seen'[q] = seen[q] /\ session'[q] = session[q]

(* What p has to see to when it takes a step: alone it may do anything to  *)
(* the directory; otherwise it changes nothing an established journal      *)
(* consists of, and stays in front of the lock.                            *)
Careful(p) ==
    \/ \A q \in Processes \ {p} : pc[q] = "idle"
    \/ /\ root' = root
       /\ \/ tree' = tree
          \/ Busy(p) /\ tree' = [tree EXCEPT !["locks"] = 1]
       /\ pc'[p] \in Contending
       /\ pc'[p] # "idle" => op'[p] # "create"

LEMMA CarefulStep ==
    ASSUME TypeOK, QuietInv, NEW p \in Processes, Moves(p), Careful(p),
           Busy(p)' => \A q \in Processes \ {p} : ~Busy(q),
           OneSession', AtLock(p)', Creating(p)', Opening(p)', Removing(p)', Owning(p)'
    PROVE  QuietInv'
<1>1. OneBusy'
  BY DEF QuietInv, OneBusy, Busy, Moves
<1>2. ASSUME NEW q \in Processes \ {p}
      PROVE  AtLock(q)' /\ Creating(q)' /\ Opening(q)' /\ Removing(q)' /\ Owning(q)'
  <2>1. CASE pc[q] = "idle"
    BY <2>1 DEF Moves, AtLock, Creating, Opening, Removing, Owning, PastLock
  <2>2. CASE pc[q] # "idle" /\ tree' = tree
    <3>1. /\ root' = root /\ pc'[p] \in Contending
          /\ pc'[p] # "idle" => op'[p] # "create"
      BY <2>2 DEF Careful
    <3>2. AtLock(q)' /\ Creating(q)' /\ Opening(q)' /\ Removing(q)'
      BY <2>2, <3>1 DEF Moves, QuietInv, AtLock, Creating, Opening, Removing, Present
    <3>3. Owning(q)'
      BY <2>2, <3>1 DEF Moves, QuietInv, Owning
    <3>4. QED
      BY <3>2, <3>3
  <2>3. CASE pc[q] # "idle" /\ tree' # tree
    <3>1. /\ root' = root /\ pc'[p] \in Contending
          /\ pc'[p] # "idle" => op'[p] # "create"
          /\ pc[q] = "using"
          /\ tree' = [tree EXCEPT !["locks"] = 1]
      BY <2>3 DEF Careful, QuietInv, OneBusy, Busy
    <3>2. /\ tree'["locks"] = 1
          /\ \A x \in Names \ {"locks"} : tree'[x] = tree[x]
      BY <3>1 DEF TypeOK, DirectoryOK, Names
    <3>3. AtLock(q)'
      BY <3>1, <3>2 DEF Moves, QuietInv, AtLock, PastLock, Names
    <3>4. Owning(q)'
      BY <3>1, <3>2 DEF Moves, QuietInv, Owning, Names
    <3>5. Creating(q)' /\ Opening(q)' /\ Removing(q)'
      BY <3>1 DEF Moves, Creating, Opening, Removing
    <3>6. QED
      BY <3>3, <3>4, <3>5
  <2>4. QED
    BY <2>1, <2>2, <2>3
<1>3. QED
  BY <1>1, <1>2 DEF QuietInv

(* A call that returns, throws or dies.                                    *)
LEMMA LeaveQuiet ==
    ASSUME TypeOK, QuietInv, NEW p \in Processes, Leave(p)
    PROVE  QuietInv'
<1>1. /\ Moves(p) /\ pc'[p] = "idle" /\ root' = root /\ tree' = tree
  BY DEF Leave, EndCall, CloseLock, Goto, Moves, TypeOK, ProcessesOK
<1>2. Careful(p) /\ ~Busy(p)'
  BY <1>1 DEF Careful, Contending, Busy
<1>3. AtLock(p)' /\ Creating(p)' /\ Opening(p)' /\ Removing(p)' /\ Owning(p)' /\ OneSession'
  BY <1>1 DEF AtLock, Creating, Opening, Removing, Owning, OneSession, PastLock, QuietInv
<1>4. QED
  BY <1>1, <1>2, <1>3, CarefulStep

(* create() that fails cleans up alone; the others just throw.             *)
LEMMA FailQuiet ==
    ASSUME TypeOK, QuietInv, NEW p \in Processes, Busy(p), Fail(p)
    PROVE  QuietInv'
<1>1. CASE Leave(p)
  BY <1>1, LeaveQuiet
<1>2. CASE ~Leave(p)
  <2>1. /\ op[p] = "create" /\ Moves(p) /\ pc'[p] = "catch" /\ tree' = tree
        /\ session'[p] = session[p]
    BY <1>2 DEF Fail, CloseLock, Goto, Moves, TypeOK, ProcessesOK
  <2>2. \A q \in Processes \ {p} : pc[q] = "idle"
    BY <2>1, Alone
  <2>3. Careful(p) /\ \A q \in Processes \ {p} : ~Busy(q)
    BY <2>2 DEF Careful, Busy
  <2>4. AtLock(p)' /\ Creating(p)' /\ Opening(p)' /\ Removing(p)' /\ Owning(p)' /\ OneSession'
    BY <2>1 DEF AtLock, Creating, Opening, Removing, Owning, OneSession, PastLock, QuietInv, Busy
  <2>5. QED
    BY <2>1, <2>3, <2>4, CarefulStep
<1>3. QED
  BY <1>1, <1>2 DEF Fail

LEMMA StartQuiet ==
    ASSUME TypeOK, QuietInv, ~overlap, NEW p \in Processes, NEW mode, Start(p, mode)
    PROVE  QuietInv'
<1>1. /\ pc[p] = "idle" /\ Moves(p) /\ root' = root /\ tree' = tree
      /\ session'[p] = starts + 1
      /\ \A q \in Processes \ {p} : pc[q] \in {"idle", "using"}
      /\ \/ pc'[p] = "mkdir" /\ op'[p] = "create" /\ ~root
         \/ pc'[p] = "discard" /\ op'[p] = "remove"
         \/ pc'[p] = "make_locks" /\ op'[p] = "open"
  BY DEF Start, Quiet, Goto, Moves, TypeOK, ProcessesOK
<1>2. session'[p] # 0
  BY <1>1, TypeFacts
<1>3. ~root => \A q \in Processes \ {p} : pc[q] = "idle"
  BY <1>1 DEF QuietInv, AtLock, PastLock
<1>4. Careful(p) /\ \A q \in Processes \ {p} : ~Busy(q)
  BY <1>1, <1>3 DEF Careful, Contending, Busy
<1>5. AtLock(p)' /\ Creating(p)' /\ Opening(p)' /\ Removing(p)' /\ Owning(p)' /\ OneSession'
  BY <1>1, <1>2 DEF AtLock, Creating, Opening, Removing, Owning, OneSession, PastLock, QuietInv
<1>6. QED
  BY <1>1, <1>4, <1>5, CarefulStep

LEMMA DirectoriesQuiet ==
    ASSUME TypeOK, LockPhases, QuietInv, NEW p \in Processes,
           Mkdir(p) \/ MakeLocks(p) \/ MakeBlobs(p)
    PROVE  QuietInv'
<1> USE DEF Goto, TypeOK, DirectoryOK, ProcessesOK, Names
<1>1. Busy(p) /\ \A q \in Processes \ {p} : ~Busy(q)
  BY DEF Mkdir, MakeLocks, MakeBlobs, Busy, QuietInv, OneBusy
<1>2. CASE Mkdir(p)
  <2>1. CASE Leave(p)
    BY <2>1, LeaveQuiet
  <2>2. CASE ~Leave(p)
    <3>1. /\ pc[p] = "mkdir" /\ ~root /\ root' /\ Moves(p)
          /\ pc'[p] = "make_locks" /\ op'[p] = "create" /\ tree' = tree
          /\ session'[p] = session[p]
      BY <1>2, <2>2 DEF Mkdir, Moves
    <3>2. Careful(p)
      BY <1>1, <3>1, Alone DEF Careful, Contending
    <3>3. /\ AtLock(p)' /\ Creating(p)' /\ Opening(p)' /\ Removing(p)' /\ Owning(p)'
          /\ OneSession'
      BY <3>1 DEF AtLock, Creating, Opening, Removing, Owning, OneSession, PastLock, QuietInv
    <3>4. QED
      BY <1>1, <3>1, <3>2, <3>3, CarefulStep
  <2>3. QED
    BY <2>1, <2>2
<1>3. CASE MakeLocks(p)
  <2>1. /\ pc[p] = "make_locks" /\ root' /\ Moves(p) /\ op'[p] = op[p]
        /\ pc'[p] = IF op[p] = "create" THEN "make_blobs" ELSE "open_lock"
        /\ tree' = [tree EXCEPT !["locks"] = 1]
        /\ session'[p] = session[p]
    BY <1>3 DEF MakeLocks, Moves
  <2>2. tree'["locks"] = 1 /\ \A x \in Names \ {"locks"} : tree'[x] = tree[x]
    BY <2>1
  <2>3. Careful(p)
    <3>1. CASE \A q \in Processes \ {p} : pc[q] = "idle"
      BY <3>1 DEF Careful
    <3>2. CASE ~\A q \in Processes \ {p} : pc[q] = "idle"
      <4>1. op[p] # "create"
        BY <1>1, <3>2, Alone
      <4>2. root
        BY <1>1, <3>2 DEF Busy, QuietInv, AtLock, PastLock
      <4>3. QED
        BY <1>1, <2>1, <4>1, <4>2 DEF Careful, Contending
    <3>3. QED
      BY <3>1, <3>2
  <2>4. /\ AtLock(p)' /\ Creating(p)' /\ Opening(p)' /\ Removing(p)' /\ Owning(p)'
        /\ OneSession'
    BY <2>1, <2>2 DEF AtLock, Creating, Opening, Removing, Owning, OneSession, PastLock, QuietInv
  <2>5. QED
    BY <1>1, <2>1, <2>3, <2>4, CarefulStep
<1>4. CASE MakeBlobs(p)
  <2>1. /\ pc[p] = "make_blobs" /\ root' /\ Moves(p) /\ op'[p] = op[p]
        /\ pc'[p] = IF op[p] = "create" THEN "open_lock" ELSE "open_db"
        /\ tree' = [tree EXCEPT !["blobs"] = 1]
        /\ session'[p] = session[p] /\ fd'[p] = fd[p]
    BY <1>4 DEF MakeBlobs, Moves
  <2>2. tree'["blobs"] = 1 /\ \A x \in Names \ {"blobs"} : tree'[x] = tree[x]
    BY <2>1
  <2>3. Careful(p)
    BY <1>1, <2>1, Alone DEF Careful, Contending
  <2>4. /\ AtLock(p)' /\ Creating(p)' /\ Opening(p)' /\ Removing(p)' /\ Owning(p)'
        /\ OneSession'
    BY <2>1, <2>2 DEF AtLock, Creating, Opening, Removing, Owning, OneSession, PastLock, QuietInv
  <2>5. QED
    BY <1>1, <2>1, <2>3, <2>4, CarefulStep
<1>5. QED
  BY <1>2, <1>3, <1>4

(* lock_file(): where a journal is in use its lock is refused.             *)
LEMMA LockQuiet ==
    ASSUME TypeOK, LockPhases, QuietInv, NEW p \in Processes,
           OpenLock(p) \/ Flock(p) \/ SameFile(p)
    PROVE  QuietInv'
<1> USE DEF Goto, TypeOK, DirectoryOK, ProcessesOK, Names
<1>1. Busy(p) /\ \A q \in Processes \ {p} : ~Busy(q)
  BY DEF OpenLock, Flock, SameFile, Busy, QuietInv, OneBusy
<1>2. CASE Fail(p)
  BY <1>1, <1>2, FailQuiet
<1>3. CASE OpenLock(p) /\ ~Fail(p)
  <2>1. /\ pc[p] = "open_lock" /\ Moves(p) /\ op'[p] = op[p] /\ pc'[p] = "flock"
        /\ session'[p] = session[p] /\ root' = root
        /\ fd'[p] = tree'["lock"]
        /\ IF tree["lock"] = 0 THEN tree' = [tree EXCEPT !["lock"] = next_inode]
                               ELSE tree' = tree
    BY <1>3 DEF OpenLock, Moves
  <2>2. /\ tree'["lock"] # 0 /\ \A x \in Names \ {"lock"} : tree'[x] = tree[x]
    BY <2>1
  <2>3. Careful(p)
    <3>1. CASE \A q \in Processes \ {p} : pc[q] = "idle"
      BY <3>1 DEF Careful
    <3>2. CASE ~\A q \in Processes \ {p} : pc[q] = "idle"
      <4>1. op[p] # "create"
        BY <1>1, <3>2, Alone
      <4>2. tree["lock"] # 0
        BY <1>1, <3>2 DEF Busy, QuietInv, AtLock, PastLock
      <4>3. QED
        BY <2>1, <4>1, <4>2 DEF Careful, Contending
    <3>3. QED
      BY <3>1, <3>2
  <2>4. /\ AtLock(p)' /\ Creating(p)' /\ Opening(p)' /\ Removing(p)' /\ Owning(p)'
        /\ OneSession'
    BY <2>1, <2>2 DEF AtLock, Creating, Opening, Removing, Owning, OneSession, PastLock, QuietInv
  <2>5. QED
    BY <1>1, <2>1, <2>3, <2>4, CarefulStep
<1>4. CASE Flock(p) /\ ~Fail(p)
  <2>1. /\ pc[p] = "flock" /\ ~Contended(p) /\ Moves(p) /\ op'[p] = op[p]
        /\ pc'[p] = "same_file" /\ session'[p] = session[p] /\ root' = root
        /\ tree' = tree /\ fd'[p] = fd[p]
    BY <1>4 DEF Flock, Moves
  <2>2. \A q \in Processes \ {p} : pc[q] = "idle"
    <3> SUFFICES ASSUME NEW q \in Processes \ {p}, pc[q] = "using" PROVE FALSE
      BY <1>1 DEF Busy
    <3>1. fd[q] = tree["lock"] /\ fd[p] = tree["lock"] /\ locked[q]
      BY <2>1 DEF QuietInv, AtLock, PastLock, LockPhases
    <3>2. QED
      BY <2>1, <3>1 DEF Contended
  <2>3. Careful(p)
    BY <2>2 DEF Careful
  <2>4. /\ AtLock(p)' /\ Creating(p)' /\ Opening(p)' /\ Removing(p)' /\ Owning(p)'
        /\ OneSession'
    BY <2>1 DEF AtLock, Creating, Opening, Removing, Owning, OneSession, PastLock, QuietInv
  <2>5. QED
    BY <1>1, <2>1, <2>3, <2>4, CarefulStep
<1>5. CASE SameFile(p) /\ ~Fail(p)
  <2>1. pc[p] = "same_file" /\ tree["lock"] = fd[p]
    BY <1>5 DEF SameFile, QuietInv, AtLock
  <2>2. /\ Moves(p) /\ op'[p] = op[p] /\ fd'[p] = fd[p]
        /\ pc'[p] = AfterLock(p) /\ session'[p] = session[p] /\ root' = root
        /\ tree' = tree
        /\ op[p] = "remove" => seen'[p] = Present
    BY <1>5, <2>1 DEF SameFile, Moves
  <2>3. /\ op[p] = "create" => pc'[p] = "init_db"
        /\ op[p] = "open" => pc'[p] = "read_manifest"
        /\ op[p] = "remove" => pc'[p] = "removing"
        /\ op[p] \in {"create", "open", "remove"}
    BY <2>2 DEF AfterLock
  <2>4. Careful(p)
    BY <1>1, <2>1, Alone DEF Careful, Contending
  <2>5. /\ AtLock(p)' /\ Creating(p)' /\ Opening(p)' /\ Removing(p)' /\ Owning(p)'
        /\ OneSession'
    BY <2>1, <2>2, <2>3
       DEF AtLock, Creating, Opening, Removing, Owning, OneSession, PastLock, QuietInv, Present
  <2>6. QED
    BY <1>1, <2>2, <2>4, <2>5, CarefulStep
<1>6. QED
  BY <1>2, <1>3, <1>4, <1>5

(* Past the lock.  create() writes a database and a manifest of one        *)
(* session; open() takes over the session both of them belong to.          *)
LEMMA EstablishQuiet ==
    ASSUME TypeOK, LockPhases, QuietInv, NEW p \in Processes,
           InitDatabase(p) \/ WriteManifest(p) \/ ReadManifest(p) \/ OpenDatabase(p)
    PROVE  QuietInv'
<1> USE DEF Goto, TypeOK, DirectoryOK, ProcessesOK, Names
<1>1. Busy(p) /\ \A q \in Processes \ {p} : ~Busy(q)
  BY DEF InitDatabase, WriteManifest, ReadManifest, OpenDatabase, Busy, QuietInv, OneBusy
<1>2. CASE Fail(p)
  BY <1>1, <1>2, FailQuiet
<1>3. ASSUME ~Fail(p)
      PROVE  /\ Moves(p) /\ root' = root /\ op'[p] = op[p] /\ fd'[p] = fd[p]
             /\ pc[p] \in {"init_db", "write_manifest", "read_manifest", "open_db"}
  BY <1>3 DEF InitDatabase, WriteManifest, ReadManifest, OpenDatabase, Moves
<1>4. \A q \in Processes \ {p} : pc[q] = "idle"
  BY <1>1, Alone DEF InitDatabase, WriteManifest, ReadManifest, OpenDatabase, Contending
<1>5. Careful(p)
  BY <1>4 DEF Careful
<1>6. CASE InitDatabase(p) /\ ~Fail(p)
  <2>1. /\ pc[p] = "init_db" /\ pc'[p] = "write_manifest" /\ session'[p] = session[p]
        /\ tree' = [tree EXCEPT !["db"] = session[p]]
    BY <1>6 DEF InitDatabase
  <2>2. tree'["db"] = session[p] /\ \A x \in Names \ {"db"} : tree'[x] = tree[x]
    BY <2>1
  <2>3. /\ AtLock(p)' /\ Creating(p)' /\ Opening(p)' /\ Removing(p)' /\ Owning(p)'
        /\ OneSession'
    BY <1>3, <1>6, <2>1, <2>2
       DEF AtLock, Creating, Opening, Removing, Owning, OneSession, PastLock, QuietInv
  <2>4. QED
    BY <1>1, <1>3, <1>5, <1>6, <2>3, CarefulStep
<1>7. CASE WriteManifest(p) /\ ~Fail(p)
  <2>1. /\ pc[p] = "write_manifest" /\ pc'[p] = "using" /\ session'[p] = session[p]
        /\ tree' = [tree EXCEPT !["manifest"] = session[p]]
    BY <1>7 DEF WriteManifest
  <2>2. tree'["manifest"] = session[p] /\ \A x \in Names \ {"manifest"} : tree'[x] = tree[x]
    BY <2>1
  <2>3. /\ AtLock(p)' /\ Creating(p)' /\ Opening(p)' /\ Removing(p)' /\ OneSession'
    BY <1>3, <1>7, <2>1, <2>2
       DEF AtLock, Creating, Opening, Removing, OneSession, PastLock, QuietInv
  <2>4. Owning(p)'
    BY <1>3, <1>4, <1>7, <2>1, <2>2 DEF Owning, Creating, QuietInv, Moves, Contending
  <2>5. QED
    BY <1>1, <1>3, <1>5, <1>7, <2>3, <2>4, CarefulStep
<1>8. CASE ReadManifest(p) /\ ~Fail(p)
  <2>1. /\ pc[p] = "read_manifest" /\ pc'[p] = "make_blobs" /\ tree' = tree
        /\ session'[p] = tree["manifest"] /\ tree["manifest"] # 0
        /\ op[p] = "open"
    BY <1>8 DEF ReadManifest, LockPhases
  <2>2. /\ AtLock(p)' /\ Creating(p)' /\ Opening(p)' /\ Removing(p)' /\ Owning(p)'
        /\ OneSession'
    BY <1>3, <1>8, <2>1
       DEF AtLock, Creating, Opening, Removing, Owning, OneSession, PastLock, QuietInv
  <2>3. QED
    BY <1>1, <1>3, <1>5, <1>8, <2>2, CarefulStep
<1>9. CASE OpenDatabase(p) /\ ~Fail(p)
  <2>1. /\ pc[p] = "open_db" /\ pc'[p] = "using" /\ tree' = tree
        /\ session'[p] = session[p] /\ tree["db"] # 0
    BY <1>9 DEF OpenDatabase
  <2>2. /\ AtLock(p)' /\ Creating(p)' /\ Opening(p)' /\ Removing(p)' /\ OneSession'
    BY <1>3, <1>9, <2>1
       DEF AtLock, Creating, Opening, Removing, OneSession, PastLock, QuietInv
  <2>3. session[p] # 0 /\ tree["manifest"] = session[p] /\ tree["db"] = session[p]
    BY <2>1 DEF QuietInv, AtLock, Opening, OneSession
  <2>4. Owning(p)'
    BY <1>3, <1>4, <1>9, <2>1, <2>3 DEF Owning, Opening, QuietInv, Moves, Contending
  <2>5. QED
    BY <1>1, <1>3, <1>5, <1>9, <2>2, <2>4, CarefulStep
<1>10. QED
  BY <1>2, <1>6, <1>7, <1>8, <1>9

(* Deletions.                                                              *)
LEMMA DeleteQuiet ==
    ASSUME TypeOK, QuietInv, ~overlap, NEW p \in Processes,
           Discard(p) \/ Finish(p) \/ RemoveRoot(p) \/ \E x \in Names : RemoveEntry(p, x)
    PROVE  QuietInv'
<1> USE DEF Goto, TypeOK, DirectoryOK, ProcessesOK
<1>1. Finish(p) \/ Busy(p)
  BY DEF Discard, RemoveRoot, RemoveEntry, Busy
<1>2. \A q \in Processes \ {p} : ~Busy(q)
  BY <1>1 DEF QuietInv, OneBusy, Finish, Quiet, Busy
<1>3. CASE Discard(p)
  <2>1. /\ pc[p] = "discard" /\ Moves(p) /\ op'[p] = op[p] /\ session'[p] = session[p]
        /\ root' = root /\ tree' = tree
        /\ pc'[p] = IF ~root THEN "mkdir"
                    ELSE IF tree["locks"] # 0 THEN "open_lock" ELSE "removing"
        /\ tree["locks"] = 0 => seen'[p] = Present
    BY <1>3 DEF Discard, Moves
  <2>2. Careful(p)
    <3>1. CASE \A q \in Processes \ {p} : pc[q] = "idle"
      BY <3>1 DEF Careful
    <3>2. CASE ~\A q \in Processes \ {p} : pc[q] = "idle"
      <4>1. op[p] # "create"
        BY <1>1, <2>1, <3>2, Alone DEF Finish
      <4>2. root /\ tree["locks"] # 0
        BY <1>2, <3>2 DEF Busy, QuietInv, AtLock, PastLock
      <4>3. QED
        BY <2>1, <4>1, <4>2 DEF Careful, Contending
    <3>3. QED
      BY <3>1, <3>2
  <2>3. op[p] = "remove"
    BY <2>1 DEF QuietInv, Removing
  <2>4. /\ AtLock(p)' /\ Opening(p)' /\ Removing(p)' /\ Owning(p)' /\ OneSession'
    BY <2>1 DEF AtLock, Opening, Removing, Owning, OneSession, PastLock, QuietInv, Present
  <2>5. Creating(p)'
    BY <2>1, <2>3 DEF Creating
  <2>6. QED
    BY <1>2, <2>1, <2>2, <2>4, <2>5, CarefulStep
<1>4. CASE ~Discard(p)
  <2>1. \A q \in Processes \ {p} : pc[q] = "idle"
    <3>1. CASE Finish(p)
      BY <3>1 DEF Finish, Quiet
    <3>2. CASE ~Finish(p)
      BY <1>1, <1>4, <3>2, Alone DEF RemoveRoot, RemoveEntry, Contending
    <3>3. QED
      BY <3>1, <3>2
  <2>2. CASE Leave(p)
    BY <2>2, LeaveQuiet
  <2>3. CASE \E x \in Names : RemoveEntry(p, x)
    <3>1. PICK x \in Names : RemoveEntry(p, x)
      BY <2>3
    <3>2. /\ pc[p] \in {"catch", "removing", "finishing"} /\ pc' = pc /\ Moves(p)
          /\ session' = session
          /\ seen'[p] = seen[p] \ {x}
          /\ tree'[x] = 0 /\ \A y \in Names \ {x} : tree'[y] = tree[y]
      BY <3>1 DEF RemoveEntry, Moves
    <3>3. Removing(p)'
      BY <3>2 DEF Removing, QuietInv, Present
    <3>4. OneSession'
      BY <3>2 DEF OneSession, QuietInv, Names
    <3>5. AtLock(p)' /\ Creating(p)' /\ Opening(p)' /\ Owning(p)'
      BY <3>2 DEF AtLock, Creating, Opening, Owning, PastLock, QuietInv
    <3>6. QED
      BY <1>2, <2>1, <3>2, <3>3, <3>4, <3>5, CarefulStep DEF Careful
  <2>4. CASE Finish(p) \/ (RemoveRoot(p) /\ ~Leave(p))
    <3>1. /\ tree' = tree /\ Moves(p)
          /\ \/ pc'[p] \in {"finishing", "mkdir"} /\ session'[p] = session[p] /\ pc[p] # "idle"
             \/ pc'[p] = "idle"
      BY <2>4 DEF Finish, RemoveRoot, EndCall, CloseLock, Moves
    <3>2. AtLock(p)' /\ Creating(p)' /\ Opening(p)' /\ Removing(p)' /\ Owning(p)' /\ OneSession'
      BY <3>1 DEF AtLock, Creating, Opening, Removing, Owning, OneSession, PastLock, QuietInv
    <3>3. QED
      BY <1>2, <2>1, <3>1, <3>2, CarefulStep DEF Careful
  <2>5. QED
    BY <1>4, <2>2, <2>3, <2>4
<1>5. QED
  BY <1>3, <1>4

LEMMA NextQInv == ASSUME Inv, QInv, [Next]_vars PROVE QInv'
<1> SUFFICES ASSUME ~overlap' PROVE QuietInv'
  BY DEF QInv
<1>1. ~overlap /\ QuietInv /\ TypeOK /\ LockPhases
  BY DEF Next, vars, QInv, Inv
<1>2. CASE UNCHANGED vars
  BY <1>1, <1>2
     DEF vars, procVars, QuietInv, OneBusy, Busy, OneSession, AtLock, Creating, Opening,
         Removing, Owning, Present
<1>3. ASSUME NEW p \in Processes, \E mode \in Modes : Start(p, mode) PROVE QuietInv'
  BY <1>1, <1>3, StartQuiet
<1>4. ASSUME NEW p \in Processes, Step(p) PROVE QuietInv'
  BY <1>1, <1>4, DirectoriesQuiet, LockQuiet, EstablishQuiet, DeleteQuiet DEF Step
<1>5. ASSUME NEW p \in Processes, Close(p) \/ Crash(p) PROVE QuietInv'
  BY <1>1, <1>5, LeaveQuiet DEF Close, Crash
<1>6. ASSUME NEW p \in Processes, IoError(p) PROVE QuietInv'
  BY <1>1, <1>6, FailQuiet DEF IoError, Busy
<1>7. ASSUME NEW p \in Processes, Finish(p) PROVE QuietInv'
  BY <1>1, <1>7, DeleteQuiet
<1>8. QED
  BY <1>2, <1>3, <1>4, <1>5, <1>6, <1>7 DEF Next

(* Without overlap, QuietInv holds in every reachable state.               *)
THEOREM QuietInvariance == Spec => []QInv
<1>1. Inv /\ QInv /\ [Next]_vars => QInv'
  BY NextQInv
<1>2. QED
  BY <1>1, InitQInv, Invariance, PTL DEF Spec

(* Builds that start and delete one at a time own the journal they use:    *)
(* they hold its lock, the database and the manifest are of their session  *)
(* and no other build uses it, whatever crashes left behind before.        *)
THEOREM OwnedWhenQuiet == Spec => []QuietlyOwned
<1>1. Inv /\ QInv => QuietlyOwned
  BY DEF Inv, LockPhases, QInv, QuietInv, QuietlyOwned, JournalIsOwned, AtLock, Owning,
         PastLock, Contending
<1>2. QED
  BY <1>1, Invariance, QuietInvariance, PTL

(* --fresh gets past any leftover of a crash: nothing remove_journal()     *)
(* does can fail unless another build is active.                           *)
THEOREM RecoversWhenQuiet == Spec => []QuietlyRecovers
<1>1. Inv /\ QInv => QuietlyRecovers
  <2> SUFFICES ASSUME Inv, QuietInv, NEW p \in Processes,
                      \A q \in Processes \ {p} : pc[q] = "idle"
               PROVE  /\ pc[p] = "open_lock" => tree["locks"] # 0
                      /\ pc[p] = "flock" => ~Contended(p)
                      /\ pc[p] = "same_file" => tree["lock"] = fd[p]
                      /\ pc[p] = "removing" => Present \subseteq seen[p]
    BY DEF QInv, QuietlyRecovers, FreshRecovers
  <2>1. ~Contended(p)
    BY DEF Inv, LockPhases, Contended
  <2>2. QED
    BY <2>1 DEF QuietInv, AtLock, Removing
<1>2. QED
  BY <1>1, Invariance, QuietInvariance, PTL

=============================================================================
