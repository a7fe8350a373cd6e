--------------------------- MODULE JournalDirectory ---------------------------
(***************************************************************************)
(* The directory <output>-journal of svp-exec's recovery journal, shared   *)
(* by the svp-builder processes that build the same output.  A process     *)
(* creates, opens (--resume), discards (--fresh), uses and finally closes  *)
(* or deletes the journal; locks/build.lock, taken with flock, is meant to *)
(* keep two of them apart.  Processes interleave between any two file      *)
(* system calls and may crash anywhere: the kernel then drops their locks  *)
(* and leaves the files.                                                   *)
(*                                                                         *)
(* The tree is abstracted to the entries the code tests: locks/, the lock  *)
(* file (by inode: an unlinked file stays locked through its descriptor),  *)
(* blobs/ (pending and completed), build.sqlite and journal_manifest.json  *)
(* (by the build session they belong to).  0 means absent.                 *)
(***************************************************************************)
EXTENDS Naturals

CONSTANTS
    Processes,
    Modes,               \* RecoveryJournalMode values processes start with
    MaxStarts,           \* bound: journal sessions begun in a behaviour
    OverlapStarts,       \* the same for behaviours with overlap
    MaxRelinkRetries     \* kMaxRelinkRetries

ASSUME ModesAssumption == Modes \subseteq {"require_new", "resume", "fresh"}
ASSUME BoundsAssumption ==
    /\ MaxStarts \in Nat
    /\ OverlapStarts \in Nat
    /\ MaxRelinkRetries \in Nat

Names == {"locks", "lock", "blobs", "db", "manifest"}
EmptyTree == [x \in Names |-> 0]

VARIABLES
    root,                \* the journal directory exists
    tree,                \* its entries
    pc, op,              \* what each process does, and for which operation
    fd, locked,          \* lock-file inode it has open; whether flock succeeded
    retry,               \* lock_file()'s retry counter
    seen,                \* entries remove_all() still has to remove
    session,             \* the build session of the journal it works on
    next_inode, starts,
    overlap              \* creations and deletions overlap other operations

procVars == <<pc, op, fd, locked, retry, seen, session>>
vars == <<root, tree, procVars, next_inode, starts, overlap>>

Starts == IF overlap THEN OverlapStarts ELSE MaxStarts

Present == {x \in Names : tree[x] # 0}

Deleting == {"discard", "removing", "finishing"}

Steps == {"idle", "mkdir", "make_locks", "make_blobs", "open_lock", "flock",
          "same_file", "init_db", "write_manifest", "read_manifest", "open_db",
          "using", "catch"} \cup Deleting

DirectoryOK ==
    /\ root \in BOOLEAN
    /\ tree \in [Names -> Nat]
    /\ ~root => \A x \in Names : tree[x] = 0
    /\ next_inode \in Nat \ {0}
    /\ starts \in 0..Starts
    /\ overlap \in BOOLEAN

ProcessesOK ==
    /\ pc \in [Processes -> Steps]
    /\ op \in [Processes -> {"create", "open", "remove"}]
    /\ fd \in [Processes -> Nat]
    /\ locked \in [Processes -> BOOLEAN]
    /\ retry \in [Processes -> 0..MaxRelinkRetries]
    /\ seen \in [Processes -> SUBSET Names]
    /\ session \in [Processes -> Nat]

TypeOK == DirectoryOK /\ ProcessesOK

Init ==
    /\ root = FALSE
    /\ tree = EmptyTree
    /\ pc = [p \in Processes |-> "idle"]
    /\ op = [p \in Processes |-> "create"]
    /\ fd = [p \in Processes |-> 0]
    /\ locked = [p \in Processes |-> FALSE]
    /\ retry = [p \in Processes |-> 0]
    /\ seen = [p \in Processes |-> {}]
    /\ session = [p \in Processes |-> 0]
    /\ next_inode = 1
    /\ starts = 0
    /\ overlap \in BOOLEAN

Goto(p, step) == pc' = [pc EXCEPT ![p] = step]

(* Closing the descriptor drops the lock.                                  *)
CloseLock(p) ==
    /\ fd' = [fd EXCEPT ![p] = 0]
    /\ locked' = [locked EXCEPT ![p] = FALSE]

(* The call returns or throws, or the process dies: its locals are gone.   *)
EndCall(p) ==
    /\ Goto(p, "idle")
    /\ CloseLock(p)
    /\ op' = [op EXCEPT ![p] = "create"]
    /\ retry' = [retry EXCEPT ![p] = 0]
    /\ seen' = [seen EXCEPT ![p] = {}]
    /\ session' = [session EXCEPT ![p] = 0]

Leave(p) == EndCall(p) /\ UNCHANGED <<root, tree, next_inode, starts>>

-----------------------------------------------------------------------------
(* BuildJournalSession::prepare().                                         *)

(* Without overlap a process starts only while the others are idle or use  *)
(* an established journal, and deletes the journal only when it is alone.  *)
Quiet(p, allowed) == overlap \/ \A q \in Processes \ {p} : pc[q] \in allowed

Start(p, mode) ==
    /\ pc[p] = "idle"
    /\ starts < Starts
    /\ Quiet(p, {"idle", "using"})
    /\ starts' = starts + 1
    /\ session' = [session EXCEPT ![p] = starts + 1]
    /\ \/ /\ mode = "require_new" /\ ~root
          /\ Goto(p, "mkdir") /\ op' = [op EXCEPT ![p] = "create"]
       \/ /\ mode = "fresh"
          /\ Goto(p, "discard") /\ op' = [op EXCEPT ![p] = "remove"]
       \/ /\ mode = "resume" /\ root
          /\ Goto(p, "make_locks") /\ op' = [op EXCEPT ![p] = "open"]
    /\ UNCHANGED <<root, tree, fd, locked, retry, seen, next_inode>>

-----------------------------------------------------------------------------
(* What a failure leaves behind: create() closes the lock and then removes *)
(* the tree it believes to be its own; open() and remove_journal() throw.  *)
Fail(p) ==
    \/ /\ op[p] = "create"
       /\ Goto(p, "catch")
       /\ CloseLock(p)
       /\ seen' = [seen EXCEPT ![p] = Present]
       /\ UNCHANGED <<root, tree, op, retry, session, next_inode, starts>>
    \/ op[p] # "create" /\ Leave(p)

(* create_directory() of the root is atomic: one creator wins.             *)
Mkdir(p) ==
    /\ pc[p] = "mkdir"
    /\ \/ /\ ~root
          /\ root' = TRUE
          /\ Goto(p, "make_locks")
          /\ op' = [op EXCEPT ![p] = "create"]
          /\ UNCHANGED <<tree, fd, locked, retry, seen, session, next_inode, starts>>
       \/ root /\ Leave(p)

(* create_directories() makes missing parents: it brings back a root that  *)
(* was removed meanwhile.                                                  *)
MakeLocks(p) ==
    /\ pc[p] = "make_locks"
    /\ root' = TRUE
    /\ tree' = [tree EXCEPT !["locks"] = 1]
    /\ Goto(p, IF op[p] = "create" THEN "make_blobs" ELSE "open_lock")
    /\ UNCHANGED <<op, fd, locked, retry, seen, session, next_inode, starts>>

MakeBlobs(p) ==
    /\ pc[p] = "make_blobs"
    /\ root' = TRUE
    /\ tree' = [tree EXCEPT !["blobs"] = 1]
    /\ Goto(p, IF op[p] = "create" THEN "open_lock" ELSE "open_db")
    /\ UNCHANGED <<op, fd, locked, retry, seen, session, next_inode, starts>>

-----------------------------------------------------------------------------
(* lock_file(): open(O_CREAT), flock(LOCK_NB), and the check that the file *)
(* at the path is still the one that was locked.                           *)

OpenLock(p) ==
    /\ pc[p] = "open_lock"
    /\ \/ /\ tree["locks"] # 0
          /\ IF tree["lock"] = 0
               THEN /\ tree' = [tree EXCEPT !["lock"] = next_inode]
                    /\ next_inode' = next_inode + 1
               ELSE UNCHANGED <<tree, next_inode>>
          /\ fd' = [fd EXCEPT ![p] = tree'["lock"]]
          /\ Goto(p, "flock")
          /\ UNCHANGED <<root, op, locked, retry, seen, session, starts>>
       \/ tree["locks"] = 0 /\ Fail(p)

Contended(p) == \E q \in Processes \ {p} : locked[q] /\ fd[q] = fd[p]

(* Mutant of Flock: without LOCK_NB it waits.                              *)
FlockWaits(p) ==
    /\ pc[p] = "flock" /\ ~Contended(p)
    /\ locked' = [locked EXCEPT ![p] = TRUE]
    /\ Goto(p, "same_file")
    /\ UNCHANGED <<root, tree, op, fd, retry, seen, session, next_inode, starts>>

Flock(p) ==
    /\ pc[p] = "flock"
    /\ \/ /\ ~Contended(p)
          /\ locked' = [locked EXCEPT ![p] = TRUE]
          /\ Goto(p, "same_file")
          /\ UNCHANGED <<root, tree, op, fd, retry, seen, session, next_inode, starts>>
       \/ Contended(p) /\ Fail(p)

AfterLock(p) == CASE op[p] = "create" -> "init_db"
                  [] op[p] = "open" -> "read_manifest"
                  [] op[p] = "remove" -> "removing"

(* Mutant of SameFile: the path is not looked at again.                    *)
SameFileUnchecked(p) ==
    /\ pc[p] = "same_file"
    /\ Goto(p, AfterLock(p))
    /\ retry' = [retry EXCEPT ![p] = 0]
    /\ seen' = [seen EXCEPT ![p] = IF op[p] = "remove" THEN Present ELSE {}]
    /\ UNCHANGED <<root, tree, op, fd, locked, session, next_inode, starts>>

SameFile(p) ==
    /\ pc[p] = "same_file"
    /\ \/ /\ tree["lock"] = fd[p]
          /\ Goto(p, AfterLock(p))
          /\ retry' = [retry EXCEPT ![p] = 0]
          /\ seen' = [seen EXCEPT ![p] = IF op[p] = "remove" THEN Present ELSE {}]
          /\ UNCHANGED <<root, tree, op, fd, locked, session, next_inode, starts>>
       \/ /\ tree["lock"] # fd[p] /\ retry[p] < MaxRelinkRetries
          /\ retry' = [retry EXCEPT ![p] = @ + 1]
          /\ Goto(p, "open_lock")
          /\ CloseLock(p)
          /\ UNCHANGED <<root, tree, op, seen, session, next_inode, starts>>
       \/ tree["lock"] # fd[p] /\ retry[p] = MaxRelinkRetries /\ Fail(p)

-----------------------------------------------------------------------------
(* The rest of create() and open().                                        *)

(* Mutant: open() trusts whatever it finds, so it accepts a journal whose  *)
(* creation or deletion was cut short.                                     *)
OpenDatabaseCreates(p) ==
    /\ pc[p] = "open_db"
    /\ tree' = [tree EXCEPT !["db"] = IF @ = 0 THEN starts + 1 ELSE @]
    /\ Goto(p, "using")
    /\ UNCHANGED <<root, op, fd, locked, retry, seen, session, next_inode, starts>>

(* Opening build.sqlite, its schema and the transaction that records the   *)
(* session and the sources.                                                *)
InitDatabase(p) ==
    /\ pc[p] = "init_db"
    /\ \/ /\ root /\ tree["db"] = 0
          /\ tree' = [tree EXCEPT !["db"] = session[p]]
          /\ Goto(p, "write_manifest")
          /\ UNCHANGED <<root, op, fd, locked, retry, seen, session, next_inode, starts>>
       \/ ~(root /\ tree["db"] = 0) /\ Fail(p)

(* Staged in blobs/pending and renamed; written last.                      *)
WriteManifest(p) ==
    /\ pc[p] = "write_manifest"
    /\ \/ /\ tree["blobs"] # 0
          /\ tree' = [tree EXCEPT !["manifest"] = session[p]]
          /\ Goto(p, "using")
          /\ UNCHANGED <<root, op, fd, locked, retry, seen, session, next_inode, starts>>
       \/ tree["blobs"] = 0 /\ Fail(p)

ReadManifest(p) ==
    /\ pc[p] = "read_manifest"
    /\ \/ /\ tree["manifest"] # 0
          /\ session' = [session EXCEPT ![p] = tree["manifest"]]
          /\ Goto(p, "make_blobs")
          /\ UNCHANGED <<root, tree, op, fd, locked, retry, seen, next_inode, starts>>
       \/ tree["manifest"] = 0 /\ Fail(p)

OpenDatabase(p) ==
    /\ pc[p] = "open_db"
    /\ \/ /\ tree["db"] # 0
          /\ Goto(p, "using")
          /\ UNCHANGED <<root, tree, op, fd, locked, retry, seen, session, next_inode, starts>>
       \/ tree["db"] = 0 /\ Fail(p)

-----------------------------------------------------------------------------
(* Deleting the tree.                                                      *)

(* Mutant: remove_journal() locks whatever the state of the tree.          *)
DiscardAlwaysLocks(p) ==
    /\ pc[p] = "discard"
    /\ Goto(p, IF ~root THEN "mkdir" ELSE "open_lock")
    /\ seen' = [seen EXCEPT ![p] = Present]
    /\ UNCHANGED <<root, tree, op, fd, locked, retry, session, next_inode, starts>>

(* remove_journal(): it locks only if locks/ exists.                       *)
Discard(p) ==
    /\ pc[p] = "discard"
    /\ Goto(p, IF ~root THEN "mkdir"
               ELSE IF tree["locks"] # 0 THEN "open_lock" ELSE "removing")
    /\ seen' = [seen EXCEPT ![p] = IF tree["locks"] # 0 THEN {} ELSE Present]
    /\ UNCHANGED <<root, tree, op, fd, locked, retry, session, next_inode, starts>>

(* finish_success(delete_on_success): the lock is held until the tree is   *)
(* gone.                                                                   *)
Finish(p) ==
    /\ pc[p] = "using"
    /\ Quiet(p, {"idle"})
    /\ Goto(p, "finishing")
    /\ seen' = [seen EXCEPT ![p] = Present]
    /\ UNCHANGED <<root, tree, op, fd, locked, retry, session, next_inode, starts>>

(* remove_all() unlinks in directory order, which is any order, and may    *)
(* also meet entries that appear while it runs.                            *)
RemoveEntry(p, x) ==
    /\ pc[p] \in {"catch", "removing", "finishing"}
    /\ tree[x] # 0
    /\ x = "locks" => tree["lock"] = 0
    /\ tree' = [tree EXCEPT ![x] = 0]
    /\ seen' = [seen EXCEPT ![p] = @ \ {x}]
    /\ UNCHANGED <<root, pc, op, fd, locked, retry, session, next_inode, starts>>

(* The rmdir() of the root fails if something appeared in it.  After a     *)
(* successful --fresh removal the build goes on to create().               *)
RemoveRoot(p) ==
    /\ pc[p] \in {"catch", "removing", "finishing"}
    /\ seen[p] \cap Present = {}
    /\ \/ /\ Present = {} /\ pc[p] = "removing"
          /\ root' = FALSE
          /\ Goto(p, "mkdir")
          /\ CloseLock(p)
          /\ UNCHANGED <<tree, op, retry, seen, session, next_inode, starts>>
       \/ /\ Present = {} /\ pc[p] # "removing"
          /\ root' = FALSE
          /\ EndCall(p)
          /\ UNCHANGED <<tree, next_inode, starts>>
       \/ Present # {} /\ Leave(p)

(* close(), or finish_success(retain_for_diagnostics).                     *)
Close(p) == pc[p] = "using" /\ Leave(p)

(* A system call fails for reasons of its own.                             *)
IoError(p) ==
    /\ pc[p] \in {"make_locks", "make_blobs", "open_lock", "flock", "init_db",
                  "write_manifest", "read_manifest", "open_db"}
    /\ Fail(p)

Crash(p) == pc[p] # "idle" /\ Leave(p)

Step(p) ==
    \/ Mkdir(p) \/ MakeLocks(p) \/ MakeBlobs(p)
    \/ OpenLock(p) \/ Flock(p) \/ SameFile(p)
    \/ InitDatabase(p) \/ WriteManifest(p) \/ ReadManifest(p) \/ OpenDatabase(p)
    \/ Discard(p) \/ (\E x \in Names : RemoveEntry(p, x)) \/ RemoveRoot(p)

Next ==
    /\ UNCHANGED overlap
    /\ \E p \in Processes :
          \/ \E mode \in Modes : Start(p, mode)
          \/ Step(p)
          \/ Finish(p) \/ Close(p) \/ IoError(p) \/ Crash(p)

Spec == Init /\ [][Next]_vars

(* A process that runs gets on with its file system calls.                 *)
FairSpec == Spec /\ \A p \in Processes : WF_vars(UNCHANGED overlap /\ Step(p))

-----------------------------------------------------------------------------
(* Properties.                                                             *)

(* "The journal holds locks/build.lock exclusively for its whole lifetime" *)
(* (recovery_journal.hpp): a build that uses the journal holds the lock on *)
(* the file every other build would find, the files at the path are those  *)
(* of its own session whatever crashes left behind earlier, and no other   *)
(* build uses the journal.                                                 *)
JournalIsOwned ==
    \A p \in Processes : pc[p] = "using" =>
        /\ root /\ tree["blobs"] # 0
        /\ locked[p] /\ tree["lock"] = fd[p]
        /\ tree["db"] = session[p] /\ tree["manifest"] = session[p]
        /\ \A q \in Processes \ {p} : pc[q] # "using"

(* JournalIsOwned of builds that start and delete while the others are     *)
(* idle or use an established journal: a build owns the journal it uses,   *)
(* whatever earlier builds and crashes left behind.                        *)
QuietlyOwned == ~overlap => JournalIsOwned

(* lock_file() has succeeded.                                              *)
Through(p) == locked[p] /\ pc[p] # "same_file"

(* A process gets through lock_file() only with the file that is at the    *)
(* path, and while no other process that got through holds that file, even *)
(* when the file it opened was deleted and made anew before the flock().   *)
LockExcludes ==
    [][\A p \in Processes : (~Through(p) /\ Through(p)') =>
            /\ tree["lock"] = fd[p]
            /\ \A q \in Processes \ {p} : Through(q) => fd[q] # tree["lock"]]_vars

(* --fresh recovers from whatever crashes left behind: half a journal,     *)
(* half a deletion, a stale lock file.  Unless another build is active,    *)
(* no step of remove_journal() can fail, so the path gets free.            *)
FreshRecovers ==
    \A p \in Processes :
        (op[p] = "remove" /\ \A q \in Processes \ {p} : pc[q] = "idle") =>
            /\ pc[p] = "open_lock" => tree["locks"] # 0
            /\ pc[p] = "flock" => ~Contended(p)
            /\ pc[p] = "same_file" => tree["lock"] = fd[p]
            /\ pc[p] = "removing" => Present \subseteq seen[p]

(* FreshRecovers of builds that keep apart like those of QuietlyOwned:     *)
(* nobody creates anything while the deletion is under way, so --fresh     *)
(* cannot fail on leftovers.                                               *)
QuietlyRecovers == ~overlap => FreshRecovers

(* Nobody waits: however deletions and creations overlap, create(), open() *)
(* and remove_journal() end, with the journal or with an error.            *)
Settles ==
    \A p \in Processes : pc[p] \notin {"idle", "using"} ~> pc[p] \in {"idle", "using"}

=============================================================================
