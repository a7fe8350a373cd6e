----------------------------- MODULE WorkerCache -----------------------------
(***************************************************************************)
(* A worker's content-addressed cache under concurrent use.                *)
(*                                                                         *)
(* Every coordinator connection is served by an agent session, a thread of *)
(* the agent process; a session may have a session process, which runs the *)
(* tasks.  They share one CasStore on disk: blobs named by digest, and per *)
(* holder a pin list that counts while the holder's lock file is locked.   *)
(* A session pins what its coordinator declares, receives what is missing, *)
(* deletes what coordinators released (ReleasedBlobs) and at its end       *)
(* evicts down to the size budget.  Pinning takes the eviction lock        *)
(* shared, deleting takes it exclusively.                                  *)
(*                                                                         *)
(* Blobs have equal size, so bytes are counted in blobs.  A pending file   *)
(* is private to its writer until it is renamed, so staging is part of the *)
(* step that publishes, and stale pending files show nowhere.  What a      *)
(* holder of the shared lock does is one step: it excludes only removers.  *)
(***************************************************************************)
EXTENDS Naturals, Sequences, FiniteSets

CONSTANTS
    Sessions,      \* agent sessions
    Processes,     \* session processes, as pin holders
    Owner,         \* Owner[p]: the session that launched p
    Coordinators,
    Coordinator,   \* Coordinator[s]: the pairing s came in on
    Blobs,
    MaxBlobs,      \* CachePolicy::max_bytes
    MaxFaults,     \* bound: crashes, damaged files and failing file calls
    MaxEvents,     \* bound: faults and BLOB_RELEASE frames together
    Nobody         \* no one, no holder, no blob

Actors == Sessions \cup Processes

ASSUME CacheAssumption ==
    /\ Sessions \cap Processes = {} /\ Nobody \notin Actors /\ Nobody \notin Blobs
    /\ Owner \in [Processes -> Sessions] /\ Coordinator \in [Sessions -> Coordinators]
    /\ IsFiniteSet(Blobs) /\ MaxBlobs \in Nat /\ MaxFaults \in Nat /\ MaxEvents \in Nat

VARIABLES
    stored, damaged,     \* blob files, and the ones whose bytes went bad
    recency,             \* recency[b]: b's rank by last use, the least recent first
    lockFile, list,      \* holders with a lock file; the pin list of each
    holder, digests,     \* CasPinSet in memory: its state, what it pinned
    evictionLock,        \* who holds the eviction lock exclusively
    toProbe, probed,     \* read_live_pins(): lock files left, one it locked
    pinned,              \* read_live_pins(): digests of live holders
    victims, total,      \* evict(): blobs left to look at, blobs counted
    pc, op, arg,         \* each actor's step, operation and blob
    relied,              \* relied[a]: blobs a pinned and was then told are there
    claims, released, last_release, candidates,   \* ReleasedBlobs, sweep()
    unwanted,            \* blobs released and neither declared nor stored since
    faults, spoiled,     \* faults so far; blobs deleted as corrupt
    unread,              \* unread[a]: pins of a that a remover failed to read
    skipped,             \* the latest sweep, the latest eviction: which one failed
    orphans,             \* processes that outlived the agent
    publishers           \* processes that are a CasOutputPins, not a CasTaskArtifactAccess

storeVars == <<stored, damaged, recency>>
pinVars == <<lockFile, list, holder, digests>>
removalVars == <<evictionLock, toProbe, probed, pinned, victims, total>>
actorVars == <<pc, op, arg, relied>>
releaseVars == <<claims, released, last_release, candidates, unwanted>>
faultVars == <<faults, spoiled, unread, skipped, orphans, publishers>>
vars == <<storeVars, pinVars, removalVars, actorVars, releaseVars, faultVars>>

Steps == {"new", "idle", "open", "flock", "add", "claim", "has", "put", "check", "discard",
          "copy", "sweep", "probe", "clean", "forget", "evict", "delete", "over"}
Ops == {"none", "use", "store", "release", "finish"}

TypeOK ==
    /\ stored \subseteq Blobs /\ damaged \subseteq stored
    /\ recency \in [Blobs -> 1..Cardinality(Blobs)]
    /\ lockFile \subseteq Actors /\ list \in [Actors -> SUBSET Blobs]
    /\ holder \in [Actors -> {"none", "held", "failed"}]
    /\ digests \in [Actors -> SUBSET Blobs]
    /\ evictionLock \in Sessions \cup {Nobody}
    /\ toProbe \subseteq Actors /\ probed \in Actors \cup {Nobody}
    /\ pinned \subseteq Blobs /\ victims \in Seq(Blobs) /\ total \in Nat
    /\ pc \in [Actors -> Steps] /\ op \in [Actors -> Ops]
    /\ arg \in [Actors -> Blobs \cup {Nobody}]
    /\ relied \in [Actors -> SUBSET Blobs]
    /\ claims \in [Blobs -> SUBSET Coordinators]
    /\ released \in [Blobs -> Nat] /\ last_release \in Nat
    /\ candidates \in [Sessions -> SUBSET (Blobs \X Nat)] /\ unwanted \subseteq Blobs
    /\ faults \in Nat /\ spoiled \subseteq Blobs /\ unread \in [Actors -> SUBSET Blobs]
    /\ skipped \subseteq {"sweep", "evict"}
    /\ orphans \subseteq Processes /\ publishers \subseteq Processes

(* A worker that starts with some blobs from earlier builds.               *)
Init ==
    /\ stored \in SUBSET Blobs /\ damaged = {}
    /\ recency \in [Blobs -> 1..Cardinality(Blobs)]
    /\ \A b, c \in Blobs : recency[b] = recency[c] => b = c
    /\ lockFile = {} /\ list = [a \in Actors |-> {}]
    /\ holder = [a \in Actors |-> "none"] /\ digests = [a \in Actors |-> {}]
    /\ evictionLock = Nobody /\ toProbe = {} /\ probed = Nobody /\ pinned = {}
    /\ victims = <<>> /\ total = 0
    /\ pc = [a \in Actors |-> "new"] /\ op = [a \in Actors |-> "none"]
    /\ arg = [a \in Actors |-> Nobody] /\ relied = [a \in Actors |-> {}]
    /\ claims = [b \in Blobs |-> {}] /\ released = [b \in Blobs |-> 0]
    /\ last_release = 0 /\ candidates = [s \in Sessions |-> {}] /\ unwanted = {}
    /\ faults = 0 /\ spoiled = {} /\ unread = [a \in Actors |-> {}] /\ skipped = {}
    /\ orphans = {} /\ publishers \in SUBSET Processes

-----------------------------------------------------------------------------
(* An actor begins an operation, goes on with it, or is done with it.      *)
Do(a, o, b, step) ==
    /\ pc' = [pc EXCEPT ![a] = step]
    /\ op' = [op EXCEPT ![a] = o] /\ arg' = [arg EXCEPT ![a] = b]
Goto(a, step) ==
    IF step \in {"idle", "over"}
    THEN Do(a, "none", Nobody, step) ELSE pc' = [pc EXCEPT ![a] = step] /\ UNCHANGED <<op, arg>>

Touch(b) ==
    [c \in Blobs |-> CASE c = b -> Cardinality(Blobs)
                       [] recency[c] > recency[b] -> recency[c] - 1
                       [] OTHER -> recency[c]]
Room == faults + last_release < MaxEvents
Fault == faults < MaxFaults /\ Room /\ faults' = faults + 1
Live(a) == pc[a] \notin {"new", "over"}
Rely(a, b) == relied' = [relied EXCEPT ![a] = @ \cup ({b} \cap digests[a])]

(* Where an operation goes once its blob is pinned or cannot be: a session *)
(* does it for BLOB_HAVE or BLOB_GET, a task for an input or an output,    *)
(* and which it is shows only here.                                        *)
AfterPin(a, o) ==
    IF o # "use" THEN {"idle"} ELSE IF a \in Sessions THEN {"claim", "check"} ELSE {"check", "put"}

(* Where it goes once the holder has its pin set.                          *)
AfterPinSet(o) ==
    CASE o = "none" -> "idle" [] o = "store" -> "put" [] OTHER -> "add"

(* A connection is accepted; a session launches its process, whose         *)
(* CasTaskArtifactAccess takes its pin set right away.                     *)
Start(a) ==
    /\ pc[a] = "new"
    /\ a \in Processes => pc[Owner[a]] = "idle"
    /\ Goto(a, IF a \in Processes \ publishers THEN "open" ELSE "idle")
    /\ UNCHANGED <<storeVars, pinVars, removalVars, relied, releaseVars, faultVars>>

(* An operation on a blob.  hold() and CasOutputPins take their pin set    *)
(* the first time, and once only, whether they got it or not: an unpinned  *)
(* session goes on, CasOutputPins::store() goes on to pins_->add().        *)
Begin(a, o, b) ==
    /\ pc[a] = "idle"
    /\ \E step \in CASE holder[a] = "none" -> {"open"}
                     [] holder[a] = "held" -> {AfterPinSet(o)}
                     [] holder[a] = "failed" -> IF o = "store" THEN {"put"} ELSE AfterPin(a, o) :
          Do(a, o, b, step)
    /\ UNCHANGED <<storeVars, pinVars, removalVars, relied, releaseVars, faultVars>>

-----------------------------------------------------------------------------
(* CasStore::pin_set(): lock_file() opens, creating the file, and then     *)
(* locks it.  The lock may be held by a reader of the pins; a file deleted *)
(* in between is opened again, a bounded number of times.                  *)
PinSetOpen(a) ==
    /\ pc[a] = "open"
    /\ lockFile' = lockFile \cup {a}
    /\ Goto(a, "flock")
    /\ UNCHANGED <<storeVars, list, holder, digests, removalVars, relied, releaseVars, faultVars>>

PinSet(a, h, steps) ==
    /\ pc[a] = "flock"
    /\ holder' = [holder EXCEPT ![a] = h]
    /\ \E step \in steps : Goto(a, step)
    /\ UNCHANGED <<storeVars, lockFile, list, digests, removalVars, relied, releaseVars, faultVars>>

PinSetLock(a) == a \in lockFile /\ probed # a /\ PinSet(a, "held", {AfterPinSet(op[a])})
PinSetBusy(a) == a \in lockFile /\ probed = a /\ PinSet(a, "failed", AfterPin(a, op[a]))
PinSetRelink(a) == a \notin lockFile /\ PinSet(a, "none", {"open"})
PinSetGivesUp(a) == a \notin lockFile /\ PinSet(a, "failed", AfterPin(a, op[a]))

(* Mutant: a pin is added without the eviction lock.                       *)
AddUnlocked(a) ==
    /\ pc[a] = "add" /\ holder[a] = "held"
    /\ digests' = [digests EXCEPT ![a] = @ \cup {arg[a]}]
    /\ list' = [list EXCEPT ![a] = digests[a] \cup {arg[a]}]
    /\ relied' = IF op[a] = "store" THEN [relied EXCEPT ![a] = @ \cup ({arg[a]} \cap stored)]
                 ELSE relied
    /\ \E step \in AfterPin(a, op[a]) : Goto(a, step)
    /\ UNCHANGED <<storeVars, lockFile, holder, removalVars, releaseVars, faultVars>>

(* CasPinSet::add(), under the shared eviction lock.  hold() and pin() use *)
(* no answer; CasOutputPins::store() throws when the blob is gone.         *)
Add(a) ==
    /\ pc[a] = "add" /\ holder[a] = "held" /\ evictionLock = Nobody
    /\ digests' = [digests EXCEPT ![a] = @ \cup {arg[a]}]
    /\ list' = [list EXCEPT ![a] = digests[a] \cup {arg[a]}]
    /\ relied' = IF op[a] = "store" THEN [relied EXCEPT ![a] = @ \cup ({arg[a]} \cap stored)]
                 ELSE relied
    /\ \E step \in AfterPin(a, op[a]) : Goto(a, step)
    /\ UNCHANGED <<storeVars, lockFile, holder, removalVars, releaseVars, faultVars>>

(* The list cannot be written: the digest is not pinned, and only          *)
(* CasOutputPins minds.                                                    *)
AddFails(a) ==
    /\ pc[a] = "add" /\ holder[a] = "held" /\ arg[a] \notin digests[a] /\ Fault
    /\ \E step \in AfterPin(a, op[a]) : Goto(a, step)
    /\ UNCHANGED <<storeVars, pinVars, removalVars, relied, releaseVars, spoiled, unread, skipped,
                   orphans, publishers>>

(* A CasOutputPins whose pin set was refused has its store_ and calls      *)
(* add() on an empty optional the next time: undefined, taken as a crash.  *)
AddUndefined(p) ==
    /\ pc[p] = "add" /\ holder[p] # "held"
    /\ Goto(p, "over")
    /\ UNCHANGED <<storeVars, pinVars, removalVars, relied, releaseVars, faultVars>>

(* ~CasPinSetState(), if the holder lock is held.                          *)
PinsGone(a) ==
    /\ list' = IF holder[a] = "held" THEN [list EXCEPT ![a] = {}] ELSE list
    /\ lockFile' = IF holder[a] = "held" THEN lockFile \ {a} ELSE lockFile
    /\ holder' = [holder EXCEPT ![a] = "none"]
    /\ digests' = [digests EXCEPT ![a] = {}]
    /\ relied' = [relied EXCEPT ![a] = {}]

-----------------------------------------------------------------------------
(* BLOB_HAVE: the blob is pinned, claimed, and then looked for.            *)
Claim(s) ==
    /\ pc[s] = "claim"
    /\ claims' = [claims EXCEPT ![arg[s]] = @ \cup {Coordinator[s]}]
    /\ released' = [released EXCEPT ![arg[s]] = 0] /\ unwanted' = unwanted \ {arg[s]}
    /\ Goto(s, "has")
    /\ UNCHANGED <<storeVars, pinVars, removalVars, relied, last_release, candidates, faultVars>>

Has(s) ==
    /\ pc[s] = "has"
    /\ IF arg[s] \in stored
       THEN Rely(s, arg[s]) /\ recency' = Touch(arg[s])
       ELSE UNCHANGED <<relied, recency>>
    /\ Goto(s, "idle")
    /\ UNCHANGED <<stored, damaged, pinVars, removalVars, releaseVars, faultVars>>

(* CasStore::put() and put_file() keep an intact copy and replace anything *)
(* else by the staged one, which was read back first.                      *)
Publish(a, b) ==
    /\ stored' = stored \cup {b} /\ damaged' = damaged \ {b} /\ spoiled' = spoiled \ {b}
    /\ recency' = Touch(b) /\ unwanted' = unwanted \ {b}
    /\ Rely(a, b)
    /\ UNCHANGED <<pinVars, removalVars, claims, released, last_release, candidates, faults, unread,
                   skipped, orphans, publishers>>

Put(a) ==
    /\ pc[a] = "put"
    /\ Publish(a, arg[a])
    /\ Goto(a, IF op[a] = "store" THEN "add" ELSE "idle")

(* The last chunk of a blob arrives and hashes right (BlobReceiver).       *)
Receive(s, b) ==
    /\ pc[s] = "idle"
    /\ Publish(s, b)
    /\ UNCHANGED <<pc, op, arg>>

(* CasStore::verify() and get(): a bad file is deleted after it was read,  *)
(* by its path.  resolve_inputs() does not hash again a file it knows.     *)
Verify(a) ==
    /\ pc[a] = "check"
    /\ IF arg[a] \in damaged
       THEN relied' = [relied EXCEPT ![a] = @ \ {arg[a]}] /\ Goto(a, "discard") /\ UNCHANGED recency
       ELSE /\ Goto(a, "idle")
            /\ IF arg[a] \in stored
               THEN Rely(a, arg[a]) /\ recency' \in {recency, Touch(arg[a])}
               ELSE UNCHANGED <<relied, recency>>
    /\ UNCHANGED <<stored, damaged, pinVars, removalVars, releaseVars, faultVars>>

KnownGood(p) ==
    /\ pc[p] = "check" /\ p \in Processes /\ arg[p] \in relied[p] \cap damaged
    /\ Goto(p, "idle")
    /\ UNCHANGED <<storeVars, pinVars, removalVars, relied, releaseVars, faultVars>>

DiscardCorrupt(a) ==
    /\ pc[a] = "discard"
    /\ stored' = stored \ {arg[a]} /\ damaged' = damaged \ {arg[a]}
    /\ spoiled' = spoiled \cup {arg[a]}
    /\ Goto(a, "idle")
    /\ UNCHANGED <<recency, pinVars, removalVars, relied, releaseVars, faults, unread, skipped, orphans,
                   publishers>>

-----------------------------------------------------------------------------
(* BLOB_RELEASE: release() and then sweep().                               *)
Release(s, ds) ==
    /\ pc[s] = "idle" /\ Room
    /\ claims' = [b \in Blobs |-> IF b \in ds THEN claims[b] \ {Coordinator[s]} ELSE claims[b]]
    /\ last_release' = last_release + 1
    /\ released' = [b \in Blobs |-> IF b \in ds THEN last_release + 1 ELSE released[b]]
    /\ unwanted' = unwanted \cup ds
    /\ Do(s, "release", Nobody, "copy")
    /\ UNCHANGED <<storeVars, pinVars, removalVars, relied, candidates, faultVars>>

(* Mutant: the pins outlive the clean-up at the end of the session.        *)
FinishKeepsPins(s) ==
    /\ pc[s] = "idle" /\ \A p \in Processes : Owner[p] = s => ~Live(p)
    /\ relied' = [relied EXCEPT ![s] = {}]
    /\ Do(s, "finish", Nobody, "copy")
    /\ UNCHANGED <<storeVars, pinVars, removalVars, releaseVars, faultVars>>

(* AgentSession::finish(): the session process has gone; the pins go, then *)
(* sweep() and enforce_cache_budget().                                     *)
Finish(s) ==
    /\ pc[s] = "idle" /\ \A p \in Processes : Owner[p] = s => ~Live(p)
    /\ PinsGone(s)
    /\ Do(s, "finish", Nobody, "copy")
    /\ UNCHANGED <<storeVars, removalVars, releaseVars, faultVars>>

(* sweep() goes through the candidates it copied.                          *)
SweepOn(s, left) ==
    /\ candidates' = [candidates EXCEPT ![s] = left]
    /\ Goto(s, IF left # {} THEN "sweep" ELSE IF op[s] = "finish" THEN "evict" ELSE "idle")
Swept(s) == {c \in candidates[s] : c[1] # arg[s]}

SweepCopy(s) ==
    /\ pc[s] = "copy"
    /\ SweepOn(s, {<<b, released[b]>> : b \in {c \in Blobs : released[c] # 0 /\ claims[c] = {}}})
    /\ skipped' = skipped \ {"sweep"}
    /\ UNCHANGED <<storeVars, pinVars, removalVars, relied, claims, released, last_release,
                   unwanted, faults, spoiled, unread, orphans, publishers>>

(* The eviction lock, taken exclusively, and the snapshot of pins/.        *)
LockExclusive(s) ==
    /\ evictionLock = Nobody /\ evictionLock' = s
    /\ toProbe' = lockFile /\ pinned' = {}

(* remove_unpinned() waits for the lock.                                   *)
RemoveLock(s) ==
    /\ pc[s] = "sweep"
    /\ LockExclusive(s)
    /\ \E c \in candidates[s] : Do(s, op[s], c[1], "probe")
    /\ UNCHANGED <<storeVars, pinVars, probed, victims, total, relied, releaseVars, faultVars>>

(* evict() does not, and enforce_cache_budget() gives up after some tries; *)
(* its mutex lets one session in at a time.                                *)
EvictLock(s) ==
    /\ pc[s] = "evict"
    /\ LockExclusive(s)
    /\ Goto(s, "probe")
    /\ skipped' = skipped \ {"evict"}
    /\ UNCHANGED <<storeVars, pinVars, probed, victims, total, relied, releaseVars, faults, spoiled,
                   unread, orphans, publishers>>

EvictBusy(s) ==
    /\ pc[s] = "evict"
    /\ \E a \in Actors \ {s} : \/ pc[a] = "add" /\ holder[a] = "held"
                               \/ evictionLock = a /\ candidates[a] # {}
    /\ Goto(s, "over")
    /\ UNCHANGED <<storeVars, pinVars, removalVars, relied, releaseVars, faultVars>>

-----------------------------------------------------------------------------
(* read_live_pins(): each lock file of the snapshot is opened (created, if *)
(* it has gone) and tried.  Locked: the holder lives and its list counts.  *)
ProbeLive(s, a) ==
    /\ pc[s] = "probe" /\ a \in toProbe /\ holder[a] = "held"
    /\ pinned' = pinned \cup list[a] /\ toProbe' = toProbe \ {a}
    /\ UNCHANGED <<storeVars, pinVars, evictionLock, probed, victims, total, actorVars, releaseVars,
                   faultVars>>

(* A list that cannot be opened or read to its end counts for what was     *)
(* read, and the removal goes on.                                          *)
ProbeMisread(s, a) ==
    /\ pc[s] = "probe" /\ a \in toProbe /\ holder[a] = "held" /\ Fault
    /\ \E missed \in SUBSET list[a] \ {{}} :
          /\ pinned' = pinned \cup (list[a] \ missed)
          /\ unread' = [unread EXCEPT ![a] = @ \cup missed]
    /\ toProbe' = toProbe \ {a}
    /\ UNCHANGED <<storeVars, pinVars, evictionLock, probed, victims, total, actorVars, releaseVars,
                   spoiled, skipped, orphans, publishers>>

(* Free: the holder is dead, and its files are deleted under its lock.     *)
ProbeDead(s, a) ==
    /\ pc[s] = "probe" /\ a \in toProbe /\ holder[a] # "held"
    /\ lockFile' = lockFile \cup {a} /\ probed' = a /\ toProbe' = toProbe \ {a}
    /\ Goto(s, "clean")
    /\ UNCHANGED <<storeVars, list, holder, digests, evictionLock, pinned, victims, total, relied,
                   releaseVars, faultVars>>

CleanDead(s) ==
    /\ pc[s] = "clean"
    /\ list' = [list EXCEPT ![probed] = {}] /\ lockFile' = lockFile \ {probed}
    /\ probed' = Nobody
    /\ Goto(s, "probe")
    /\ UNCHANGED <<storeVars, holder, digests, evictionLock, toProbe, pinned, victims, total, relied,
                   releaseVars, faultVars>>

(* The lock, pins/, a lock file that is neither locked nor contended or    *)
(* the list of blobs gives an error: nothing is deleted, and the session   *)
(* goes on to its next candidate or ends.                                  *)
ProbeFails(s) ==
    /\ pc[s] = "probe" /\ Fault
    /\ evictionLock' = Nobody /\ toProbe' = {} /\ pinned' = {}
    /\ IF candidates[s] # {}
       THEN SweepOn(s, Swept(s)) /\ skipped' = skipped \cup {"sweep"}
       ELSE Goto(s, "over") /\ skipped' = skipped \cup {"evict"} /\ UNCHANGED candidates
    /\ UNCHANGED <<storeVars, pinVars, probed, victims, total, relied, claims, released,
                   last_release, unwanted, spoiled, unread, orphans, publishers>>

(* All read; lists without a lock file go.                                 *)
ProbeEnd(s) ==
    /\ pc[s] = "probe" /\ toProbe = {}
    /\ list' = [a \in Actors |-> IF a \in lockFile THEN list[a] ELSE {}]
    /\ UNCHANGED <<lockFile, holder, digests>>

(* Mutant: the deletion is not recorded for a bad file.                    *)
RemoveUnpinnedInPart(s) ==
    /\ candidates[s] # {} /\ ProbeEnd(s)
    /\ evictionLock' = Nobody /\ pinned' = {}
    /\ stored' = stored \ ({arg[s]} \ pinned)
    /\ IF arg[s] \in pinned THEN SweepOn(s, Swept(s)) ELSE Goto(s, "forget") /\ UNCHANGED candidates
    /\ UNCHANGED <<damaged, recency, toProbe, probed, victims, total, relied, claims, released,
                   last_release, unwanted, faultVars>>

(* remove_unpinned() deletes the blob, or leaves it to a later sweep.      *)
RemoveUnpinned(s) ==
    /\ candidates[s] # {} /\ ProbeEnd(s)
    /\ evictionLock' = Nobody /\ pinned' = {}
    /\ IF arg[s] \in pinned
       THEN SweepOn(s, Swept(s)) /\ UNCHANGED <<stored, damaged>>
       ELSE /\ stored' = stored \ {arg[s]} /\ damaged' = damaged \ {arg[s]}
            /\ Goto(s, "forget")
            /\ UNCHANGED candidates
    /\ UNCHANGED <<recency, toProbe, probed, victims, total, relied, claims, released, last_release,
                   unwanted, faultVars>>

(* The file cannot be deleted: it stays marked for the next sweep.         *)
RemoveFails(s) ==
    /\ candidates[s] # {} /\ ProbeEnd(s) /\ arg[s] \in stored \ pinned /\ Fault
    /\ evictionLock' = Nobody /\ pinned' = {} /\ skipped' = skipped \cup {"sweep"}
    /\ SweepOn(s, Swept(s))
    /\ UNCHANGED <<storeVars, toProbe, probed, victims, total, relied, claims, released, last_release,
                   unwanted, spoiled, unread, orphans, publishers>>

(* Mutant: the marker goes even if a newer release set it.                 *)
ForgetAnyRelease(s) ==
    /\ pc[s] = "forget"
    /\ released' = IF claims[arg[s]] = {} THEN [released EXCEPT ![arg[s]] = 0] ELSE released
    /\ SweepOn(s, Swept(s))
    /\ UNCHANGED <<storeVars, pinVars, removalVars, relied, claims, last_release, unwanted,
                   faultVars>>

(* A blob claimed or released anew since the copy stays marked.            *)
Forget(s) ==
    /\ pc[s] = "forget"
    /\ released' = IF <<arg[s], released[arg[s]]>> \in candidates[s] /\ claims[arg[s]] = {}
                   THEN [released EXCEPT ![arg[s]] = 0] ELSE released
    /\ SweepOn(s, Swept(s))
    /\ UNCHANGED <<storeVars, pinVars, removalVars, relied, claims, last_release, unwanted,
                   faultVars>>

(* evict(): the listing, then one file after the other, oldest first.      *)
Listings ==
    {q \in [1..Cardinality(stored) -> stored] :
        /\ \A b \in stored : \E i \in DOMAIN q : q[i] = b
        /\ \A i, j \in DOMAIN q : i < j => recency[q[i]] < recency[q[j]]}

EvictList(s) ==
    /\ candidates[s] = {} /\ ProbeEnd(s)
    /\ victims' \in Listings /\ total' = Cardinality(stored)
    /\ Goto(s, "delete")
    /\ UNCHANGED <<storeVars, evictionLock, toProbe, probed, pinned, relied, releaseVars, faultVars>>

EvictDelete(s) ==
    /\ pc[s] = "delete" /\ victims # <<>> /\ total > MaxBlobs
    /\ LET b == Head(victims) IN
       IF b \in pinned \/ b \notin stored
       THEN UNCHANGED <<stored, damaged, total>>
       ELSE stored' = stored \ {b} /\ damaged' = damaged \ {b} /\ total' = total - 1
    /\ victims' = Tail(victims)
    /\ UNCHANGED <<recency, pinVars, evictionLock, toProbe, probed, pinned, actorVars, releaseVars,
                   faultVars>>

(* A file that cannot be deleted still counts, and the next one is tried.  *)
EvictDeleteFails(s) ==
    /\ pc[s] = "delete" /\ victims # <<>> /\ total > MaxBlobs
    /\ Head(victims) \in stored \ pinned /\ Fault
    /\ victims' = Tail(victims) /\ skipped' = skipped \cup {"evict"}
    /\ UNCHANGED <<storeVars, pinVars, evictionLock, toProbe, probed, pinned, total, actorVars,
                   releaseVars, spoiled, unread, orphans, publishers>>

EvictEnd(s) ==
    /\ pc[s] = "delete" /\ (victims = <<>> \/ total <= MaxBlobs)
    /\ evictionLock' = Nobody /\ pinned' = {} /\ victims' = <<>> /\ total' = 0
    /\ Goto(s, "over")
    /\ UNCHANGED <<storeVars, pinVars, toProbe, probed, relied, releaseVars, faultVars>>

-----------------------------------------------------------------------------
(* The session process ends and its pin set is destroyed.                  *)
End(p) ==
    /\ pc[p] = "idle"
    /\ PinsGone(p)
    /\ Goto(p, "over")
    /\ UNCHANGED <<storeVars, removalVars, releaseVars, faultVars>>

(* Processes that die leave their files; their locks go with them.         *)
Die(as) ==
    /\ Fault
    /\ holder' = [a \in Actors |-> IF a \in as THEN "none" ELSE holder[a]]
    /\ digests' = [a \in Actors |-> IF a \in as THEN {} ELSE digests[a]]
    /\ relied' = [a \in Actors |-> IF a \in as THEN {} ELSE relied[a]]
    /\ pc' = [a \in Actors |-> IF a \in as /\ pc[a] # "new" THEN "over" ELSE pc[a]]
    /\ op' = [a \in Actors |-> IF a \in as THEN "none" ELSE op[a]]
    /\ arg' = [a \in Actors |-> IF a \in as THEN Nobody ELSE arg[a]]
    /\ UNCHANGED <<storeVars, lockFile, list, spoiled, unread, publishers>>

CrashProcess(p) ==
    /\ Live(p) /\ Die({p})
    /\ UNCHANGED <<removalVars, releaseVars, skipped, orphans>>

(* The agent dies with all its sessions and forgets claims and releases.   *)
CrashAgent ==
    /\ \E s \in Sessions : Live(s)
    /\ Die(Sessions)
    /\ evictionLock' = Nobody /\ toProbe' = {} /\ probed' = Nobody /\ pinned' = {}
    /\ victims' = <<>> /\ total' = 0
    /\ claims' = [b \in Blobs |-> {}] /\ released' = [b \in Blobs |-> 0]
    /\ candidates' = [s \in Sessions |-> {}] /\ unwanted' = {}
    /\ skipped' = skipped \cup {"evict"} /\ orphans' = orphans \cup {p \in Processes : Live(p)}
    /\ UNCHANGED last_release

(* A stored file goes bad.                                                 *)
Damage(b) ==
    /\ b \in stored \ damaged /\ Fault
    /\ damaged' = damaged \cup {b}
    /\ UNCHANGED <<stored, recency, pinVars, removalVars, actorVars, releaseVars, spoiled, unread,
                   skipped, orphans, publishers>>

-----------------------------------------------------------------------------
Pinning(a) ==
    PinSetOpen(a) \/ PinSetLock(a) \/ PinSetBusy(a) \/ PinSetRelink(a) \/ PinSetGivesUp(a)
        \/ Add(a) \/ AddFails(a)
Storing(a) == Put(a) \/ Verify(a) \/ DiscardCorrupt(a)
Removing(s) ==
    \/ SweepCopy(s) \/ RemoveLock(s) \/ EvictLock(s) \/ EvictBusy(s)
    \/ \E a \in Actors : ProbeLive(s, a) \/ ProbeMisread(s, a) \/ ProbeDead(s, a)
    \/ CleanDead(s) \/ ProbeFails(s) \/ RemoveUnpinned(s) \/ RemoveFails(s) \/ Forget(s)
    \/ EvictList(s) \/ EvictDelete(s) \/ EvictDeleteFails(s) \/ EvictEnd(s)

Frame(s) ==
    \/ \E b \in Blobs : Begin(s, "use", b) \/ Receive(s, b)
    \/ \E ds \in SUBSET Blobs \ {{}} : Release(s, ds)
    \/ Finish(s) \/ Claim(s) \/ Has(s)
Task(p) ==
    \/ \E b \in Blobs : Begin(p, IF p \in publishers THEN "store" ELSE "use", b)
    \/ End(p) \/ AddUndefined(p) \/ KnownGood(p) \/ CrashProcess(p)

Next ==
    \/ \E a \in Actors : Start(a) \/ Pinning(a) \/ Storing(a)
    \/ \E s \in Sessions : Frame(s) \/ Removing(s)
    \/ \E p \in Processes : Task(p)
    \/ \E b \in Blobs : Damage(b)
    \/ CrashAgent

Spec == Init /\ [][Next]_vars

-----------------------------------------------------------------------------
(* Eviction and the deletion of released blobs leave alone what a live     *)
(* holder pinned: a blob an actor was told is there, or stored, stays as   *)
(* long as the actor holds its pins, unless a reader found its bytes bad   *)
(* or a remover failed to read that very pin: a list that cannot be read   *)
(* counts as empty.  (remove_unpinned(), evict() and read_live_pins(),     *)
(* against CasPinSet::add())                                               *)
PinsHonoured ==
    \A a \in Actors : relied[a] \subseteq stored \cup spoiled \cup unread[a]

AtRest == \A a \in Actors : pc[a] \in {"new", "over"}

(* No release is lost, however sweeps, declarations and releases overlap:  *)
(* once every session has made its last sweep, a blob that was released    *)
(* and neither declared nor stored again is gone, unless a coordinator     *)
(* still claims it, the latest sweep failed to delete something or a       *)
(* process of a dead agent may have held it.  (ReleasedBlobs::sweep(),     *)
(* AgentSession::finish())                                                 *)
ReleasedAreDeleted ==
    ("sweep" \notin skipped /\ orphans = {} /\ \A a \in Actors : pc[a] \in {"new", "evict", "over"})
        => \A b \in unwanted \cap stored : claims[b] # {}

(* The last session to end leaves the cache within its budget, whatever    *)
(* the sessions before it had to keep for others, failed to delete or gave *)
(* up because the lock was busy; unless its own eviction failed.           *)
(* (enforce_cache_budget(), CasStore::evict())                             *)
BudgetEnforced ==
    (AtRest /\ "evict" \notin skipped /\ orphans = {} /\ \E s \in Sessions : pc[s] = "over")
        => Cardinality(stored) <= MaxBlobs
=============================================================================
