-------------------------- MODULE WorkerCacheProofs --------------------------
(***************************************************************************)
(* What is proved about WorkerCache for any number of sessions, processes, *)
(* coordinators, blobs and faults: nothing deletes a blob that a live      *)
(* holder pinned and relies on (Inv, the first half); no release is lost   *)
(* and the last session to end leaves the cache within its budget (Duties, *)
(* the second half, which follows who still has to sweep and to evict).    *)
(***************************************************************************)
EXTENDS WorkerCache, FiniteSetTheorems, TLAPS

(* The steps made with the eviction lock held exclusively.                 *)
Removal == {"probe", "clean", "delete"}

(* Types, of what the argument is about: the order of blobs plays no role. *)
PinTypes ==
    /\ pc \in [Actors -> Steps] /\ arg \in [Actors -> Blobs \cup {Nobody}]
    /\ holder \in [Actors -> {"none", "held", "failed"}]
    /\ digests \in [Actors -> SUBSET (Blobs \cup {Nobody})]
    /\ list \in [Actors -> SUBSET (Blobs \cup {Nobody})]
    /\ relied \in [Actors -> SUBSET (Blobs \cup {Nobody})]
    /\ unread \in [Actors -> SUBSET (Blobs \cup {Nobody})]

SweepTypes ==
    /\ released \in [Blobs -> Nat] /\ last_release \in Nat
    /\ candidates \in [Sessions -> SUBSET (Blobs \X Nat)]

(* One remover at a time, a session; a pin set is taken once.              *)
LockHolder ==
    /\ evictionLock \in Sessions \cup {Nobody}
    /\ \A a \in Actors : pc[a] \in Removal <=> evictionLock = a
    /\ \A a \in Actors : pc[a] = "delete" => toProbe = {}
    /\ \A a \in Actors : pc[a] \in {"new", "open", "flock"} => holder[a] = "none"

(* Whoever holds a pin set has its lock file and its list in place; nobody *)
(* else pins, and a holder's lock cannot be taken by a reader of the pins. *)
PinFiles ==
    \A a \in Actors :
        /\ holder[a] = "held" => a \in lockFile /\ digests[a] \subseteq list[a] /\ probed # a
        /\ holder[a] # "held" => digests[a] = {}

(* What a remover has read so far covers the holders it is done with, but  *)
(* for what could not be read.                                             *)
PinsRead ==
    evictionLock # Nobody =>
        \A a \in Actors \ toProbe : digests[a] \subseteq pinned \cup unread[a]

(* Actors rely on what they pinned.                                        *)
Reliance == \A a \in Actors : relied[a] \subseteq digests[a]

Inv == PinTypes /\ SweepTypes /\ LockHolder /\ PinFiles /\ PinsRead /\ Reliance /\ PinsHonoured

LEMMA InitInv == Init => Inv
<1> SUFFICES ASSUME Init PROVE Inv
  OBVIOUS
<1>1. PinTypes /\ SweepTypes
  BY DEF Init, PinTypes, SweepTypes, Steps
<1>2. LockHolder
  BY CacheAssumption DEF Init, LockHolder, Removal, Actors
<1>3. PinFiles /\ PinsRead /\ Reliance /\ PinsHonoured
  BY DEF Init, PinFiles, PinsRead, Reliance, PinsHonoured
<1>4. QED
  BY <1>1, <1>2, <1>3 DEF Inv

(* What Goto and Do change.                                                *)
LEMMA GotoFacts ==
    ASSUME PinTypes, NEW a \in Actors, NEW step \in Steps, Goto(a, step)
    PROVE  /\ pc' = [pc EXCEPT ![a] = step]
           /\ arg' \in [Actors -> Blobs \cup {Nobody}]
  BY DEF Goto, Do, PinTypes

LEMMA DoFacts ==
    ASSUME PinTypes, NEW a \in Actors, NEW o, NEW b \in Blobs \cup {Nobody}, NEW step \in Steps,
           Do(a, o, b, step)
    PROVE  /\ pc' = [pc EXCEPT ![a] = step]
           /\ arg' \in [Actors -> Blobs \cup {Nobody}]
  BY DEF Do, PinTypes

(* A step that leaves the pins and the remover alone, and nothing deleted. *)
Aside(a) ==
    /\ \E step \in Steps \ (Removal \cup {"new"}) :
          /\ pc' = [pc EXCEPT ![a] = step]
          /\ step \in {"open", "flock"} => holder[a] = "none"
    /\ pc[a] \notin Removal /\ arg' \in [Actors -> Blobs \cup {Nobody}]
    /\ UNCHANGED <<holder, digests, list, unread, evictionLock, toProbe, probed, pinned>>
    /\ lockFile \subseteq lockFile'

(* Such a step keeps the invariant if actors come to rely only on stored   *)
(* blobs of their pins, and blobs leave the store only as spoiled.         *)
LEMMA AsideInv ==
    ASSUME Inv, NEW a \in Actors, Aside(a), SweepTypes',
           relied' \in [Actors -> SUBSET (Blobs \cup {Nobody})],
           \A b \in Actors : relied'[b] \subseteq relied[b] \cup (digests[b] \cap stored'),
           stored \cup spoiled \subseteq stored' \cup spoiled'
    PROVE  Inv'
<1> USE DEF Inv
<1>1. PinTypes'
  BY DEF Aside, PinTypes
<1>2. LockHolder'
  BY DEF Aside, PinTypes, LockHolder, Removal
<1>3. PinFiles' /\ PinsRead'
  BY DEF Aside, PinFiles, PinsRead
<1>4. Reliance' /\ PinsHonoured'
  BY DEF Aside, Reliance, PinsHonoured
<1>5. QED
  BY <1>1, <1>2, <1>3, <1>4

(* The same for a step that changes nothing an actor relies on.            *)
LEMMA PlainInv ==
    ASSUME Inv, NEW a \in Actors, Aside(a), SweepTypes', UNCHANGED <<relied, stored, spoiled>>
    PROVE  Inv'
<1>1. relied' \in [Actors -> SUBSET (Blobs \cup {Nobody})]
  BY DEF Inv, PinTypes
<1>2. QED
  BY <1>1, AsideInv

LEMMA SessionsAct == Sessions \subseteq Actors /\ Processes \subseteq Actors
  BY DEF Actors

-----------------------------------------------------------------------------
(* Beginning, and pinning.                                                 *)
LEMMA PlainSteps ==
    ASSUME Inv, NEW a \in Actors,
           \/ Start(a) \/ PinSetOpen(a) \/ AddFails(a) \/ AddUndefined(a) \/ KnownGood(a)
           \/ \E o \in Ops, b \in Blobs : Begin(a, o, b)
    PROVE  Inv'
<1> USE DEF Inv
<1>0. SweepTypes' /\ UNCHANGED <<relied, stored, spoiled, unread>>
  BY DEF Start, PinSetOpen, AddFails, AddUndefined, KnownGood, Begin, SweepTypes,
         storeVars, releaseVars, faultVars
<1>1. CASE Start(a)
  <2>1. PICK step \in {"open", "idle"} : Goto(a, step)
    BY <1>1 DEF Start
  <2>2. pc' = [pc EXCEPT ![a] = step] /\ arg' \in [Actors -> Blobs \cup {Nobody}]
    BY <2>1, GotoFacts DEF Steps
  <2>3. Aside(a)
    BY <1>0, <1>1, <2>2 DEF Start, Aside, Steps, Removal, LockHolder, pinVars, removalVars
  <2>4. QED
    BY <1>0, <2>3, PlainInv
<1>2. CASE PinSetOpen(a)
  <2>1. pc' = [pc EXCEPT ![a] = "flock"] /\ arg' \in [Actors -> Blobs \cup {Nobody}]
    BY <1>2, GotoFacts DEF PinSetOpen, Steps
  <2>2. Aside(a)
    BY <1>0, <1>2, <2>1 DEF PinSetOpen, Aside, Steps, Removal, LockHolder, removalVars
  <2>3. QED
    BY <1>0, <2>2, PlainInv
<1>3. CASE AddFails(a)
  <2>1. PICK step \in {"idle", "claim", "check", "put"} : Goto(a, step)
    BY <1>3 DEF AddFails, AfterPin
  <2>2. pc' = [pc EXCEPT ![a] = step] /\ arg' \in [Actors -> Blobs \cup {Nobody}]
    BY <2>1, GotoFacts DEF Steps
  <2>3. Aside(a)
    BY <1>0, <1>3, <2>2 DEF AddFails, Aside, Steps, Removal, pinVars, removalVars
  <2>4. QED
    BY <1>0, <2>3, PlainInv
<1>4. CASE AddUndefined(a) \/ KnownGood(a)
  <2>1. PICK step \in {"idle", "over"} : Goto(a, step)
    BY <1>4 DEF AddUndefined, KnownGood
  <2>2. pc' = [pc EXCEPT ![a] = step] /\ arg' \in [Actors -> Blobs \cup {Nobody}]
    BY <2>1, GotoFacts DEF Steps
  <2>3. Aside(a)
    BY <1>0, <1>4, <2>2 DEF AddUndefined, KnownGood, Aside, Steps, Removal, pinVars, removalVars
  <2>4. QED
    BY <1>0, <2>3, PlainInv
<1>5. ASSUME NEW o \in Ops, NEW b \in Blobs, Begin(a, o, b) PROVE Inv'
  <2>1. PICK step \in {"open", "idle", "put", "add", "claim", "check"} :
            Do(a, o, b, step) /\ (step = "open" => holder[a] = "none")
    BY <1>5 DEF Begin, AfterPin, AfterPinSet, PinTypes
  <2>2. pc' = [pc EXCEPT ![a] = step] /\ arg' \in [Actors -> Blobs \cup {Nobody}]
    BY <2>1, DoFacts DEF Steps
  <2>3. Aside(a)
    BY <1>0, <1>5, <2>1, <2>2 DEF Begin, Aside, Steps, Removal, pinVars, removalVars
  <2>4. QED
    BY <1>0, <2>3, PlainInv
<1>6. QED
  BY <1>1, <1>2, <1>3, <1>4, <1>5

(* A pin set is taken or refused: the new holder has pinned nothing yet,   *)
(* its lock file is there, and no reader of the pins has it locked.        *)
LEMMA PinSetInv ==
    ASSUME Inv, NEW a \in Actors,
           PinSetLock(a) \/ PinSetBusy(a) \/ PinSetRelink(a) \/ PinSetGivesUp(a)
    PROVE  Inv'
<1> USE DEF Inv
<1>1. PICK h \in {"none", "held", "failed"}, step \in {"idle", "put", "add", "open", "claim", "check"} :
          /\ pc[a] = "flock" /\ holder' = [holder EXCEPT ![a] = h] /\ Goto(a, step)
          /\ step = "open" => h = "none"
          /\ h = "held" => a \in lockFile /\ probed # a
          /\ UNCHANGED <<storeVars, lockFile, list, digests, removalVars, relied, releaseVars, faultVars>>
  BY DEF PinSetLock, PinSetBusy, PinSetRelink, PinSetGivesUp, PinSet, AfterPin, AfterPinSet
<1>2. pc' = [pc EXCEPT ![a] = step] /\ arg' \in [Actors -> Blobs \cup {Nobody}]
  BY <1>1, GotoFacts DEF Steps
<1>3. holder[a] = "none" /\ digests[a] = {}
  BY <1>1 DEF LockHolder, PinFiles
<1>4. PinTypes' /\ SweepTypes'
  BY <1>1, <1>2 DEF PinTypes, SweepTypes, Steps, releaseVars, faultVars
<1>5. LockHolder'
  BY <1>1, <1>2 DEF LockHolder, PinTypes, Removal, removalVars
<1>6. PinFiles' /\ PinsRead'
  BY <1>1, <1>3 DEF PinFiles, PinsRead, PinTypes, removalVars, faultVars
<1>7. Reliance' /\ PinsHonoured'
  BY <1>1 DEF Reliance, PinsHonoured, storeVars, faultVars
<1>8. QED
  BY <1>4, <1>5, <1>6, <1>7

(* A pin is added under the shared lock, so while nobody removes.          *)
LEMMA AddInv == ASSUME Inv, NEW a \in Actors, Add(a) PROVE Inv'
<1> USE DEF Inv, Add
<1>1. PICK step \in {"idle", "claim", "check", "put"} : Goto(a, step)
  BY DEF AfterPin
<1>2. pc' = [pc EXCEPT ![a] = step] /\ arg' \in [Actors -> Blobs \cup {Nobody}]
  BY <1>1, GotoFacts DEF Steps
<1>3. /\ relied' \in [Actors -> SUBSET (Blobs \cup {Nobody})]
      /\ \A b \in Actors : b # a => relied'[b] = relied[b]
      /\ relied'[a] \subseteq relied[a] \cup ({arg[a]} \cap stored)
  BY DEF PinTypes
<1>4. PinTypes' /\ SweepTypes'
  BY <1>2, <1>3 DEF PinTypes, SweepTypes, Steps, releaseVars, faultVars
<1>5. LockHolder'
  BY <1>2 DEF LockHolder, PinTypes, Removal, removalVars
<1>6. PinFiles' /\ PinsRead'
  BY DEF PinFiles, PinsRead, PinTypes, removalVars, faultVars
<1>7. Reliance' /\ PinsHonoured'
  BY <1>3 DEF Reliance, PinsHonoured, PinTypes, storeVars, faultVars
<1>8. QED
  BY <1>4, <1>5, <1>6, <1>7

-----------------------------------------------------------------------------
(* Looking for blobs, storing them, deleting bad ones.                     *)
LEMMA UseSteps ==
    ASSUME Inv, NEW a \in Actors,
           Has(a) \/ Put(a) \/ Verify(a) \/ DiscardCorrupt(a) \/ \E b \in Blobs : Receive(a, b)
    PROVE  Inv'
<1> USE DEF Inv
<1>0. SweepTypes'
  BY DEF Has, Put, Verify, DiscardCorrupt, Receive, Publish, SweepTypes, releaseVars
<1>1. /\ relied' \in [Actors -> SUBSET (Blobs \cup {Nobody})]
      /\ \A b \in Actors : relied'[b] \subseteq relied[b] \cup (digests[b] \cap stored')
  BY DEF Has, Put, Verify, DiscardCorrupt, Receive, Publish, Rely, PinTypes
<1>2. stored \cup spoiled \subseteq stored' \cup spoiled'
  BY DEF Has, Put, Verify, DiscardCorrupt, Receive, Publish, faultVars
<1>3. UNCHANGED <<holder, digests, list, lockFile, unread, evictionLock, toProbe, probed, pinned>>
  BY DEF Has, Put, Verify, DiscardCorrupt, Receive, Publish, pinVars, removalVars, faultVars
<1>4. PICK step \in {"idle", "add", "discard"} :
          /\ pc' = [pc EXCEPT ![a] = step]
          /\ arg' \in [Actors -> Blobs \cup {Nobody}] /\ pc[a] \notin Removal
  <2>1. CASE \E b \in Blobs : Receive(a, b)
    BY <2>1 DEF Receive, PinTypes, Removal
  <2>2. CASE Has(a) \/ Put(a) \/ Verify(a) \/ DiscardCorrupt(a)
    <3>1. PICK step \in {"idle", "add", "discard"} : Goto(a, step)
      BY <2>2 DEF Has, Put, Verify, DiscardCorrupt
    <3>2. pc' = [pc EXCEPT ![a] = step] /\ arg' \in [Actors -> Blobs \cup {Nobody}]
      BY <3>1, GotoFacts DEF Steps
    <3>3. QED
      BY <2>2, <3>2 DEF Has, Put, Verify, DiscardCorrupt, Removal
  <2>3. QED
    BY <2>1, <2>2
<1>5. Aside(a)
  BY <1>3, <1>4 DEF Aside, Steps, Removal
<1>6. QED
  BY <1>0, <1>1, <1>2, <1>5, AsideInv

-----------------------------------------------------------------------------
(* A session's frames and what its sweep does without the eviction lock.   *)
LEMMA SweepOnFacts ==
    ASSUME PinTypes, SweepTypes, NEW s \in Sessions, NEW left \in SUBSET (Blobs \X Nat),
           SweepOn(s, left)
    PROVE  /\ \E step \in {"sweep", "evict", "idle"} : pc' = [pc EXCEPT ![s] = step]
           /\ arg' \in [Actors -> Blobs \cup {Nobody}]
           /\ candidates' \in [Sessions -> SUBSET (Blobs \X Nat)]
<1>1. PICK step \in {"sweep", "evict", "idle"} : Goto(s, step)
  BY DEF SweepOn
<1>2. pc' = [pc EXCEPT ![s] = step] /\ arg' \in [Actors -> Blobs \cup {Nobody}]
  BY <1>1, GotoFacts, SessionsAct DEF Steps
<1>3. QED
  BY <1>2 DEF SweepOn, SweepTypes

LEMMA FrameSteps ==
    ASSUME Inv, NEW s \in Sessions,
           \/ Claim(s) \/ EvictBusy(s) \/ SweepCopy(s) \/ Forget(s)
           \/ \E ds \in SUBSET Blobs : Release(s, ds)
    PROVE  Inv'
<1> USE SessionsAct DEF Inv
<1>0. UNCHANGED <<relied, stored, spoiled, unread, holder, digests, list, lockFile, evictionLock,
                  toProbe, probed, pinned>>
  BY DEF Claim, EvictBusy, SweepCopy, Forget, Release, storeVars, pinVars, removalVars, faultVars
<1>1. CASE Claim(s)
  <2>1. pc' = [pc EXCEPT ![s] = "has"] /\ arg' \in [Actors -> Blobs \cup {Nobody}]
    BY <1>1, GotoFacts DEF Claim, Steps
  <2>2. SweepTypes'
    BY <1>1 DEF Claim, SweepTypes
  <2>3. Aside(s)
    <3>1. pc[s] \notin Removal /\ "has" \in Steps \ (Removal \cup {"new"})
      BY <1>1 DEF Claim, Steps, Removal
    <3>2. QED
      BY <1>0, <2>1, <3>1 DEF Aside
  <2>4. QED
    BY <1>0, <2>2, <2>3, PlainInv
<1>2. CASE EvictBusy(s)
  <2>1. pc' = [pc EXCEPT ![s] = "over"] /\ arg' \in [Actors -> Blobs \cup {Nobody}]
    BY <1>2, GotoFacts DEF EvictBusy, Steps
  <2>2. SweepTypes'
    BY <1>2 DEF EvictBusy, SweepTypes, releaseVars
  <2>3. Aside(s)
    <3>1. pc[s] \notin Removal /\ "over" \in Steps \ (Removal \cup {"new"})
      BY <1>2 DEF EvictBusy, Steps, Removal
    <3>2. QED
      BY <1>0, <2>1, <3>1 DEF Aside
  <2>4. QED
    BY <1>0, <2>2, <2>3, PlainInv
<1>3. CASE SweepCopy(s) \/ Forget(s)
  <2>1. PICK left \in SUBSET (Blobs \X Nat) : SweepOn(s, left)
    BY <1>3 DEF SweepCopy, Forget, Swept, SweepTypes
  <2>2. /\ \E step \in {"sweep", "evict", "idle"} : pc' = [pc EXCEPT ![s] = step]
        /\ arg' \in [Actors -> Blobs \cup {Nobody}]
        /\ candidates' \in [Sessions -> SUBSET (Blobs \X Nat)]
    BY <2>1, SweepOnFacts
  <2>3. SweepTypes'
    BY <1>3, <2>2 DEF SweepCopy, Forget, SweepTypes
  <2>4. Aside(s)
    BY <1>0, <1>3, <2>2 DEF SweepCopy, Forget, Aside, Steps, Removal
  <2>5. QED
    BY <1>0, <2>3, <2>4, PlainInv
<1>4. ASSUME NEW ds \in SUBSET Blobs, Release(s, ds) PROVE Inv'
  <2>1. pc' = [pc EXCEPT ![s] = "copy"] /\ arg' \in [Actors -> Blobs \cup {Nobody}]
    BY <1>4, DoFacts DEF Release, Steps
  <2>2. SweepTypes'
    BY <1>4 DEF Release, SweepTypes
  <2>3. Aside(s)
    <3>1. pc[s] \notin Removal /\ "copy" \in Steps \ (Removal \cup {"new"})
      BY <1>4 DEF Release, Steps, Removal
    <3>2. QED
      BY <1>0, <2>1, <3>1 DEF Aside
  <2>4. QED
    BY <1>0, <2>2, <2>3, PlainInv
<1>5. QED
  BY <1>1, <1>2, <1>3, <1>4

(* A pin set goes: its holder relies on nothing any more.                  *)
LEMMA PinsGoneInv ==
    ASSUME Inv, NEW a \in Actors, NEW step \in Steps \ Removal, PinsGone(a), pc[a] = "idle",
           pc' = [pc EXCEPT ![a] = step], arg' \in [Actors -> Blobs \cup {Nobody}],
           UNCHANGED <<storeVars, removalVars, releaseVars, faultVars>>
    PROVE  Inv'
<1> USE DEF Inv, PinsGone
<1>1. PinTypes' /\ SweepTypes'
  BY DEF PinTypes, SweepTypes, releaseVars, faultVars
<1>2. LockHolder'
  BY DEF LockHolder, PinTypes, Removal, removalVars
<1>3. PinFiles' /\ PinsRead'
  BY DEF PinFiles, PinsRead, PinTypes, removalVars, faultVars
<1>4. Reliance' /\ PinsHonoured'
  BY DEF Reliance, PinsHonoured, PinTypes, storeVars, faultVars
<1>5. QED
  BY <1>1, <1>2, <1>3, <1>4

LEMMA EndSteps ==
    ASSUME Inv, (\E s \in Sessions : Finish(s)) \/ (\E p \in Processes : End(p)) PROVE Inv'
<1> USE SessionsAct DEF Inv
<1>1. ASSUME NEW s \in Sessions, Finish(s) PROVE Inv'
  <2>1. pc' = [pc EXCEPT ![s] = "copy"] /\ arg' \in [Actors -> Blobs \cup {Nobody}]
    BY <1>1, DoFacts DEF Finish, Steps
  <2>2. "copy" \in Steps \ Removal
    BY DEF Steps, Removal
  <2>3. QED
    BY <1>1, <2>1, <2>2, PinsGoneInv DEF Finish
<1>2. ASSUME NEW p \in Processes, End(p) PROVE Inv'
  <2>1. pc' = [pc EXCEPT ![p] = "over"] /\ arg' \in [Actors -> Blobs \cup {Nobody}]
    BY <1>2, GotoFacts DEF End, Steps
  <2>2. "over" \in Steps \ Removal
    BY DEF Steps, Removal
  <2>3. QED
    BY <1>2, <2>1, <2>2, PinsGoneInv DEF End
<1>3. QED
  BY <1>1, <1>2

-----------------------------------------------------------------------------
(* Removing.  A session takes the lock: every holder is still to be read.  *)
LEMMA LockInv == ASSUME Inv, NEW s \in Sessions, RemoveLock(s) \/ EvictLock(s) PROVE Inv'
<1> USE SessionsAct, CacheAssumption DEF Inv
<1>1. /\ LockExclusive(s) /\ pc[s] \notin Removal
      /\ UNCHANGED <<storeVars, pinVars, probed, relied, releaseVars, spoiled, unread>>
  BY DEF RemoveLock, EvictLock, Removal, faultVars
<1>2. pc' = [pc EXCEPT ![s] = "probe"] /\ arg' \in [Actors -> Blobs \cup {Nobody}]
  <2>1. CASE RemoveLock(s)
    <3>1. PICK c \in candidates[s] : Do(s, op[s], c[1], "probe")
      BY <2>1 DEF RemoveLock
    <3>2. c[1] \in Blobs
      BY DEF SweepTypes
    <3>3. QED
      BY <3>1, <3>2, DoFacts DEF Steps
  <2>2. CASE EvictLock(s)
    BY <2>2, GotoFacts DEF EvictLock, Steps
  <2>3. QED
    BY <2>1, <2>2
<1>3. PinTypes' /\ SweepTypes'
  BY <1>1, <1>2 DEF PinTypes, SweepTypes, Steps, pinVars, releaseVars, faultVars
<1>4. LockHolder'
  BY <1>1, <1>2 DEF LockHolder, LockExclusive, PinTypes, Removal, pinVars, Actors
<1>5. PinFiles' /\ PinsRead'
  BY <1>1 DEF PinFiles, PinsRead, LockExclusive, PinTypes, pinVars, faultVars
<1>6. Reliance' /\ PinsHonoured'
  BY <1>1 DEF Reliance, PinsHonoured, storeVars, pinVars, faultVars
<1>7. QED
  BY <1>3, <1>4, <1>5, <1>6

(* A lock file is probed: a live holder's list counts, a dead holder's     *)
(* files are deleted.                                                      *)
LEMMA ProbeInv ==
    ASSUME Inv, NEW s \in Sessions,
           \/ \E a \in Actors : ProbeLive(s, a) \/ ProbeMisread(s, a) \/ ProbeDead(s, a)
           \/ CleanDead(s)
    PROVE  Inv'
<1> USE SessionsAct DEF Inv
<1>1. ASSUME NEW a \in Actors, ProbeLive(s, a) PROVE Inv'
  <2> USE <1>1 DEF ProbeLive
  <2>1. PinTypes' /\ SweepTypes' /\ LockHolder'
    BY DEF PinTypes, SweepTypes, LockHolder, pinVars, actorVars, releaseVars, faultVars
  <2>2. PinFiles' /\ PinsRead'
    BY DEF PinFiles, PinsRead, pinVars, faultVars
  <2>3. Reliance' /\ PinsHonoured'
    BY DEF Reliance, PinsHonoured, storeVars, pinVars, actorVars, faultVars
  <2>4. QED
    BY <2>1, <2>2, <2>3
<1>2. ASSUME NEW a \in Actors, ProbeDead(s, a) PROVE Inv'
  <2> USE <1>2 DEF ProbeDead
  <2>1. pc' = [pc EXCEPT ![s] = "clean"] /\ arg' \in [Actors -> Blobs \cup {Nobody}]
    BY GotoFacts DEF Steps
  <2>2. PinTypes' /\ SweepTypes'
    BY <2>1 DEF PinTypes, SweepTypes, Steps, releaseVars, faultVars
  <2>3. LockHolder'
    BY <2>1 DEF LockHolder, PinTypes, Removal
  <2>4. PinFiles' /\ PinsRead'
    BY DEF PinFiles, PinsRead, faultVars
  <2>5. Reliance' /\ PinsHonoured'
    BY DEF Reliance, PinsHonoured, storeVars, faultVars
  <2>6. QED
    BY <2>2, <2>3, <2>4, <2>5
<1>3. CASE CleanDead(s)
  <2> USE <1>3 DEF CleanDead
  <2>1. pc' = [pc EXCEPT ![s] = "probe"] /\ arg' \in [Actors -> Blobs \cup {Nobody}]
    BY GotoFacts DEF Steps
  <2>2. PinTypes' /\ SweepTypes'
    BY <2>1 DEF PinTypes, SweepTypes, Steps, releaseVars, faultVars
  <2>3. LockHolder'
    BY <2>1 DEF LockHolder, PinTypes, Removal
  <2>4. PinFiles' /\ PinsRead'
    BY CacheAssumption DEF PinFiles, PinsRead, PinTypes, faultVars
  <2>5. Reliance' /\ PinsHonoured'
    BY DEF Reliance, PinsHonoured, storeVars, faultVars
  <2>6. QED
    BY <2>2, <2>3, <2>4, <2>5
<1>4. ASSUME NEW a \in Actors, ProbeMisread(s, a) PROVE Inv'
  <2>1. PICK missed \in SUBSET list[a] :
            /\ pinned' = pinned \cup (list[a] \ missed)
            /\ unread' = [unread EXCEPT ![a] = @ \cup missed]
            /\ toProbe' = toProbe \ {a} /\ holder[a] = "held"
            /\ UNCHANGED <<storeVars, pinVars, evictionLock, probed, actorVars, releaseVars, spoiled>>
    BY <1>4 DEF ProbeMisread
  <2>2. unread' \in [Actors -> SUBSET (Blobs \cup {Nobody})]
    BY <2>1 DEF PinTypes
  <2>3. \A c \in Actors : unread[c] \subseteq unread'[c]
    BY <2>1 DEF PinTypes
  <2>4. PinTypes' /\ SweepTypes' /\ LockHolder' /\ PinFiles' /\ Reliance'
    BY <2>1, <2>2 DEF PinTypes, SweepTypes, LockHolder, PinFiles, Reliance, pinVars, actorVars,
                      releaseVars
  <2>5. digests[a] \subseteq pinned' \cup unread'[a]
    BY <2>1 DEF PinTypes, PinFiles
  <2>6. PinsRead' /\ PinsHonoured'
    BY <2>1, <2>3, <2>5 DEF PinsRead, PinsHonoured, storeVars, pinVars, actorVars
  <2>7. QED
    BY <2>4, <2>6
<1>5. QED
  BY <1>1, <1>2, <1>3, <1>4

(* Where a remover ends up, for the steps that give the lock back.         *)
LEMMA UnlockInv ==
    ASSUME Inv, NEW s \in Sessions, NEW step \in Steps \ (Removal \cup {"new", "open", "flock"}),
           pc[s] \in Removal, pc' = [pc EXCEPT ![s] = step], evictionLock' = Nobody,
           arg' \in [Actors -> Blobs \cup {Nobody}], SweepTypes',
           list' \in [Actors -> SUBSET (Blobs \cup {Nobody})],
           \A a \in Actors \cap lockFile : list'[a] = list[a],
           UNCHANGED <<lockFile, holder, digests, relied, probed, unread>>
    PROVE  PinTypes' /\ SweepTypes' /\ LockHolder' /\ PinFiles' /\ PinsRead' /\ Reliance'
<1> USE SessionsAct, CacheAssumption DEF Inv
<1>1. PinTypes'
  BY DEF PinTypes
<1>2. LockHolder'
  BY DEF LockHolder, PinTypes, Removal, Actors
<1>3. PinFiles' /\ PinsRead' /\ Reliance'
  BY DEF PinFiles, PinsRead, Reliance
<1>4. QED
  BY <1>1, <1>2, <1>3

(* The list a remover leaves behind: those of existing lock files stay.    *)
LEMMA ProbeEndFacts ==
    ASSUME Inv, NEW s, ProbeEnd(s)
    PROVE  /\ list' \in [Actors -> SUBSET (Blobs \cup {Nobody})]
           /\ \A a \in Actors \cap lockFile : list'[a] = list[a]
           /\ pc[s] = "probe" /\ toProbe = {}
           /\ UNCHANGED <<lockFile, holder, digests>>
  BY DEF ProbeEnd, Inv, PinTypes

(* What a remover deletes after reading all pins, nobody relies on, except *)
(* those whose pin was not read.                                           *)
LEMMA UnpinnedIsFree ==
    ASSUME Inv, NEW s \in Sessions, pc[s] \in Removal, toProbe = {}, NEW b, b \notin pinned
    PROVE  \A a \in Actors : b \in relied[a] => b \in unread[a]
<1>1. evictionLock # Nobody
  BY SessionsAct, CacheAssumption DEF Inv, LockHolder, Actors
<1>2. QED
  BY <1>1 DEF Inv, PinsRead, Reliance

LEMMA RemovalSteps ==
    ASSUME Inv, NEW s \in Sessions,
           \/ ProbeFails(s) \/ RemoveUnpinned(s) \/ RemoveFails(s)
           \/ EvictList(s) \/ EvictDelete(s) \/ EvictDeleteFails(s) \/ EvictEnd(s)
    PROVE  Inv'
<1> USE SessionsAct DEF Inv
<1>0. Swept(s) \in SUBSET (Blobs \X Nat)
  BY DEF Swept, SweepTypes
<1>1. CASE ProbeFails(s)
  <2>1. \/ SweepOn(s, Swept(s))
        \/ Goto(s, "over") /\ UNCHANGED candidates
    BY <1>1 DEF ProbeFails
  <2>2. PICK step \in {"sweep", "evict", "idle", "over"} :
            /\ pc' = [pc EXCEPT ![s] = step]
            /\ arg' \in [Actors -> Blobs \cup {Nobody}]
            /\ candidates' \in [Sessions -> SUBSET (Blobs \X Nat)]
    BY <1>0, <2>1, SweepOnFacts, GotoFacts DEF Steps, SweepTypes
  <2>3. /\ pc[s] \in Removal /\ evictionLock' = Nobody
        /\ UNCHANGED <<stored, spoiled, unread, lockFile, list, holder, digests, relied, probed,
                       released, last_release>>
    BY <1>1 DEF ProbeFails, Removal, storeVars, pinVars
  <2>4. SweepTypes' /\ step \in Steps \ (Removal \cup {"new", "open", "flock"})
    BY <2>2, <2>3 DEF SweepTypes, Steps, Removal
  <2>5. PinTypes' /\ SweepTypes' /\ LockHolder' /\ PinFiles' /\ PinsRead' /\ Reliance'
    BY <2>2, <2>3, <2>4, UnlockInv DEF PinTypes
  <2>6. PinsHonoured'
    BY <2>3 DEF PinsHonoured
  <2>7. QED
    BY <2>5, <2>6
<1>2. CASE RemoveUnpinned(s) \/ RemoveFails(s)
  <2>1. /\ ProbeEnd(s) /\ evictionLock' = Nobody
        /\ UNCHANGED <<relied, probed, released, last_release, spoiled, unread>>
        /\ \/ SweepOn(s, Swept(s)) /\ stored' = stored
           \/ /\ arg[s] \notin pinned /\ stored' = stored \ {arg[s]}
              /\ Goto(s, "forget") /\ UNCHANGED candidates
    BY <1>2 DEF RemoveUnpinned, RemoveFails, storeVars, faultVars
  <2>2. PICK step \in {"sweep", "evict", "idle", "forget"} :
            /\ pc' = [pc EXCEPT ![s] = step]
            /\ arg' \in [Actors -> Blobs \cup {Nobody}]
            /\ candidates' \in [Sessions -> SUBSET (Blobs \X Nat)]
    BY <1>0, <2>1, SweepOnFacts, GotoFacts DEF Steps, SweepTypes
  <2>3. /\ list' \in [Actors -> SUBSET (Blobs \cup {Nobody})]
        /\ \A a \in Actors \cap lockFile : list'[a] = list[a]
        /\ pc[s] \in Removal /\ toProbe = {}
        /\ UNCHANGED <<lockFile, holder, digests>>
    BY <2>1, ProbeEndFacts DEF Removal
  <2>4. SweepTypes' /\ step \in Steps \ (Removal \cup {"new", "open", "flock"})
    BY <2>1, <2>2 DEF SweepTypes, Steps, Removal
  <2>5. PinTypes' /\ SweepTypes' /\ LockHolder' /\ PinFiles' /\ PinsRead' /\ Reliance'
    BY <2>1, <2>2, <2>3, <2>4, UnlockInv
  <2>6. \A b : b \notin pinned => \A a \in Actors : b \in relied[a] => b \in unread[a]
    BY <2>3, UnpinnedIsFree
  <2>7. PinsHonoured'
    BY <2>1, <2>6 DEF PinsHonoured
  <2>8. QED
    BY <2>5, <2>7
<1>3. CASE EvictList(s)
  <2>1. ProbeEnd(s) /\ Goto(s, "delete")
        /\ UNCHANGED <<storeVars, evictionLock, toProbe, probed, pinned, relied, releaseVars, faultVars>>
    BY <1>3 DEF EvictList
  <2>2. pc' = [pc EXCEPT ![s] = "delete"] /\ arg' \in [Actors -> Blobs \cup {Nobody}]
    BY <2>1, GotoFacts DEF Steps
  <2>3. /\ list' \in [Actors -> SUBSET (Blobs \cup {Nobody})]
        /\ \A a \in Actors \cap lockFile : list'[a] = list[a]
        /\ pc[s] = "probe" /\ toProbe = {}
        /\ UNCHANGED <<lockFile, holder, digests>>
    BY <2>1, ProbeEndFacts
  <2>4. PinTypes' /\ SweepTypes'
    BY <2>1, <2>2, <2>3 DEF PinTypes, SweepTypes, Steps, releaseVars, faultVars
  <2>5. LockHolder'
    BY <2>1, <2>2, <2>3 DEF LockHolder, PinTypes, Removal
  <2>6. PinFiles' /\ PinsRead'
    BY <2>1, <2>3 DEF PinFiles, PinsRead, faultVars
  <2>7. Reliance' /\ PinsHonoured'
    BY <2>1, <2>3 DEF Reliance, PinsHonoured, storeVars, faultVars
  <2>8. QED
    BY <2>4, <2>5, <2>6, <2>7
<1>4. CASE EvictDelete(s) \/ EvictDeleteFails(s)
  <2>1. /\ \/ stored' = stored
           \/ \E b : b \notin pinned /\ stored' = stored \ {b}
        /\ UNCHANGED <<pinVars, evictionLock, toProbe, probed, pinned, actorVars, releaseVars, spoiled,
                       unread>>
        /\ pc[s] = "delete"
    BY <1>4 DEF EvictDelete, EvictDeleteFails, storeVars, faultVars
  <2>2. PinTypes' /\ SweepTypes' /\ LockHolder'
    BY <2>1 DEF PinTypes, SweepTypes, LockHolder, pinVars, actorVars, releaseVars
  <2>3. PinFiles' /\ PinsRead' /\ Reliance'
    BY <2>1 DEF PinFiles, PinsRead, Reliance, pinVars, actorVars
  <2>4. \A b : b \notin pinned => \A a \in Actors : b \in relied[a] => b \in unread[a]
    BY <2>1, UnpinnedIsFree DEF LockHolder, Removal
  <2>5. PinsHonoured'
    BY <2>1, <2>4 DEF PinsHonoured, actorVars, faultVars
  <2>6. QED
    BY <2>2, <2>3, <2>5
<1>5. CASE EvictEnd(s)
  <2>1. pc' = [pc EXCEPT ![s] = "over"] /\ arg' \in [Actors -> Blobs \cup {Nobody}]
    BY <1>5, GotoFacts DEF EvictEnd, Steps
  <2>2. /\ pc[s] \in Removal /\ evictionLock' = Nobody
        /\ UNCHANGED <<stored, spoiled, unread, lockFile, list, holder, digests, relied, probed>>
        /\ SweepTypes'
    BY <1>5 DEF EvictEnd, Removal, SweepTypes, storeVars, pinVars, releaseVars, faultVars
  <2>3. "over" \in Steps \ (Removal \cup {"new", "open", "flock"})
    BY DEF Steps, Removal
  <2>4. PinTypes' /\ SweepTypes' /\ LockHolder' /\ PinFiles' /\ PinsRead' /\ Reliance'
    BY <2>1, <2>2, <2>3, UnlockInv DEF PinTypes
  <2>5. PinsHonoured'
    BY <2>2 DEF PinsHonoured
  <2>6. QED
    BY <2>4, <2>5
<1>6. QED
  BY <1>1, <1>2, <1>3, <1>4, <1>5

-----------------------------------------------------------------------------
(* Faults.  A process that dies leaves its files, and no longer relies on  *)
(* anything; the agent's death ends a removal wherever it is.              *)
LEMMA DieFacts ==
    ASSUME Inv, NEW as \in SUBSET Actors, Die(as)
    PROVE  /\ PinTypes' /\ Reliance' /\ PinsHonoured'
           /\ \A a \in Actors :
                 /\ a \in as => holder'[a] = "none" /\ digests'[a] = {} /\ pc'[a] \in {"new", "over"}
                 /\ a \notin as => holder'[a] = holder[a] /\ digests'[a] = digests[a] /\ pc'[a] = pc[a]
           /\ UNCHANGED <<lockFile, list, unread>>
<1> USE DEF Inv, Die
<1>1. PinTypes'
  BY DEF PinTypes, Steps
<1>2. Reliance' /\ PinsHonoured'
  BY DEF PinTypes, Reliance, PinsHonoured, storeVars
<1>3. QED
  BY <1>1, <1>2 DEF PinTypes

LEMMA FaultSteps ==
    ASSUME Inv, (\E p \in Processes : CrashProcess(p)) \/ CrashAgent \/ \E b \in Blobs : Damage(b)
    PROVE  Inv'
<1> USE SessionsAct, CacheAssumption DEF Inv
<1>1. ASSUME NEW p \in Processes, CrashProcess(p) PROVE Inv'
  <2>1. /\ PinTypes' /\ Reliance' /\ PinsHonoured'
        /\ \A a \in Actors :
              /\ a = p => holder'[a] = "none" /\ digests'[a] = {} /\ pc'[a] \in {"new", "over"}
              /\ a # p => holder'[a] = holder[a] /\ digests'[a] = digests[a] /\ pc'[a] = pc[a]
        /\ UNCHANGED <<lockFile, list, unread>>
    BY <1>1, DieFacts DEF CrashProcess
  <2>2. UNCHANGED <<removalVars, releaseVars>>
    BY <1>1 DEF CrashProcess
  <2>3. p \notin Sessions /\ p # Nobody
    BY DEF Actors
  <2>4. LockHolder' /\ SweepTypes'
    BY <2>1, <2>2, <2>3 DEF LockHolder, SweepTypes, Removal, removalVars, releaseVars
  <2>5. PinFiles' /\ PinsRead'
    BY <2>1, <2>2 DEF PinFiles, PinsRead, removalVars
  <2>6. QED
    BY <2>1, <2>4, <2>5
<1>2. CASE CrashAgent
  <2>1. /\ PinTypes' /\ Reliance' /\ PinsHonoured'
        /\ \A a \in Actors :
              /\ a \in Sessions => holder'[a] = "none" /\ digests'[a] = {} /\ pc'[a] \in {"new", "over"}
              /\ a \notin Sessions => holder'[a] = holder[a] /\ digests'[a] = digests[a] /\ pc'[a] = pc[a]
        /\ UNCHANGED <<lockFile, list, unread>>
    BY <1>2, DieFacts DEF CrashAgent
  <2>2. evictionLock' = Nobody /\ toProbe' = {} /\ probed' = Nobody
    BY <1>2 DEF CrashAgent
  <2>3. SweepTypes'
    BY <1>2 DEF CrashAgent, SweepTypes
  <2>4. \A a \in Actors : evictionLock = a => a \in Sessions
    BY DEF LockHolder
  <2>5. LockHolder'
    BY <2>1, <2>2, <2>4 DEF LockHolder, Removal
  <2>6. PinFiles' /\ PinsRead'
    BY <2>1, <2>2 DEF PinFiles, PinsRead
  <2>7. QED
    BY <2>1, <2>3, <2>5, <2>6
<1>3. ASSUME NEW b \in Blobs, Damage(b) PROVE Inv'
  <2>1. UNCHANGED <<stored, pinVars, removalVars, actorVars, releaseVars, spoiled, unread>>
    BY <1>3 DEF Damage
  <2>2. QED
    BY <2>1 DEF PinTypes, SweepTypes, LockHolder, PinFiles, PinsRead, Reliance, PinsHonoured,
                pinVars, removalVars, actorVars, releaseVars
<1>4. QED
  BY <1>1, <1>2, <1>3

LEMMA StutterInv == ASSUME Inv, UNCHANGED vars PROVE Inv'
  BY DEF Inv, PinTypes, SweepTypes, LockHolder, PinFiles, PinsRead, Reliance, PinsHonoured, vars,
         storeVars, pinVars, removalVars, actorVars, releaseVars, faultVars

LEMMA NextInv == Inv /\ [Next]_vars => Inv'
<1> SUFFICES ASSUME Inv, [Next]_vars PROVE Inv'
  OBVIOUS
<1> USE SessionsAct
<1>1. ASSUME NEW a \in Actors, Start(a) \/ Pinning(a) \/ Storing(a) PROVE Inv'
  BY <1>1, PlainSteps, PinSetInv, AddInv, UseSteps DEF Pinning, Storing
<1>2. ASSUME NEW s \in Sessions, Frame(s) PROVE Inv'
  <2>1. ASSUME NEW b \in Blobs, Begin(s, "use", b) PROVE Inv'
    BY <2>1, PlainSteps DEF Ops
  <2>2. QED
    BY <1>2, <2>1, UseSteps, FrameSteps, EndSteps DEF Frame
<1>3. ASSUME NEW s \in Sessions, Removing(s) PROVE Inv'
  BY <1>3, FrameSteps, LockInv, ProbeInv, RemovalSteps DEF Removing
<1>4. ASSUME NEW p \in Processes, Task(p) PROVE Inv'
  <2>1. ASSUME NEW b \in Blobs, Begin(p, IF p \in publishers THEN "store" ELSE "use", b) PROVE Inv'
    BY <2>1, PlainSteps DEF Ops
  <2>2. QED
    BY <1>4, <2>1, PlainSteps, EndSteps, FaultSteps DEF Task
<1>5. QED
  BY <1>1, <1>2, <1>3, <1>4, FaultSteps, StutterInv DEF Next

(* Eviction and the sweep of released blobs never delete a blob a live     *)
(* holder pinned and was then told is there, unless reading that pin       *)
(* failed: whatever sessions, session processes and removers interleave,   *)
(* die or fail otherwise, and although a remover reads the pins of the     *)
(* others one lock file after the other.                                   *)
THEOREM PinsAreHonoured == Spec => []PinsHonoured
<1>1. Inv => PinsHonoured
  BY DEF Inv
<1>2. QED
  BY InitInv, NextInv, <1>1, PTL DEF Spec

-----------------------------------------------------------------------------
(* Types, by the part of the state they are about.                         *)
StoreTypes ==
    /\ stored \subseteq Blobs /\ damaged \subseteq stored /\ spoiled \subseteq Blobs
    /\ recency \in [Blobs -> 1..Cardinality(Blobs)]
HolderTypes ==
    /\ lockFile \subseteq Actors /\ list \in [Actors -> SUBSET Blobs]
    /\ holder \in [Actors -> {"none", "held", "failed"}]
    /\ digests \in [Actors -> SUBSET Blobs] /\ relied \in [Actors -> SUBSET Blobs]
RemovalTypes ==
    /\ evictionLock \in Sessions \cup {Nobody}
    /\ toProbe \subseteq Actors /\ probed \in Actors \cup {Nobody}
    /\ pinned \subseteq Blobs /\ victims \in Seq(Blobs) /\ total \in Nat
ActorTypes ==
    pc \in [Actors -> Steps] /\ op \in [Actors -> Ops] /\ arg \in [Actors -> Blobs \cup {Nobody}]
ReleaseTypes ==
    /\ claims \in [Blobs -> SUBSET Coordinators]
    /\ released \in [Blobs -> Nat] /\ last_release \in Nat
    /\ candidates \in [Sessions -> SUBSET (Blobs \X Nat)] /\ unwanted \subseteq Blobs
FaultTypes ==
    /\ faults \in Nat /\ unread \in [Actors -> SUBSET Blobs] /\ skipped \subseteq {"sweep", "evict"}
    /\ orphans \subseteq Processes /\ publishers \subseteq Processes

Types ==
    /\ StoreTypes /\ HolderTypes /\ RemovalTypes
    /\ ActorTypes /\ ReleaseTypes /\ FaultTypes

LEMMA TypeParts == (TypeOK <=> Types) /\ (TypeOK' <=> Types')
  BY DEF TypeOK, Types, StoreTypes, HolderTypes, RemovalTypes, ActorTypes, ReleaseTypes, FaultTypes

(* Where an actor is while it pins, looks for or stores a blob, and while  *)
(* a session sweeps.                                                       *)
Using == {"add", "claim", "has", "put", "check", "discard"}
Working == Using \cup {"idle", "open", "flock"}
Sweeping == {"sweep", "probe", "clean", "forget"}

(* What an actor's step tells of its operation, its blob and its pins.     *)
ActorShape(a) ==
    /\ pc[a] = "new" => op[a] = "none"
    /\ pc[a] \in Working => op[a] \in {"none", "use", "store"}
    /\ pc[a] \in Using => arg[a] \in Blobs
    /\ pc[a] \in {"open", "flock"} /\ op[a] # "none" => arg[a] \in Blobs
    /\ holder[a] = "held" => Live(a)

(* A session that ends has dropped its pins; it sweeps and then evicts.    *)
CleanUpShape(s) ==
    /\ candidates[s] # {} => pc[s] \in Sweeping
    /\ pc[s] \in {"sweep", "forget"} => candidates[s] # {}
    /\ op[s] = "finish" =>
          pc[s] \in Sweeping \cup {"copy", "evict", "delete"} /\ holder[s] # "held"
    /\ pc[s] \in {"evict", "delete"} => op[s] = "finish"
    /\ pc[s] \in Removal /\ candidates[s] = {} => op[s] = "finish"

Shape ==
    /\ \A a \in Actors : ActorShape(a)
    /\ \A s \in Sessions : CleanUpShape(s)
    /\ \A p \in Processes : pc[p] \in Working \cup {"new", "over"}

(* The session has its last sweep before it.                               *)
Before(s) == Live(s) /\ op[s] # "finish"

(* A session process does not outlive its session's end, only the agent.   *)
Owned == orphans = {} => \A p \in Processes : Live(p) => Before(Owner[p])

(* An unwanted blob that is there has its mark, and no sweep that is about *)
(* to forget a blob it deleted will take the mark of a later release.      *)
Numbered ==
    /\ \A b \in Blobs : released[b] <= last_release
    /\ \A s \in Sessions : \A c \in candidates[s] : c[2] <= last_release
Marked ==
    \A b \in unwanted \cap stored :
        /\ released[b] # 0
        /\ \A s \in Sessions :
              pc[s] = "forget" /\ arg[s] = b => <<b, released[b]>> \notin candidates[s]

(* Some session still has to sweep every blob that should go; also what a  *)
(* remover must leave because of a pin it read.                            *)
Unclaimed(b) == b \in unwanted \cap stored /\ claims[b] = {}
Sweeps(s, b) ==
    \/ Before(s)
    \/ pc[s] = "copy"
    \/ (\E c \in candidates[s] : c[1] = b) /\ ~(pc[s] = "forget" /\ arg[s] = b)
SweepsLater(s, b) == Sweeps(s, b) /\ (Before(s) \/ s # evictionLock)
UnclaimedAreSwept ==
    "sweep" \notin skipped /\ orphans = {} =>
        \A b \in Blobs : Unclaimed(b) => \E s \in Sessions : Sweeps(s, b)
PinnedAreSwept ==
    "sweep" \notin skipped /\ orphans = {} =>
        \A b \in pinned : Unclaimed(b) => \E s \in Sessions : SweepsLater(s, b)

(* Some session still has to evict, or is about to empty a store that is   *)
(* too large, or the store is within its budget.                           *)
Evicts(s) == Live(s) /\ pc[s] # "delete"
EvictsLater(s) == Evicts(s) /\ (Before(s) \/ s # evictionLock \/ candidates[s] # {})
Exhaustive ==
    /\ pinned = {} /\ total = Cardinality(stored)
    /\ \A b \in stored : \E i \in 1..Len(victims) : victims[i] = b
PinnedAreEvicted ==
    "evict" \notin skipped /\ orphans = {} /\ pinned # {} => \E s \in Sessions : EvictsLater(s)
Budget ==
    "evict" \notin skipped /\ orphans = {} =>
        \/ \A s \in Sessions : pc[s] = "new"
        \/ \E s \in Sessions : Evicts(s)
        \/ \E s \in Sessions : pc[s] = "delete" /\ Exhaustive
        \/ Cardinality(stored) <= MaxBlobs

Duties ==
    /\ Shape /\ Owned /\ Numbered /\ Marked
    /\ UnclaimedAreSwept /\ PinnedAreSwept /\ PinnedAreEvicted /\ Budget

CInv == Inv /\ TypeOK /\ Duties

-----------------------------------------------------------------------------
(* Initially no session has begun, and nothing is unwanted or pinned.      *)
LEMMA InitDuties == Init => TypeOK /\ Duties
<1> SUFFICES ASSUME Init PROVE TypeOK /\ Duties
  OBVIOUS
<1> USE SessionsAct DEF Init
<1>1. StoreTypes /\ HolderTypes /\ RemovalTypes
  BY DEF StoreTypes, HolderTypes, RemovalTypes
<1>2. ActorTypes /\ ReleaseTypes /\ FaultTypes
  BY DEF ActorTypes, ReleaseTypes, FaultTypes, Steps, Ops
<1>3. \A a \in Actors : pc[a] = "new" /\ op[a] = "none" /\ holder[a] = "none"
  OBVIOUS
<1>4. Shape
  BY <1>3 DEF Shape, ActorShape, CleanUpShape, Using, Working, Sweeping, Removal
<1>5. Owned
  BY <1>3 DEF Owned, Live
<1>6. Numbered /\ Marked /\ UnclaimedAreSwept /\ PinnedAreSwept /\ PinnedAreEvicted
  BY DEF Numbered, Marked, UnclaimedAreSwept, PinnedAreSwept, PinnedAreEvicted, Unclaimed
<1>7. Budget
  BY <1>3 DEF Budget
<1>8. QED
  BY <1>1, <1>2, <1>4, <1>5, <1>6, <1>7, TypeParts DEF Types, Duties

(* Goto is Do, with the operation and its blob kept or dropped.            *)
LEMMA GotoIsDo ==
    ASSUME ActorTypes, NEW a \in Actors, NEW step, Goto(a, step)
    PROVE  /\ step \in {"idle", "over"} => Do(a, "none", Nobody, step)
           /\ step \notin {"idle", "over"} => Do(a, op[a], arg[a], step)
  BY DEF Goto, Do, ActorTypes

LEMMA DoTypes ==
    ASSUME ActorTypes, NEW a \in Actors, NEW o \in Ops, NEW b \in Blobs \cup {Nobody},
           NEW step \in Steps, Do(a, o, b, step)
    PROVE  /\ ActorTypes'
           /\ pc'[a] = step /\ op'[a] = o /\ arg'[a] = b
           /\ \A c \in Actors : c # a => pc'[c] = pc[c] /\ op'[c] = op[c] /\ arg'[c] = arg[c]
  BY DEF ActorTypes, Do

(* A use makes a blob the most recent and moves up what was more recent.   *)
LEMMA TouchType ==
    ASSUME StoreTypes, NEW b \in Blobs
    PROVE  Touch(b) \in [Blobs -> 1..Cardinality(Blobs)]
<1>1. Cardinality(Blobs) \in Nat
  BY CacheAssumption, FS_CardinalityType
<1>2. \A c \in Blobs : recency[c] \in 1..Cardinality(Blobs)
  BY DEF StoreTypes
<1>3. \A c \in Blobs : Touch(b)[c] \in 1..Cardinality(Blobs)
  BY <1>1, <1>2 DEF Touch
<1>4. QED
  BY <1>3 DEF Touch

-----------------------------------------------------------------------------
(* A step of an actor at work: no sweep, no removal, no fault.  It makes   *)
(* no blob unwanted, and takes no claim or mark from an unwanted one.      *)
AtWork(a) ==
    /\ pc[a] \in Working \cup {"new"} /\ pc'[a] \in Working \cup {"over"}
    /\ pc'[a] = "over" => a \in Processes
    /\ ActorShape(a)'
    /\ \A c \in Actors : c # a => /\ pc'[c] = pc[c] /\ op'[c] = op[c] /\ arg'[c] = arg[c]
                                  /\ holder'[c] = holder[c]
    /\ a \in Processes /\ pc[a] = "new" => pc[Owner[a]] = "idle"
    /\ UNCHANGED <<candidates, last_release, evictionLock, pinned, victims, total, skipped, orphans>>
    /\ unwanted' \subseteq unwanted /\ unwanted' \cap stored' \subseteq stored
    /\ \A b \in unwanted' : claims'[b] = claims[b] /\ released'[b] = released[b]
    /\ \A b \in Blobs : released'[b] \in {released[b], 0}

(* A step that leaves the sessions' duties as they are.                    *)
Dutiful ==
    /\ \A s \in Sessions :
          /\ \A b \in Blobs : Unclaimed(b)' => /\ Sweeps(s, b) => Sweeps(s, b)'
                                               /\ SweepsLater(s, b) => SweepsLater(s, b)'
          /\ EvictsLater(s) => EvictsLater(s)'
    /\ \A b \in Blobs : Unclaimed(b)' => Unclaimed(b)
    /\ pinned' \subseteq pinned /\ UNCHANGED <<skipped, orphans>>

LEMMA DutifulKeeps ==
    ASSUME CInv, Dutiful
    PROVE  UnclaimedAreSwept' /\ PinnedAreSwept' /\ PinnedAreEvicted'
<1> USE DEF CInv, Duties
<1>1. UnclaimedAreSwept'
  BY DEF Dutiful, UnclaimedAreSwept
<1>2. PinnedAreSwept'
  <2>1. pinned \subseteq Blobs
    BY TypeParts DEF Types, RemovalTypes
  <2>2. QED
    BY <2>1 DEF Dutiful, PinnedAreSwept
<1>3. PinnedAreEvicted'
  BY DEF Dutiful, PinnedAreEvicted
<1>4. QED
  BY <1>1, <1>2, <1>3

LEMMA AtWorkKeeps == ASSUME CInv, TypeOK', NEW a \in Actors, AtWork(a) PROVE Duties'
<1> USE SessionsAct DEF CInv, Duties
<1> USE CacheAssumption
<1>1. Shape'
  <2>1. ASSUME NEW c \in Actors PROVE ActorShape(c)'
    BY DEF AtWork, Shape, ActorShape, Live
  <2>2. ASSUME NEW s \in Sessions PROVE CleanUpShape(s)'
    <3>1. CASE s # a
      BY <3>1 DEF AtWork, Shape, CleanUpShape
    <3>2. CASE s = a
      <4>1. pc'[s] \in Working /\ op'[s] # "finish" /\ pc[s] \in Working \cup {"new"}
        BY <3>2 DEF AtWork, ActorShape
      <4>2. candidates'[s] = {}
        BY <4>1 DEF AtWork, Shape, CleanUpShape, Working, Using, Sweeping
      <4>3. QED
        BY <4>1, <4>2 DEF CleanUpShape, Working, Using, Sweeping, Removal
    <3>3. QED
      BY <3>1, <3>2
  <2>3. ASSUME NEW p \in Processes PROVE pc'[p] \in Working \cup {"new", "over"}
    BY DEF AtWork, Shape
  <2>4. QED
    BY <2>1, <2>2, <2>3 DEF Shape
<1>2. \A s \in Sessions : /\ Before(s) => Before(s)'
                          /\ s # a => Before(s)' = Before(s) /\ Live(s)' = Live(s)
                          /\ s = a => Before(s)' /\ (pc[s] = "new" \/ Before(s))
  <2>1. ASSUME NEW s \in Sessions, s # a PROVE Before(s)' = Before(s) /\ Live(s)' = Live(s)
    BY <2>1 DEF AtWork, Before, Live
  <2>2. ASSUME NEW s \in Sessions, s = a PROVE Before(s)' /\ (pc[s] = "new" \/ Before(s))
    <3>1. pc'[s] \in Working /\ op'[s] # "finish"
      BY <2>2 DEF AtWork, ActorShape
    <3>2. pc[s] \in Working \cup {"new"} /\ op[s] # "finish"
      BY <2>2 DEF AtWork, Shape, ActorShape
    <3>3. QED
      BY <3>1, <3>2 DEF Before, Live, Working, Using
  <2>3. QED
    BY <2>1, <2>2
<1>3. Owned'
  <2>1. ASSUME orphans' = {}, NEW p \in Processes, Live(p)' PROVE Before(Owner[p])'
    <3>1. Owner[p] \in Sessions /\ orphans = {}
      BY <2>1 DEF AtWork
    <3>2. CASE p # a \/ pc[p] # "new"
      <4>1. Live(p)
        BY <2>1, <3>2 DEF AtWork, Live, Working, Using
      <4>2. QED
        BY <1>2, <3>1, <4>1 DEF Owned
    <3>3. CASE p = a /\ pc[p] = "new"
      <4>1. pc[Owner[p]] = "idle"
        BY <3>3 DEF AtWork
      <4>2. op[Owner[p]] # "finish"
        BY <3>1, <4>1 DEF Shape, ActorShape, Working
      <4>3. Before(Owner[p])
        BY <4>1, <4>2 DEF Before, Live
      <4>4. QED
        BY <1>2, <3>1, <4>3
    <3>4. QED
      BY <3>2, <3>3
  <2>2. QED
    BY <2>1 DEF Owned
<1>4. Numbered'
  <2>1. last_release \in Nat
    BY TypeParts DEF Types, ReleaseTypes
  <2>2. QED
    BY <2>1 DEF AtWork, Numbered
<1>5. Marked'
  <2>1. ASSUME NEW s \in Sessions, pc'[s] = "forget" PROVE pc[s] = "forget" /\ arg'[s] = arg[s]
    BY <2>1 DEF AtWork, Working, Using
  <2>2. QED
    BY <2>1 DEF AtWork, Marked
<1>6. Dutiful
  <2>1. \A b \in Blobs : Unclaimed(b)' => Unclaimed(b)
    BY DEF AtWork, Unclaimed
  <2>2. ASSUME NEW s \in Sessions, NEW b \in Blobs
        PROVE  Sweeps(s, b) => Sweeps(s, b)'
    BY <1>2 DEF AtWork, Sweeps
  <2>3. ASSUME NEW s \in Sessions, NEW b \in Blobs
        PROVE  SweepsLater(s, b) => SweepsLater(s, b)'
    BY <1>2, <2>2 DEF AtWork, SweepsLater
  <2>4. ASSUME NEW s \in Sessions
        PROVE  EvictsLater(s) => EvictsLater(s)'
    BY <1>2 DEF AtWork, EvictsLater, Evicts, Before, Live, Working, Using
  <2>5. QED
    BY <2>1, <2>2, <2>3, <2>4 DEF AtWork, Dutiful
<1>7. Budget'
  <2>1. SUFFICES ASSUME orphans' = {} PROVE \E s \in Sessions : Evicts(s)'
    BY DEF Budget
  <2>2. CASE a \in Sessions
    <3>1. pc'[a] \in Working
      BY <2>2 DEF AtWork
    <3>2. Evicts(a)'
      BY <3>1 DEF Evicts, Live, Working, Using
    <3>3. QED
      BY <2>2, <3>2
  <2>3. CASE a \in Processes
    <3>1. Before(Owner[a]) /\ Owner[a] \in Sessions
      <4>1. CASE pc[a] = "new"
        <5>1. pc[Owner[a]] = "idle" /\ Owner[a] \in Sessions
          BY <2>3, <4>1 DEF AtWork
        <5>2. QED
          BY <5>1 DEF Shape, ActorShape, Working, Before, Live
      <4>2. CASE pc[a] # "new"
        BY <2>1, <2>3, <4>2 DEF AtWork, Owned, Live, Working, Using
      <4>3. QED
        BY <4>1, <4>2
    <3>2. pc[Owner[a]] # "delete"
      BY <3>1 DEF Shape, CleanUpShape, Before
    <3>3. Evicts(Owner[a])'
      BY <2>3, <3>1, <3>2 DEF AtWork, Evicts, Before, Live, Actors
    <3>4. QED
      BY <3>1, <3>3
  <2>4. QED
    BY <2>2, <2>3 DEF Actors
<1>8. QED
  BY <1>1, <1>3, <1>4, <1>5, <1>6, <1>7, DutifulKeeps

-----------------------------------------------------------------------------
(* The steps of actors at work.                                            *)
(* A step that only moves an actor, or takes its pin set.                  *)
LEMMA MoveKeeps ==
    ASSUME CInv, NEW a \in Actors, NEW o \in {"none", "use", "store"}, NEW b \in Blobs \cup {Nobody},
           NEW step \in Working \cup {"over"}, Do(a, o, b, step),
           pc[a] \in Working \cup {"new"}, step = "over" => a \in Processes,
           step \in Using => b \in Blobs,
           step \in {"open", "flock"} /\ o # "none" => b \in Blobs,
           lockFile' \subseteq lockFile \cup {a},
           holder' \in [Actors -> {"none", "held", "failed"}],
           \A c \in Actors : c # a => holder'[c] = holder[c],
           holder'[a] = "held" => step # "over",
           a \in Processes /\ pc[a] = "new" => pc[Owner[a]] = "idle",
           UNCHANGED <<storeVars, list, digests, removalVars, relied, releaseVars, spoiled, skipped,
                       orphans>>,
           FaultTypes'
    PROVE  TypeOK' /\ Duties'
<1> USE DEF CInv
<1>0. StoreTypes /\ HolderTypes /\ RemovalTypes /\ ActorTypes /\ ReleaseTypes
  BY TypeParts DEF Types
<1>1. step \in Steps /\ o \in Ops
  BY DEF Working, Using, Steps, Ops
<1>2. /\ ActorTypes' /\ pc'[a] = step /\ op'[a] = o /\ arg'[a] = b
      /\ \A c \in Actors : c # a => pc'[c] = pc[c] /\ op'[c] = op[c] /\ arg'[c] = arg[c]
  BY <1>0, <1>1, DoTypes
<1>4. TypeOK'
  <2>1. StoreTypes' /\ RemovalTypes' /\ ReleaseTypes'
    BY <1>0 DEF StoreTypes, RemovalTypes, ReleaseTypes, storeVars, removalVars, releaseVars
  <2>2. HolderTypes'
    BY <1>0 DEF HolderTypes
  <2>3. QED
    BY <1>2, <2>1, <2>2, TypeParts DEF Types
<1>5. ActorShape(a)'
  BY <1>2 DEF ActorShape, Live, Working, Using
<1>6. AtWork(a)
  BY <1>2, <1>5 DEF AtWork, storeVars, removalVars, releaseVars
<1>7. QED
  BY <1>4, <1>6, AtWorkKeeps

(* Starting, beginning an operation, taking a pin set, a pin that fails.   *)
LEMMA MoveSteps ==
    ASSUME CInv, NEW a \in Actors,
           \/ Start(a) \/ PinSetOpen(a) \/ AddFails(a) \/ (AddUndefined(a) /\ a \in Processes)
           \/ KnownGood(a) \/ \E o \in {"use", "store"}, b \in Blobs : Begin(a, o, b)
    PROVE  TypeOK' /\ Duties'
<1> USE DEF CInv
<1>0. ActorTypes /\ HolderTypes /\ FaultTypes /\ ActorShape(a)
  BY TypeParts DEF Types, Duties, Shape, HolderTypes
<1>1. FaultTypes'
  BY <1>0 DEF Start, PinSetOpen, AddFails, AddUndefined, KnownGood, Begin, FaultTypes, faultVars, Fault
<1>2. /\ UNCHANGED <<storeVars, list, holder, digests, removalVars, relied, releaseVars, spoiled, skipped,
                       orphans>>
      /\ lockFile' \subseteq lockFile \cup {a}
  BY DEF Start, PinSetOpen, AddFails, AddUndefined, KnownGood, Begin, faultVars, pinVars
<1>3. holder' \in [Actors -> {"none", "held", "failed"}] /\ \A c \in Actors : holder'[c] = holder[c]
  BY <1>0, <1>2 DEF HolderTypes
<1>4. CASE Start(a)
  <2>1. /\ pc[a] = "new" /\ op[a] = "none" /\ (a \in Processes => pc[Owner[a]] = "idle")
        /\ holder[a] # "held" /\ arg[a] \in Blobs \cup {Nobody}
    BY <1>0, <1>4 DEF Start, ActorShape, Live, ActorTypes
  <2>2. PICK step \in {"open", "idle"} : Goto(a, step)
    BY <1>4 DEF Start
  <2>3. PICK b \in Blobs \cup {Nobody} : Do(a, "none", b, step)
    BY <1>0, <2>1, <2>2, GotoIsDo
  <2>4. step \in Working \ Using
    BY DEF Working, Using
  <2>5. QED
    BY <1>0, <1>1, <1>2, <1>3, <2>1, <2>3, <2>4, MoveKeeps
<1>5. CASE PinSetOpen(a)
  <2>1. pc[a] = "open" /\ Do(a, op[a], arg[a], "flock")
    BY <1>0, <1>5, GotoIsDo DEF PinSetOpen
  <2>2. /\ op[a] \in {"none", "use", "store"} /\ (op[a] # "none" => arg[a] \in Blobs)
        /\ arg[a] \in Blobs \cup {Nobody} /\ "flock" \in Working \ Using /\ "open" \in Working
    BY <1>0, <2>1 DEF ActorShape, ActorTypes, Working, Using
  <2>3. QED
    BY <1>0, <1>1, <1>2, <1>3, <2>1, <2>2, MoveKeeps
<1>6. CASE AddFails(a)
  <2>1. pc[a] = "add" /\ op[a] \in {"none", "use", "store"} /\ arg[a] \in Blobs
    BY <1>0, <1>6 DEF AddFails, ActorShape, Working, Using
  <2>2. PICK step \in {"idle", "claim", "check", "put"} : Goto(a, step)
    BY <1>6 DEF AddFails, AfterPin
  <2>3. PICK o \in {"none", "use", "store"}, b \in Blobs \cup {Nobody} :
            Do(a, o, b, step) /\ (step # "idle" => b \in Blobs)
    BY <1>0, <2>1, <2>2, GotoIsDo
  <2>4. step \in Working /\ "add" \in Working /\ step \notin {"open", "flock", "over"} /\ "idle" \notin Using
    BY DEF Working, Using
  <2>5. QED
    BY <1>0, <1>1, <1>2, <1>3, <2>1, <2>3, <2>4, MoveKeeps
<1>7. CASE AddUndefined(a) /\ a \in Processes
  <2>1. pc[a] = "add" /\ holder[a] # "held" /\ Do(a, "none", Nobody, "over")
    BY <1>0, <1>7, GotoIsDo DEF AddUndefined
  <2>2. "add" \in Working /\ "over" \notin Using
    BY DEF Working, Using
  <2>3. QED
    BY <1>0, <1>1, <1>2, <1>3, <1>7, <2>1, <2>2, MoveKeeps
<1>8. CASE KnownGood(a)
  <2>1. pc[a] = "check" /\ Do(a, "none", Nobody, "idle")
    BY <1>0, <1>8, GotoIsDo DEF KnownGood
  <2>2. "check" \in Working /\ "idle" \in Working \ Using
    BY DEF Working, Using
  <2>3. QED
    BY <1>0, <1>1, <1>2, <1>3, <2>1, <2>2, MoveKeeps
<1>9. ASSUME NEW o \in {"use", "store"}, NEW b \in Blobs, Begin(a, o, b) PROVE TypeOK' /\ Duties'
  <2>1. PICK step \in {"open", "put", "add", "claim", "check", "idle"} : Do(a, o, b, step)
    BY <1>0, <1>9 DEF HolderTypes, Begin, AfterPin, AfterPinSet
  <2>2. pc[a] = "idle" /\ "idle" \in Working /\ step \in Working /\ step # "over"
    BY <1>9 DEF Begin, Working, Using
  <2>3. QED
    BY <1>0, <1>1, <1>2, <1>3, <2>1, <2>2, MoveKeeps
<1>10. QED
  BY <1>4, <1>5, <1>6, <1>7, <1>8, <1>9

LEMMA PinSetDuties ==
    ASSUME CInv, NEW a \in Actors,
           PinSetLock(a) \/ PinSetBusy(a) \/ PinSetRelink(a) \/ PinSetGivesUp(a)
    PROVE  TypeOK' /\ Duties'
<1> USE DEF CInv
<1>0. ActorTypes /\ HolderTypes /\ FaultTypes /\ ActorShape(a)
  BY TypeParts DEF Types, Duties, Shape
<1>1. PICK h \in {"none", "held", "failed"}, step \in {"idle", "put", "add", "open", "claim", "check"} :
          /\ pc[a] = "flock" /\ holder' = [holder EXCEPT ![a] = h] /\ Goto(a, step)
          /\ step \notin {"idle", "open"} => op[a] # "none"
          /\ UNCHANGED <<storeVars, lockFile, list, digests, removalVars, relied, releaseVars, faultVars>>
  BY DEF PinSetLock, PinSetBusy, PinSetRelink, PinSetGivesUp, PinSet, AfterPin, AfterPinSet
<1>2. op[a] \in {"none", "use", "store"} /\ (op[a] # "none" => arg[a] \in Blobs)
      /\ arg[a] \in Blobs \cup {Nobody}
  BY <1>0, <1>1 DEF ActorShape, ActorTypes, Working
<1>3. PICK o \in {"none", "use", "store"}, b \in Blobs \cup {Nobody} :
          /\ Do(a, o, b, step)
          /\ step \notin {"idle", "open"} => b \in Blobs
          /\ step = "open" /\ o # "none" => b \in Blobs
  BY <1>0, <1>1, <1>2, GotoIsDo
<1>4. /\ step \in Working /\ step \notin {"over", "flock"} /\ "flock" \in Working
      /\ step \in Using => step \notin {"idle", "open"}
  BY DEF Working, Using
<1>5. FaultTypes' /\ UNCHANGED <<spoiled, skipped, orphans>>
  BY <1>0, <1>1 DEF FaultTypes, faultVars
<1>6. holder' \in [Actors -> {"none", "held", "failed"}]
      /\ \A c \in Actors : c # a => holder'[c] = holder[c]
  BY <1>0, <1>1 DEF HolderTypes
<1>7. QED
  BY <1>1, <1>3, <1>4, <1>5, <1>6, MoveKeeps

(* Pinning, claiming, looking for, receiving and storing a blob.           *)
LEMMA UsedTypes ==
    ASSUME CInv, NEW a \in Actors, NEW b \in Blobs, NEW new \in SUBSET Blobs,
           recency' = recency \/ recency' = Touch(b),
           relied' = relied \/ relied' = [relied EXCEPT ![a] = new],
           digests' \in [Actors -> SUBSET Blobs], list' \in [Actors -> SUBSET Blobs],
           stored' \subseteq Blobs, damaged' \subseteq stored', spoiled' \subseteq Blobs,
           claims' \in [Blobs -> SUBSET Coordinators], released' \in [Blobs -> Nat],
           unwanted' \subseteq unwanted, ActorTypes',
           UNCHANGED <<lockFile, holder, removalVars, last_release, candidates, faults, unread,
                       skipped, orphans, publishers>>
    PROVE  TypeOK'
<1> USE DEF CInv
<1>0. StoreTypes /\ HolderTypes /\ RemovalTypes /\ ReleaseTypes /\ FaultTypes
  BY TypeParts DEF Types
<1>1. StoreTypes'
  BY <1>0, TouchType DEF StoreTypes
<1>2. HolderTypes'
  BY <1>0 DEF HolderTypes
<1>3. RemovalTypes' /\ ReleaseTypes' /\ FaultTypes'
  BY <1>0 DEF RemovalTypes, ReleaseTypes, FaultTypes, removalVars
<1>4. QED
  BY <1>1, <1>2, <1>3, TypeParts DEF Types

LEMMA AddDuties == ASSUME CInv, NEW a \in Actors, Add(a) PROVE TypeOK' /\ Duties'
<1> USE DEF CInv
<1>0. /\ StoreTypes /\ HolderTypes /\ ReleaseTypes /\ ActorTypes /\ ActorShape(a)
  BY TypeParts DEF Types, Duties, Shape
<1>1. pc[a] = "add" /\ op[a] \in {"none", "use", "store"} /\ arg[a] \in Blobs
  BY <1>0 DEF Add, ActorShape, Working, Using
<1>2. PICK step \in {"idle", "claim", "check", "put"} : Goto(a, step)
  BY DEF Add, AfterPin
<1>3. PICK o \in {"none", "use", "store"}, b \in Blobs \cup {Nobody} :
          Do(a, o, b, step) /\ (step # "idle" => b \in Blobs)
  BY <1>0, <1>1, <1>2, GotoIsDo
<1>4. step \in Steps /\ step \in Working /\ o \in Ops /\ "add" \in Working
  BY DEF Steps, Working, Using, Ops
<1>5. /\ ActorTypes' /\ pc'[a] = step /\ op'[a] = o /\ arg'[a] = b
      /\ \A c \in Actors : c # a => pc'[c] = pc[c] /\ op'[c] = op[c] /\ arg'[c] = arg[c]
  BY <1>0, <1>3, <1>4, DoTypes
<1>6. TypeOK'
  <2>1. PICK new \in SUBSET Blobs : relied' = relied \/ relied' = [relied EXCEPT ![a] = new]
    BY <1>0, <1>1 DEF Add, HolderTypes
  <2>2. digests' \in [Actors -> SUBSET Blobs] /\ list' \in [Actors -> SUBSET Blobs]
    BY <1>0, <1>1 DEF Add, HolderTypes
  <2>3. /\ stored' \subseteq Blobs /\ damaged' \subseteq stored' /\ spoiled' \subseteq Blobs
        /\ claims' \in [Blobs -> SUBSET Coordinators] /\ released' \in [Blobs -> Nat]
        /\ unwanted' \subseteq unwanted /\ recency' = recency
        /\ UNCHANGED <<lockFile, holder, removalVars, last_release, candidates, faults, unread,
                       skipped, orphans, publishers>>
    BY <1>0 DEF Add, StoreTypes, ReleaseTypes, storeVars, releaseVars, faultVars
  <2>4. QED
    BY <1>1, <1>5, <2>1, <2>2, <2>3, UsedTypes
<1>7. ActorShape(a)'
  BY <1>3, <1>4, <1>5 DEF ActorShape, Live, Working, Using
<1>8. AtWork(a)
  BY <1>1, <1>4, <1>5, <1>7 DEF AtWork, Add, storeVars, removalVars, releaseVars, faultVars,
                                Working, Using
<1>9. QED
  BY <1>6, <1>8, AtWorkKeeps

LEMMA UseDuties ==
    ASSUME CInv, NEW a \in Actors,
           \/ (Claim(a) /\ a \in Sessions) \/ Has(a) \/ Put(a) \/ Verify(a) \/ DiscardCorrupt(a)
           \/ \E b \in Blobs : Receive(a, b)
    PROVE  TypeOK' /\ Duties'
<1> USE DEF CInv
<1>0. /\ StoreTypes /\ HolderTypes /\ ReleaseTypes /\ ActorTypes /\ ActorShape(a)
  BY TypeParts DEF Types, Duties, Shape
<1>1. /\ pc[a] \in Working /\ op[a] \in {"none", "use", "store"}
      /\ pc[a] = "idle" \/ arg[a] \in Blobs
      /\ pc[a] # "idle" => ~\E b \in Blobs : Receive(a, b)
  BY <1>0 DEF Claim, Has, Put, Verify, DiscardCorrupt, Receive, ActorShape, Working, Using
<1>2. PICK step \in {"idle", "has", "add", "discard"}, o \in {"none", "use", "store"},
           b \in Blobs \cup {Nobody} :
          Do(a, o, b, step) /\ (step # "idle" => b \in Blobs)
  <2>1. CASE \E b \in Blobs : Receive(a, b)
    <3>1. pc[a] = "idle" /\ Do(a, op[a], arg[a], "idle") /\ arg[a] \in Blobs \cup {Nobody}
      BY <1>0, <2>1 DEF Receive, Do, ActorTypes
    <3>2. QED
      BY <1>1, <3>1
  <2>2. CASE Claim(a) \/ Has(a) \/ Put(a) \/ Verify(a) \/ DiscardCorrupt(a)
    <3>1. pc[a] # "idle"
      BY <2>2 DEF Claim, Has, Put, Verify, DiscardCorrupt
    <3>2. PICK step \in {"idle", "has", "add", "discard"} : Goto(a, step)
      BY <2>2 DEF Claim, Has, Put, Verify, DiscardCorrupt
    <3>3. QED
      BY <1>0, <1>1, <3>1, <3>2, GotoIsDo
  <2>3. QED
    BY <2>1, <2>2
<1>3. step \in Steps /\ step \in Working /\ o \in Ops
  BY DEF Steps, Working, Using, Ops
<1>4. /\ ActorTypes' /\ pc'[a] = step /\ op'[a] = o /\ arg'[a] = b
      /\ \A c \in Actors : c # a => pc'[c] = pc[c] /\ op'[c] = op[c] /\ arg'[c] = arg[c]
  BY <1>0, <1>2, <1>3, DoTypes
<1>5. /\ UNCHANGED <<lockFile, list, holder, digests, removalVars, last_release, candidates, faults,
                     unread, skipped, orphans, publishers>>
  BY DEF Claim, Has, Put, Verify, DiscardCorrupt, Receive, Publish, pinVars, releaseVars, faultVars
<1>6. PICK d \in Blobs :
          /\ recency' = recency \/ recency' = Touch(d)
          /\ \E new \in SUBSET Blobs : relied' = relied \/ relied' = [relied EXCEPT ![a] = new]
          /\ \/ UNCHANGED <<stored, damaged, spoiled, claims, released, unwanted>>
             \/ /\ stored' = stored \cup {d} /\ damaged' = damaged \ {d} /\ spoiled' = spoiled \ {d}
                /\ unwanted' = unwanted \ {d} /\ UNCHANGED <<claims, released>>
             \/ /\ stored' = stored \ {d} /\ damaged' = damaged \ {d} /\ spoiled' = spoiled \cup {d}
                /\ UNCHANGED <<unwanted, claims, released>>
             \/ /\ \E k \in Coordinators : claims' = [claims EXCEPT ![d] = @ \cup {k}]
                /\ released' = [released EXCEPT ![d] = 0] /\ unwanted' = unwanted \ {d}
                /\ UNCHANGED <<stored, damaged, spoiled>>
  <2>1. ASSUME NEW d \in Blobs, Receive(a, d) \/ (Put(a) /\ d = arg[a])
        PROVE  /\ recency' = Touch(d) /\ relied' = [relied EXCEPT ![a] = @ \cup ({d} \cap digests[a])]
               /\ stored' = stored \cup {d} /\ damaged' = damaged \ {d} /\ spoiled' = spoiled \ {d}
               /\ unwanted' = unwanted \ {d} /\ UNCHANGED <<claims, released>>
    BY <2>1 DEF Receive, Put, Publish, Rely
  <2>2. ASSUME NEW d \in Blobs PROVE relied[a] \cup ({d} \cap digests[a]) \in SUBSET Blobs
    BY <1>0 DEF HolderTypes
  <2>3. CASE \E d \in Blobs : Receive(a, d) \/ (Put(a) /\ d = arg[a])
    BY <2>1, <2>2, <2>3
  <2>4. CASE Has(a) \/ Verify(a)
    <3>1. arg[a] \in Blobs /\ relied[a] \in SUBSET Blobs
      BY <1>0, <1>1, <2>4 DEF Has, Verify, HolderTypes
    <3>2. recency' = recency \/ recency' = Touch(arg[a])
      BY <2>4 DEF Has, Verify
    <3>3. \/ relied' = relied
          \/ relied' = [relied EXCEPT ![a] = @ \cup ({arg[a]} \cap digests[a])]
          \/ relied' = [relied EXCEPT ![a] = @ \ {arg[a]}]
      BY <2>4 DEF Has, Verify, Rely
    <3>4. \E new \in SUBSET Blobs : relied' = relied \/ relied' = [relied EXCEPT ![a] = new]
      BY <2>2, <3>1, <3>3
    <3>5. UNCHANGED <<stored, damaged, spoiled, claims, released, unwanted>>
      BY <2>4 DEF Has, Verify, releaseVars, faultVars
    <3>6. QED
      BY <3>1, <3>2, <3>4, <3>5
  <2>5. CASE DiscardCorrupt(a)
    <3>1. arg[a] \in Blobs
      BY <1>1, <2>5 DEF DiscardCorrupt
    <3>2. QED
      BY <2>5, <3>1 DEF DiscardCorrupt, releaseVars
  <2>6. CASE Claim(a) /\ a \in Sessions
    <3>1. arg[a] \in Blobs /\ Coordinator[a] \in Coordinators
      BY <1>1, <2>6, CacheAssumption DEF Claim
    <3>2. UNCHANGED <<stored, damaged, spoiled, recency, relied>>
      BY <2>6 DEF Claim, storeVars, faultVars
    <3>3. QED
      BY <2>6, <3>1, <3>2 DEF Claim
  <2>7. Put(a) => arg[a] \in Blobs
    BY <1>1 DEF Put
  <2>8. QED
    BY <2>3, <2>4, <2>5, <2>6, <2>7
<1>7. TypeOK'
  <2>1. /\ stored' \subseteq Blobs /\ damaged' \subseteq stored' /\ spoiled' \subseteq Blobs
        /\ unwanted' \subseteq unwanted
    BY <1>0, <1>6 DEF StoreTypes
  <2>2. claims' \in [Blobs -> SUBSET Coordinators] /\ released' \in [Blobs -> Nat]
    BY <1>0, <1>6 DEF ReleaseTypes
  <2>3. digests' \in [Actors -> SUBSET Blobs] /\ list' \in [Actors -> SUBSET Blobs]
    BY <1>0, <1>5 DEF HolderTypes
  <2>4. QED
    BY <1>4, <1>5, <1>6, <2>1, <2>2, <2>3, UsedTypes
<1>8. ActorShape(a)'
  <2>1. holder'[a] = holder[a] /\ (step \in Using \cup {"open", "flock"} => step # "idle")
    BY <1>5 DEF Using
  <2>2. QED
    BY <1>2, <1>4, <2>1 DEF ActorShape, Live, Using
<1>9. AtWork(a)
  <2>1. /\ unwanted' \subseteq unwanted /\ unwanted' \cap stored' \subseteq stored
        /\ \A e \in unwanted' : claims'[e] = claims[e] /\ released'[e] = released[e]
        /\ \A e \in Blobs : released'[e] \in {released[e], 0}
    <3>1. unwanted \subseteq Blobs /\ DOMAIN claims = Blobs /\ DOMAIN released = Blobs
      BY <1>0 DEF ReleaseTypes
    <3>2. QED
      BY <1>6, <3>1
  <2>2. pc'[a] \in Working /\ pc[a] # "new" /\ "over" \notin Working
    BY <1>1, <1>3, <1>4 DEF Working, Using
  <2>3. QED
    BY <1>1, <1>4, <1>5, <1>8, <2>1, <2>2 DEF AtWork, removalVars
<1>10. QED
  BY <1>7, <1>9, AtWorkKeeps

-----------------------------------------------------------------------------
(* A step of one session that is no business of the others.                *)
SessionStep(s) ==
    /\ \A c \in Actors : c # s => /\ pc'[c] = pc[c] /\ op'[c] = op[c] /\ arg'[c] = arg[c]
                                  /\ holder'[c] = holder[c]
    /\ \A r \in Sessions : r # s => candidates'[r] = candidates[r]

LEMMA ShapeKept ==
    ASSUME CInv, NEW s \in Sessions, SessionStep(s), ActorShape(s)', CleanUpShape(s)'
    PROVE  Shape'
<1> USE SessionsAct DEF CInv, Duties
<1>1. ASSUME NEW c \in Actors, c # s PROVE ActorShape(c)'
  BY <1>1 DEF SessionStep, Shape, ActorShape, Live
<1>2. ASSUME NEW r \in Sessions, r # s PROVE CleanUpShape(r)'
  BY <1>2 DEF SessionStep, Shape, CleanUpShape
<1>3. ASSUME NEW p \in Processes PROVE pc'[p] \in Working \cup {"new", "over"}
  BY CacheAssumption DEF SessionStep, Shape
<1>4. QED
  BY <1>1, <1>2, <1>3 DEF Shape

LEMMA OwnedKept ==
    ASSUME CInv, NEW s \in Sessions, SessionStep(s), orphans' = orphans,
           Before(s) => Before(s)' \/ \A p \in Processes : Owner[p] = s => ~Live(p)
    PROVE  Owned'
<1> USE SessionsAct, CacheAssumption DEF CInv, Duties
<1> SUFFICES ASSUME orphans' = {}, NEW p \in Processes, Live(p)' PROVE Before(Owner[p])'
  BY DEF Owned
<1>1. p # s /\ p \in Actors /\ Owner[p] \in Sessions
  OBVIOUS
<1>2. Live(p) /\ Before(Owner[p])
  BY <1>1 DEF SessionStep, Owned, Live
<1>3. CASE Owner[p] = s
  BY <1>2, <1>3
<1>4. CASE Owner[p] # s
  BY <1>1, <1>2, <1>4 DEF SessionStep, Before, Live
<1>5. QED
  BY <1>3, <1>4

LEMMA MarkedKept ==
    ASSUME CInv, NEW s \in Sessions, SessionStep(s), UNCHANGED <<unwanted, released>>,
           stored' \subseteq stored, pc'[s] = "forget" => arg'[s] \notin stored'
    PROVE  Marked'
<1> USE SessionsAct DEF CInv, Duties
<1> SUFFICES ASSUME NEW b \in unwanted \cap stored'
             PROVE  /\ released[b] # 0
                    /\ \A r \in Sessions :
                          pc'[r] = "forget" /\ arg'[r] = b => <<b, released[b]>> \notin candidates'[r]
  BY DEF Marked
<1>1. released[b] # 0
  BY DEF Marked
<1>2. ASSUME NEW r \in Sessions, pc'[r] = "forget", arg'[r] = b
      PROVE  <<b, released[b]>> \notin candidates'[r]
  <2>1. r # s
    BY <1>2
  <2>2. pc[r] = "forget" /\ arg[r] = b /\ candidates'[r] = candidates[r]
    BY <1>2, <2>1 DEF SessionStep
  <2>3. QED
    BY <2>2 DEF Marked
<1>3. QED
  BY <1>1, <1>2

LEMMA NumberedKept ==
    ASSUME CInv, NEW s \in Sessions, SessionStep(s), last_release' = last_release,
           \A c \in candidates'[s] : c \in candidates[s] \/ c[2] <= last_release,
           \A b \in Blobs : released'[b] \in {released[b], 0}
    PROVE  Numbered'
<1>1. last_release \in Nat
  BY TypeParts DEF CInv, Types, ReleaseTypes
<1>2. QED
  BY <1>1 DEF CInv, Duties, SessionStep, Numbered

(* The others' duties stay; so it is enough that the session keeps its     *)
(* own, or that what it read of the pins is dropped.                       *)
LEMMA SweptKept ==
    ASSUME CInv, NEW s \in Sessions, SessionStep(s),
           "sweep" \in skipped => "sweep" \in skipped', orphans' = orphans,
           \A b \in Blobs : Unclaimed(b)' => Unclaimed(b) /\ (Sweeps(s, b) => Sweeps(s, b)')
    PROVE  UnclaimedAreSwept'
<1> USE SessionsAct DEF CInv, Duties
<1> SUFFICES ASSUME "sweep" \notin skipped, orphans = {}, NEW b \in Blobs, Unclaimed(b)'
             PROVE  \E r \in Sessions : Sweeps(r, b)'
  BY DEF UnclaimedAreSwept
<1>1. PICK r \in Sessions : Sweeps(r, b)
  BY DEF UnclaimedAreSwept
<1>2. CASE r = s
  BY <1>1, <1>2
<1>3. CASE r # s
  BY <1>1, <1>3 DEF SessionStep, Sweeps, Before, Live
<1>4. QED
  BY <1>2, <1>3

LEMMA PinnedKept ==
    ASSUME CInv, NEW s \in Sessions, SessionStep(s), UNCHANGED <<skipped, orphans>>,
           evictionLock' = evictionLock, pinned' \subseteq pinned,
           \A b \in Blobs : Unclaimed(b)' => Unclaimed(b) /\ (SweepsLater(s, b) => SweepsLater(s, b)'),
           EvictsLater(s) => EvictsLater(s)'
    PROVE  PinnedAreSwept' /\ PinnedAreEvicted'
<1> USE SessionsAct DEF CInv, Duties
<1>1. ASSUME "sweep" \notin skipped, orphans = {}, NEW b \in pinned', Unclaimed(b)'
      PROVE  \E r \in Sessions : SweepsLater(r, b)'
  <2>1. b \in Blobs /\ b \in pinned
    BY TypeParts DEF Types, RemovalTypes
  <2>2. PICK r \in Sessions : SweepsLater(r, b)
    BY <1>1, <2>1 DEF PinnedAreSwept
  <2>3. CASE r = s
    BY <1>1, <2>1, <2>2, <2>3
  <2>4. CASE r # s
    BY <2>2, <2>4 DEF SessionStep, SweepsLater, Sweeps, Before, Live
  <2>5. QED
    BY <2>3, <2>4
<1>2. ASSUME "evict" \notin skipped, orphans = {}, pinned' # {} PROVE \E r \in Sessions : EvictsLater(r)'
  <2>1. PICK r \in Sessions : EvictsLater(r)
    BY <1>2 DEF PinnedAreEvicted
  <2>2. CASE r = s
    BY <2>1, <2>2
  <2>3. CASE r # s
    BY <2>1, <2>3 DEF SessionStep, EvictsLater, Evicts, Before, Live
  <2>4. QED
    BY <2>2, <2>3
<1>3. QED
  BY <1>1, <1>2 DEF PinnedAreSwept, PinnedAreEvicted

LEMMA PinnedDropped == ASSUME pinned' = {} PROVE PinnedAreSwept' /\ PinnedAreEvicted'
  BY DEF PinnedAreSwept, PinnedAreEvicted

LEMMA StillEvicts ==
    ASSUME NEW s \in Sessions, pc'[s] \notin {"new", "over", "delete"} PROVE Budget'
  BY DEF Budget, Evicts, Live

(* Nothing is promised of what failed.                                     *)
LEMMA SweepIsExcused == ASSUME "sweep" \in skipped' PROVE UnclaimedAreSwept' /\ PinnedAreSwept'
  BY DEF UnclaimedAreSwept, PinnedAreSwept

LEMMA EvictionIsExcused == ASSUME "evict" \in skipped' PROVE PinnedAreEvicted' /\ Budget'
  BY DEF PinnedAreEvicted, Budget

-----------------------------------------------------------------------------
(* Pin sets that go.                                                       *)
LEMMA PinsGoneTypes ==
    ASSUME HolderTypes, NEW a \in Actors, PinsGone(a)
    PROVE  /\ HolderTypes' /\ holder'[a] = "none"
           /\ \A c \in Actors : c # a => holder'[c] = holder[c]
  BY DEF HolderTypes, PinsGone

LEMMA EndDuties == ASSUME CInv, NEW p \in Processes, End(p) PROVE TypeOK' /\ Duties'
<1> USE SessionsAct DEF CInv
<1>0. Types
  BY TypeParts
<1>1. pc[p] = "idle" /\ Do(p, "none", Nobody, "over") /\ "over" \in Steps /\ "none" \in Ops
  BY <1>0, GotoIsDo DEF End, Types, Steps, Ops
<1>2. /\ ActorTypes' /\ pc'[p] = "over" /\ op'[p] = "none" /\ arg'[p] = Nobody
      /\ \A c \in Actors : c # p => pc'[c] = pc[c] /\ op'[c] = op[c] /\ arg'[c] = arg[c]
  BY <1>0, <1>1, DoTypes DEF Types
<1>3. /\ HolderTypes' /\ holder'[p] = "none"
      /\ \A c \in Actors : c # p => holder'[c] = holder[c]
  BY <1>0, PinsGoneTypes DEF End, Types
<1>4. UNCHANGED <<storeVars, removalVars, releaseVars, faultVars>>
  BY DEF End
<1>5. TypeOK'
  <2>1. StoreTypes' /\ RemovalTypes' /\ ReleaseTypes' /\ FaultTypes'
    BY <1>0, <1>4 DEF Types, StoreTypes, RemovalTypes, ReleaseTypes, FaultTypes, storeVars,
                      removalVars, releaseVars, faultVars
  <2>2. QED
    BY <1>2, <1>3, <2>1, TypeParts DEF Types
<1>6. ActorShape(p)' /\ "idle" \in Working
  BY <1>2, <1>3 DEF ActorShape, Working, Using
<1>7. AtWork(p)
  BY <1>1, <1>2, <1>3, <1>4, <1>6 DEF AtWork, storeVars, removalVars, releaseVars, faultVars
<1>8. QED
  BY <1>5, <1>7, AtWorkKeeps

(* A session begins to end: its pins go first, and its process has gone.   *)
LEMMA FinishDuties == ASSUME CInv, NEW s \in Sessions, Finish(s) PROVE TypeOK' /\ Duties'
<1> USE SessionsAct DEF CInv
<1>0. Types /\ ActorShape(s) /\ CleanUpShape(s)
  BY TypeParts DEF Duties, Shape
<1>1. pc[s] = "idle" /\ Do(s, "finish", Nobody, "copy") /\ "copy" \in Steps /\ "finish" \in Ops
  BY DEF Finish, Steps, Ops
<1>2. /\ ActorTypes' /\ pc'[s] = "copy" /\ op'[s] = "finish" /\ arg'[s] = Nobody
      /\ \A c \in Actors : c # s => pc'[c] = pc[c] /\ op'[c] = op[c] /\ arg'[c] = arg[c]
  BY <1>0, <1>1, DoTypes DEF Types
<1>3. /\ HolderTypes' /\ holder'[s] = "none"
      /\ \A c \in Actors : c # s => holder'[c] = holder[c]
  BY <1>0, PinsGoneTypes DEF Finish, Types
<1>4. /\ UNCHANGED <<storeVars, removalVars, releaseVars, faultVars>>
      /\ UNCHANGED <<stored, evictionLock, pinned, claims, released, last_release, candidates,
                     unwanted, skipped, orphans>>
  BY DEF Finish, storeVars, removalVars, releaseVars, faultVars
<1>5. TypeOK'
  <2>1. StoreTypes' /\ RemovalTypes' /\ ReleaseTypes' /\ FaultTypes'
    BY <1>0, <1>4 DEF Types, StoreTypes, RemovalTypes, ReleaseTypes, FaultTypes, storeVars,
                      removalVars, releaseVars, faultVars
  <2>2. QED
    BY <1>2, <1>3, <2>1, TypeParts DEF Types
<1>6. SessionStep(s)
  BY <1>2, <1>3, <1>4 DEF SessionStep
<1>7. candidates[s] = {} /\ s # evictionLock
  BY <1>0, <1>1 DEF CleanUpShape, Sweeping, Inv, LockHolder, Removal
<1>8. Shape'
  <2>1. ActorShape(s)' /\ CleanUpShape(s)'
    BY <1>2, <1>3, <1>4, <1>7 DEF ActorShape, CleanUpShape, Working, Using, Sweeping, Removal
  <2>2. QED
    BY <1>6, <2>1, ShapeKept
<1>9. Owned'
  BY <1>4, <1>6, OwnedKept DEF Finish
<1>10. Numbered' /\ Marked'
  BY <1>2, <1>4, <1>6, NumberedKept, MarkedKept
<1>11. UnclaimedAreSwept' /\ PinnedAreSwept' /\ PinnedAreEvicted'
  <2>1. /\ \A b \in Blobs : Unclaimed(b)' <=> Unclaimed(b)
        /\ \A b \in Blobs : Sweeps(s, b)' /\ SweepsLater(s, b)'
        /\ EvictsLater(s)'
    BY <1>2, <1>4, <1>7 DEF Unclaimed, Sweeps, SweepsLater, EvictsLater, Evicts, Live
  <2>2. QED
    BY <1>4, <1>6, <2>1, SweptKept, PinnedKept
<1>12. Budget'
  BY <1>2, StillEvicts
<1>13. QED
  BY <1>5, <1>8, <1>9, <1>10, <1>11, <1>12 DEF Duties

(* The sweep.  A release makes blobs unwanted, and its session is at it.   *)
LEMMA ReleaseDuties ==
    ASSUME CInv, NEW s \in Sessions, NEW ds \in SUBSET Blobs, Release(s, ds)
    PROVE  TypeOK' /\ Duties'
<1> USE SessionsAct DEF CInv
<1>0. Types /\ ActorShape(s) /\ CleanUpShape(s)
  BY TypeParts DEF Duties, Shape
<1>1. pc[s] = "idle" /\ Do(s, "release", Nobody, "copy") /\ "copy" \in Steps /\ "release" \in Ops
  BY DEF Release, Steps, Ops
<1>2. /\ ActorTypes' /\ pc'[s] = "copy" /\ op'[s] = "release" /\ arg'[s] = Nobody
      /\ \A c \in Actors : c # s => pc'[c] = pc[c] /\ op'[c] = op[c] /\ arg'[c] = arg[c]
  BY <1>0, <1>1, DoTypes DEF Types
<1>3. /\ UNCHANGED <<storeVars, pinVars, removalVars, relied, faultVars>>
      /\ UNCHANGED <<stored, holder, evictionLock, pinned, candidates, skipped, orphans>>
      /\ claims' = [b \in Blobs |-> IF b \in ds THEN claims[b] \ {Coordinator[s]} ELSE claims[b]]
      /\ last_release' = last_release + 1 /\ unwanted' = unwanted \cup ds
      /\ released' = [b \in Blobs |-> IF b \in ds THEN last_release + 1 ELSE released[b]]
  BY DEF Release, storeVars, pinVars, removalVars, faultVars
<1>4. TypeOK'
  <2>1. StoreTypes' /\ HolderTypes' /\ RemovalTypes' /\ FaultTypes'
    BY <1>0, <1>3 DEF Types, StoreTypes, HolderTypes, RemovalTypes, FaultTypes, storeVars,
                      pinVars, removalVars, faultVars
  <2>2. ReleaseTypes'
    BY <1>0, <1>3 DEF Types, ReleaseTypes
  <2>3. QED
    BY <1>2, <2>1, <2>2, TypeParts DEF Types
<1>5. SessionStep(s)
  BY <1>2, <1>3 DEF SessionStep
<1>6. candidates[s] = {} /\ s # evictionLock /\ op[s] # "finish"
  BY <1>0, <1>1 DEF ActorShape, CleanUpShape, Working, Sweeping, Inv, LockHolder, Removal
<1>7. Shape'
  <2>1. ActorShape(s)' /\ CleanUpShape(s)'
    BY <1>2, <1>3, <1>6 DEF ActorShape, CleanUpShape, Working, Using, Sweeping, Removal, Live
  <2>2. QED
    BY <1>5, <2>1, ShapeKept
<1>8. Before(s)'
  BY <1>2 DEF Before, Live
<1>9. Owned'
  BY <1>3, <1>5, <1>8, OwnedKept
<1>10. Numbered'
  <2>1. /\ last_release \in Nat /\ \A b \in Blobs : released[b] \in Nat
        /\ \A r \in Sessions : \A c \in candidates[r] : c[2] \in Nat
    BY <1>0 DEF Types, ReleaseTypes
  <2>2. QED
    BY <1>3, <2>1 DEF Numbered, Duties
<1>11. Marked'
  <2> SUFFICES ASSUME NEW b \in unwanted' \cap stored'
               PROVE  /\ released'[b] # 0
                      /\ \A r \in Sessions :
                            pc'[r] = "forget" /\ arg'[r] = b => <<b, released'[b]>> \notin candidates'[r]
    BY DEF Marked
  <2>1. b \in Blobs /\ last_release \in Nat
    BY <1>0, <1>3 DEF Types, StoreTypes, ReleaseTypes
  <2>2. CASE b \in ds
    <3>1. released'[b] = last_release + 1
      BY <1>3, <2>1, <2>2
    <3>2. ASSUME NEW r \in Sessions, <<b, released'[b]>> \in candidates'[r] PROVE FALSE
      <4>1. <<b, last_release + 1>> \in candidates[r]
        BY <1>3, <3>1, <3>2
      <4>2. last_release + 1 <= last_release
        BY <4>1 DEF Numbered, Duties
      <4>3. QED
        BY <2>1, <4>2
    <3>3. QED
      BY <2>1, <3>1, <3>2
  <2>3. CASE b \notin ds
    <3>1. released'[b] = released[b] /\ b \in unwanted \cap stored
      BY <1>3, <2>1, <2>3
    <3>2. ASSUME NEW r \in Sessions, pc'[r] = "forget" PROVE pc[r] = "forget" /\ arg'[r] = arg[r]
      BY <1>2, <3>2
    <3>3. QED
      BY <1>3, <3>1, <3>2 DEF Marked, Duties
  <2>4. QED
    BY <2>2, <2>3
<1>12. UnclaimedAreSwept' /\ PinnedAreSwept' /\ PinnedAreEvicted' /\ Budget'
  <2>1. \A b : Sweeps(s, b)' /\ SweepsLater(s, b)'
    BY <1>8 DEF Sweeps, SweepsLater
  <2>2. EvictsLater(s)' /\ Evicts(s)'
    BY <1>2, <1>8 DEF EvictsLater, Evicts, Live
  <2>3. QED
    BY <2>1, <2>2 DEF UnclaimedAreSwept, PinnedAreSwept, PinnedAreEvicted, Budget
<1>13. QED
  BY <1>4, <1>7, <1>9, <1>10, <1>11, <1>12 DEF Duties

(* How a sweep goes on with the candidates left.                           *)
LEMMA SweepOnMoves ==
    ASSUME CInv, NEW s \in Sessions, NEW left \in SUBSET (Blobs \X Nat), SweepOn(s, left),
           pc[s] \in {"copy", "probe", "forget"}, holder' = holder
    PROVE  /\ ActorTypes' /\ candidates' \in [Sessions -> SUBSET (Blobs \X Nat)]
           /\ candidates'[s] = left /\ SessionStep(s)
           /\ Shape' /\ (orphans' = orphans => Owned') /\ Budget'
           /\ pc'[s] \in {"sweep", "evict", "idle"}
           /\ left # {} <=> pc'[s] = "sweep"
           /\ Before(s) <=> Before(s)'
<1> USE SessionsAct DEF CInv
<1>0. Types /\ ActorShape(s) /\ CleanUpShape(s)
  BY TypeParts DEF Duties, Shape
<1>1. /\ candidates' \in [Sessions -> SUBSET (Blobs \X Nat)] /\ candidates'[s] = left
      /\ \A r \in Sessions : r # s => candidates'[r] = candidates[r]
  BY <1>0 DEF SweepOn, Types, ReleaseTypes
<1>2. PICK step \in {"sweep", "evict", "idle"} :
          /\ Goto(s, step)
          /\ left # {} <=> step = "sweep"
          /\ step = "evict" => op[s] = "finish"
          /\ step = "idle" => op[s] # "finish"
  BY DEF SweepOn
<1>3. PICK o \in Ops, b \in Blobs \cup {Nobody} :
          /\ Do(s, o, b, step)
          /\ step = "idle" => o = "none"
          /\ step # "idle" => o = op[s]
  <2>1. op[s] \in Ops /\ arg[s] \in Blobs \cup {Nobody} /\ "none" \in Ops
    BY <1>0 DEF Types, ActorTypes, Ops
  <2>2. QED
    BY <1>0, <1>2, <2>1, GotoIsDo DEF Types
<1>4. /\ ActorTypes' /\ pc'[s] = step /\ op'[s] = o /\ arg'[s] = b
      /\ \A c \in Actors : c # s => pc'[c] = pc[c] /\ op'[c] = op[c] /\ arg'[c] = arg[c]
  BY <1>0, <1>3, DoTypes DEF Types, Steps
<1>5. SessionStep(s)
  BY <1>1, <1>4 DEF SessionStep
<1>6. ActorShape(s)'
  BY <1>2, <1>3, <1>4 DEF ActorShape, Working, Using, Live
<1>7. CleanUpShape(s)'
  <2>1. op'[s] = "finish" => op[s] = "finish" /\ holder'[s] # "held"
    BY <1>0, <1>3, <1>4 DEF CleanUpShape
  <2>2. op'[s] = "finish" => step # "idle"
    BY <1>3, <1>4
  <2>3. step = "evict" => op'[s] = "finish"
    BY <1>2, <1>3, <1>4
  <2>4. QED
    BY <1>1, <1>2, <1>4, <2>1, <2>2, <2>3 DEF CleanUpShape, Sweeping, Removal
<1>8. Before(s) <=> Before(s)'
  BY <1>2, <1>3, <1>4 DEF Before, Live
<1>9. QED
  BY <1>1, <1>2, <1>4, <1>5, <1>6, <1>7, <1>8, ShapeKept, OwnedKept, StillEvicts

LEMMA SweepCopyDuties == ASSUME CInv, NEW s \in Sessions, SweepCopy(s) PROVE TypeOK' /\ Duties'
<1> USE SessionsAct DEF CInv
<1>0. Types
  BY TypeParts
<1> DEFINE marked == {b \in Blobs : released[b] # 0 /\ claims[b] = {}}
           copy == {<<b, released[b]>> : b \in marked}
<1>1. /\ pc[s] = "copy" /\ SweepOn(s, copy)
      /\ skipped' = skipped \ {"sweep"}
      /\ UNCHANGED <<storeVars, pinVars, removalVars, relied, claims, released, last_release,
                     unwanted, faults, spoiled, unread, orphans, publishers>>
      /\ UNCHANGED <<stored, holder, evictionLock, pinned>>
  BY DEF SweepCopy, storeVars, pinVars, removalVars
<1>2. copy \in SUBSET (Blobs \X Nat)
  BY <1>0 DEF Types, ReleaseTypes
<1>3. \A b \in marked : <<b, released[b]>> \in copy
  OBVIOUS
<1>4. \A c \in copy : \E b \in Blobs : c = <<b, released[b]>>
  OBVIOUS
<1> HIDE DEF copy
<1>5. /\ ActorTypes' /\ candidates' \in [Sessions -> SUBSET (Blobs \X Nat)]
      /\ candidates'[s] = copy /\ SessionStep(s) /\ Shape' /\ Owned' /\ Budget'
      /\ pc'[s] \in {"sweep", "evict", "idle"} /\ (copy # {} <=> pc'[s] = "sweep")
      /\ (Before(s) <=> Before(s)')
  BY <1>1, <1>2, SweepOnMoves
<1>6. TypeOK'
  <2>1. StoreTypes' /\ HolderTypes' /\ RemovalTypes' /\ FaultTypes' /\ ReleaseTypes'
    BY <1>0, <1>1, <1>5 DEF Types, StoreTypes, HolderTypes, RemovalTypes, FaultTypes, ReleaseTypes,
                            storeVars, pinVars, removalVars, faultVars
  <2>2. QED
    BY <1>5, <2>1, TypeParts DEF Types
<1>7. Numbered'
  <2>1. \A b \in Blobs : released[b] <= last_release
    BY DEF Numbered, Duties
  <2>2. QED
    BY <1>1, <1>4, <1>5, <2>1, NumberedKept
<1>8. Marked'
  BY <1>1, <1>5, MarkedKept
<1>9. s # evictionLock
  BY <1>1 DEF Inv, LockHolder, Removal
<1>10. ASSUME NEW b \in Blobs, Unclaimed(b) PROVE Sweeps(s, b)' /\ SweepsLater(s, b)'
  <2>1. b \in marked
    BY <1>10 DEF Unclaimed, Marked, Duties
  <2>2. <<b, released[b]>> \in candidates'[s] /\ <<b, released[b]>>[1] = b /\ pc'[s] = "sweep"
    BY <1>3, <1>5, <2>1
  <2>3. QED
    BY <1>1, <1>9, <2>2 DEF Sweeps, SweepsLater
<1>11. \A b \in Blobs : Unclaimed(b)' => Unclaimed(b)
  BY <1>1 DEF Unclaimed
<1>12. EvictsLater(s)'
  BY <1>1, <1>5, <1>9 DEF EvictsLater, Evicts, Live
<1>13. UnclaimedAreSwept' /\ PinnedAreSwept' /\ PinnedAreEvicted'
  <2>1. pinned' \subseteq Blobs
    BY <1>0, <1>1 DEF Types, RemovalTypes
  <2>2. QED
    BY <1>10, <1>11, <1>12, <2>1 DEF UnclaimedAreSwept, PinnedAreSwept, PinnedAreEvicted
<1>14. QED
  BY <1>5, <1>6, <1>7, <1>8, <1>13 DEF Duties

(* A mark is forgotten only for the release that the sweep deleted for.    *)
LEMMA ForgetDuties == ASSUME CInv, NEW s \in Sessions, Forget(s) PROVE TypeOK' /\ Duties'
<1> USE SessionsAct DEF CInv
<1>0. Types /\ CleanUpShape(s)
  BY TypeParts DEF Duties, Shape
<1>1. /\ pc[s] = "forget" /\ SweepOn(s, Swept(s))
      /\ UNCHANGED <<storeVars, pinVars, removalVars, relied, claims, last_release, unwanted,
                     faultVars>>
      /\ UNCHANGED <<stored, holder, evictionLock, pinned, skipped, orphans>>
  BY DEF Forget, storeVars, pinVars, removalVars, faultVars
<1>2. /\ Swept(s) \in SUBSET (Blobs \X Nat) /\ Swept(s) \subseteq candidates[s]
      /\ \A c \in candidates[s] : c[1] # arg[s] => c \in Swept(s)
  BY <1>0 DEF Swept, Types, ReleaseTypes
<1>3. /\ ActorTypes' /\ candidates' \in [Sessions -> SUBSET (Blobs \X Nat)]
      /\ candidates'[s] = Swept(s) /\ SessionStep(s) /\ Shape' /\ Owned' /\ Budget'
      /\ pc'[s] \in {"sweep", "evict", "idle"} /\ (Before(s) <=> Before(s)')
  BY <1>1, <1>2, SweepOnMoves
<1>4. /\ released' \in [Blobs -> Nat] /\ \A b \in Blobs : released'[b] \in {released[b], 0}
      /\ \A b \in Blobs : released'[b] # released[b] =>
            b = arg[s] /\ <<b, released[b]>> \in candidates[s]
  BY <1>0 DEF Forget, Types, ReleaseTypes
<1>5. TypeOK'
  <2>1. StoreTypes' /\ HolderTypes' /\ RemovalTypes' /\ FaultTypes' /\ ReleaseTypes'
    BY <1>0, <1>1, <1>3, <1>4 DEF Types, StoreTypes, HolderTypes, RemovalTypes, FaultTypes,
                                  ReleaseTypes, storeVars, pinVars, removalVars, faultVars
  <2>2. QED
    BY <1>3, <2>1, TypeParts DEF Types
<1>6. Numbered'
  BY <1>1, <1>2, <1>3, <1>4, NumberedKept
<1>7. Marked'
  <2>1. ASSUME NEW b \in unwanted \cap stored PROVE b \in Blobs /\ released'[b] = released[b]
    <3>1. b \in Blobs
      BY <1>0 DEF Types, StoreTypes
    <3>2. b = arg[s] => <<b, released[b]>> \notin candidates[s]
      BY <1>1 DEF Marked, Duties
    <3>3. QED
      BY <1>4, <3>1, <3>2
  <2>2. ASSUME NEW r \in Sessions, pc'[r] = "forget"
        PROVE  pc[r] = "forget" /\ arg'[r] = arg[r] /\ candidates'[r] = candidates[r]
    BY <1>3, <2>2 DEF SessionStep
  <2>3. QED
    BY <1>1, <2>1, <2>2 DEF Marked, Duties
<1>8. s # evictionLock
  BY <1>1 DEF Inv, LockHolder, Removal
<1>9. ASSUME NEW b \in Blobs, Sweeps(s, b) PROVE Sweeps(s, b)' /\ SweepsLater(s, b)'
  <2>1. CASE Before(s)
    BY <1>3, <2>1 DEF Sweeps, SweepsLater
  <2>2. CASE ~Before(s)
    <3>1. PICK c \in candidates[s] : c[1] = b /\ b # arg[s]
      BY <1>1, <1>9, <2>2 DEF Sweeps
    <3>2. c \in candidates'[s] /\ pc'[s] # "forget"
      BY <1>2, <1>3, <3>1
    <3>3. QED
      BY <1>1, <1>8, <3>1, <3>2 DEF Sweeps, SweepsLater
  <2>3. QED
    BY <2>1, <2>2
<1>10. \A b \in Blobs : Unclaimed(b)' => Unclaimed(b)
  BY <1>1 DEF Unclaimed
<1>11. EvictsLater(s)'
  BY <1>1, <1>3, <1>8 DEF EvictsLater, Evicts, Live
<1>12. UnclaimedAreSwept' /\ PinnedAreSwept' /\ PinnedAreEvicted'
  <2>1. \A b \in Blobs : SweepsLater(s, b) => Sweeps(s, b)
    BY DEF SweepsLater
  <2>2. QED
    BY <1>1, <1>3, <1>9, <1>10, <1>11, <2>1, SweptKept, PinnedKept
<1>13. QED
  BY <1>3, <1>5, <1>6, <1>7, <1>12 DEF Duties

(* The eviction lock is taken; nothing has been read of the pins yet.      *)
LEMMA LockDuties ==
    ASSUME CInv, NEW s \in Sessions, RemoveLock(s) \/ EvictLock(s) PROVE TypeOK' /\ Duties'
<1> USE SessionsAct DEF CInv
<1>0. Types /\ ActorShape(s) /\ CleanUpShape(s)
  BY TypeParts DEF Duties, Shape
<1>1. /\ pc[s] \in {"sweep", "evict"} /\ evictionLock' = s /\ toProbe' = lockFile /\ pinned' = {}
      /\ skipped' \in {skipped, skipped \ {"evict"}}
      /\ UNCHANGED <<storeVars, pinVars, probed, victims, total, relied, releaseVars, faults, spoiled,
                     unread, orphans, publishers>>
      /\ UNCHANGED <<stored, holder, claims, released, last_release, candidates, unwanted>>
  BY DEF RemoveLock, EvictLock, LockExclusive, storeVars, pinVars, releaseVars, faultVars
<1>2. PICK d \in Blobs \cup {Nobody} : Do(s, op[s], d, "probe")
  <2>1. CASE RemoveLock(s)
    <3>1. PICK c \in candidates[s] : Do(s, op[s], c[1], "probe")
      BY <2>1 DEF RemoveLock
    <3>2. c[1] \in Blobs
      BY <1>0 DEF Types, ReleaseTypes
    <3>3. QED
      BY <3>1, <3>2
  <2>2. CASE EvictLock(s)
    BY <1>0, <2>2, GotoIsDo DEF EvictLock, Types, ActorTypes
  <2>3. QED
    BY <2>1, <2>2
<1>3. "probe" \in Steps /\ op[s] \in Ops
  BY <1>0 DEF Types, ActorTypes, Steps
<1>4. /\ ActorTypes' /\ pc'[s] = "probe" /\ op'[s] = op[s]
      /\ \A c \in Actors : c # s => pc'[c] = pc[c] /\ op'[c] = op[c] /\ arg'[c] = arg[c]
  BY <1>0, <1>2, <1>3, DoTypes DEF Types
<1>5. TypeOK'
  <2>1. StoreTypes' /\ HolderTypes' /\ ReleaseTypes' /\ FaultTypes'
    BY <1>0, <1>1 DEF Types, StoreTypes, HolderTypes, ReleaseTypes, FaultTypes, storeVars,
                      pinVars, releaseVars, faultVars
  <2>2. RemovalTypes'
    BY <1>0, <1>1 DEF Types, RemovalTypes, HolderTypes
  <2>3. QED
    BY <1>4, <2>1, <2>2, TypeParts DEF Types
<1>6. SessionStep(s)
  BY <1>1, <1>4 DEF SessionStep
<1>7. Shape'
  <2>1. ActorShape(s)' /\ CleanUpShape(s)'
    BY <1>0, <1>1, <1>4 DEF ActorShape, CleanUpShape, Working, Using, Sweeping, Removal, Live
  <2>2. QED
    BY <1>6, <2>1, ShapeKept
<1>8. Before(s) => Before(s)'
  BY <1>4 DEF Before, Live
<1>9. Owned' /\ Numbered' /\ Marked'
  BY <1>1, <1>4, <1>6, <1>8, OwnedKept, NumberedKept, MarkedKept
<1>10. UnclaimedAreSwept'
  <2>1. \A b \in Blobs : Sweeps(s, b) => Sweeps(s, b)'
    BY <1>1, <1>4, <1>8 DEF Sweeps
  <2>2. \A b \in Blobs : Unclaimed(b)' => Unclaimed(b)
    BY <1>1 DEF Unclaimed
  <2>3. QED
    BY <1>1, <1>6, <2>1, <2>2, SweptKept
<1>11. PinnedAreSwept' /\ PinnedAreEvicted' /\ Budget'
  BY <1>1, <1>4, PinnedDropped, StillEvicts
<1>12. QED
  BY <1>5, <1>7, <1>9, <1>10, <1>11 DEF Duties

(* A reader of the pins meets a dead holder and deletes its files.         *)
LEMMA DeadDuties ==
    ASSUME CInv, NEW s \in Sessions, (\E a \in Actors : ProbeDead(s, a)) \/ CleanDead(s)
    PROVE  TypeOK' /\ Duties'
<1> USE SessionsAct DEF CInv
<1>0. Types /\ ActorShape(s) /\ CleanUpShape(s)
  BY TypeParts DEF Duties, Shape
<1>1. /\ UNCHANGED <<storeVars, evictionLock, pinned, victims, total, relied, releaseVars, faultVars>>
      /\ UNCHANGED <<stored, holder, digests, claims, released, last_release, candidates, unwanted,
                     skipped, orphans>>
  BY DEF ProbeDead, CleanDead, storeVars, releaseVars, faultVars
<1>2. PICK step \in {"probe", "clean"} : Goto(s, step)
  BY DEF ProbeDead, CleanDead
<1>3. pc[s] \in {"probe", "clean"} /\ evictionLock = s
  BY DEF ProbeDead, CleanDead, Inv, LockHolder, Removal
<1>4. Do(s, op[s], arg[s], step) /\ step \in Steps /\ op[s] \in Ops /\ arg[s] \in Blobs \cup {Nobody}
  BY <1>0, <1>2, GotoIsDo DEF Types, ActorTypes, Steps
<1>5. /\ ActorTypes' /\ pc'[s] = step /\ op'[s] = op[s] /\ arg'[s] = arg[s]
      /\ \A c \in Actors : c # s => pc'[c] = pc[c] /\ op'[c] = op[c] /\ arg'[c] = arg[c]
  BY <1>0, <1>4, DoTypes DEF Types
<1>6. TypeOK'
  <2>1. StoreTypes' /\ ReleaseTypes' /\ FaultTypes'
    BY <1>0, <1>1 DEF Types, StoreTypes, ReleaseTypes, FaultTypes, storeVars, releaseVars, faultVars
  <2>2. lockFile' \subseteq Actors /\ toProbe' \subseteq Actors /\ probed' \in Actors \cup {Nobody}
    BY <1>0 DEF ProbeDead, CleanDead, Types, HolderTypes, RemovalTypes
  <2>3. list' \in [Actors -> SUBSET Blobs]
    BY <1>0 DEF ProbeDead, CleanDead, Types, HolderTypes
  <2>4. HolderTypes' /\ RemovalTypes'
    BY <1>0, <1>1, <2>2, <2>3 DEF Types, HolderTypes, RemovalTypes
  <2>5. QED
    BY <1>5, <2>1, <2>4, TypeParts DEF Types
<1>7. SessionStep(s)
  BY <1>1, <1>5 DEF SessionStep
<1>8. Shape'
  <2>1. ActorShape(s)' /\ CleanUpShape(s)'
    BY <1>0, <1>1, <1>3, <1>5 DEF ActorShape, CleanUpShape, Working, Using, Sweeping, Removal, Live
  <2>2. QED
    BY <1>7, <2>1, ShapeKept
<1>9. Before(s) <=> Before(s)'
  BY <1>3, <1>5 DEF Before, Live
<1>10. Owned' /\ Numbered' /\ Marked'
  BY <1>1, <1>5, <1>7, <1>9, OwnedKept, NumberedKept, MarkedKept
<1>11. UnclaimedAreSwept' /\ PinnedAreSwept' /\ PinnedAreEvicted'
  <2>1. \A b \in Blobs : /\ Sweeps(s, b) => Sweeps(s, b)'
                         /\ SweepsLater(s, b) => SweepsLater(s, b)'
    BY <1>1, <1>3, <1>5, <1>9 DEF Sweeps, SweepsLater
  <2>2. \A b \in Blobs : Unclaimed(b)' => Unclaimed(b)
    BY <1>1 DEF Unclaimed
  <2>3. EvictsLater(s) => EvictsLater(s)'
    BY <1>1, <1>5, <1>9 DEF EvictsLater, Evicts, Live
  <2>4. QED
    BY <1>1, <1>7, <2>1, <2>2, <2>3, SweptKept, PinnedKept
<1>12. Budget'
  BY <1>5, StillEvicts
<1>13. QED
  BY <1>6, <1>8, <1>10, <1>11, <1>12 DEF Duties

(* A reader of the pins meets a live holder: the holder, or the session    *)
(* that launched it, still has its last sweep and eviction before it.      *)
LEMMA LiveDuties ==
    ASSUME CInv, NEW s \in Sessions, NEW a \in Actors, ProbeLive(s, a) \/ ProbeMisread(s, a)
    PROVE  TypeOK' /\ Duties'
<1> USE SessionsAct, CacheAssumption DEF CInv, Duties
<1>0. Types /\ ActorShape(a)
  BY TypeParts DEF Shape
<1>1. /\ holder[a] = "held" /\ pc[s] = "probe"
      /\ UNCHANGED <<storeVars, pinVars, evictionLock, probed, victims, total, actorVars, releaseVars,
                     spoiled, publishers>>
      /\ UNCHANGED <<stored, holder, pc, op, arg, claims, released, last_release, candidates,
                     unwanted, skipped, orphans>>
      /\ toProbe' \subseteq toProbe /\ pinned' \subseteq pinned \cup list[a]
  BY DEF ProbeLive, ProbeMisread, storeVars, pinVars, actorVars, releaseVars, faultVars
<1>2. TypeOK'
  <2>0. faults' \in Nat /\ unread' \in [Actors -> SUBSET Blobs]
    BY <1>0 DEF ProbeLive, ProbeMisread, Fault, Types, FaultTypes, HolderTypes, faultVars
  <2>1. StoreTypes' /\ HolderTypes' /\ ActorTypes' /\ ReleaseTypes' /\ FaultTypes'
    BY <1>0, <1>1, <2>0 DEF Types, StoreTypes, HolderTypes, ActorTypes, ReleaseTypes, FaultTypes,
                            storeVars, pinVars, actorVars, releaseVars
  <2>2. RemovalTypes'
    BY <1>0, <1>1 DEF Types, RemovalTypes, HolderTypes
  <2>3. QED
    BY <2>1, <2>2, TypeParts DEF Types
<1>3. Shape' /\ Owned' /\ Numbered' /\ Marked'
  BY <1>1 DEF Shape, ActorShape, CleanUpShape, Owned, Numbered, Marked, Before, Live
<1>4. UnclaimedAreSwept'
  BY <1>1 DEF UnclaimedAreSwept, Unclaimed, Sweeps, Before, Live
<1>5. ASSUME orphans = {} PROVE \E r \in Sessions : Before(r) /\ Evicts(r)
  <2>1. Live(a)
    BY <1>0, <1>1 DEF ActorShape
  <2>2. PICK r \in Sessions : Before(r)
    <3>1. CASE a \in Sessions
      BY <1>1, <2>1, <3>1 DEF Shape, CleanUpShape, Before
    <3>2. CASE a \in Processes
      BY <1>5, <2>1, <3>2 DEF Owned
    <3>3. QED
      BY <3>1, <3>2 DEF Actors
  <2>3. QED
    BY <2>2 DEF Shape, CleanUpShape, Before, Evicts
<1>6. PinnedAreSwept' /\ PinnedAreEvicted'
  <2>1. ASSUME NEW r \in Sessions, Before(r), Evicts(r)
        PROVE  EvictsLater(r)' /\ \A b : SweepsLater(r, b)'
    BY <1>1, <2>1 DEF EvictsLater, SweepsLater, Sweeps, Evicts, Before, Live
  <2>2. QED
    BY <1>1, <1>5, <2>1 DEF PinnedAreSwept, PinnedAreEvicted
<1>7. Budget'
  BY <1>1, StillEvicts
<1>8. QED
  BY <1>2, <1>3, <1>4, <1>6, <1>7

(* All pins read: the lists of existing lock files stay.                   *)
LEMMA ProbeEndTypes ==
    ASSUME HolderTypes, NEW s, ProbeEnd(s), relied' = relied
    PROVE  HolderTypes' /\ pc[s] = "probe" /\ holder' = holder
  BY DEF ProbeEnd, HolderTypes

(* A released blob is deleted, or left to whoever pinned it.               *)
LEMMA RemoveDuties == ASSUME CInv, NEW s \in Sessions, RemoveUnpinned(s) PROVE TypeOK' /\ Duties'
<1> USE SessionsAct DEF CInv
<1>0. Types /\ ActorShape(s) /\ CleanUpShape(s)
  BY TypeParts DEF Duties, Shape
<1>1. /\ ProbeEnd(s) /\ candidates[s] # {} /\ evictionLock' = Nobody /\ pinned' = {}
      /\ UNCHANGED <<recency, toProbe, probed, victims, total, relied, claims, released,
                     last_release, unwanted, faultVars>>
      /\ UNCHANGED <<faults, spoiled, unread, skipped, orphans, publishers>>
  BY DEF RemoveUnpinned, faultVars
<1>2. HolderTypes' /\ pc[s] = "probe" /\ holder' = holder
  BY <1>0, <1>1, ProbeEndTypes DEF Types
<1>3. /\ stored' \subseteq stored /\ damaged' \subseteq stored'
  BY <1>0 DEF RemoveUnpinned, Types, StoreTypes
<1>4. \A b \in Blobs : Unclaimed(b)' => Unclaimed(b)
  BY <1>1, <1>3 DEF Unclaimed
<1>5. ASSUME ActorTypes', candidates' \in [Sessions -> SUBSET (Blobs \X Nat)] PROVE TypeOK'
  <2>1. StoreTypes' /\ RemovalTypes' /\ ReleaseTypes' /\ FaultTypes'
    BY <1>0, <1>1, <1>3, <1>5 DEF Types, StoreTypes, RemovalTypes, ReleaseTypes, FaultTypes
  <2>2. QED
    BY <1>2, <1>5, <2>1, TypeParts DEF Types
<1>6. PinnedAreSwept' /\ PinnedAreEvicted'
  BY <1>1, PinnedDropped
<1>7. CASE arg[s] \in pinned
  <2>1. SweepOn(s, Swept(s)) /\ stored' = stored
    BY <1>7 DEF RemoveUnpinned
  <2>2. /\ Swept(s) \in SUBSET (Blobs \X Nat) /\ Swept(s) \subseteq candidates[s]
        /\ \A c \in candidates[s] : c[1] # arg[s] => c \in Swept(s)
    BY <1>0 DEF Swept, Types, ReleaseTypes
  <2>3. /\ ActorTypes' /\ candidates' \in [Sessions -> SUBSET (Blobs \X Nat)]
        /\ candidates'[s] = Swept(s) /\ SessionStep(s) /\ Shape' /\ Owned' /\ Budget'
        /\ pc'[s] \in {"sweep", "evict", "idle"} /\ (Before(s) <=> Before(s)')
    BY <1>1, <1>2, <2>1, <2>2, SweepOnMoves
  <2>4. Numbered' /\ Marked'
    BY <1>1, <1>3, <2>2, <2>3, NumberedKept, MarkedKept
  <2>5. s = evictionLock
    BY <1>2 DEF Inv, LockHolder, Removal
  <2>6. ASSUME "sweep" \notin skipped, orphans = {}, NEW b \in Blobs, Unclaimed(b)
        PROVE  \E r \in Sessions : Sweeps(r, b)'
    <3>1. PICK r \in Sessions : Sweeps(r, b) /\ (b = arg[s] => Before(r) \/ r # s)
      <4>1. CASE b = arg[s]
        BY <1>7, <2>5, <2>6, <4>1 DEF Duties, PinnedAreSwept, SweepsLater
      <4>2. CASE b # arg[s]
        BY <2>6, <4>2 DEF Duties, UnclaimedAreSwept
      <4>3. QED
        BY <4>1, <4>2
    <3>2. CASE r # s
      BY <2>3, <3>1, <3>2 DEF SessionStep, Sweeps, Before, Live
    <3>3. CASE r = s /\ Before(s)
      BY <2>3, <3>3 DEF Sweeps
    <3>4. CASE r = s /\ ~Before(s)
      <4>1. PICK c \in candidates[s] : c[1] = b /\ b # arg[s]
        BY <1>2, <3>1, <3>4 DEF Sweeps
      <4>2. c \in candidates'[s] /\ pc'[s] # "forget"
        BY <2>2, <2>3, <4>1
      <4>3. QED
        BY <4>1, <4>2 DEF Sweeps
    <3>5. QED
      BY <3>2, <3>3, <3>4
  <2>7. UnclaimedAreSwept'
    BY <1>1, <1>4, <2>6 DEF UnclaimedAreSwept
  <2>8. QED
    BY <1>1, <1>5, <1>6, <2>3, <2>4, <2>7 DEF Duties
<1>8. CASE arg[s] \notin pinned
  <2>1. stored' = stored \ {arg[s]} /\ Goto(s, "forget") /\ UNCHANGED candidates
    BY <1>8 DEF RemoveUnpinned
  <2>2. /\ Do(s, op[s], arg[s], "forget") /\ op[s] \in Ops /\ arg[s] \in Blobs \cup {Nobody}
        /\ "forget" \in Steps
    BY <1>0, <2>1, GotoIsDo DEF Types, ActorTypes, Steps
  <2>3. /\ ActorTypes' /\ pc'[s] = "forget" /\ op'[s] = op[s] /\ arg'[s] = arg[s]
        /\ \A c \in Actors : c # s => pc'[c] = pc[c] /\ op'[c] = op[c] /\ arg'[c] = arg[c]
    BY <1>0, <2>2, DoTypes DEF Types
  <2>4. SessionStep(s) /\ candidates' \in [Sessions -> SUBSET (Blobs \X Nat)]
    BY <1>0, <1>2, <2>1, <2>3 DEF SessionStep, Types, ReleaseTypes
  <2>5. ActorShape(s)' /\ CleanUpShape(s)'
    BY <1>0, <1>1, <1>2, <2>1, <2>3 DEF ActorShape, CleanUpShape, Working, Using, Sweeping, Removal,
                                        Live
  <2>6. Before(s) <=> Before(s)'
    BY <1>2, <2>3 DEF Before, Live
  <2>7. Shape' /\ Owned' /\ Numbered' /\ Marked' /\ Budget'
    BY <1>1, <1>3, <2>1, <2>3, <2>4, <2>5, <2>6, ShapeKept, OwnedKept, NumberedKept, MarkedKept,
       StillEvicts
  <2>8. ASSUME NEW b \in Blobs, Unclaimed(b)', Sweeps(s, b) PROVE Sweeps(s, b)'
    BY <1>2, <2>1, <2>3, <2>6, <2>8 DEF Sweeps, Unclaimed
  <2>9. UnclaimedAreSwept'
    BY <1>1, <1>4, <2>4, <2>8, SweptKept
  <2>10. QED
    BY <1>5, <1>6, <2>3, <2>4, <2>7, <2>9 DEF Duties
<1>9. QED
  BY <1>7, <1>8

-----------------------------------------------------------------------------
(* Eviction.  What is stored can be counted.                               *)
LEMMA StoredIsFinite ==
    ASSUME StoreTypes PROVE IsFiniteSet(stored) /\ Cardinality(stored) \in Nat
<1>1. IsFiniteSet(stored)
  BY CacheAssumption, FS_Subset DEF StoreTypes
<1>2. QED
  BY <1>1, FS_CardinalityType

(* The listing names all that is stored.  Unless some other session has to *)
(* evict later, no pin was read, so eviction will not stop early.          *)
LEMMA EvictListDuties == ASSUME CInv, NEW s \in Sessions, EvictList(s) PROVE TypeOK' /\ Duties'
<1> USE SessionsAct DEF CInv
<1>0. Types /\ ActorShape(s) /\ CleanUpShape(s)
  BY TypeParts DEF Duties, Shape
<1>1. /\ ProbeEnd(s) /\ candidates[s] = {} /\ total' = Cardinality(stored)
      /\ UNCHANGED <<storeVars, evictionLock, toProbe, probed, pinned, relied, releaseVars, faultVars>>
      /\ UNCHANGED <<stored, claims, released, last_release, candidates, unwanted, skipped, orphans>>
  BY DEF EvictList, storeVars, releaseVars, faultVars
<1>2. HolderTypes' /\ pc[s] = "probe" /\ holder' = holder
  BY <1>0, <1>1, ProbeEndTypes DEF Types
<1>3. op[s] = "finish" /\ s = evictionLock
  BY <1>0, <1>1, <1>2 DEF CleanUpShape, Removal, Inv, LockHolder
<1>4. /\ Do(s, op[s], arg[s], "delete") /\ op[s] \in Ops /\ arg[s] \in Blobs \cup {Nobody}
      /\ "delete" \in Steps
  BY <1>0, GotoIsDo DEF EvictList, Types, ActorTypes, Steps
<1>5. /\ ActorTypes' /\ pc'[s] = "delete" /\ op'[s] = "finish" /\ arg'[s] = arg[s]
      /\ \A c \in Actors : c # s => pc'[c] = pc[c] /\ op'[c] = op[c] /\ arg'[c] = arg[c]
  BY <1>0, <1>3, <1>4, DoTypes DEF Types
<1>6. /\ victims' \in Seq(Blobs) /\ total' \in Nat
      /\ \A b \in stored : \E i \in 1..Len(victims') : victims'[i] = b
  <2>1. Cardinality(stored) \in Nat /\ stored \subseteq Blobs
    BY <1>0, StoredIsFinite DEF Types, StoreTypes
  <2>2. /\ victims' \in [1..Cardinality(stored) -> stored]
        /\ \A b \in stored : \E i \in DOMAIN victims' : victims'[i] = b
    BY DEF EvictList, Listings
  <2>3. victims' \in Seq(Blobs)
    BY <2>1, <2>2
  <2>4. DOMAIN victims' = 1..Len(victims')
    BY <2>3
  <2>5. QED
    BY <1>1, <2>1, <2>2, <2>3, <2>4
<1>7. TypeOK'
  <2>1. StoreTypes' /\ ReleaseTypes' /\ FaultTypes'
    BY <1>0, <1>1 DEF Types, StoreTypes, ReleaseTypes, FaultTypes, storeVars, releaseVars, faultVars
  <2>2. RemovalTypes'
    BY <1>0, <1>1, <1>6 DEF Types, RemovalTypes
  <2>3. QED
    BY <1>2, <1>5, <2>1, <2>2, TypeParts DEF Types
<1>8. SessionStep(s)
  BY <1>1, <1>2, <1>5 DEF SessionStep
<1>9. ActorShape(s)' /\ CleanUpShape(s)' /\ ~Before(s)
  BY <1>0, <1>1, <1>2, <1>3, <1>5 DEF ActorShape, CleanUpShape, Working, Using, Sweeping, Removal, Live,
                                      Before
<1>10. Shape' /\ Owned' /\ Numbered' /\ Marked'
  BY <1>1, <1>5, <1>8, <1>9, ShapeKept, OwnedKept, NumberedKept, MarkedKept
<1>11. UnclaimedAreSwept' /\ PinnedAreSwept' /\ PinnedAreEvicted'
  <2>1. \A b \in Blobs : ~Sweeps(s, b) /\ ~SweepsLater(s, b)
    BY <1>1, <1>2, <1>9 DEF Sweeps, SweepsLater
  <2>2. ~EvictsLater(s)
    BY <1>1, <1>3, <1>9 DEF EvictsLater
  <2>3. \A b \in Blobs : Unclaimed(b)' => Unclaimed(b)
    BY <1>1 DEF Unclaimed
  <2>4. QED
    BY <1>1, <1>8, <2>1, <2>2, <2>3, SweptKept, PinnedKept
<1>12. Budget'
  <2>1. CASE \E r \in Sessions : r # s /\ Evicts(r)
    BY <1>8, <2>1 DEF SessionStep, Budget, Evicts, Live
  <2>2. CASE "evict" \notin skipped /\ orphans = {} /\ ~\E r \in Sessions : r # s /\ Evicts(r)
    <3>1. pinned = {}
      BY <1>1, <1>3, <1>9, <2>2 DEF Duties, PinnedAreEvicted, EvictsLater
    <3>2. Exhaustive'
      BY <1>1, <1>6, <3>1 DEF Exhaustive
    <3>3. QED
      BY <1>5, <3>2 DEF Budget
  <2>3. QED
    BY <1>1, <2>1, <2>2 DEF Budget
<1>13. QED
  BY <1>7, <1>10, <1>11, <1>12 DEF Duties

LEMMA EvictDeleteDuties == ASSUME CInv, NEW s \in Sessions, EvictDelete(s) PROVE TypeOK' /\ Duties'
<1> USE SessionsAct, CacheAssumption DEF CInv, Duties
<1>0. Types
  BY TypeParts
<1>1. /\ pc[s] = "delete" /\ victims # <<>> /\ total > MaxBlobs /\ victims' = Tail(victims)
      /\ UNCHANGED <<recency, pinVars, evictionLock, toProbe, probed, pinned, actorVars, releaseVars,
                     faultVars>>
      /\ UNCHANGED <<holder, pc, op, arg, relied, claims, released, last_release, candidates, unwanted,
                     spoiled, skipped, orphans>>
  BY DEF EvictDelete, pinVars, actorVars, releaseVars, faultVars
<1> DEFINE b == Head(victims)
<1>2. victims \in Seq(Blobs) /\ total \in Nat /\ IsFiniteSet(stored) /\ Cardinality(stored) \in Nat
  BY <1>0, StoredIsFinite DEF Types, RemovalTypes
<1>3. \/ (b \in pinned \/ b \notin stored) /\ UNCHANGED <<stored, damaged, total>>
      \/ /\ b \notin pinned /\ b \in stored
         /\ stored' = stored \ {b} /\ damaged' = damaged \ {b} /\ total' = total - 1
  BY DEF EvictDelete
<1>4. b = victims[1] /\ Tail(victims) \in Seq(Blobs) /\ Len(Tail(victims)) = Len(victims) - 1
      /\ \A i \in 1..Len(Tail(victims)) : Tail(victims)[i] = victims[i + 1]
  BY <1>1, <1>2
<1> HIDE DEF b
<1>5. TypeOK'
  <2>1. total' \in Nat /\ victims' \in Seq(Blobs)
    BY <1>1, <1>2, <1>3, <1>4
  <2>2. StoreTypes' /\ RemovalTypes'
    BY <1>0, <1>1, <1>3, <2>1 DEF Types, StoreTypes, RemovalTypes
  <2>3. HolderTypes' /\ ActorTypes' /\ ReleaseTypes' /\ FaultTypes'
    BY <1>0, <1>1 DEF Types, HolderTypes, ActorTypes, ReleaseTypes, FaultTypes, pinVars, actorVars,
                      releaseVars, faultVars
  <2>4. QED
    BY <2>2, <2>3, TypeParts DEF Types
<1>6. stored' \subseteq stored
  BY <1>3
<1>7. Shape' /\ Owned' /\ Numbered'
  BY <1>1 DEF Shape, ActorShape, CleanUpShape, Owned, Numbered, Before, Live
<1>8. Marked'
  BY <1>1, <1>6 DEF Marked
<1>9. UnclaimedAreSwept' /\ PinnedAreSwept' /\ PinnedAreEvicted'
  <2>1. \A d : Unclaimed(d)' => Unclaimed(d)
    BY <1>1, <1>6 DEF Unclaimed
  <2>2. \A r \in Sessions : /\ EvictsLater(r)' <=> EvictsLater(r)
                            /\ \A d : Sweeps(r, d)' <=> Sweeps(r, d)
                            /\ \A d : SweepsLater(r, d)' <=> SweepsLater(r, d)
    BY <1>1 DEF EvictsLater, SweepsLater, Sweeps, Evicts, Before, Live
  <2>3. QED
    BY <1>1, <2>1, <2>2 DEF UnclaimedAreSwept, PinnedAreSwept, PinnedAreEvicted
<1>10. Budget'
  <2> SUFFICES ASSUME "evict" \notin skipped, orphans = {}, ~\E r \in Sessions : Evicts(r)
               PROVE  Exhaustive' \/ Cardinality(stored') <= MaxBlobs
    BY <1>1 DEF Budget, Evicts, Live
  <2>1. Exhaustive \/ Cardinality(stored) <= MaxBlobs
    BY <1>1 DEF Budget
  <2>2. CASE Cardinality(stored) <= MaxBlobs
    <3>1. Cardinality(stored') <= Cardinality(stored) /\ Cardinality(stored') \in Nat
      BY <1>2, <1>6, FS_Subset, FS_CardinalityType
    <3>2. QED
      BY <1>2, <2>2, <3>1
  <2>3. CASE Exhaustive
    <3>1. total' = Cardinality(stored') /\ b \notin stored'
      <4>1. Cardinality(stored \ {b}) = IF b \in stored THEN Cardinality(stored) - 1
                                        ELSE Cardinality(stored)
        BY <1>2, FS_RemoveElement
      <4>2. QED
        BY <1>3, <2>3, <4>1 DEF Exhaustive
    <3>2. ASSUME NEW d \in stored' PROVE \E i \in 1..Len(victims') : victims'[i] = d
      <4>1. PICK i \in 1..Len(victims) : victims[i] = d
        BY <1>6, <2>3 DEF Exhaustive
      <4>2. i # 1
        BY <1>4, <3>1, <4>1
      <4>3. i - 1 \in 1..Len(victims') /\ victims'[i - 1] = d
        BY <1>1, <1>2, <1>4, <4>1, <4>2
      <4>4. QED
        BY <4>3
    <3>3. QED
      BY <1>1, <2>3, <3>1, <3>2 DEF Exhaustive
  <2>4. QED
    BY <2>1, <2>2, <2>3
<1>11. QED
  BY <1>5, <1>7, <1>8, <1>9, <1>10

(* A session is over.                                                      *)
LEMMA OverMoves ==
    ASSUME CInv, NEW s \in Sessions, Goto(s, "over"), pc[s] \in {"probe", "evict", "delete"},
           candidates[s] = {}, UNCHANGED <<holder, candidates>>
    PROVE  /\ ActorTypes' /\ SessionStep(s) /\ Shape'
           /\ pc'[s] = "over" /\ op[s] = "finish"
<1> USE SessionsAct DEF CInv
<1>0. Types /\ CleanUpShape(s)
  BY TypeParts DEF Duties, Shape
<1>1. Do(s, "none", Nobody, "over") /\ "none" \in Ops /\ "over" \in Steps
  BY <1>0, GotoIsDo DEF Types, Ops, Steps
<1>2. /\ ActorTypes' /\ pc'[s] = "over" /\ op'[s] = "none"
      /\ \A c \in Actors : c # s => pc'[c] = pc[c] /\ op'[c] = op[c] /\ arg'[c] = arg[c]
  BY <1>0, <1>1, DoTypes DEF Types
<1>3. SessionStep(s)
  BY <1>2 DEF SessionStep
<1>4. op[s] = "finish" /\ holder[s] # "held"
  BY <1>0 DEF CleanUpShape, Removal
<1>5. ActorShape(s)' /\ CleanUpShape(s)'
  BY <1>2, <1>4 DEF ActorShape, CleanUpShape, Working, Using, Sweeping, Removal
<1>6. QED
  BY <1>2, <1>3, <1>4, <1>5, ShapeKept

(* The last session to evict stops within the budget, or with nothing left. *)
LEMMA EvictEndDuties == ASSUME CInv, NEW s \in Sessions, EvictEnd(s) PROVE TypeOK' /\ Duties'
<1> USE SessionsAct, CacheAssumption DEF CInv
<1>0. Types /\ CleanUpShape(s)
  BY TypeParts DEF Duties, Shape
<1>1. /\ pc[s] = "delete" /\ (victims = <<>> \/ total <= MaxBlobs) /\ Goto(s, "over")
      /\ evictionLock' = Nobody /\ pinned' = {} /\ victims' = <<>> /\ total' = 0
      /\ UNCHANGED <<storeVars, pinVars, toProbe, probed, relied, releaseVars, faultVars>>
      /\ UNCHANGED <<stored, holder, claims, released, last_release, candidates, unwanted, skipped,
                     orphans>>
  BY DEF EvictEnd, storeVars, pinVars, releaseVars, faultVars
<1>2. candidates[s] = {}
  BY <1>0, <1>1 DEF CleanUpShape, Sweeping
<1>3. ActorTypes' /\ SessionStep(s) /\ Shape' /\ pc'[s] = "over" /\ op[s] = "finish"
  BY <1>1, <1>2, OverMoves
<1>4. TypeOK'
  <2>1. StoreTypes' /\ HolderTypes' /\ ReleaseTypes' /\ FaultTypes'
    BY <1>0, <1>1 DEF Types, StoreTypes, HolderTypes, ReleaseTypes, FaultTypes, storeVars, pinVars,
                      releaseVars, faultVars
  <2>2. RemovalTypes'
    BY <1>0, <1>1 DEF Types, RemovalTypes
  <2>3. QED
    BY <1>3, <2>1, <2>2, TypeParts DEF Types
<1>5. ~Before(s)
  BY <1>3 DEF Before
<1>6. Owned' /\ Numbered' /\ Marked'
  BY <1>1, <1>3, <1>5, OwnedKept, NumberedKept, MarkedKept
<1>7. UnclaimedAreSwept'
  <2>1. \A b \in Blobs : ~Sweeps(s, b)
    BY <1>1, <1>2, <1>5 DEF Sweeps
  <2>2. \A b \in Blobs : Unclaimed(b)' => Unclaimed(b)
    BY <1>1 DEF Unclaimed
  <2>3. QED
    BY <1>1, <1>3, <2>1, <2>2, SweptKept
<1>8. PinnedAreSwept' /\ PinnedAreEvicted'
  BY <1>1, PinnedDropped
<1>9. Budget'
  <2>1. CASE \E r \in Sessions : Evicts(r)
    <3>1. PICK r \in Sessions : Evicts(r)
      BY <2>1
    <3>2. r # s
      BY <1>1, <3>1 DEF Evicts
    <3>3. Evicts(r)'
      BY <1>3, <3>1, <3>2 DEF SessionStep, Evicts, Live
    <3>4. QED
      BY <3>3 DEF Budget
  <2>2. CASE "evict" \notin skipped /\ orphans = {} /\ ~\E r \in Sessions : Evicts(r)
    <3>1. Exhaustive \/ Cardinality(stored) <= MaxBlobs
      BY <1>1, <2>2 DEF Duties, Budget
    <3>2. CASE Exhaustive
      <4>1. CASE victims = <<>>
        <5>1. stored = {}
          BY <3>2, <4>1 DEF Exhaustive
        <5>2. QED
          BY <1>1, <5>1, FS_EmptySet DEF Budget
      <4>2. CASE total <= MaxBlobs
        BY <1>1, <3>2, <4>2 DEF Exhaustive, Budget
      <4>3. QED
        BY <1>1, <4>1, <4>2
    <3>3. QED
      BY <1>1, <3>1, <3>2 DEF Budget
  <2>3. QED
    BY <1>1, <2>1, <2>2 DEF Budget
<1>10. QED
  BY <1>3, <1>4, <1>6, <1>7, <1>8, <1>9 DEF Duties

-----------------------------------------------------------------------------
(* Deletions that fail or are given up, and faults.                        *)
LEMMA SweepFailsDuties ==
    ASSUME CInv, NEW s \in Sessions, (ProbeFails(s) /\ candidates[s] # {}) \/ RemoveFails(s)
    PROVE  TypeOK' /\ Duties'
<1> USE SessionsAct DEF CInv
<1>0. Types
  BY TypeParts
<1>1. /\ SweepOn(s, Swept(s)) /\ skipped' = skipped \cup {"sweep"} /\ faults' \in Nat
      /\ evictionLock' = Nobody /\ toProbe' \in {toProbe, {}} /\ pinned' = {} /\ pc[s] = "probe"
      /\ UNCHANGED <<storeVars, probed, victims, total, relied, claims, released, last_release, unwanted,
                     spoiled, unread, orphans, publishers>>
      /\ stored' = stored
  BY <1>0 DEF ProbeFails, RemoveFails, ProbeEnd, Fault, Types, FaultTypes, storeVars
<1>2. HolderTypes' /\ holder' = holder
  <2>1. CASE ProbeFails(s)
    BY <1>0, <2>1 DEF ProbeFails, Types, HolderTypes, pinVars
  <2>2. CASE RemoveFails(s)
    BY <1>0, <1>1, <2>2, ProbeEndTypes DEF RemoveFails, Types
  <2>3. QED
    BY <2>1, <2>2
<1>3. Swept(s) \in SUBSET (Blobs \X Nat) /\ Swept(s) \subseteq candidates[s]
  BY <1>0 DEF Swept, Types, ReleaseTypes
<1>4. /\ ActorTypes' /\ candidates' \in [Sessions -> SUBSET (Blobs \X Nat)]
      /\ SessionStep(s) /\ Shape' /\ Owned' /\ Budget'
      /\ candidates'[s] = Swept(s) /\ pc'[s] # "forget"
  BY <1>1, <1>2, <1>3, SweepOnMoves
<1>5. TypeOK'
  <2>1. StoreTypes' /\ RemovalTypes' /\ ReleaseTypes' /\ FaultTypes'
    BY <1>0, <1>1, <1>4, CacheAssumption DEF Types, StoreTypes, RemovalTypes, ReleaseTypes, FaultTypes,
                                             storeVars
  <2>2. QED
    BY <1>2, <1>4, <2>1, TypeParts DEF Types
<1>6. Numbered' /\ Marked'
  BY <1>1, <1>3, <1>4, NumberedKept, MarkedKept
<1>7. QED
  BY <1>1, <1>4, <1>5, <1>6, SweepIsExcused, PinnedDropped DEF Duties

(* An eviction that cannot read the pins or list the blobs ends the        *)
(* session; whoever has to sweep is another.                               *)
LEMMA EvictFailsDuties ==
    ASSUME CInv, NEW s \in Sessions, ProbeFails(s), candidates[s] = {} PROVE TypeOK' /\ Duties'
<1> USE SessionsAct DEF CInv
<1>0. Types
  BY TypeParts
<1>1. /\ Goto(s, "over") /\ skipped' = skipped \cup {"evict"} /\ faults' \in Nat
      /\ evictionLock' = Nobody /\ toProbe' = {} /\ pinned' = {} /\ pc[s] = "probe"
      /\ UNCHANGED <<storeVars, pinVars, probed, victims, total, relied, claims, released,
                     last_release, candidates, unwanted, spoiled, unread, orphans, publishers>>
      /\ UNCHANGED <<stored, holder>>
  BY <1>0 DEF ProbeFails, Fault, Types, FaultTypes, storeVars, pinVars
<1>2. /\ ActorTypes' /\ SessionStep(s) /\ Shape' /\ pc'[s] = "over" /\ op[s] = "finish"
  BY <1>1, OverMoves
<1>3. TypeOK'
  <2>1. StoreTypes' /\ HolderTypes'
    BY <1>0, <1>1 DEF Types, StoreTypes, HolderTypes, storeVars, pinVars
  <2>2. RemovalTypes' /\ ReleaseTypes' /\ FaultTypes'
    BY <1>0, <1>1 DEF Types, RemovalTypes, ReleaseTypes, FaultTypes
  <2>3. QED
    BY <1>2, <2>1, <2>2, TypeParts DEF Types
<1>4. ~Before(s) /\ \A b \in Blobs : ~Sweeps(s, b)
  BY <1>1, <1>2 DEF Before, Sweeps
<1>5. Owned' /\ Numbered' /\ Marked'
  BY <1>1, <1>2, <1>4, OwnedKept, NumberedKept, MarkedKept
<1>6. UnclaimedAreSwept'
  BY <1>1, <1>2, <1>4, SweptKept DEF Unclaimed
<1>7. QED
  BY <1>1, <1>2, <1>3, <1>5, <1>6, EvictionIsExcused, PinnedDropped DEF Duties

LEMMA EvictDeleteFailsDuties ==
    ASSUME CInv, NEW s \in Sessions, EvictDeleteFails(s) PROVE TypeOK' /\ Duties'
<1> USE DEF CInv
<1>0. Types
  BY TypeParts
<1>1. /\ victims # <<>> /\ victims' = Tail(victims) /\ skipped' = skipped \cup {"evict"}
      /\ faults' = faults + 1
      /\ UNCHANGED <<stored, damaged, recency, lockFile, list, holder, digests, evictionLock, toProbe,
                     probed, pinned, total>>
      /\ UNCHANGED <<pc, op, arg, relied, claims, released, last_release, candidates, unwanted, spoiled,
                     unread, orphans, publishers>>
  BY DEF EvictDeleteFails, Fault, storeVars, pinVars, actorVars, releaseVars
<1>2. TypeOK'
  <2>1. victims' \in Seq(Blobs) /\ faults' \in Nat
    BY <1>0, <1>1 DEF Types, RemovalTypes, FaultTypes
  <2>2. StoreTypes' /\ HolderTypes' /\ RemovalTypes'
    BY <1>0, <1>1, <2>1 DEF Types, StoreTypes, HolderTypes, RemovalTypes
  <2>3. ActorTypes' /\ ReleaseTypes' /\ FaultTypes'
    BY <1>0, <1>1, <2>1 DEF Types, ActorTypes, ReleaseTypes, FaultTypes
  <2>4. QED
    BY <2>2, <2>3, TypeParts DEF Types
<1>3. Shape' /\ Owned' /\ Numbered' /\ Marked'
  BY <1>1 DEF Duties, Shape, ActorShape, CleanUpShape, Owned, Numbered, Marked, Before, Live
<1>4. UnclaimedAreSwept' /\ PinnedAreSwept'
  BY <1>1 DEF Duties, UnclaimedAreSwept, PinnedAreSwept, Unclaimed, SweepsLater, Sweeps, Before, Live
<1>5. QED
  BY <1>1, <1>2, <1>3, <1>4, EvictionIsExcused DEF Duties

(* An eviction that finds the lock taken is given up; who took it, or the  *)
(* session it belongs to, evicts later.                                    *)
LEMMA BusyDuties == ASSUME CInv, NEW s \in Sessions, EvictBusy(s) PROVE TypeOK' /\ Duties'
<1> USE SessionsAct, CacheAssumption DEF CInv
<1>0. Types /\ Shape /\ CleanUpShape(s)
  BY TypeParts DEF Duties, Shape
<1>1. /\ Goto(s, "over") /\ pc[s] = "evict"
      /\ UNCHANGED <<storeVars, pinVars, removalVars, relied, releaseVars, faultVars>>
      /\ UNCHANGED <<stored, holder, evictionLock, pinned, claims, released, last_release, candidates,
                     unwanted, skipped, orphans>>
  BY DEF EvictBusy, storeVars, pinVars, removalVars, releaseVars, faultVars
<1>2. candidates[s] = {}
  BY <1>0, <1>1 DEF CleanUpShape, Sweeping
<1>3. /\ ActorTypes' /\ SessionStep(s) /\ Shape' /\ pc'[s] = "over" /\ op[s] = "finish"
  BY <1>1, <1>2, OverMoves
<1>4. TypeOK'
  <2>1. StoreTypes' /\ HolderTypes' /\ RemovalTypes'
    BY <1>0, <1>1 DEF Types, StoreTypes, HolderTypes, RemovalTypes, storeVars, pinVars, removalVars,
                      faultVars
  <2>2. ReleaseTypes' /\ FaultTypes'
    BY <1>0, <1>1 DEF Types, ReleaseTypes, FaultTypes, releaseVars, faultVars
  <2>3. QED
    BY <1>3, <2>1, <2>2, TypeParts DEF Types
<1>5. ~Before(s) /\ \A b \in Blobs : ~Sweeps(s, b) /\ ~SweepsLater(s, b)
  BY <1>1, <1>2, <1>3 DEF Before, Sweeps, SweepsLater
<1>6. Owned' /\ Numbered' /\ Marked'
  BY <1>1, <1>3, <1>5, OwnedKept, NumberedKept, MarkedKept
<1>7. UnclaimedAreSwept'
  BY <1>1, <1>3, <1>5, SweptKept DEF Unclaimed
<1>8. ASSUME orphans = {} PROVE \E r \in Sessions : r # s /\ EvictsLater(r)
  <2>1. PICK a \in Actors \ {s} : \/ pc[a] = "add" /\ holder[a] = "held"
                                  \/ evictionLock = a /\ candidates[a] # {}
    BY DEF EvictBusy
  <2>2. CASE pc[a] = "add"
    <3>1. PICK r \in Sessions : Before(r)
      <4>1. CASE a \in Sessions
        BY <1>0, <2>2, <4>1 DEF Shape, ActorShape, Working, Using, Before, Live
      <4>2. CASE a \in Processes
        BY <1>8, <2>2, <4>2 DEF Duties, Owned, Live
      <4>3. QED
        BY <4>1, <4>2 DEF Actors
    <3>2. r # s /\ pc[r] # "delete"
      BY <1>0, <1>5, <3>1 DEF Shape, CleanUpShape, Before
    <3>3. QED
      BY <3>1, <3>2 DEF EvictsLater, Evicts, Before
  <2>3. CASE evictionLock = a /\ candidates[a] # {}
    <3>1. a \in Sessions /\ a # s
      BY <2>1, <2>3 DEF Inv, LockHolder
    <3>2. pc[a] \in Sweeping
      BY <1>0, <2>3, <3>1 DEF Shape, CleanUpShape
    <3>3. QED
      BY <2>3, <3>1, <3>2 DEF EvictsLater, Evicts, Live, Sweeping
  <2>4. QED
    BY <2>1, <2>2, <2>3
<1>9. ASSUME NEW r \in Sessions, r # s, EvictsLater(r) PROVE EvictsLater(r)' /\ Evicts(r)'
  BY <1>1, <1>3, <1>9 DEF SessionStep, EvictsLater, Evicts, Before, Live
<1>10. PinnedAreEvicted' /\ Budget'
  BY <1>1, <1>8, <1>9 DEF PinnedAreEvicted, Budget
<1>11. PinnedAreSwept'
  <2> SUFFICES ASSUME "sweep" \notin skipped, orphans = {}, NEW b \in pinned, Unclaimed(b)'
               PROVE  \E r \in Sessions : SweepsLater(r, b)'
    BY <1>1 DEF PinnedAreSwept
  <2>1. b \in Blobs /\ Unclaimed(b)
    BY <1>0, <1>1 DEF Types, RemovalTypes, Unclaimed
  <2>2. PICK r \in Sessions : SweepsLater(r, b)
    BY <2>1 DEF Duties, PinnedAreSwept
  <2>3. r # s
    BY <1>5, <2>1, <2>2
  <2>4. QED
    BY <1>1, <1>3, <2>2, <2>3 DEF SessionStep, SweepsLater, Sweeps, Before, Live
<1>12. QED
  BY <1>3, <1>4, <1>6, <1>7, <1>10, <1>11 DEF Duties

LEMMA DieTypes ==
    ASSUME CInv, NEW as \in SUBSET Actors, Die(as)
    PROVE  /\ ActorTypes' /\ HolderTypes' /\ StoreTypes' /\ faults' \in Nat
           /\ \A a \in as : /\ holder'[a] = "none" /\ op'[a] = "none" /\ arg'[a] = Nobody
                            /\ pc'[a] = IF pc[a] = "new" THEN "new" ELSE "over"
           /\ \A a \in Actors \ as : /\ holder'[a] = holder[a] /\ op'[a] = op[a] /\ arg'[a] = arg[a]
                                     /\ pc'[a] = pc[a]
           /\ UNCHANGED <<stored, spoiled, unread, publishers>>
<1> USE DEF CInv
<1>0. Types
  BY TypeParts
<1>1. ActorTypes'
  BY <1>0 DEF Die, Types, ActorTypes, Steps, Ops
<1>2. HolderTypes'
  BY <1>0 DEF Die, Types, HolderTypes
<1>3. StoreTypes' /\ faults' \in Nat /\ UNCHANGED <<stored, spoiled, unread, publishers>>
  BY <1>0 DEF Die, Fault, Types, StoreTypes, FaultTypes, storeVars
<1>4. /\ \A a \in as : /\ holder'[a] = "none" /\ op'[a] = "none" /\ arg'[a] = Nobody
                       /\ pc'[a] = IF pc[a] = "new" THEN "new" ELSE "over"
      /\ \A a \in Actors \ as : /\ holder'[a] = holder[a] /\ op'[a] = op[a] /\ arg'[a] = arg[a]
                                /\ pc'[a] = pc[a]
  BY DEF Die
<1>5. QED
  BY <1>1, <1>2, <1>3, <1>4

LEMMA CrashDuties ==
    ASSUME CInv, (\E p \in Processes : CrashProcess(p)) \/ CrashAgent PROVE TypeOK' /\ Duties'
<1> USE SessionsAct, CacheAssumption DEF CInv
<1>0. Types /\ Shape
  BY TypeParts DEF Duties
<1>1. ASSUME NEW p \in Processes, CrashProcess(p) PROVE TypeOK' /\ Duties'
  <2>1. /\ Live(p) /\ Die({p}) /\ UNCHANGED <<removalVars, releaseVars, skipped, orphans>>
        /\ UNCHANGED <<evictionLock, pinned, victims, total, claims, released, last_release,
                       candidates, unwanted>>
    BY <1>1 DEF CrashProcess, removalVars, releaseVars
  <2>2. /\ ActorTypes' /\ HolderTypes' /\ StoreTypes' /\ faults' \in Nat
        /\ holder'[p] = "none" /\ op'[p] = "none" /\ arg'[p] = Nobody /\ pc'[p] = "over"
        /\ \A a \in Actors : a # p => /\ holder'[a] = holder[a] /\ op'[a] = op[a] /\ arg'[a] = arg[a]
                                      /\ pc'[a] = pc[a]
        /\ UNCHANGED <<stored, spoiled, unread, publishers>>
    BY <2>1, DieTypes DEF Live
  <2>3. TypeOK'
    <3>1. RemovalTypes' /\ ReleaseTypes' /\ FaultTypes'
      BY <1>0, <2>1, <2>2 DEF Types, RemovalTypes, ReleaseTypes, FaultTypes, removalVars, releaseVars
    <3>2. QED
      BY <2>2, <3>1, TypeParts DEF Types
  <2>4. pc[p] \in Working /\ pc[p] # "new"
    BY <1>0, <2>1 DEF Shape, Live
  <2>5. ActorShape(p)'
    BY <2>2 DEF ActorShape, Working, Using
  <2>6. AtWork(p)
    BY <2>1, <2>2, <2>4, <2>5 DEF AtWork
  <2>7. QED
    BY <2>3, <2>6, AtWorkKeeps
<1>2. CASE CrashAgent
  <2>1. /\ Die(Sessions) /\ evictionLock' = Nobody /\ toProbe' = {} /\ probed' = Nobody /\ pinned' = {}
        /\ victims' = <<>> /\ total' = 0 /\ unwanted' = {} /\ skipped' = skipped \cup {"evict"}
        /\ orphans' = orphans \cup {p \in Processes : Live(p)}
        /\ claims' = [b \in Blobs |-> {}] /\ released' = [b \in Blobs |-> 0]
        /\ candidates' = [s \in Sessions |-> {}] /\ last_release' = last_release
    BY <1>2 DEF CrashAgent
  <2>2. /\ ActorTypes' /\ HolderTypes' /\ StoreTypes' /\ faults' \in Nat
        /\ \A s \in Sessions : /\ holder'[s] = "none" /\ op'[s] = "none"
                               /\ pc'[s] \in {"new", "over"}
        /\ \A p \in Processes : /\ holder'[p] = holder[p] /\ op'[p] = op[p] /\ arg'[p] = arg[p]
                                /\ pc'[p] = pc[p]
        /\ UNCHANGED <<spoiled, unread, publishers>>
    BY <2>1, DieTypes
  <2>3. TypeOK'
    <3>1. RemovalTypes' /\ ReleaseTypes' /\ FaultTypes'
      BY <1>0, <2>1, <2>2 DEF Types, RemovalTypes, ReleaseTypes, FaultTypes
    <3>2. QED
      BY <2>2, <3>1, TypeParts DEF Types
  <2>4. Shape'
    <3>1. ASSUME NEW s \in Sessions PROVE ActorShape(s)' /\ CleanUpShape(s)'
      BY <2>1, <2>2 DEF ActorShape, CleanUpShape, Working, Using, Sweeping, Removal
    <3>2. ASSUME NEW p \in Processes PROVE ActorShape(p)' /\ pc'[p] \in Working \cup {"new", "over"}
      BY <1>0, <2>2 DEF Shape, ActorShape, Live
    <3>3. QED
      BY <3>1, <3>2 DEF Shape, Actors
  <2>5. Numbered' /\ Marked'
    BY <1>0, <2>1 DEF Numbered, Marked, Types, ReleaseTypes
  <2>6. Owned' /\ UnclaimedAreSwept' /\ PinnedAreSwept'
    BY <2>1, <2>2 DEF Owned, UnclaimedAreSwept, PinnedAreSwept, Unclaimed, Live
  <2>7. QED
    BY <2>1, <2>3, <2>4, <2>5, <2>6, EvictionIsExcused DEF Duties
<1>3. QED
  BY <1>1, <1>2

LEMMA DamageDuties == ASSUME CInv, NEW b \in Blobs, Damage(b) PROVE TypeOK' /\ Duties'
<1> USE DEF CInv
<1>0. Types
  BY TypeParts
<1>1. /\ UNCHANGED <<stored, recency, pinVars, removalVars, actorVars, releaseVars, spoiled, unread,
                     skipped, orphans, publishers>>
      /\ UNCHANGED <<holder, evictionLock, pinned, victims, total, pc, op, arg, relied, claims,
                     released, last_release, candidates, unwanted>>
      /\ faults' = faults + 1 /\ damaged' = damaged \cup {b} /\ b \in stored
  BY DEF Damage, Fault, pinVars, removalVars, actorVars, releaseVars
<1>2. TypeOK'
  <2>1. StoreTypes' /\ HolderTypes' /\ RemovalTypes'
    BY <1>0, <1>1 DEF Types, StoreTypes, HolderTypes, RemovalTypes, pinVars, removalVars
  <2>2. ActorTypes' /\ ReleaseTypes' /\ FaultTypes'
    BY <1>0, <1>1 DEF Types, ActorTypes, ReleaseTypes, FaultTypes
  <2>3. QED
    BY <2>1, <2>2, TypeParts DEF Types
<1>3. Shape' /\ Owned' /\ Numbered' /\ Marked'
  BY <1>1 DEF Duties, Shape, ActorShape, CleanUpShape, Owned, Numbered, Marked, Before, Live
<1>4. UnclaimedAreSwept' /\ PinnedAreSwept' /\ PinnedAreEvicted' /\ Budget'
  BY <1>1 DEF Duties, UnclaimedAreSwept, PinnedAreSwept, PinnedAreEvicted, Budget, Unclaimed,
              SweepsLater, Sweeps, EvictsLater, Evicts, Exhaustive, Before, Live
<1>5. QED
  BY <1>2, <1>3, <1>4 DEF Duties

LEMMA StutterDuties == ASSUME CInv, UNCHANGED vars PROVE TypeOK' /\ Duties'
<1> USE DEF CInv
<1>1. /\ UNCHANGED <<stored, damaged, recency, lockFile, list, holder, digests>>
      /\ UNCHANGED <<evictionLock, toProbe, probed, pinned, victims, total, pc, op, arg, relied>>
      /\ UNCHANGED <<claims, released, last_release, candidates, unwanted, faults, spoiled, unread,
                     skipped, orphans, publishers>>
  BY DEF vars, storeVars, pinVars, removalVars, actorVars, releaseVars, faultVars
<1>2. TypeOK'
  BY <1>1 DEF TypeOK
<1>3. Shape' /\ Owned' /\ Numbered' /\ Marked'
  BY <1>1 DEF Duties, Shape, ActorShape, CleanUpShape, Owned, Numbered, Marked, Before, Live
<1>4. UnclaimedAreSwept' /\ PinnedAreSwept' /\ PinnedAreEvicted' /\ Budget'
  BY <1>1 DEF Duties, UnclaimedAreSwept, PinnedAreSwept, PinnedAreEvicted, Budget, Unclaimed,
              SweepsLater, Sweeps, EvictsLater, Evicts, Exhaustive, Before, Live
<1>5. QED
  BY <1>2, <1>3, <1>4 DEF Duties

-----------------------------------------------------------------------------
LEMMA NextDuties == CInv /\ [Next]_vars => TypeOK' /\ Duties'
<1> SUFFICES ASSUME CInv, [Next]_vars PROVE TypeOK' /\ Duties'
  OBVIOUS
<1> USE SessionsAct
<1>1. ASSUME NEW a \in Actors, Start(a) \/ Pinning(a) \/ Storing(a) PROVE TypeOK' /\ Duties'
  BY <1>1, MoveSteps, PinSetDuties, AddDuties, UseDuties DEF Pinning, Storing
<1>2. ASSUME NEW s \in Sessions, Frame(s) PROVE TypeOK' /\ Duties'
  <2>1. ASSUME NEW b \in Blobs, Begin(s, "use", b) PROVE TypeOK' /\ Duties'
    BY <2>1, MoveSteps
  <2>2. QED
    BY <1>2, <2>1, UseDuties, ReleaseDuties, FinishDuties DEF Frame
<1>3. ASSUME NEW s \in Sessions, Removing(s) PROVE TypeOK' /\ Duties'
  <2>1. CASE ProbeFails(s) \/ RemoveFails(s) \/ EvictDeleteFails(s) \/ EvictBusy(s)
    BY <2>1, SweepFailsDuties, EvictFailsDuties, EvictDeleteFailsDuties, BusyDuties
  <2>2. QED
    BY <1>3, <2>1, SweepCopyDuties, LockDuties, LiveDuties, DeadDuties, RemoveDuties, ForgetDuties,
       EvictListDuties, EvictDeleteDuties, EvictEndDuties DEF Removing
<1>4. ASSUME NEW p \in Processes, Task(p) PROVE TypeOK' /\ Duties'
  <2>1. ASSUME NEW b \in Blobs, Begin(p, IF p \in publishers THEN "store" ELSE "use", b)
        PROVE  TypeOK' /\ Duties'
    BY <2>1, MoveSteps
  <2>2. QED
    BY <1>4, <2>1, MoveSteps, EndDuties, CrashDuties DEF Task
<1>5. QED
  BY <1>1, <1>2, <1>3, <1>4, CrashDuties, DamageDuties, StutterDuties DEF Next

(* The inductive invariant holds throughout: pins are kept, and every      *)
(* blob that should go and every blob over the budget is some session's    *)
(* business, unless a deletion failed.                                     *)
THEOREM CacheInvariance == Spec => []CInv
<1>1. Init => CInv
  BY InitInv, InitDuties DEF CInv
<1>2. CInv /\ [Next]_vars => CInv'
  BY NextInv, NextDuties DEF CInv
<1>3. QED
  BY <1>1, <1>2, PTL DEF Spec

(* Every variable keeps its type; in particular a file counts as bad only  *)
(* while it is there.                                                      *)
THEOREM TypeCorrectness == Spec => []TypeOK
<1>1. CInv => TypeOK
  BY DEF CInv
<1>2. QED
  BY <1>1, CacheInvariance, PTL

(* No release is lost: once every session has made its last sweep, what    *)
(* was released and neither declared nor stored again is gone, unless a    *)
(* coordinator still claims it, however ReleasedBlobs::sweep(), claim()    *)
(* and release() of any number of sessions interleave; a deletion that     *)
(* failed in an earlier sweep is made up for by the next one.              *)
THEOREM ReleasesAreNotLost == Spec => []ReleasedAreDeleted
<1>1. ASSUME CInv PROVE ReleasedAreDeleted
  <2> SUFFICES ASSUME "sweep" \notin skipped, orphans = {},
                      \A a \in Actors : pc[a] \in {"new", "evict", "over"},
                      NEW b \in unwanted \cap stored, claims[b] = {}
               PROVE  FALSE
    BY DEF ReleasedAreDeleted
  <2>1. b \in Blobs
    BY <1>1, TypeParts DEF CInv, Types, StoreTypes
  <2>2. PICK s \in Sessions : Sweeps(s, b)
    BY <1>1, <2>1 DEF CInv, Duties, UnclaimedAreSwept, Unclaimed
  <2>3. pc[s] \in {"new", "evict", "over"} /\ CleanUpShape(s)
    BY <1>1, SessionsAct DEF CInv, Duties, Shape
  <2>4. candidates[s] = {} /\ ~Before(s)
    BY <2>3 DEF CleanUpShape, Sweeping, Before, Live
  <2>5. QED
    BY <2>2, <2>3, <2>4 DEF Sweeps
<1>2. QED
  BY <1>1, CacheInvariance, PTL

(* The last session to end leaves the cache within its budget, whatever    *)
(* earlier evictions had to keep for the pins of the others, failed to     *)
(* delete or gave up over a busy lock, for any number of sessions,         *)
(* processes and blobs.                                                    *)
THEOREM BudgetIsMet == Spec => []BudgetEnforced
<1>1. ASSUME CInv PROVE BudgetEnforced
  <2> SUFFICES ASSUME AtRest, "evict" \notin skipped, orphans = {}, NEW s \in Sessions, pc[s] = "over"
               PROVE  Cardinality(stored) <= MaxBlobs
    BY DEF BudgetEnforced
  <2>1. \A r \in Sessions : pc[r] \in {"new", "over"}
    BY SessionsAct DEF AtRest
  <2>2. QED
    BY <1>1, <2>1 DEF CInv, Duties, Budget, Evicts, Live
<1>2. QED
  BY <1>1, CacheInvariance, PTL
=============================================================================
