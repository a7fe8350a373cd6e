------------------------ MODULE WorkerAdmissionProofs ------------------------
(***************************************************************************)
(* What is proved about WorkerAdmission for any coordinators, task types,  *)
(* leases, slots and memory: slots and memory are booked for exactly the   *)
(* leases that need them, and the slots of a type are never exceeded.      *)
(***************************************************************************)
EXTENDS WorkerAdmission, SequenceTheorems, FiniteSetTheorems, TLAPS

-----------------------------------------------------------------------------
(* The queues that stand for tickets.                                      *)
LEMMA RemovedFromQueue ==
    ASSUME NEW S, NEW q \in Seq(S), NEW x PROVE Without(q, x) \in Seq(S)
<1>1. CASE ~In(x, q)
  BY <1>1 DEF Without
<1>2. CASE In(x, q)
  <2> DEFINE i == CHOOSE k \in DOMAIN q : q[k] = x
  <2>1. i \in DOMAIN q
    BY <1>2 DEF In
  <2> HIDE DEF i
  <2>2. i \in 1..Len(q) /\ Len(q) \in Nat /\ \A j \in 1..Len(q) : q[j] \in S
    BY <2>1
  <2>3. SubSeq(q, 1, i - 1) \in Seq(S) /\ SubSeq(q, i + 1, Len(q)) \in Seq(S)
    BY <2>2
  <2>4. Without(q, x) = SubSeq(q, 1, i - 1) \o SubSeq(q, i + 1, Len(q))
    BY <1>2 DEF Without, RemoveAt, i
  <2>5. QED
    BY <2>3, <2>4, ConcatProperties
<1>3. QED
  BY <1>1, <1>2

LEMMA Enqueued ==
    ASSUME NEW S, NEW q \in Seq(S), NEW x \in S PROVE Enqueue(q, x) \in Seq(S)
  BY DEF Enqueue

-----------------------------------------------------------------------------
(* Types and the books: slots and memory.                                  *)
BooksOK ==
    /\ status \in [Leases -> {"idle", "slot", "refused", "running", "ending"}]
    /\ held = {l \in Leases : status[l] # "idle"}
    /\ admitted = {l \in Leases : status[l] = "running"}

QueuesOK ==
    /\ wanted \subseteq Leases
    /\ waiting \in [Types -> Seq(Coordinators)] /\ local \in [Types -> Nat]
    /\ waits \in Seq(Types) /\ waitingFor \in [Types -> SUBSET Leases]
    /\ rests \subseteq Types /\ faults \in Nat

LEMMA TypeOKParts == TypeOK <=> BooksOK /\ QueuesOK
  BY DEF TypeOK, BooksOK, QueuesOK

LEMMA InitTypeOK == Init => TypeOK
<1> SUFFICES ASSUME Init PROVE BooksOK /\ QueuesOK
  BY TypeOKParts
<1>1. BooksOK
  BY DEF Init, BooksOK
<1>2. QueuesOK
  BY DEF Init, QueuesOK
<1>3. QED
  BY <1>1, <1>2

LEMMA LeaseTypeOK ==
    ASSUME TypeOK, NEW l \in Leases,
           Assign(l) \/ Release(l) \/ Pressure(l) \/ Withdraw(l) \/ Return(l)
    PROVE  TypeOK'
<1> USE TypeOKParts
<1>0. /\ TypeOf[l] \in Types /\ Of[l] \in Coordinators
      /\ waiting[TypeOf[l]] \in Seq(Coordinators)
      /\ admitted \subseteq Leases
  BY AdmissionAssumption DEF QueuesOK, BooksOK
<1>1. BooksOK'
  BY DEF BooksOK, Assign, Release, TakeSlot, SlotRefused, Admit, YieldsMemory, MemoryRefused,
         LeaseEnds, ReleaseSlot, ReleaseMemory, Pressure, Withdraw, Return, Goto, slotVars, turnVars
<1>2. CASE TakeSlot(l) \/ SlotRefused(l)
  <2>1. Without(waiting[TypeOf[l]], Of[l]) \in Seq(Coordinators)
    BY <1>0, RemovedFromQueue
  <2>2. Enqueue(waiting[TypeOf[l]], Of[l]) \in Seq(Coordinators)
    BY <1>0, Enqueued
  <2>3. QueuesOK'
    BY <1>2, <2>1, <2>2 DEF QueuesOK, TakeSlot, SlotRefused, slotVars, turnVars
  <2>4. QED
    BY <1>1, <2>3 DEF TypeOK, BooksOK, QueuesOK
<1>3. CASE Admit(l) \/ YieldsMemory(l) \/ MemoryRefused(l)
  <2>1. Without(waits, TypeOf[l]) \in Seq(Types)
    BY RemovedFromQueue DEF QueuesOK
  <2>2. Append(waits, TypeOf[l]) \in Seq(Types)
    BY <1>0 DEF QueuesOK
  <2>3. QueuesOK'
    BY <1>0, <1>3, <2>1, <2>2
    DEF QueuesOK, Admit, YieldsMemory, MemoryRefused, EndFruitless, Running, slotVars, turnVars
  <2>4. QED
    BY <1>1, <2>3 DEF TypeOK, BooksOK, QueuesOK
<1>4. CASE Release(l) \/ Pressure(l) \/ Withdraw(l) \/ Return(l)
  <2>1. QueuesOK'
    BY <1>4 DEF QueuesOK, Release, LeaseEnds, ReleaseSlot, ReleaseMemory, Pressure, Withdraw,
                Return, Fault, slotVars, turnVars
  <2>2. QED
    BY <1>1, <2>1 DEF TypeOK, BooksOK, QueuesOK
<1>5. QED
  BY <1>2, <1>3, <1>4 DEF Assign

LEMMA TimeTypeOK ==
    ASSUME TypeOK, NEW t \in Types, Time(t) \/ TurnOverdue(t) \/ LocalStarts(t)
    PROVE  TypeOK'
<1> USE TypeOKParts
<1>1. BooksOK'
  BY DEF BooksOK, Time, TurnLapses, RestOver, LocalEnds, SlotWaitLapses, TurnOverdue,
         LocalStarts, slotVars
<1>2. \A c \in Coordinators : Without(waiting[t], c) \in Seq(Coordinators)
  BY RemovedFromQueue DEF QueuesOK
<1>3. Without(waits, t) \in Seq(Types)
  BY RemovedFromQueue DEF QueuesOK
<1>4. QueuesOK'
  <2>0. QueuesOK
    OBVIOUS
  <2>1. CASE TurnLapses(t) \/ TurnOverdue(t)
    <3>1. /\ waits' \in Seq(Types) /\ waitingFor' = [waitingFor EXCEPT ![t] = {}]
          /\ rests' \subseteq rests \cup {t} /\ faults' \in {faults, faults + 1}
          /\ UNCHANGED <<wanted, waiting, local>>
      BY <1>3, <2>1 DEF TurnLapses, TurnOverdue, EndFruitless, Fault, slotVars
    <3>2. QED
      BY <2>0, <3>1 DEF QueuesOK
  <2>2. CASE RestOver(t) \/ LocalEnds(t) \/ LocalStarts(t)
    <3>1. /\ UNCHANGED <<wanted, waiting, waits, waitingFor>>
          /\ rests' \subseteq rests /\ faults' \in {faults, faults + 1}
      BY <2>2 DEF RestOver, LocalEnds, LocalStarts, Fault, slotVars, turnVars
    <3>2. \/ local' = local
          \/ local[t] > 0 /\ local' = [local EXCEPT ![t] = @ - 1]
          \/ local' = [local EXCEPT ![t] = @ + 1]
      BY <2>2 DEF RestOver, LocalEnds, LocalStarts, slotVars
    <3>3. local' \in [Types -> Nat]
      <4>1. local \in [Types -> Nat] /\ local[t] \in Nat
        BY <2>0 DEF QueuesOK
      <4>2. local[t] + 1 \in Nat /\ (local[t] > 0 => local[t] - 1 \in Nat)
        BY <4>1
      <4>3. QED
        BY <3>2, <4>1, <4>2
    <3>4. QED
      BY <2>0, <3>1, <3>3 DEF QueuesOK
  <2>3. ASSUME NEW c \in Coordinators, SlotWaitLapses(c, t) PROVE QueuesOK'
    BY <1>2, <2>3 DEF QueuesOK, SlotWaitLapses, turnVars
  <2>4. QED
    BY <2>1, <2>2, <2>3 DEF Time
<1>5. QED
  BY <1>1, <1>4 DEF TypeOK, BooksOK, QueuesOK

LEMMA SessionTypeOK ==
    ASSUME TypeOK, NEW c \in Coordinators, SessionEnds(c) PROVE TypeOK'
<1> USE TypeOKParts
<1>1. BooksOK'
  BY DEF BooksOK, SessionEnds, ReleaseMemory, slotVars
<1>2. faults' \in Nat
  BY DEF QueuesOK, SessionEnds, Fault
<1>3. QueuesOK'
  BY <1>2 DEF QueuesOK, SessionEnds, ReleaseMemory, slotVars
<1>4. QED
  BY <1>1, <1>3 DEF TypeOK, BooksOK, QueuesOK

LEMMA NextTypeOK == TypeOK /\ [Next]_vars => TypeOK'
<1>1. ASSUME TypeOK, UNCHANGED vars PROVE TypeOK'
  BY <1>1 DEF TypeOK, vars, slotVars, turnVars
<1>2. QED
  BY <1>1, LeaseTypeOK, TimeTypeOK, SessionTypeOK DEF Next

(* Types, and no slot or memory leaks: whatever way a lease ends, in a     *)
(* result, a cancel, a refusal or with its session, its slot and memory    *)
(* are booked exactly while assign() or the task needs them.               *)
THEOREM TypeCorrect == Spec => []TypeOK
  BY InitTypeOK, NextTypeOK, PTL DEF Spec

-----------------------------------------------------------------------------
(* The slots of a type.                                                    *)
LEMMA HeldFinite ==
    ASSUME TypeOK, NEW t PROVE IsFiniteSet(Held(t)) /\ Held(t) \subseteq Leases
  BY AdmissionAssumption, FS_Subset DEF TypeOK, Held

(* A type of which no more is held stays within its slots.                 *)
LEMMA FewerHeld ==
    ASSUME TypeOK, NEW t \in Types, Held(t)' \subseteq Held(t), WithinSlots(t)
    PROVE  WithinSlots(t)'
<1>1. PICK c \in Coordinators : Cardinality(Held(t)) <= Declared[c][t]
  BY DEF WithinSlots
<1>2. /\ Cardinality(Held(t)') <= Cardinality(Held(t))
      /\ Cardinality(Held(t)') \in Nat /\ Cardinality(Held(t)) \in Nat
  BY HeldFinite, FS_Subset, FS_CardinalityType
<1>3. Declared[c][t] \in Nat
  BY AdmissionAssumption
<1>4. QED
  BY <1>1, <1>2, <1>3 DEF WithinSlots

(* A coordinator that has no more tasks of each type than it has slots.    *)
KeepsToSlots ==
    \A c \in Coordinators, t \in Types :
        /\ Declared[c][t] > 0
        /\ Cardinality({l \in Leases : Of[l] = c /\ TypeOf[l] = t}) <= Declared[c][t]

LEMMA SlotTaken ==
    ASSUME TypeOK, TypeOK', KeepsToSlots, NEW l \in Leases, TakeSlot(l)
    PROVE  WithinSlots(TypeOf[l])'
<1> DEFINE c == Of[l]
           t == TypeOf[l]
           mine == {k \in Leases : Of[k] = c /\ TypeOf[k] = t}
<1>1. c \in Coordinators /\ t \in Types /\ Declared[c][t] \in Nat
  BY AdmissionAssumption
<1>2. Held(t)' = Held(t) \cup {l}
  BY DEF TakeSlot, Held
<1>3. SlotFree(c, t) /\ Declared[c][t] # 0
  <2>1. SlotFree(c, t)
    BY DEF TakeSlot
  <2>2. Declared[c][t] > 0
    BY <1>1 DEF KeepsToSlots
  <2>3. QED
    BY <1>1, <2>1, <2>2
<1>4. CASE Uncontended(c, t)
  <2>1. Held(t)' \subseteq mine
    BY <1>2, <1>4, HeldFinite DEF Uncontended, HeldBy, Held
  <2>2. IsFiniteSet(mine)
    BY AdmissionAssumption, FS_Subset
  <2>3. /\ Cardinality(Held(t)') <= Cardinality(mine)
        /\ Cardinality(Held(t)') \in Nat /\ Cardinality(mine) \in Nat
    BY <2>1, <2>2, FS_Subset, FS_CardinalityType
  <2>4. Cardinality(mine) <= Declared[c][t]
    BY <1>1 DEF KeepsToSlots
  <2>5. QED
    BY <1>1, <2>3, <2>4 DEF WithinSlots
<1>5. CASE Cardinality(Held(t)) + local[t] < Declared[c][t]
  <2>1. Cardinality(Held(t)) \in Nat /\ local[t] \in Nat
    BY <1>1, HeldFinite, FS_CardinalityType DEF TypeOK
  <2>2. Cardinality(Held(t)') <= Cardinality(Held(t)) + 1 /\ Cardinality(Held(t)') \in Nat
    <3>1. Cardinality(Held(t) \cup {l})
              = IF l \in Held(t) THEN Cardinality(Held(t)) ELSE Cardinality(Held(t)) + 1
      BY HeldFinite, FS_AddElement
    <3>2. QED
      BY <1>2, <2>1, <3>1
  <2>3. QED
    BY <1>1, <1>5, <2>1, <2>2 DEF WithinSlots
<1>6. QED
  BY <1>3, <1>4, <1>5 DEF SlotFree

LEMMA NextWithinSlots ==
    ASSUME TypeOK, TypeOK', KeepsToSlots, [Next]_vars, \A t \in Types : WithinSlots(t)
    PROVE  \A t \in Types : WithinSlots(t)'
<1>1. ASSUME NEW l \in Leases, TakeSlot(l) PROVE \A t \in Types : WithinSlots(t)'
  <2> TAKE t \in Types
  <2>1. CASE t = TypeOf[l]
    BY <1>1, <2>1, SlotTaken
  <2>2. CASE t # TypeOf[l]
    <3>1. Held(t)' \subseteq Held(t)
      BY <1>1, <2>2 DEF TakeSlot, Held
    <3>2. QED
      BY <3>1, FewerHeld
  <2>3. QED
    BY <2>1, <2>2
<1>2. ASSUME held' \subseteq held PROVE \A t \in Types : WithinSlots(t)'
  <2> TAKE t \in Types
  <2>1. Held(t)' \subseteq Held(t)
    BY <1>2 DEF Held
  <2>2. QED
    BY <2>1, FewerHeld
<1>3. ASSUME NEW l \in Leases,
             \/ SlotRefused(l) \/ Admit(l) \/ YieldsMemory(l) \/ MemoryRefused(l)
             \/ Release(l) \/ Pressure(l) \/ Withdraw(l) \/ Return(l)
      PROVE  held' \subseteq held
  BY <1>3 DEF SlotRefused, Admit, YieldsMemory, MemoryRefused, Release, LeaseEnds, ReleaseSlot,
              Pressure, Withdraw, Return, slotVars
<1>4. ASSUME NEW t \in Types, Time(t) \/ TurnOverdue(t) \/ LocalStarts(t)
      PROVE  held' = held
  BY <1>4 DEF Time, TurnLapses, RestOver, LocalEnds, SlotWaitLapses, TurnOverdue, LocalStarts,
              slotVars
<1>5. ASSUME NEW c \in Coordinators, SessionEnds(c) PROVE held' = held
  BY <1>5 DEF SessionEnds, slotVars
<1>6. CASE UNCHANGED vars
  BY <1>2, <1>6 DEF vars, slotVars
<1>7. QED
  BY <1>1, <1>2, <1>3, <1>4, <1>5, <1>6 DEF Next, Assign

(* However the sessions of different coordinators interleave, and whatever *)
(* slots each of them declared, they hold together no more slots of a type *)
(* than the one that declared most (SlotSharing::try_take()).              *)
THEOREM SlotsAreBounded == Coordinators # {} /\ Spec => []SlotsBounded
<1> DEFINE P == \A t \in Types : WithinSlots(t)
           IP == TypeOK /\ (KeepsToSlots => P)
<1>1. SlotsBounded <=> (KeepsToSlots => P)
  BY DEF SlotsBounded, KeepsToSlots
<1>2. Coordinators # {} /\ Init => P
  <2> SUFFICES ASSUME Coordinators # {}, Init, NEW t \in Types PROVE WithinSlots(t)
    OBVIOUS
  <2>1. PICK c \in Coordinators : TRUE
    OBVIOUS
  <2>2. Cardinality(Held(t)) = 0
    BY FS_EmptySet DEF Init, Held
  <2>3. Declared[c][t] \in Nat
    BY AdmissionAssumption
  <2>4. QED
    BY <2>2, <2>3 DEF WithinSlots
<1>3. IP /\ [Next]_vars => IP'
  <2> SUFFICES ASSUME IP, [Next]_vars PROVE IP'
    OBVIOUS
  <2>1. TypeOK'
    BY NextTypeOK
  <2>2. ASSUME KeepsToSlots PROVE \A t \in Types : WithinSlots(t)'
    BY <2>1, <2>2, NextWithinSlots
  <2>3. KeepsToSlots' <=> KeepsToSlots
    BY DEF KeepsToSlots
  <2>4. QED
    BY <2>1, <2>2, <2>3
<1>4. Coordinators # {} /\ Init => IP
  BY <1>2, InitTypeOK
<1>5. IP => SlotsBounded
  BY <1>1
<1>6. QED
  BY <1>3, <1>4, <1>5, PTL DEF Spec
=============================================================================
