--------------------------- MODULE WorkerAdmission ---------------------------
(***************************************************************************)
(* How a worker agent admits the leases of several coordinators.           *)
(*                                                                         *)
(* AgentSession::assign() first takes a slot of the task type              *)
(* (SlotSharing::try_take) and then memory (AdmissionLedger::try_admit,    *)
(* with MemoryTurns); a lease refused for memory gives its slot back.  A   *)
(* coordinator that was refused asks again every rejection backoff, for as *)
(* long as it has tasks of the type.  Each call is atomic under the mutex  *)
(* of its class; the sessions interleave between the calls.                *)
(*                                                                         *)
(* Tickets only order the waiting, so a queue stands for them.  Windows    *)
(* are steps of their own: five backoffs pass only without an ask.  The    *)
(* ledger subtracts what the processes already use from their estimates    *)
(* and from the memory available, so what is left is Memory less the       *)
(* estimates of the running leases.                                        *)
(***************************************************************************)
EXTENDS Naturals, Sequences, FiniteSets, SequencesExt

CONSTANTS
    Coordinators, Types, Leases,
    Of, TypeOf,      \* a lease's coordinator and task type
    Declared,        \* Declared[c][t]: slots c's session declared, 0 for none
    Need,            \* Need[t]: estimated peak memory of a task of type t
    Memory,          \* what the worker can hand out, its reserve kept
    MaxFaults        \* bound: events that delay or disturb admission

ASSUME AdmissionAssumption ==
    /\ IsFiniteSet(Leases)
    /\ Of \in [Leases -> Coordinators] /\ TypeOf \in [Leases -> Types]
    /\ Declared \in [Coordinators -> [Types -> Nat]]
    /\ Need \in [Types -> Nat] /\ Memory \in Nat /\ MaxFaults \in Nat

VARIABLES
    wanted,          \* leases their coordinator has a task for
    status,          \* where each lease is in assign() or release()
    held, waiting,   \* SlotSharing: held_; per type, coordinators in ticket order
    local,           \* tasks of each type this Mac's own build runs
    admitted,        \* AdmissionLedger::admitted_
    waits, waitingFor, rests,   \* MemoryTurns: types in ticket order, leases, types
    faults

slotVars == <<held, waiting, local>>
turnVars == <<waits, waitingFor, rests>>
vars == <<wanted, status, slotVars, admitted, turnVars, faults>>

In(x, q) == \E i \in DOMAIN q : q[i] = x
Before(q, x, y) == \E i \in DOMAIN q : q[i] = x /\ \A j \in 1..i : q[j] # y
Enqueue(q, x) == IF In(x, q) THEN q ELSE Append(q, x)
Without(q, x) == IF In(x, q) THEN RemoveAt(q, CHOOSE i \in DOMAIN q : q[i] = x) ELSE q

(* Slots and memory are booked for exactly the leases that are somewhere   *)
(* between assign() and their release, so neither can leak.                *)
TypeOK ==
    /\ wanted \subseteq Leases
    /\ status \in [Leases -> {"idle", "slot", "refused", "running", "ending"}]
    /\ held = {l \in Leases : status[l] # "idle"}
    /\ admitted = {l \in Leases : status[l] = "running"}
    /\ waiting \in [Types -> Seq(Coordinators)] /\ local \in [Types -> Nat]
    /\ waits \in Seq(Types) /\ waitingFor \in [Types -> SUBSET Leases]
    /\ rests \subseteq Types /\ faults \in Nat

Init ==
    /\ wanted = Leases /\ status = [l \in Leases |-> "idle"]
    /\ held = {} /\ waiting = [t \in Types |-> <<>>] /\ local = [t \in Types |-> 0]
    /\ admitted = {} /\ waits = <<>> /\ waitingFor = [t \in Types |-> {}] /\ rests = {}
    /\ faults = 0

Goto(l, s) == status' = [status EXCEPT ![l] = s]
Fault == faults < MaxFaults /\ faults' = faults + 1

-----------------------------------------------------------------------------
(* SlotSharing.                                                            *)
Held(t) == {l \in held : TypeOf[l] = t}
HeldBy(c, t) == {l \in Held(t) : Of[l] = c}
OthersWaiting(c, t) == {d \in Coordinators \ {c} : In(d, waiting[t])}

(* Nobody but c holds or waits for t.                                      *)
Uncontended(c, t) ==
    Held(t) = HeldBy(c, t) /\ local[t] = 0 /\ OthersWaiting(c, t) = {}

(* Mutant: only the slots held count.                                      *)
ComesFirstByCount(d, c, t) == Cardinality(HeldBy(d, t)) < Cardinality(HeldBy(c, t))

(* Fewest held first, then the oldest ticket; no ticket is the youngest.   *)
ComesFirst(d, c, t) ==
    LET m == Cardinality(HeldBy(d, t)) n == Cardinality(HeldBy(c, t)) IN
    m < n \/ (m = n /\ Before(waiting[t], d, c))

(* Mutant: a slot too many, and the waiting are not looked at.             *)
SlotFreeAtLimit(c, t) ==
    Declared[c][t] = 0 \/ Cardinality(Held(t)) + local[t] <= Declared[c][t]

(* Nobody to compete with, or a slot left and nobody who comes first.      *)
SlotFree(c, t) ==
    \/ Declared[c][t] = 0
    \/ Uncontended(c, t)
    \/ /\ Cardinality(Held(t)) + local[t] < Declared[c][t]
       /\ \A d \in OthersWaiting(c, t) : ~ComesFirst(d, c, t)

(* try_take(), called by assign().                                         *)
TakeSlot(l) ==
    /\ l \in wanted /\ status[l] = "idle"
    /\ SlotFree(Of[l], TypeOf[l])
    /\ held' = held \cup {l}
    /\ waiting' = [waiting EXCEPT ![TypeOf[l]] = Without(@, Of[l])]
    /\ Goto(l, "slot")
    /\ UNCHANGED <<wanted, local, admitted, turnVars, faults>>

SlotRefused(l) ==
    /\ l \in wanted /\ status[l] = "idle"
    /\ ~SlotFree(Of[l], TypeOf[l])
    /\ waiting' = [waiting EXCEPT ![TypeOf[l]] = Enqueue(@, Of[l])]
    /\ UNCHANGED <<wanted, status, held, local, admitted, turnVars, faults>>

(* Mutant: a lease refused for memory keeps its slot.                      *)
ReleaseSlotOnEnd(l) ==
    /\ status[l] \in {"refused", "ending"}
    /\ held' = IF status[l] = "ending" THEN held \ {l} ELSE held
    /\ Goto(l, "idle")
    /\ UNCHANGED <<wanted, waiting, local, admitted, turnVars, faults>>

(* slots().release(), after a refusal for memory or the ledger's release.  *)
ReleaseSlot(l) ==
    /\ status[l] \in {"refused", "ending"}
    /\ held' = held \ {l}
    /\ Goto(l, "idle")
    /\ UNCHANGED <<wanted, waiting, local, admitted, turnVars, faults>>

(* expire_waiting(): c has not asked for a whole contention window.        *)
Asks(c, t) == \E l \in wanted : Of[l] = c /\ TypeOf[l] = t /\ status[l] # "running"
SlotWaitLapses(c, t) ==
    /\ In(c, waiting[t]) /\ ~Asks(c, t)
    /\ waiting' = [waiting EXCEPT ![t] = Without(@, c)]
    /\ UNCHANGED <<wanted, status, held, local, admitted, turnVars, faults>>

-----------------------------------------------------------------------------
(* AdmissionLedger with MemoryTurns.                                       *)
Running(t) == {l \in admitted : TypeOf[l] = t}
Committed == MapThenSumSet(LAMBDA l : Need[TypeOf[l]], admitted)
Fits(t) == IF Need[t] = 0 THEN Committed < Memory ELSE Committed + Need[t] <= Memory

(* Mutant: nobody yields.                                                  *)
YieldsNever(t) == FALSE

(* A type that runs here yields to one that started waiting before it.     *)
Yields(t) == Running(t) # {} /\ \E u \in Types \ {t} : Before(waits, u, t)

(* try_admit() and the rest of assign().                                   *)
Admit(l) ==
    /\ status[l] = "slot" /\ ~Yields(TypeOf[l]) /\ Fits(TypeOf[l])
    /\ admitted' = admitted \cup {l}
    /\ waits' = Without(waits, TypeOf[l])
    /\ waitingFor' = [waitingFor EXCEPT ![TypeOf[l]] = {}]
    /\ Goto(l, "running")
    /\ UNCHANGED <<wanted, slotVars, rests, faults>>

YieldsMemory(l) ==
    /\ status[l] = "slot" /\ Yields(TypeOf[l])
    /\ Goto(l, "refused")
    /\ UNCHANGED <<wanted, slotVars, admitted, turnVars, faults>>

(* MemoryTurns::end_fruitless().                                           *)
EndFruitless(t) ==
    /\ waits' = Without(waits, t) /\ waitingFor' = [waitingFor EXCEPT ![t] = {}]
    /\ rests' = rests \cup {t}

(* MemoryTurns::refused(): the wait goes on, ends, or begins.              *)
MemoryRefused(l) ==
    LET t == TypeOf[l] others == admitted \ Running(t) IN
    /\ status[l] = "slot" /\ ~Yields(t) /\ ~Fits(t)
    /\ IF In(t, waits)
       THEN IF waitingFor[t] = {} THEN EndFruitless(t) ELSE UNCHANGED turnVars
       ELSE IF others = {} \/ t \in rests
            THEN UNCHANGED turnVars
            ELSE /\ waits' = Append(waits, t)
                 /\ waitingFor' = [waitingFor EXCEPT ![t] = others]
                 /\ UNCHANGED rests
    /\ Goto(l, "refused")
    /\ UNCHANGED <<wanted, slotVars, admitted, faults>>

(* The host is under memory pressure: refused without a turn.              *)
Pressure(l) ==
    /\ status[l] = "slot" /\ ~Yields(TypeOf[l]) /\ Fault
    /\ Goto(l, "refused")
    /\ UNCHANGED <<wanted, slotVars, admitted, turnVars>>

(* Mutant: a wait nobody asks for any more stays.                          *)
TurnLapsesNever(t) == In(t, waits) /\ FALSE

(* expire(): the type has not been refused for an idle window, because     *)
(* nobody asks or every ask is turned away earlier; the wait lasted too    *)
(* long; the rest is over.                                                 *)
Heard(t) ==
    /\ ~Yields(t)
    /\ \E l \in wanted : TypeOf[l] = t /\ (status[l] = "idle" => SlotFree(Of[l], t))
                                       /\ status[l] # "running"
TurnLapses(t) ==
    /\ In(t, waits) /\ ~Heard(t)
    /\ waits' = Without(waits, t) /\ waitingFor' = [waitingFor EXCEPT ![t] = {}]
    /\ UNCHANGED <<wanted, status, slotVars, admitted, rests, faults>>

TurnOverdue(t) ==
    /\ In(t, waits) /\ Fault
    /\ EndFruitless(t)
    /\ UNCHANGED <<wanted, status, slotVars, admitted>>

RestOver(t) ==
    /\ t \in rests
    /\ rests' = rests \ {t}
    /\ UNCHANGED <<wanted, status, slotVars, admitted, waits, waitingFor, faults>>

-----------------------------------------------------------------------------
(* ledger().release() and release_session(): the leases are over, for the  *)
(* waits that count on them too.                                           *)
ReleaseMemory(ls) ==
    /\ admitted' = admitted \ ls
    /\ waitingFor' = [t \in Types |-> waitingFor[t] \ ls]
    /\ status' = [l \in Leases |-> IF l \in ls THEN "ending" ELSE status[l]]

(* A RESULT passes relay(), or a CANCEL comes.                             *)
LeaseEnds(l) ==
    /\ status[l] = "running"
    /\ ReleaseMemory({l})
    /\ UNCHANGED <<wanted, slotVars, waits, rests, faults>>

(* finish(): the session's assign() is not running and its relay joined.   *)
SessionEnds(c) ==
    LET mine == {l \in Leases : Of[l] = c} IN
    /\ \E l \in mine : status[l] = "running"
    /\ \A l \in mine : status[l] \in {"idle", "running"} /\ Fault
    /\ ReleaseMemory({l \in mine : status[l] = "running"})
    /\ UNCHANGED <<wanted, slotVars, waits, rests>>

(* The coordinator's tasks run out or go elsewhere, and come back.         *)
Withdraw(l) ==
    /\ l \in wanted /\ Fault /\ wanted' = wanted \ {l}
    /\ UNCHANGED <<status, slotVars, admitted, turnVars>>

Return(l) ==
    /\ l \notin wanted /\ wanted' = wanted \cup {l}
    /\ UNCHANGED <<status, slotVars, admitted, turnVars, faults>>

(* This Mac's own build takes slots without asking.                        *)
LocalStarts(t) ==
    /\ Fault /\ local' = [local EXCEPT ![t] = @ + 1]
    /\ UNCHANGED <<wanted, status, held, waiting, admitted, turnVars>>

LocalEnds(t) ==
    /\ local[t] > 0 /\ local' = [local EXCEPT ![t] = @ - 1]
    /\ UNCHANGED <<wanted, status, held, waiting, admitted, turnVars, faults>>

-----------------------------------------------------------------------------
Assign(l) == TakeSlot(l) \/ SlotRefused(l) \/ Admit(l) \/ YieldsMemory(l) \/ MemoryRefused(l)
Release(l) == LeaseEnds(l) \/ ReleaseSlot(l)
Time(t) == TurnLapses(t) \/ RestOver(t) \/ LocalEnds(t) \/ \E c \in Coordinators : SlotWaitLapses(c, t)

Next ==
    \/ \E l \in Leases : Assign(l) \/ Release(l) \/ Pressure(l) \/ Withdraw(l) \/ Return(l)
    \/ \E t \in Types : Time(t) \/ TurnOverdue(t) \/ LocalStarts(t)
    \/ \E c \in Coordinators : SessionEnds(c)

Spec == Init /\ [][Next]_vars

(* Who has tasks asks again after its backoff, a session goes on with a    *)
(* call it began, tasks end by their deadline, and windows pass.           *)
FairSpec ==
    /\ Spec
    /\ \A l \in Leases : WF_vars(Assign(l) \/ Release(l))
    /\ \A t \in Types :
          /\ WF_vars(TurnLapses(t)) /\ WF_vars(RestOver(t)) /\ WF_vars(LocalEnds(t))
          /\ \A c \in Coordinators : WF_vars(SlotWaitLapses(c, t))

-----------------------------------------------------------------------------
(* slot_sharing.hpp: "the Mac never runs more of a type at once than one   *)
(* coordinator alone would send it": coordinators that keep to the slots   *)
(* they declared hold together no more than the most generous of them.     *)
WithinSlots(t) ==
    \E c \in Coordinators : Cardinality(Held(t)) <= Declared[c][t]
SlotsBounded ==
    (\A c \in Coordinators, t \in Types :
        /\ Declared[c][t] > 0
        /\ Cardinality({l \in Leases : Of[l] = c /\ TypeOf[l] = t}) <= Declared[c][t])
    => \A t \in Types : WithinSlots(t)

Wants(c, t) == \E l \in wanted : Of[l] = c /\ TypeOf[l] = t
HasSlot(c, t) == HeldBy(c, t) # {}

(* slot_sharing.hpp: "no coordinator starves another": a coordinator that  *)
(* keeps asking gets a slot.                                               *)
NoCoordinatorStarves ==
    \A c \in Coordinators, t \in Types : Wants(c, t) ~> (HasSlot(c, t) \/ ~Wants(c, t))

(* memory_turns.hpp: "No type starves".                                    *)
NoTypeStarves ==
    \A t \in Types :
        (\E c \in Coordinators : Wants(c, t))
            ~> (Running(t) # {} \/ \A c \in Coordinators : ~Wants(c, t))

(* "the others are held back for a bounded time only": a wait ends.        *)
WaitEnds == \A t \in Types : In(t, waits) ~> ~In(t, waits)
=============================================================================
