------------------------- MODULE RemoteExecutorProofs -------------------------
(***************************************************************************)
(* What is proved about RemoteExecutor for any leases, sessions and        *)
(* faults: an honest worker is never taken for a faulty one, a lease is    *)
(* lost only for a reason, and the executor keeps ExecutorContract.        *)
(***************************************************************************)
EXTENDS RemoteExecutor, SequenceTheorems, TLAPS

Has(q, x) == \E i \in 1..Len(q) : q[i] = x
Once(q, x) == \A i, j \in 1..Len(q) : q[i] = x /\ q[j] = x => i = j

-----------------------------------------------------------------------------
(* Queues: what is in them, and what is in them once.                      *)
LEMMA NothingInEmpty ==
    ASSUME NEW y PROVE ~Has(<<>>, y) /\ Once(<<>>, y)
  BY DEF Has, Once

LEMMA Appended ==
    ASSUME NEW S, NEW q \in Seq(S), NEW x \in S
    PROVE  /\ Append(q, x) \in Seq(S)
           /\ \A y : Has(Append(q, x), y) <=> Has(q, y) \/ y = x
           /\ \A y : Once(q, y) /\ (y = x => ~Has(q, y)) => Once(Append(q, x), y)
<1> DEFINE r == Append(q, x)
<1>1. r \in Seq(S) /\ Len(r) = Len(q) + 1 /\ Len(q) \in Nat
  OBVIOUS
<1>2. r[Len(q) + 1] = x /\ \A i \in 1..Len(q) : r[i] = q[i]
  OBVIOUS
<1> HIDE DEF r
<1>3. ASSUME NEW y PROVE Has(r, y) <=> Has(q, y) \/ y = x
  <2>1. ASSUME Has(r, y) PROVE Has(q, y) \/ y = x
    BY <1>1, <1>2, <2>1 DEF Has
  <2>2. Has(q, y) => Has(r, y)
    BY <1>1, <1>2 DEF Has
  <2>3. y = x => Has(r, y)
    <3>1. Len(q) + 1 \in 1..Len(r)
      BY <1>1
    <3>2. QED
      BY <1>2, <3>1 DEF Has
  <2>4. QED
    BY <2>1, <2>2, <2>3
<1>4. ASSUME NEW y, Once(q, y), y = x => ~Has(q, y) PROVE Once(r, y)
  <2>1. ASSUME NEW i \in 1..Len(r), NEW j \in 1..Len(r), r[i] = y, r[j] = y PROVE i = j
    <3>1. CASE i \in 1..Len(q) /\ j \in 1..Len(q)
      BY <1>2, <1>4, <2>1, <3>1 DEF Once
    <3>2. CASE i \notin 1..Len(q) /\ j \notin 1..Len(q)
      BY <1>1, <3>2
    <3>3. CASE i \in 1..Len(q) /\ j \notin 1..Len(q)
      <4>1. j = Len(q) + 1 /\ y = x
        BY <1>1, <1>2, <2>1, <3>3
      <4>2. QED
        BY <1>2, <1>4, <2>1, <3>3, <4>1 DEF Has
    <3>4. CASE i \notin 1..Len(q) /\ j \in 1..Len(q)
      <4>1. i = Len(q) + 1 /\ y = x
        BY <1>1, <1>2, <2>1, <3>4
      <4>2. QED
        BY <1>2, <1>4, <2>1, <3>4, <4>1 DEF Has
    <3>5. QED
      BY <3>1, <3>2, <3>3, <3>4
  <2>2. QED
    BY <2>1 DEF Once
<1>5. QED
  BY <1>1, <1>3, <1>4 DEF r

LEMMA Removed ==
    ASSUME NEW S, NEW q \in Seq(S), q # <<>>
    PROVE  /\ Head(q) \in S /\ Tail(q) \in Seq(S) /\ Has(q, Head(q))
           /\ \A y : Has(Tail(q), y) => Has(q, y)
           /\ \A y : Once(q, y) => Once(Tail(q), y)
           /\ Once(q, Head(q)) => ~Has(Tail(q), Head(q))
<1> DEFINE r == Tail(q)
<1>1. /\ Len(q) \in Nat \ {0} /\ r \in Seq(S) /\ Len(r) = Len(q) - 1
      /\ Head(q) = q[1] /\ Head(q) \in S
      /\ \A i \in 1..Len(r) : r[i] = q[i + 1]
  OBVIOUS
<1> HIDE DEF r
<1>2. \A i \in 1..Len(r) : i + 1 \in 1..Len(q)
  BY <1>1
<1>3. 1 \in 1..Len(q)
  BY <1>1
<1>4. Has(q, Head(q)) /\ \A y : Has(r, y) => Has(q, y)
  BY <1>1, <1>2, <1>3 DEF Has
<1>5. ASSUME NEW y, Once(q, y) PROVE Once(r, y)
  <2>1. ASSUME NEW i \in 1..Len(r), NEW j \in 1..Len(r), r[i] = y, r[j] = y PROVE i = j
    <3>1. i + 1 = j + 1
      BY <1>1, <1>2, <1>5, <2>1 DEF Once
    <3>2. QED
      BY <1>1, <3>1
  <2>2. QED
    BY <2>1 DEF Once
<1>6. ASSUME Once(q, Head(q)), Has(r, Head(q)) PROVE FALSE
  <2>1. PICK i \in 1..Len(r) : q[i + 1] = q[1]
    BY <1>1, <1>6 DEF Has
  <2>2. i + 1 = 1
    BY <1>1, <1>2, <1>3, <1>6, <2>1 DEF Once
  <2>3. QED
    BY <1>1, <2>2
<1>7. QED
  BY <1>1, <1>4, <1>5, <1>6 DEF r

LEMMA Shortened ==
    ASSUME NEW S, NEW q \in Seq(S), NEW k \in 0..Len(q)
    PROVE  /\ SubSeq(q, 1, k) \in Seq(S)
           /\ \A y : Has(SubSeq(q, 1, k), y) => Has(q, y)
           /\ \A y : Once(q, y) => Once(SubSeq(q, 1, k), y)
<1> DEFINE r == SubSeq(q, 1, k)
<1>1. /\ Len(q) \in Nat /\ r \in Seq(S) /\ Len(r) = k
      /\ \A i \in 1..k : r[i] = q[i]
  OBVIOUS
<1> HIDE DEF r
<1>2. QED
  BY <1>1 DEF Has, Once, r

(* erase_if of a lease that is queued at most once removes it, and only it. *)
LEMMA Erased ==
    ASSUME NEW S, NEW q \in Seq(S), NEW x
    PROVE  /\ Without(q, x) \in Seq(S)
           /\ \A y : Has(Without(q, x), y) => Has(q, y)
           /\ \A y : Once(q, y) => Once(Without(q, x), y)
           /\ Once(q, x) => ~Has(Without(q, x), x)
<1>1. CASE ~Has(q, x)
  BY <1>1 DEF Without, Has
<1>2. CASE Has(q, x)
  <2> DEFINE p == CHOOSE i \in DOMAIN q : q[i] = x
             r == Without(q, x)
             a == SubSeq(q, 1, p - 1)
             b == SubSeq(q, p + 1, Len(q))
  <2>1. p \in DOMAIN q /\ q[p] = x /\ r = RemoveAt(q, p)
    <3>1. \E i \in DOMAIN q : q[i] = x
      BY <1>2 DEF Has
    <3>2. QED
      BY <3>1 DEF Without
  <2> HIDE DEF p, r
  <2>2. r = a \o b
    BY <2>1 DEF RemoveAt
  <2>3. p \in 1..Len(q) /\ Len(q) \in Nat
    BY <2>1
  <2>4. /\ a \in Seq(S) /\ b \in Seq(S)
        /\ Len(a) = p - 1 /\ Len(b) = Len(q) - p
        /\ \A i \in 1..(p - 1) : a[i] = q[i]
        /\ \A i \in 1..(Len(q) - p) : b[i] = q[i + p]
    BY <2>3
  <2> HIDE DEF a, b
  <2>5. /\ r \in Seq(S) /\ Len(r) = Len(q) - 1
        /\ \A i \in 1..Len(r) : r[i] = IF i <= Len(a) THEN a[i] ELSE b[i - Len(a)]
    <3>1. /\ r \in Seq(S) /\ Len(r) = Len(a) + Len(b)
          /\ \A i \in 1..(Len(a) + Len(b)) :
                r[i] = IF i <= Len(a) THEN a[i] ELSE b[i - Len(a)]
      BY <2>2, <2>4, ConcatProperties
    <3>2. Len(a) + Len(b) = Len(q) - 1
      BY <2>3, <2>4
    <3>3. QED
      BY <3>1, <3>2
  <2>6. \A i \in 1..Len(r) : r[i] = IF i < p THEN q[i] ELSE q[i + 1]
    BY <2>3, <2>4, <2>5
  <2> DEFINE at(i) == IF i < p THEN i ELSE i + 1
  <2>7. \A i \in 1..Len(r) : at(i) \in 1..Len(q) /\ at(i) # p /\ r[i] = q[at(i)]
    BY <2>3, <2>5, <2>6
  <2>8. \A i, j \in 1..Len(r) : at(i) = at(j) => i = j
    BY <2>3, <2>5
  <2> HIDE DEF at
  <2>9. \A y : Has(r, y) => Has(q, y)
    BY <2>7 DEF Has
  <2>10. \A y : Once(q, y) => Once(r, y)
    BY <2>7, <2>8 DEF Once
  <2>11. Once(q, x) => ~Has(r, x)
    BY <2>1, <2>3, <2>7 DEF Once, Has
  <2>12. QED
    BY <2>5, <2>9, <2>10, <2>11 DEF r
<1>3. QED
  BY <1>1, <1>2

-----------------------------------------------------------------------------
(* The inductive invariant.                                                *)

(* Who writes what.                                                        *)
Traffic ==
    /\ toCoordinator \in [Sessions -> Seq({"RESULT", "REJECT"} \X Leases)]
    /\ writing["scheduler"] \in ({"ASSIGN", "CANCEL"} \X Sessions \X Leases) \cup {Idle}
    /\ writing["closer"] \in ({"SHUTDOWN"} \X Sessions \X {"none"}) \cup {Idle}

(* Sessions are opened one after the other, and a session answers for its  *)
(* leases until it is finished.                                            *)
Order ==
    /\ \A s \in Sessions : phase[s] = "none" <=> s > current
    /\ \A s \in retiring : phase[s] # "none"
    /\ \A l \in Leases : home[l] <= current
    /\ \A l \in known : home[l] # NoSession /\ ~Finished(home[l])
    /\ \A s \in Sessions : Finished(s) => pending[s] = <<>>
    /\ \A s \in Sessions : phase[s] \in {"preamble", "flush", "pump"} => Connected(s)

(* A lease is with known, with a claim, or with the orphans: never two.    *)
Claims ==
    \A s \in Sessions : claim[s] # NoClaim =>
        /\ phase[s] = "pump"
        /\ claim[s][1] \in Leases /\ claim[s][2] \in {"finished", "rejected"}
        /\ home[claim[s][1]] = s /\ claim[s][1] \notin known

Orphans ==
    \A s \in Sessions : \A l \in orphans[s] :
        /\ phase[s] = "report"
        /\ home[l] = s
        /\ s \in broken

Reports ==
    \A l \in Leases :
        /\ report[l] # <<>> => home[l] # NoSession
        /\ Has(report[l], "executor_lost") => home[l] \in broken

(* A session that ends, or is about to, has a reason.                      *)
Excused(s) == s \in broken \/ Stopping \/ s \in retiring

Causes ==
    /\ \A s \in Sessions :
          \/ link[s] = "down" \/ worker[s] = "closing"
          \/ Has(toWorker[s], <<"SHUTDOWN", "none">>)
          \/ phase[s] \in {"over", "report", "done"}
          => Excused(s)
    /\ writing["closer"] # Idle => writing["closer"][2] \in retiring
    /\ \A s \in retiring : s \in broken \/ Of(s) = {}

(* The stations of a lease on its way to the worker and back.              *)
Queued(l, s) == Has(pending[s], l)
Written(l, s) == writing["scheduler"] = <<"ASSIGN", s, l>>
OnWire(l, s) == Has(toWorker[s], <<"ASSIGN", l>>)
AtWorker(l, s) == l \in Running(s)
Answered(l, s) == Has(toCoordinator[s], <<"RESULT", l>>) \/ Has(toCoordinator[s], <<"REJECT", l>>)

Active(l) == attempt[l] \in {"running", "answering"}
UnderWay(l, s) ==
    Queued(l, s) \/ Written(l, s) \/ OnWire(l, s) \/ AtWorker(l, s) \/ Answered(l, s)

(* A lease under way belongs to its session, which still knows it ...      *)
OnTheWay ==
    /\ \A l \in Leases : \A s \in Sessions :
          UnderWay(l, s) => home[l] = s /\ (Finished(s) \/ l \in known)
    /\ \A l \in Leases : Active(l) => home[l] # NoSession

(* ... and is in one place, once.                                          *)
OneAt(l, s) ==
    /\ Queued(l, s) => ~Written(l, s) /\ ~OnWire(l, s) /\ ~AtWorker(l, s) /\ ~Answered(l, s)
    /\ Written(l, s) => ~OnWire(l, s) /\ ~AtWorker(l, s) /\ ~Answered(l, s)
    /\ OnWire(l, s) => ~AtWorker(l, s) /\ ~Answered(l, s)
    /\ AtWorker(l, s) => ~Answered(l, s)
    /\ ~(Has(toCoordinator[s], <<"RESULT", l>>) /\ Has(toCoordinator[s], <<"REJECT", l>>))
    /\ Once(pending[s], l) /\ Once(toWorker[s], <<"ASSIGN", l>>)
    /\ Once(toCoordinator[s], <<"RESULT", l>>) /\ Once(toCoordinator[s], <<"REJECT", l>>)
OnePlace == \A l \in Leases : \A s \in Sessions : OneAt(l, s)

(* stop() closes the sessions in turn and returns when all are done.       *)
StopOrder ==
    /\ stop \in {"close", "write", "wait", "join"} =>
          stopAt \in 1..current /\ \A s \in Sessions : s < stopAt => phase[s] = "done"
    /\ stop = "stopped" => \A s \in Sessions : s <= current => phase[s] = "done"

IInv ==
    /\ CoordinatorTypes
    /\ WorkerTypes
    /\ Traffic
    /\ Order
    /\ Claims
    /\ Orphans
    /\ Reports
    /\ Causes
    /\ OnTheWay
    /\ OnePlace
    /\ StopOrder
    /\ HonestWorkerIsTrusted
-----------------------------------------------------------------------------
LEMMA IdleCall == Idle \in Calls
  BY DEF Calls

LEMMA InitIInv == Init => IInv
<1> SUFFICES ASSUME Init PROVE IInv
  OBVIOUS
<1> USE BoundsAssumption, LeasesAssumption
<1>1. CoordinatorTypes
  BY IdleCall DEF Init, CoordinatorTypes, Sessions, NoSession, Threads
<1>2. WorkerTypes
  BY DEF Init, WorkerTypes
<1>3. Traffic
  BY DEF Init, Traffic, Threads
<1>4. Order
  BY DEF Init, Order, Sessions, NoSession, Finished, Connected
<1>5. Claims /\ Orphans /\ StopOrder /\ HonestWorkerIsTrusted
  BY DEF Init, Claims, Orphans, StopOrder, HonestWorkerIsTrusted, Sessions, NoSession
<1>6. Reports
  BY NothingInEmpty DEF Init, Reports
<1>7. Causes
  BY NothingInEmpty DEF Init, Causes, Of, Threads
<1>8. OnTheWay /\ OnePlace
  BY NothingInEmpty DEF Init, OnTheWay, OnePlace, OneAt, UnderWay, Active, Queued, Written, OnWire,
                        AtWorker, Answered, Running, Threads, Idle
<1>9. QED
  BY <1>1, <1>2, <1>3, <1>4, <1>5, <1>6, <1>7, <1>8 DEF IInv

-----------------------------------------------------------------------------
(* What the invariant leaves of the steps that depend on a frame: a frame  *)
(* the session reads answers for a lease it knows, and the worker is never *)
(* assigned a lease it runs.                                               *)
ReadOf(s, l, kind) ==
    /\ phase[s] = "pump" /\ claim[s] = NoClaim
    /\ l \in known /\ home[l] = s
    /\ Head(toCoordinator[s]) = <<IF kind = "finished" THEN "RESULT" ELSE "REJECT", l>>
    /\ toCoordinator[s] # <<>>
    /\ toCoordinator' = [toCoordinator EXCEPT ![s] = Tail(@)]
    /\ known' = known \ {l}
    /\ claim' = IF l \in cancelled THEN claim ELSE [claim EXCEPT ![s] = <<l, kind>>]
    /\ UNCHANGED <<phase, ending, home, cancelled, report, current, retiring, ready, pending,
                   orphans, link, toWorker, worker, attempt, dropped, writing, stop, stopAt,
                   broken>>

LEMMA ReadFacts ==
    ASSUME IInv, NEW s \in Sessions, Read(s)
    PROVE  \E l \in Leases, kind \in {"finished", "rejected"} : ReadOf(s, l, kind)
<1> DEFINE frame == Head(toCoordinator[s])
           l == frame[2]
           kind == IF frame[1] = "RESULT" THEN "finished" ELSE "rejected"
<1>1. toCoordinator[s] \in Seq({"RESULT", "REJECT"} \X Leases) /\ toCoordinator[s] # <<>>
  BY DEF Read, IInv, Traffic
<1>2. frame \in {"RESULT", "REJECT"} \X Leases /\ Has(toCoordinator[s], frame)
  BY <1>1, Removed
<1>3. l \in Leases /\ frame = <<frame[1], l>> /\ frame[1] \in {"RESULT", "REJECT"}
  BY <1>2
<1>4. phase[s] = "pump" /\ claim[s] = NoClaim
  BY DEF Read
<1>5. Answered(l, s)
  BY <1>2, <1>3 DEF Answered
<1>6. home[l] = s /\ l \in known
  BY <1>3, <1>4, <1>5 DEF IInv, OnTheWay, UnderWay, Finished
<1>7. l \in Of(s) /\ frame[1] # "ERROR"
  BY <1>3, <1>6 DEF Of
<1>8. Claim(s, l, kind) /\ UNCHANGED <<phase, ending>>
  BY <1>3, <1>7 DEF Read
<1>9. ReadOf(s, l, kind)
  BY <1>1, <1>3, <1>4, <1>6, <1>8
  DEF ReadOf, Read, Claim, leaseVars, workerVars, callVars
<1>10. QED
  BY <1>3, <1>9

LEMMA AssignedOnce ==
    ASSUME IInv, NEW s \in Sessions, toWorker[s] # <<>>, Head(toWorker[s])[1] = "ASSIGN"
    PROVE  /\ Head(toWorker[s])[2] \in Leases
           /\ Head(toWorker[s]) = <<"ASSIGN", Head(toWorker[s])[2]>>
           /\ OnWire(Head(toWorker[s])[2], s)
           /\ Head(toWorker[s])[2] \notin Running(s)
<1> DEFINE frame == Head(toWorker[s])
<1>1. frame \in Frames /\ Has(toWorker[s], frame)
  BY Removed DEF IInv, WorkerTypes
<1>2. frame[2] \in Leases /\ frame = <<"ASSIGN", frame[2]>>
  BY <1>1 DEF Frames
<1>3. OnWire(frame[2], s)
  BY <1>1, <1>2 DEF OnWire
<1>4. ~AtWorker(frame[2], s)
  BY <1>2, <1>3 DEF IInv, OnePlace, OneAt
<1>5. QED
  BY <1>2, <1>3, <1>4 DEF AtWorker

LEMMA StopsASession ==
    ASSUME IInv, Stop
    PROVE  stopAt \in Sessions /\ stopAt <= current
<1>1. stopAt \in 1..current
  BY DEF Stop, StopCloses, StopWrites, StopWaits, StopJoins, IInv, StopOrder
<1>2. current \in 0..MaxSessions
  BY BoundsAssumption DEF IInv, CoordinatorTypes, Sessions, NoSession
<1>3. QED
  BY <1>1, <1>2, BoundsAssumption DEF Sessions

-----------------------------------------------------------------------------
(* Types.                                                                  *)
LEMMA CutTypes ==
    ASSUME WorkerTypes, NEW s \in Sessions, NEW kept \in 0..Len(toCoordinator[s]), Cut(s, kept)
    PROVE  WorkerTypes'
<1>1. SubSeq(toCoordinator[s], 1, kept) \in Seq(Frames)
  BY Shortened DEF WorkerTypes
<1>2. Running(s) \subseteq Leases
  BY DEF Running
<1>3. QED
  BY <1>1, <1>2 DEF WorkerTypes, Cut

LEMMA SendTypes ==
    ASSUME WorkerTypes, NEW s \in Sessions, NEW frame \in Frames, Send(s, frame), UNCHANGED workerVars
    PROVE  WorkerTypes'
  BY DEF WorkerTypes, Send, workerVars

LEMMA SchedulerTypes ==
    ASSUME IInv, NEW l \in Leases, Assign(l) \/ Cancel(l) \/ LeaseExpired(l)
    PROVE  CoordinatorTypes' /\ WorkerTypes'
<1> USE DEF leaseVars, sessionVars, linkVars, workerVars, callVars
<1>1. CASE Assign(l)
  <2>1. LiveSession \in Sessions /\ current' \in Sessions
    BY <1>1 DEF Assign
  <2>2. WorkerTypes'
    BY <1>1 DEF Assign, IInv, WorkerTypes
  <2>3. pending' \in [Sessions -> Seq(Leases)] /\ writing' \in [Threads -> Calls]
    <3>1. \/ UNCHANGED pending
          \/ pending' = [pending EXCEPT ![LiveSession] = Append(@, l)]
      BY <1>1 DEF Assign
    <3>2. \/ UNCHANGED writing
          \/ writing' = [writing EXCEPT !["scheduler"] = <<"ASSIGN", LiveSession, l>>]
      BY <1>1 DEF Assign
    <3>3. <<"ASSIGN", LiveSession, l>> \in Calls
      BY <2>1 DEF Calls
    <3>4. pending \in [Sessions -> Seq(Leases)] /\ writing \in [Threads -> Calls]
      BY DEF IInv, CoordinatorTypes
    <3>5. Append(pending[LiveSession], l) \in Seq(Leases)
      BY <2>1, <3>4, Appended
    <3>6. QED
      BY <2>1, <3>1, <3>2, <3>3, <3>4, <3>5
  <2>4. QED
    BY <1>1, <2>1, <2>2, <2>3 DEF Assign, IInv, CoordinatorTypes
<1>2. CASE Cancel(l)
  <2>1. home[l] \in Sessions /\ Without(pending[home[l]], l) \in Seq(Leases)
    BY <1>2, Erased DEF Cancel, IInv, CoordinatorTypes
  <2>2. WorkerTypes'
    BY <1>2 DEF Cancel, IInv, WorkerTypes
  <2>3. pending' \in [Sessions -> Seq(Leases)] /\ writing' \in [Threads -> Calls]
    <3>1. \/ UNCHANGED pending
          \/ pending' = [pending EXCEPT ![home[l]] = Without(@, l)]
      BY <1>2 DEF Cancel
    <3>2. \/ UNCHANGED writing
          \/ writing' = [writing EXCEPT !["scheduler"] = <<"CANCEL", home[l], l>>]
      BY <1>2 DEF Cancel
    <3>3. <<"CANCEL", home[l], l>> \in Calls
      BY <2>1 DEF Calls
    <3>4. pending \in [Sessions -> Seq(Leases)] /\ writing \in [Threads -> Calls]
      BY DEF IInv, CoordinatorTypes
    <3>5. Without(pending[home[l]], l) \in Seq(Leases)
      BY <2>1, <3>4, Erased
    <3>6. QED
      BY <2>1, <3>1, <3>2, <3>3, <3>4, <3>5
  <2>4. QED
    BY <1>2, <2>2, <2>3 DEF Cancel, MarkCancelled, IInv, CoordinatorTypes
<1>3. CASE LeaseExpired(l)
  <2>1. home[l] \in Sessions
    BY <1>3 DEF LeaseExpired, IInv, CoordinatorTypes
  <2>2. WorkerTypes'
    BY <1>3, <2>1, CutTypes DEF LeaseExpired, Break, IInv, WorkerTypes
  <2>3. CoordinatorTypes'
    BY <1>3, <2>1 DEF LeaseExpired, Fault, MarkCancelled, IInv, CoordinatorTypes
  <2>4. QED
    BY <2>2, <2>3
<1>4. QED
  BY <1>1, <1>2, <1>3

LEMMA CallerTypes ==
    ASSUME IInv, CloseIdleSession \/ StopBegins \/ Stop \/ \E t \in Threads : Write(t)
    PROVE  CoordinatorTypes' /\ WorkerTypes'
<1> USE DEF leaseVars, sessionVars, linkVars, workerVars, callVars
<1>1. CASE CloseIdleSession
  <2>1. current \in Sessions
    BY <1>1 DEF CloseIdleSession, Live, IInv, CoordinatorTypes
  <2>2. WorkerTypes'
    BY <1>1, <2>1, CutTypes DEF CloseIdleSession, Break, IInv, WorkerTypes
  <2>3. CoordinatorTypes'
    BY <1>1, <2>1 DEF CloseIdleSession, IInv, CoordinatorTypes, Threads, Calls
  <2>4. QED
    BY <2>2, <2>3
<1>2. CASE StopBegins
  BY <1>2, BoundsAssumption DEF StopBegins, IInv, CoordinatorTypes, WorkerTypes
<1>3. ASSUME Stop PROVE CoordinatorTypes' /\ WorkerTypes'
  <2>1. stopAt \in Sessions /\ stopAt <= current
    BY <1>3, StopsASession
  <2>2. WorkerTypes'
    <3>1. CASE StopCloses \/ StopWrites
      BY <2>1, <3>1, CutTypes, SendTypes DEF StopCloses, StopWrites, Break, IInv, WorkerTypes, Frames
    <3>2. CASE StopWaits \/ StopJoins
      BY <2>1, <3>2, CutTypes DEF StopWaits, StopJoins, Break, IInv, WorkerTypes
    <3>3. QED
      BY <1>3, <3>1, <3>2 DEF Stop
  <2>3. stopAt' \in 0..(MaxSessions + 1) /\ stop' \in {"no", "close", "write", "wait", "join", "stopped"}
    BY <1>3, <2>1, BoundsAssumption DEF Stop, StopCloses, StopWrites, StopWaits, StopJoins, IInv, CoordinatorTypes, Sessions
  <2>4. CoordinatorTypes'
    BY <1>3, <2>3 DEF Stop, StopCloses, StopWrites, StopWaits, StopJoins, IInv, CoordinatorTypes
  <2>5. QED
    BY <2>2, <2>4
<1>4. ASSUME NEW t \in Threads, Write(t) PROVE CoordinatorTypes' /\ WorkerTypes'
  <2>1. writing[t][2] \in Sessions /\ <<writing[t][1], writing[t][3]>> \in Frames
    BY <1>4 DEF Write, IInv, Traffic, Threads, Frames
  <2>2. WorkerTypes'
    BY <1>4, <2>1, SendTypes DEF Write, IInv
  <2>3. CoordinatorTypes'
    BY <1>4, IdleCall DEF Write, IInv, CoordinatorTypes
  <2>4. QED
    BY <2>2, <2>3
<1>5. QED
  BY <1>1, <1>2, <1>3, <1>4

LEMMA SessionTypes ==
    ASSUME IInv, NEW s \in Sessions, SessionThread(s) \/ Handshake(s)
    PROVE  CoordinatorTypes' /\ WorkerTypes'
<1> USE DEF leaseVars, sessionVars, linkVars, workerVars, callVars
<1>0. CoordinatorTypes /\ WorkerTypes
  BY DEF IInv
<1>1. CASE Connect(s) \/ ConnectFails(s) \/ PreambleFails(s) \/ Preamble(s) \/ EndOfStream(s)
  <2>1. /\ \E x \in {"preamble", "flush", "over"} : phase' = [phase EXCEPT ![s] = x]
        /\ ready' \subseteq ready \cup {s} /\ broken' \subseteq broken \cup {s}
        /\ UNCHANGED <<leaseVars, current, known, retiring, pending, claim, orphans, ending,
                       callVars, toWorker, toCoordinator, attempt, dropped>>
    BY <1>1 DEF Connect, ConnectFails, PreambleFails, Preamble, EndOfStream, MarkReady, Fault
  <2>2. \/ UNCHANGED <<link, worker>>
        \/ /\ link' = [link EXCEPT ![s] = "up"]
           /\ worker' = [worker EXCEPT ![s] = "serving"]
    BY <1>1 DEF Connect, ConnectFails, PreambleFails, Preamble, EndOfStream
  <2>3. CoordinatorTypes'
    BY <1>0, <2>1 DEF CoordinatorTypes
  <2>4. WorkerTypes'
    BY <1>0, <2>1, <2>2 DEF WorkerTypes
  <2>5. QED
    BY <2>3, <2>4
<1>2. CASE Flush(s)
  <2>1. CoordinatorTypes'
    <3>1. pending[s] \in Seq(Leases) /\ (pending[s] # <<>> => Tail(pending[s]) \in Seq(Leases))
      BY <1>0, Removed DEF CoordinatorTypes
    <3>2. pending' \in [Sessions -> Seq(Leases)]
      <4>1. \/ pending[s] # <<>> /\ pending' = [pending EXCEPT ![s] = Tail(@)]
            \/ pending' = [pending EXCEPT ![s] = <<>>]
        BY <1>2 DEF Flush
      <4>2. pending \in [Sessions -> Seq(Leases)]
        BY <1>0 DEF CoordinatorTypes
      <4>3. CASE pending[s] # <<>> /\ pending' = [pending EXCEPT ![s] = Tail(@)]
        BY <3>1, <4>2, <4>3
      <4>4. CASE pending' = [pending EXCEPT ![s] = <<>>]
        BY <4>2, <4>4
      <4>5. QED
        BY <4>1, <4>3, <4>4
    <3>3. QED
      BY <1>0, <1>2, <3>2 DEF Flush, CoordinatorTypes
  <2>2. ASSUME pending[s] # <<>> PROVE <<"ASSIGN", Head(pending[s])>> \in Frames
    BY <1>0, <2>2, Removed DEF CoordinatorTypes, Frames
  <2>3. WorkerTypes'
    <3>1. CASE pending[s] # <<>> /\ link[s] = "up"
      BY <1>0, <1>2, <2>2, <3>1, SendTypes DEF Flush
    <3>2. CASE ~(pending[s] # <<>> /\ link[s] = "up")
      BY <1>0, <1>2, <3>2 DEF Flush, WorkerTypes
    <3>3. QED
      BY <3>1, <3>2
  <2>4. QED
    BY <2>1, <2>3
<1>3. CASE Read(s)
  <2>1. PICK l \in Leases, kind \in {"finished", "rejected"} : ReadOf(s, l, kind)
    BY <1>3, ReadFacts
  <2>2. Tail(toCoordinator[s]) \in Seq(Frames)
    BY <1>0, <2>1, Removed DEF ReadOf, WorkerTypes
  <2>3. WorkerTypes'
    BY <1>0, <2>1, <2>2 DEF ReadOf, WorkerTypes
  <2>4. <<l, kind>> \in Leases \X Kinds
    BY DEF Kinds
  <2>5. CoordinatorTypes'
    BY <1>0, <2>1, <2>4 DEF ReadOf, CoordinatorTypes
  <2>6. QED
    BY <2>3, <2>5
<1>4. CASE Deliver(s)
  <2>1. claim[s] \in Leases \X Kinds
    BY <1>0, <1>4 DEF Deliver, CoordinatorTypes
  <2>2. Append(report[claim[s][1]], claim[s][2]) \in Seq(Kinds)
    BY <1>0, <2>1, Appended DEF CoordinatorTypes
  <2>3. report' \in [Leases -> Seq(Kinds)]
    BY <1>0, <1>4, <2>1, <2>2 DEF Deliver, CoordinatorTypes
  <2>4. WorkerTypes'
    BY <1>0, <1>4 DEF Deliver, WorkerTypes
  <2>5. QED
    BY <1>0, <1>4, <2>3, <2>4 DEF Deliver, CoordinatorTypes
<1>5. CASE Finish(s)
  <2>1. WorkerTypes'
    <3>1. 0 \in 0..Len(toCoordinator[s])
      BY <1>0 DEF WorkerTypes
    <3>2. QED
      BY <1>0, <1>5, <3>1, CutTypes DEF Finish
  <2>2. CoordinatorTypes'
    BY <1>0, <1>5 DEF Finish, CoordinatorTypes, Of
  <2>3. QED
    BY <2>1, <2>2
<1>6. CASE ReportOrphan(s)
  <2>1. WorkerTypes'
    BY <1>0, <1>6 DEF ReportOrphan, WorkerTypes
  <2>2. CASE UNCHANGED <<report, orphans>> /\ phase' = [phase EXCEPT ![s] = "done"]
    BY <1>0, <1>6, <2>1, <2>2 DEF ReportOrphan, CoordinatorTypes
  <2>3. ASSUME NEW l \in orphans[s], NEW k \in {"invalid_result", "executor_lost"},
               report' = [report EXCEPT ![l] = Append(@, k)],
               orphans' = [orphans EXCEPT ![s] = @ \ {l}], UNCHANGED phase
        PROVE  CoordinatorTypes'
    <3>1. l \in Leases /\ Append(report[l], k) \in Seq(Kinds)
      BY <1>0, Appended DEF CoordinatorTypes, Kinds
    <3>2. report' \in [Leases -> Seq(Kinds)]
      BY <1>0, <2>3, <3>1 DEF CoordinatorTypes
    <3>3. orphans' \in [Sessions -> SUBSET Leases]
      BY <1>0, <2>3 DEF CoordinatorTypes
    <3>4. QED
      BY <1>0, <1>6, <2>3, <3>2, <3>3 DEF ReportOrphan, CoordinatorTypes
  <2>4. QED
    BY <1>6, <2>1, <2>2, <2>3 DEF ReportOrphan
<1>7. QED
  BY <1>1, <1>2, <1>3, <1>4, <1>5, <1>6 DEF SessionThread, Handshake

LEMMA PeerTypes ==
    ASSUME IInv, \/ \E s \in Sessions : Worker(s) \/ LoseConnection(s)
                 \/ \E l \in Leases : Task(l)
    PROVE  CoordinatorTypes' /\ WorkerTypes'
<1> USE DEF leaseVars, sessionVars, linkVars, workerVars, callVars
<1>0. CoordinatorTypes /\ WorkerTypes
  BY DEF IInv
<1>1. CoordinatorTypes'
  BY <1>0 DEF Worker, WorkerReads, WorkerRejects, WorkerCloses, LoseConnection, Fault, Task,
              TaskReturns, TaskAnswers, CoordinatorTypes
<1>2. ASSUME NEW s \in Sessions, LoseConnection(s) PROVE WorkerTypes'
  BY <1>0, <1>2, CutTypes DEF LoseConnection, Break
<1>3. ASSUME NEW s \in Sessions, WorkerCloses(s) PROVE WorkerTypes'
  BY <1>0, <1>3 DEF WorkerCloses, WorkerTypes
<1>4. ASSUME NEW s \in Sessions, WorkerReads(s) \/ WorkerRejects(s) PROVE WorkerTypes'
  <2>1. Tail(toWorker[s]) \in Seq(Frames) /\ Head(toWorker[s]) \in Frames
    BY <1>0, <1>4, Removed DEF WorkerReads, WorkerRejects, WorkerTypes
  <2>2. CASE WorkerReads(s)
    <3>1. Running(s) \subseteq Leases
      BY DEF Running
    <3>2. /\ UNCHANGED <<link, toCoordinator>>
          /\ toWorker' = [toWorker EXCEPT ![s] = Tail(@)]
          /\ UNCHANGED worker \/ worker' = [worker EXCEPT ![s] = "closing"]
          /\ UNCHANGED attempt \/ \E l \in Leases : attempt' = [attempt EXCEPT ![l] = "running"]
          /\ dropped' \subseteq dropped \cup Running(s)
      BY <2>2, AssignedOnce DEF WorkerReads, Drop
    <3>3. QED
      BY <1>0, <2>1, <3>1, <3>2 DEF WorkerTypes
  <2>3. CASE WorkerRejects(s)
    <3>1. <<"REJECT", Head(toWorker[s])[2]>> \in Frames
      BY <2>1, <2>3 DEF Frames, WorkerRejects
    <3>2. Append(toCoordinator[s], <<"REJECT", Head(toWorker[s])[2]>>) \in Seq(Frames)
      BY <1>0, <3>1, Appended DEF WorkerTypes
    <3>3. QED
      BY <1>0, <2>1, <2>3, <3>2 DEF WorkerRejects, WorkerTypes
  <2>4. QED
    BY <1>4, <2>2, <2>3
<1>5. ASSUME NEW l \in Leases, Task(l) PROVE WorkerTypes'
  <2>1. home[l] \in Sessions /\ <<"RESULT", l>> \in Frames
    BY <1>5, <1>0 DEF Task, TaskReturns, TaskAnswers, IInv, OnTheWay, Active, CoordinatorTypes,
                     Frames
  <2>2. Append(toCoordinator[home[l]], <<"RESULT", l>>) \in Seq(Frames)
    BY <1>0, <2>1, Appended DEF WorkerTypes
  <2>3. toCoordinator' \in [Sessions -> Seq(Frames)]
    <3>1. \/ UNCHANGED toCoordinator
          \/ toCoordinator' = [toCoordinator EXCEPT ![home[l]] = Append(@, <<"RESULT", l>>)]
      BY <1>5 DEF Task, TaskReturns, TaskAnswers, Answer
    <3>2. toCoordinator \in [Sessions -> Seq(Frames)]
      BY <1>0 DEF WorkerTypes
    <3>3. QED
      BY <2>1, <2>2, <3>1, <3>2
  <2>4. QED
    BY <1>0, <1>5, <2>3 DEF Task, TaskReturns, TaskAnswers, Answer, WorkerTypes
<1>6. QED
  BY <1>1, <1>2, <1>3, <1>4, <1>5 DEF Worker

LEMMA TypesStep ==
    ASSUME IInv, Next
    PROVE  CoordinatorTypes' /\ WorkerTypes'
  BY SchedulerTypes, CallerTypes, SessionTypes, PeerTypes DEF Next, Scheduler

-----------------------------------------------------------------------------
(* Who writes what, and the trust in the worker.                           *)
Answers == {"RESULT", "REJECT"} \X Leases

LEMMA TrafficParts ==
    Traffic <=> /\ toCoordinator \in [Sessions -> Seq(Answers)]
                /\ writing["scheduler"] \in ({"ASSIGN", "CANCEL"} \X Sessions \X Leases) \cup {Idle}
                /\ writing["closer"] \in ({"SHUTDOWN"} \X Sessions \X {"none"}) \cup {Idle}
  BY DEF Traffic, Answers

LEMMA CutAnswers ==
    ASSUME Traffic, NEW s \in Sessions, Break(s) \/ Cut(s, 0)
    PROVE  toCoordinator' \in [Sessions -> Seq(Answers)]
<1>1. toCoordinator \in [Sessions -> Seq(Answers)]
  BY TrafficParts
<1>2. PICK kept \in 0..Len(toCoordinator[s]) : Cut(s, kept)
  BY <1>1 DEF Break
<1>3. SubSeq(toCoordinator[s], 1, kept) \in Seq(Answers)
  BY <1>1, Shortened
<1>4. QED
  BY <1>1, <1>2, <1>3 DEF Cut

LEMMA AnswersKept ==
    ASSUME IInv, Next
    PROVE  toCoordinator' \in [Sessions -> Seq(Answers)]
<1> USE DEF linkVars
<1>0. toCoordinator \in [Sessions -> Seq(Answers)]
  BY TrafficParts DEF IInv
<1>1. ASSUME NEW s \in Sessions, Read(s) PROVE toCoordinator' \in [Sessions -> Seq(Answers)]
  <2>1. Tail(toCoordinator[s]) \in Seq(Answers)
    BY <1>0, <1>1, Removed DEF Read
  <2>2. QED
    BY <1>0, <1>1, <2>1 DEF Read
<1>2. ASSUME NEW s \in Sessions, NEW f \in Answers,
             \/ UNCHANGED toCoordinator
             \/ toCoordinator' = [toCoordinator EXCEPT ![s] = Append(@, f)]
      PROVE  toCoordinator' \in [Sessions -> Seq(Answers)]
  <2>1. Append(toCoordinator[s], f) \in Seq(Answers)
    BY <1>0, Appended
  <2>2. QED
    BY <1>0, <1>2, <2>1
<1>3. ASSUME NEW s \in Sessions, WorkerRejects(s)
      PROVE  toCoordinator' \in [Sessions -> Seq(Answers)]
  <2>1. <<"REJECT", Head(toWorker[s])[2]>> \in Answers
    BY <1>3, AssignedOnce DEF WorkerRejects, Answers
  <2>2. QED
    BY <1>2, <1>3, <2>1 DEF WorkerRejects
<1>4. ASSUME NEW l \in Leases, TaskAnswers(l)
      PROVE  toCoordinator' \in [Sessions -> Seq(Answers)]
  <2>1. <<"RESULT", l>> \in Answers /\ home[l] \in Sessions
    BY <1>4 DEF TaskAnswers, Answers, IInv, OnTheWay, Active, CoordinatorTypes
  <2>2. QED
    BY <1>2, <1>4, <2>1 DEF TaskAnswers, Answer
<1>5. ASSUME NEW s \in Sessions, Break(s) \/ Cut(s, 0)
      PROVE  toCoordinator' \in [Sessions -> Seq(Answers)]
  BY <1>5, CutAnswers DEF IInv
<1>6. ASSUME NEW s \in Sessions, WorkerReads(s)
      PROVE  toCoordinator' \in [Sessions -> Seq(Answers)]
  BY <1>0, <1>6, AssignedOnce DEF WorkerReads
<1>7. CASE Scheduler
  <2>1. ASSUME NEW l \in Leases, LeaseExpired(l)
        PROVE  toCoordinator' \in [Sessions -> Seq(Answers)]
    <3>1. home[l] \in Sessions
      BY <2>1 DEF LeaseExpired, IInv, CoordinatorTypes
    <3>2. QED
      BY <1>0, <1>5, <2>1, <3>1 DEF LeaseExpired
  <2>2. QED
    BY <1>0, <1>7, <2>1 DEF Scheduler, Assign, Cancel, StopBegins
<1>8. CASE CloseIdleSession
  <2>1. current \in Sessions
    BY <1>8 DEF CloseIdleSession, Live, IInv, CoordinatorTypes
  <2>2. QED
    BY <1>0, <1>5, <1>8, <2>1 DEF CloseIdleSession
<1>9. CASE Stop
  <2>1. stopAt \in Sessions
    BY <1>9, StopsASession
  <2>2. QED
    BY <1>0, <1>5, <1>9, <2>1 DEF Stop, StopCloses, StopWrites, StopWaits, StopJoins, Send
<1>10. ASSUME NEW s \in Sessions,
              \/ Connect(s) \/ ConnectFails(s) \/ Flush(s) \/ Deliver(s) \/ EndOfStream(s)
              \/ ReportOrphan(s) \/ Preamble(s) \/ PreambleFails(s) \/ WorkerCloses(s)
       PROVE  toCoordinator' \in [Sessions -> Seq(Answers)]
  BY <1>0, <1>10 DEF Connect, ConnectFails, Flush, Send, Deliver, EndOfStream, ReportOrphan, Preamble,
                     PreambleFails, WorkerCloses
<1>11. ASSUME NEW s \in Sessions, Finish(s) \/ LoseConnection(s)
       PROVE  toCoordinator' \in [Sessions -> Seq(Answers)]
  BY <1>5, <1>11 DEF Finish, LoseConnection
<1>12. ASSUME (\E t \in Threads : Write(t)) \/ (\E l \in Leases : TaskReturns(l))
       PROVE  toCoordinator' \in [Sessions -> Seq(Answers)]
  BY <1>0, <1>12 DEF Write, Send, TaskReturns
<1>13. QED
  BY <1>1, <1>3, <1>4, <1>6, <1>7, <1>8, <1>9, <1>10, <1>11, <1>12
  DEF Next, SessionThread, Handshake, Worker, Task

LEMMA TrafficStep ==
    ASSUME IInv, Next
    PROVE  Traffic'
<1> USE DEF callVars
<1> DEFINE S == ({"ASSIGN", "CANCEL"} \X Sessions \X Leases) \cup {Idle}
           C == ({"SHUTDOWN"} \X Sessions \X {"none"}) \cup {Idle}
<1>0. /\ writing \in [Threads -> Calls] /\ writing["scheduler"] \in S /\ writing["closer"] \in C
      /\ "scheduler" \in Threads /\ "closer" \in Threads
  BY DEF IInv, Traffic, CoordinatorTypes, Threads
<1>1. ASSUME NEW l \in Leases, Assign(l) PROVE writing'["scheduler"] \in S /\ writing'["closer"] \in C
  <2>1. <<"ASSIGN", LiveSession, l>> \in S
    BY <1>1 DEF Assign
  <2>2. UNCHANGED writing \/ writing' = [writing EXCEPT !["scheduler"] = <<"ASSIGN", LiveSession, l>>]
    BY <1>1 DEF Assign
  <2> HIDE DEF S, C
  <2>3. QED
    BY <1>0, <2>1, <2>2
<1>2. ASSUME NEW l \in Leases, Cancel(l) PROVE writing'["scheduler"] \in S /\ writing'["closer"] \in C
  <2>1. <<"CANCEL", home[l], l>> \in S
    BY <1>2 DEF Cancel, IInv, CoordinatorTypes
  <2>2. UNCHANGED writing \/ writing' = [writing EXCEPT !["scheduler"] = <<"CANCEL", home[l], l>>]
    BY <1>2 DEF Cancel
  <2> HIDE DEF S, C
  <2>3. QED
    BY <1>0, <2>1, <2>2
<1>3. CASE CloseIdleSession
  <2>1. <<"SHUTDOWN", current, "none">> \in C
    BY <1>3 DEF CloseIdleSession, Live, IInv, CoordinatorTypes
  <2>2. UNCHANGED writing \/ writing' = [writing EXCEPT !["closer"] = <<"SHUTDOWN", current, "none">>]
    BY <1>3 DEF CloseIdleSession
  <2> HIDE DEF S, C
  <2>3. QED
    BY <1>0, <2>1, <2>2, AnswersKept, TrafficParts DEF S, C, Traffic, Answers
<1>4. ASSUME NEW t \in Threads, Write(t) PROVE writing'["scheduler"] \in S /\ writing'["closer"] \in C
  <2>1. Idle \in S /\ Idle \in C
    OBVIOUS
  <2>2. writing' = [writing EXCEPT ![t] = Idle]
    BY <1>4 DEF Write
  <2> HIDE DEF S, C
  <2>3. QED
    BY <1>0, <2>1, <2>2
<1>5. CASE UNCHANGED writing
  BY <1>0, <1>5, AnswersKept DEF Traffic, Answers
<1>6. ASSUME ~UNCHANGED writing
      PROVE  \/ \E l \in Leases : Assign(l) \/ Cancel(l)
             \/ CloseIdleSession
             \/ \E t \in Threads : Write(t)
  BY <1>6 DEF Next, Scheduler, LeaseExpired, StopBegins, Stop, StopCloses, StopWrites, StopWaits, StopJoins, SessionThread,
              Handshake, Worker, Task, Connect, ConnectFails, Flush, Read, Deliver, EndOfStream, Finish,
              ReportOrphan, Preamble, PreambleFails, WorkerReads, WorkerRejects, WorkerCloses,
              LoseConnection, TaskReturns, TaskAnswers
<1>7. QED
  BY <1>1, <1>2, <1>3, <1>4, <1>5, <1>6, AnswersKept DEF Traffic, Answers

(* ending[s] only changes when the session reads what it cannot place.     *)
LEMMA HonestStep ==
    ASSUME IInv, Next
    PROVE  HonestWorkerIsTrusted'
<1>1. UNCHANGED ending
  <2>1. ASSUME NEW s \in Sessions, Read(s) PROVE UNCHANGED ending
    BY <2>1, ReadFacts DEF ReadOf
  <2>2. QED
    BY <2>1 DEF Next, Scheduler, Assign, Cancel, LeaseExpired, CloseIdleSession, Write, StopBegins, Stop,
        StopCloses, StopWrites, StopWaits, StopJoins, SessionThread, Handshake, Worker, Task, Connect, ConnectFails,
        Flush, Deliver, EndOfStream, Finish, ReportOrphan, Preamble, PreambleFails, WorkerReads,
        WorkerRejects, WorkerCloses, LoseConnection, TaskReturns, TaskAnswers, sessionVars
<1>2. QED
  BY <1>1 DEF IInv, HonestWorkerIsTrusted

-----------------------------------------------------------------------------
(* What no step takes back: the home of a lease, faults and the flags.     *)
LEMMA Settled ==
    ASSUME IInv, Next
    PROVE  /\ \A l \in Leases : home[l] # NoSession => home'[l] = home[l]
           /\ broken \subseteq broken' /\ retiring \subseteq retiring'
           /\ Stopping => Stopping'
<1> USE DEF leaseVars, sessionVars, callVars
<1>0. CoordinatorTypes
  BY DEF IInv
<1>1. \A l \in Leases : home[l] # NoSession => home'[l] = home[l]
  <2>1. \/ UNCHANGED home
        \/ \E k \in Leases, s \in Sessions : home[k] = NoSession /\ home' = [home EXCEPT ![k] = s]
    BY DEF Next, Scheduler, Assign, Cancel, LeaseExpired, CloseIdleSession, Write, StopBegins, Stop,
           StopCloses, StopWrites, StopWaits, StopJoins, SessionThread, Handshake, Worker, Task, Connect,
           ConnectFails, Flush, Read, Deliver, EndOfStream, Finish, ReportOrphan, Preamble,
           PreambleFails, WorkerReads, WorkerRejects, WorkerCloses, LoseConnection, TaskReturns,
           TaskAnswers
  <2>2. QED
    BY <1>0, <2>1 DEF CoordinatorTypes
<1>2. broken \subseteq broken'
  BY DEF Next, Scheduler, Assign, Cancel, LeaseExpired, CloseIdleSession, Write, StopBegins, Stop,
         StopCloses, StopWrites, StopWaits, StopJoins, SessionThread, Handshake, Worker, Task, Connect,
         ConnectFails, Flush, Read, Deliver, EndOfStream, Finish, ReportOrphan, Preamble,
         PreambleFails, WorkerReads, WorkerRejects, WorkerCloses, LoseConnection, TaskReturns,
         TaskAnswers, Fault
<1>3. retiring \subseteq retiring'
  BY DEF Next, Scheduler, Assign, Cancel, LeaseExpired, CloseIdleSession, Write, StopBegins, Stop,
         StopCloses, StopWrites, StopWaits, StopJoins, SessionThread, Handshake, Worker, Task, Connect,
         ConnectFails, Flush, Read, Deliver, EndOfStream, Finish, ReportOrphan, Preamble,
         PreambleFails, WorkerReads, WorkerRejects, WorkerCloses, LoseConnection, TaskReturns,
         TaskAnswers
<1>4. Stopping => Stopping'
  BY DEF Next, Scheduler, Assign, Cancel, LeaseExpired, CloseIdleSession, Write, StopBegins, Stop,
         StopCloses, StopWrites, StopWaits, StopJoins, SessionThread, Handshake, Worker, Task, Connect,
         ConnectFails, Flush, Read, Deliver, EndOfStream, Finish, ReportOrphan, Preamble,
         PreambleFails, WorkerReads, WorkerRejects, WorkerCloses, LoseConnection, TaskReturns,
         TaskAnswers, Stopping
<1>5. QED
  BY <1>1, <1>2, <1>3, <1>4

(* A link that was made stays, up or down.                                 *)
LEMMA LinksStay ==
    ASSUME IInv, Next
    PROVE  \A s \in Sessions : Connected(s) => Connected(s)'
<1> USE DEF linkVars, Connected
<1>0. link \in [Sessions -> {"none", "up", "down"}]
  BY DEF IInv, WorkerTypes
<1>1. ASSUME NEW s, Break(s) \/ Cut(s, 0)
      PROVE  \A r \in Sessions : Connected(r) => Connected(r)'
  BY <1>0, <1>1 DEF Break, Cut
<1>2. ASSUME NEW s, Connect(s) \/ WorkerCloses(s)
      PROVE  \A r \in Sessions : Connected(r) => Connected(r)'
  BY <1>0, <1>2 DEF Connect, WorkerCloses
<1>3. \/ UNCHANGED link
      \/ \E s : Break(s) \/ Cut(s, 0) \/ Connect(s) \/ WorkerCloses(s)
  BY DEF Next, Scheduler, Assign, Cancel, LeaseExpired, CloseIdleSession, Write, StopBegins, Stop,
         StopCloses, StopWrites, StopWaits, StopJoins, SessionThread, Handshake, Worker, Task,
         ConnectFails, Flush, Read, Deliver, EndOfStream, Finish, ReportOrphan, Preamble,
         PreambleFails, WorkerReads, WorkerRejects, LoseConnection, TaskReturns,
         TaskAnswers, Send, Answer
<1>4. QED
  BY <1>1, <1>2, <1>3

-----------------------------------------------------------------------------
(* The sessions in their order.                                            *)

(* The session a lease goes to is open for it.                             *)
LEMMA LiveSessionFacts ==
    ASSUME IInv, LiveSession \in Sessions
    PROVE  /\ LiveSession \notin retiring /\ ~Finished(LiveSession)
           /\ \/ LiveSession = current /\ phase[current] # "none"
              \/ LiveSession = current + 1 /\ phase[current + 1] = "none"
           /\ current \in Nat
<1>1. current \in Nat
  BY BoundsAssumption DEF IInv, CoordinatorTypes, Sessions, NoSession
<1>2. CASE Live(current)
  <2>1. LiveSession = current /\ current \in Sessions
    BY <1>2 DEF LiveSession
  <2>2. phase[current] # "none"
    BY <1>1, <2>1 DEF IInv, Order
  <2>3. QED
    BY <1>1, <1>2, <2>1, <2>2 DEF Live
<1>3. CASE ~Live(current)
  <2>1. LiveSession = current + 1 /\ current + 1 \in Sessions
    BY <1>3 DEF LiveSession
  <2>2. phase[current + 1] = "none"
    BY <1>1, <2>1 DEF IInv, Order
  <2>3. QED
    BY <1>1, <2>1, <2>2 DEF IInv, Order, Finished, CoordinatorTypes
<1>4. QED
  BY <1>2, <1>3

(* A step of session s moves s alone, forward.                             *)
LEMMA SessionPhase ==
    ASSUME IInv, NEW s \in Sessions, SessionThread(s) \/ Handshake(s)
    PROVE  /\ UNCHANGED <<home, current, retiring>>
           /\ known' \subseteq known
           /\ \A r \in Sessions : r # s => phase'[r] = phase[r] /\ pending'[r] = pending[r]
           /\ phase[s] # "none" /\ phase'[s] # "none" /\ phase[s] # "done"
           /\ \/ ~Finished(s)' /\ ~Finished(s)
              \/ Finish(s) /\ Finished(s)'
              \/ ReportOrphan(s) /\ Finished(s) /\ Finished(s)' /\ UNCHANGED <<known, pending>>
           /\ phase'[s] \in {"preamble", "flush", "pump"} =>
                 Connected(s) \/ link'[s] = "up"
<1> USE DEF leaseVars, sessionVars, linkVars, Finished, Connected
<1>0. CoordinatorTypes /\ WorkerTypes
  BY DEF IInv
<1>1. CASE Connect(s) \/ ConnectFails(s) \/ Preamble(s) \/ PreambleFails(s)
  BY <1>0, <1>1 DEF CoordinatorTypes, WorkerTypes, Connect, ConnectFails, Preamble, PreambleFails, MarkReady,
                    IInv, Order
<1>2. CASE Flush(s) \/ EndOfStream(s)
  BY <1>0, <1>2 DEF CoordinatorTypes, WorkerTypes, Flush, EndOfStream, IInv, Order
<1>3. CASE Read(s)
  <2>1. PICK l \in Leases, kind \in {"finished", "rejected"} : ReadOf(s, l, kind)
    BY <1>3, ReadFacts
  <2>2. QED
    BY <1>0, <2>1 DEF ReadOf, IInv, Order
<1>4. CASE Deliver(s)
  <2>1. phase[s] = "pump"
    BY <1>4 DEF Deliver, IInv, Claims
  <2>2. QED
    BY <1>0, <1>4, <2>1 DEF Deliver, IInv, Order
<1>5. CASE Finish(s)
  BY <1>0, <1>5 DEF CoordinatorTypes, Finish
<1>6. CASE ReportOrphan(s)
  BY <1>0, <1>6 DEF CoordinatorTypes, ReportOrphan
<1>7. QED
  BY <1>1, <1>2, <1>3, <1>4, <1>5, <1>6 DEF SessionThread, Handshake

LEMMA OrderStep ==
    ASSUME IInv, Next
    PROVE  Order'
<1> USE DEF leaseVars, sessionVars
<1>0. CoordinatorTypes /\ Order /\ \A s \in Sessions : Connected(s) => Connected(s)'
  BY LinksStay DEF IInv
<1>1. ASSUME NEW l \in Leases, Assign(l) PROVE Order'
  <2>0. PICK s \in Sessions : s = LiveSession
    BY <1>1 DEF Assign
  <2>1. /\ s \in Sessions /\ home' = [home EXCEPT ![l] = s] /\ known' = known \cup {l} /\ current' = s
        /\ phase' = IF s = current THEN phase ELSE [phase EXCEPT ![s] = "connecting"]
        /\ UNCHANGED <<retiring>>
        /\ \A r \in Sessions : r # s => pending'[r] = pending[r]
        /\ home[l] = NoSession
    BY <1>0, <1>1, <2>0 DEF Assign, CoordinatorTypes
  <2>2. /\ s \notin retiring /\ ~Finished(s) /\ current \in Nat
        /\ \/ s = current /\ phase[current] # "none"
           \/ s = current + 1 /\ phase[s] = "none"
    BY <2>0, LiveSessionFacts
  <2>3. ~Finished(s)' /\ \A r \in Sessions : r # s => Finished(r)' <=> Finished(r)
    BY <1>0, <2>1, <2>2 DEF Finished, CoordinatorTypes
  <2>4. \A r \in Sessions : phase'[r] = "none" <=> r > current'
    <3>1. CASE s = current
      BY <1>0, <2>1, <2>2, <3>1 DEF Order
    <3>2. CASE s = current + 1
      <4>1. ASSUME NEW r \in Sessions PROVE phase'[r] = "none" <=> r > current + 1
        <5>1. r \in Nat /\ (phase[r] = "none" <=> r > current)
          BY <1>0, BoundsAssumption DEF Order, Sessions
        <5>2. phase'[r] = IF r = current + 1 THEN "connecting" ELSE phase[r]
          BY <1>0, <2>1, <2>2, <3>2 DEF CoordinatorTypes
        <5>3. QED
          BY <2>2, <5>1, <5>2
      <4>2. QED
        BY <2>1, <3>2, <4>1
    <3>3. QED
      BY <2>2, <3>1, <3>2
  <2>5. \A r \in retiring' : phase'[r] # "none"
    BY <1>0, <2>1, <2>2 DEF Order, CoordinatorTypes
  <2>6. \A k \in Leases : home'[k] <= current'
    <3>1. \A k \in Leases : home[k] \in Nat /\ home[k] <= current
      BY <1>0, BoundsAssumption DEF Order, CoordinatorTypes, Sessions, NoSession
    <3>2. \A k \in Leases : home'[k] = IF k = l THEN s ELSE home[k]
      BY <1>0, <2>1 DEF CoordinatorTypes
    <3>3. QED
      BY <2>1, <2>2, <3>1, <3>2
  <2>7. \A k \in known' : home'[k] # NoSession /\ ~Finished(home[k])'
    <3>1. \A r \in Sessions : r # NoSession
      BY BoundsAssumption DEF Sessions, NoSession
    <3>2. ASSUME NEW k \in known, k # l PROVE home'[k] = home[k] /\ home[k] \in Sessions /\ ~Finished(home[k])
      BY <1>0, <2>1, <3>2 DEF CoordinatorTypes, Order
    <3>3. home'[l] = s
      BY <1>0, <2>1 DEF CoordinatorTypes
    <3>4. ASSUME NEW k \in known, k # l PROVE home'[k] # NoSession /\ ~Finished(home[k])'
      BY <2>1, <2>3, <3>1, <3>2, <3>4 DEF Finished
    <3>5. home'[l] # NoSession /\ ~Finished(home[l])'
      BY <2>1, <2>3, <3>1, <3>3 DEF Finished
    <3>6. QED
      BY <2>1, <3>4, <3>5
  <2>8. \A r \in Sessions : Finished(r)' => pending'[r] = <<>>
    BY <1>0, <2>1, <2>3 DEF Order
  <2>9. \A r \in Sessions : phase'[r] \in {"preamble", "flush", "pump"} => Connected(r)'
    BY <1>0, <2>1 DEF Order, CoordinatorTypes
  <2>10. QED
    BY <2>4, <2>5, <2>6, <2>7, <2>8, <2>9 DEF Order
<1>2. ASSUME NEW l \in Leases, Cancel(l) PROVE Order'
  <2>1. /\ UNCHANGED <<home, current, phase, retiring, known>>
        /\ \A r \in Sessions : pending'[r] = pending[r] \/ (r = home[l] /\ l \in known)
    BY <1>0, <1>2 DEF Cancel, MarkCancelled, CoordinatorTypes
  <2>2. QED
    BY <1>0, <2>1 DEF Order, Finished
<1>3. ASSUME UNCHANGED <<home, current, phase, known, pending>>,
             \A s \in retiring' : s \in retiring \/ s <= current
      PROVE  Order'
  <2>1. \A s \in retiring' : phase[s] # "none"
    <3>1. ASSUME NEW s \in Sessions, s <= current PROVE ~(s > current)
      BY <1>0, <3>1, BoundsAssumption DEF CoordinatorTypes, Sessions, NoSession
    <3>2. retiring' \subseteq Sessions
      BY TypesStep DEF CoordinatorTypes
    <3>3. QED
      BY <1>0, <1>3, <3>1, <3>2 DEF Order
  <2>2. QED
    BY <1>0, <1>3, <2>1 DEF Order, Finished
<1>4. ASSUME NEW s \in Sessions, SessionThread(s) \/ Handshake(s) PROVE Order'
  <2>1. /\ UNCHANGED <<home, current, retiring>>
        /\ known' \subseteq known
        /\ \A r \in Sessions : r # s => phase'[r] = phase[r] /\ pending'[r] = pending[r]
        /\ phase[s] # "none" /\ phase'[s] # "none"
        /\ \/ ~Finished(s)' /\ ~Finished(s)
           \/ Finish(s) /\ Finished(s)'
           \/ Finished(s) /\ Finished(s)' /\ UNCHANGED <<known, pending>>
        /\ phase'[s] \in {"preamble", "flush", "pump"} => Connected(s) \/ link'[s] = "up"
    BY <1>4, SessionPhase
  <2>2. \A r \in Sessions : phase'[r] = "none" <=> r > current'
    BY <1>0, <2>1 DEF Order
  <2>3. \A r \in retiring' : phase'[r] # "none"
    BY <1>0, <2>1 DEF Order, CoordinatorTypes
  <2>4. \A k \in known' : home'[k] # NoSession /\ ~Finished(home[k])'
    <3>1. ASSUME NEW k \in known' PROVE home'[k] # NoSession /\ ~Finished(home[k])'
      <4>1. k \in known /\ home'[k] = home[k] /\ home[k] \in Sessions /\ ~Finished(home[k])
        BY <1>0, <2>1 DEF Order, CoordinatorTypes
      <4>2. CASE home[k] # s
        BY <1>0, <2>1, <4>1, <4>2 DEF Finished, Order
      <4>3. CASE home[k] = s
        <5>1. ~Finish(s)
          BY <4>1, <4>3 DEF Finish, Of
        <5>2. QED
          BY <1>0, <2>1, <4>1, <4>3, <5>1 DEF Finished, Order
      <4>4. QED
        BY <4>2, <4>3
    <3>2. QED
      BY <3>1
  <2>5. \A r \in Sessions : Finished(r)' => pending'[r] = <<>>
    <3>1. Finish(s) => pending'[s] = <<>>
      BY <1>0 DEF Finish, CoordinatorTypes
    <3>2. QED
      BY <1>0, <2>1, <3>1 DEF Order, Finished
  <2>6. \A r \in Sessions : phase'[r] \in {"preamble", "flush", "pump"} => Connected(r)'
    BY <1>0, <2>1 DEF Order, Connected
  <2>7. QED
    BY <1>0, <2>1, <2>2, <2>3, <2>4, <2>5, <2>6 DEF Order
<1>5. ASSUME NEW l \in Leases, LeaseExpired(l) PROVE Order'
  <2>1. home[l] <= current
    BY <1>0 DEF Order
  <2>2. QED
    BY <1>3, <1>5, <2>1 DEF LeaseExpired, MarkCancelled
<1>6. CASE CloseIdleSession
  <2>1. current <= current
    BY <1>0, BoundsAssumption DEF CoordinatorTypes, Sessions, NoSession
  <2>2. QED
    BY <1>3, <1>6, <2>1 DEF CloseIdleSession
<1>7. CASE StopBegins \/ Stop \/ \E t \in Threads : Write(t)
  BY <1>3, <1>7 DEF StopBegins, Stop, StopCloses, StopWrites, StopWaits, StopJoins, Write
<1>8. CASE \/ \E s \in Sessions : Worker(s) \/ LoseConnection(s)
           \/ \E l \in Leases : Task(l)
  BY <1>3, <1>8 DEF Worker, WorkerReads, WorkerRejects, WorkerCloses, LoseConnection, Task, TaskReturns,
                    TaskAnswers
<1>9. QED
  BY <1>1, <1>2, <1>4, <1>5, <1>6, <1>7, <1>8 DEF Next, Scheduler

LEMMA StopOrderStep ==
    ASSUME IInv, Next
    PROVE  StopOrder'
<1> USE DEF leaseVars, sessionVars
<1>0. CoordinatorTypes /\ StopOrder /\ current \in Nat
  BY BoundsAssumption DEF IInv, CoordinatorTypes, Sessions, NoSession
<1>1. ASSUME NEW l \in Leases, Assign(l) PROVE StopOrder'
  BY <1>1 DEF Assign, Callable, Stopping, StopOrder
<1>2. ASSUME UNCHANGED <<stop, stopAt, current>>,
             \A s \in Sessions : phase[s] = "done" => phase'[s] = "done"
      PROVE  StopOrder'
  BY <1>0, <1>2 DEF StopOrder
<1>3. ASSUME NEW s \in Sessions, SessionThread(s) \/ Handshake(s) PROVE StopOrder'
  <2>1. UNCHANGED <<stop, stopAt>>
    BY <1>3 DEF SessionThread, Handshake, Connect, ConnectFails, Flush, Read, Deliver, EndOfStream,
                Finish, ReportOrphan, Preamble, PreambleFails, callVars
  <2>2. UNCHANGED current /\ \A r \in Sessions : phase[r] = "done" => phase'[r] = "done"
    BY <1>3, SessionPhase
  <2>3. QED
    BY <1>2, <2>1, <2>2
<1>4. CASE StopBegins
  <2>1. UNCHANGED <<current, phase>> /\ \A s \in Sessions : ~(s < 1) /\ ~(s <= NoSession)
    BY <1>4, BoundsAssumption DEF StopBegins, Sessions, NoSession
  <2>2. stop' = "stopped" => current = NoSession
    BY <1>4 DEF StopBegins
  <2>3. stop' # "stopped" => stopAt' = 1 /\ current # NoSession
    BY <1>4 DEF StopBegins
  <2>4. QED
    BY <1>0, <2>1, <2>2, <2>3 DEF StopOrder, NoSession
<1>5. CASE StopCloses \/ StopWrites \/ StopWaits
  <2>1. UNCHANGED <<current, phase, stopAt>> /\ stop \in {"close", "write", "wait"}
        /\ stop' \in {"write", "wait", "join"}
    BY <1>5 DEF StopCloses, StopWrites, StopWaits
  <2>2. QED
    BY <1>0, <2>1 DEF StopOrder
<1>6. CASE StopJoins
  <2>1. /\ UNCHANGED <<current, phase>> /\ stop = "join" /\ phase[stopAt] = "done"
        /\ stopAt \in 1..current /\ \A s \in Sessions : s < stopAt => phase[s] = "done"
    BY <1>0, <1>6 DEF StopJoins, StopOrder
  <2>2. CASE stopAt = current
    <3>1. \A s \in Sessions : s <= current => s < stopAt \/ s = stopAt
      BY <1>0, <2>2, BoundsAssumption DEF Sessions
    <3>2. QED
      BY <1>6, <2>1, <2>2, <3>1 DEF StopJoins, StopOrder
  <2>3. CASE stopAt # current
    <3>1. \A s \in Sessions : s < stopAt + 1 => s < stopAt \/ s = stopAt
      BY <1>0, <2>1, BoundsAssumption DEF Sessions
    <3>2. stop' = "close" /\ stopAt' = stopAt + 1 /\ stopAt + 1 \in 1..current
      BY <1>0, <1>6, <2>1, <2>3 DEF StopJoins
    <3>3. QED
      BY <2>1, <3>1, <3>2 DEF StopOrder
  <2>4. QED
    BY <2>2, <2>3
<1>7. CASE CloseIdleSession \/ \E l \in Leases : Cancel(l) \/ LeaseExpired(l)
  BY <1>2, <1>7 DEF CloseIdleSession, Cancel, LeaseExpired, callVars
<1>8. CASE \/ \E t \in Threads : Write(t)
           \/ \E s \in Sessions : Worker(s) \/ LoseConnection(s)
           \/ \E l \in Leases : Task(l)
  BY <1>2, <1>8 DEF Write, Worker, WorkerReads, WorkerRejects, WorkerCloses, LoseConnection, Task,
                    TaskReturns, TaskAnswers, callVars
<1>9. QED
  BY <1>1, <1>3, <1>4, <1>5, <1>6, <1>7, <1>8 DEF Next, Scheduler, Stop

-----------------------------------------------------------------------------
(* Claims, orphans and reports.                                            *)
LEMMA ClaimsStep ==
    ASSUME IInv, Next
    PROVE  Claims'
<1> USE DEF leaseVars, sessionVars
<1>0. /\ CoordinatorTypes /\ Claims
      /\ \A l \in Leases : home[l] # NoSession => home'[l] = home[l]
      /\ \A s \in Sessions : s # NoSession
  BY Settled, BoundsAssumption DEF IInv, Sessions, NoSession
<1>1. ASSUME UNCHANGED claim,
             \A s \in Sessions : claim[s] # NoClaim =>
                phase'[s] = "pump" /\ (claim[s][1] \in known' => claim[s][1] \in known)
      PROVE  Claims'
  BY <1>0, <1>1 DEF Claims
<1>2. ASSUME NEW l \in Leases, Assign(l) PROVE Claims'
  <2>1. /\ UNCHANGED claim /\ home[l] = NoSession /\ known' = known \cup {l}
        /\ phase' = IF LiveSession = current THEN phase ELSE [phase EXCEPT ![LiveSession] = "connecting"]
        /\ LiveSession = current \/ phase[LiveSession] = "none"
    BY <1>2, LiveSessionFacts DEF Assign
  <2>2. QED
    BY <1>0, <1>1, <2>1 DEF Claims, CoordinatorTypes
<1>3. ASSUME NEW s \in Sessions, Read(s) PROVE Claims'
  <2>1. PICK l \in Leases, kind \in {"finished", "rejected"} : ReadOf(s, l, kind)
    BY <1>3, ReadFacts
  <2>2. CASE l \in cancelled
    BY <1>0, <1>1, <2>1, <2>2 DEF ReadOf, Claims
  <2>3. CASE l \notin cancelled
    <3>1. /\ claim' = [claim EXCEPT ![s] = <<l, kind>>] /\ known' = known \ {l} /\ home[l] = s
          /\ phase[s] = "pump" /\ UNCHANGED <<phase, home>>
      BY <2>1, <2>3 DEF ReadOf
    <3>2. claim'[s] = <<l, kind>> /\ \A r \in Sessions : r # s => claim'[r] = claim[r]
      BY <1>0, <3>1 DEF CoordinatorTypes
    <3>3. claim'[s][1] = l /\ claim'[s][2] = kind
      BY <3>2
    <3>4. QED
      BY <1>0, <3>1, <3>2, <3>3 DEF Claims
  <2>4. QED
    BY <2>2, <2>3
<1>4. ASSUME NEW s \in Sessions, Deliver(s) PROVE Claims'
  <2>1. /\ claim'[s] = NoClaim /\ \A r \in Sessions : r # s => claim'[r] = claim[r]
        /\ UNCHANGED <<phase, home, known>>
    BY <1>0, <1>4 DEF Deliver, CoordinatorTypes
  <2>2. QED
    BY <1>0, <2>1 DEF Claims
<1>5. ASSUME NEW s \in Sessions,
             \/ Connect(s) \/ ConnectFails(s) \/ Preamble(s) \/ PreambleFails(s) \/ Flush(s)
             \/ EndOfStream(s) \/ Finish(s) \/ ReportOrphan(s)
      PROVE  Claims'
  <2>1. /\ UNCHANGED claim /\ known' \subseteq known
        /\ phase[s] # "pump" \/ claim[s] = NoClaim
        /\ \A r \in Sessions : r # s => phase'[r] = phase[r]
    BY <1>0, <1>5 DEF Connect, ConnectFails, Preamble, PreambleFails, Flush, EndOfStream, Finish,
                      ReportOrphan, CoordinatorTypes
  <2>2. QED
    BY <1>0, <1>1, <2>1 DEF Claims
<1>6. CASE UNCHANGED <<claim, phase, known>>
  BY <1>0, <1>1, <1>6 DEF Claims
<1>7. CASE \/ \E l \in Leases : Cancel(l) \/ LeaseExpired(l)
           \/ StopBegins \/ Stop \/ CloseIdleSession \/ \E t \in Threads : Write(t)
  BY <1>6, <1>7 DEF Cancel, LeaseExpired, MarkCancelled, StopBegins, Stop, StopCloses, StopWrites, StopWaits, StopJoins,
                    CloseIdleSession, Write
<1>8. CASE \/ \E s \in Sessions : Worker(s) \/ LoseConnection(s)
           \/ \E l \in Leases : Task(l)
  BY <1>6, <1>8 DEF Worker, WorkerReads, WorkerRejects, WorkerCloses, LoseConnection, Task,
                    TaskReturns, TaskAnswers
<1>9. QED
  BY <1>2, <1>3, <1>4, <1>5, <1>7, <1>8 DEF Next, Scheduler, SessionThread, Handshake

(* A session that ends with leases nobody gave up has met a fault.         *)
LEMMA OrphansHaveACause ==
    ASSUME IInv, NEW s \in Sessions, phase[s] = "over", ~Stopping, Of(s) # {}
    PROVE  s \in broken
<1>1. Excused(s)
  BY DEF IInv, Causes
<1>2. QED
  BY <1>1 DEF Excused, IInv, Causes

LEMMA OrphansStep ==
    ASSUME IInv, Next
    PROVE  Orphans'
<1> USE DEF leaseVars, sessionVars
<1>0. /\ CoordinatorTypes /\ Orphans /\ broken \subseteq broken'
      /\ \A l \in Leases : home[l] # NoSession => home'[l] = home[l]
      /\ \A s \in Sessions : s # NoSession
  BY Settled, BoundsAssumption DEF IInv, Sessions, NoSession
<1>1. ASSUME \A s \in Sessions : orphans'[s] \subseteq orphans[s],
             \A s \in Sessions : orphans'[s] # {} /\ phase[s] = "report" => phase'[s] = "report"
      PROVE  Orphans'
  BY <1>0, <1>1 DEF Orphans, CoordinatorTypes
<1>2. ASSUME NEW l \in Leases, Assign(l) PROVE Orphans'
  <2>1. /\ UNCHANGED orphans
        /\ phase' = IF LiveSession = current THEN phase ELSE [phase EXCEPT ![LiveSession] = "connecting"]
        /\ LiveSession = current \/ phase[LiveSession] = "none"
    BY <1>2, LiveSessionFacts DEF Assign
  <2>2. QED
    BY <1>0, <1>1, <2>1 DEF CoordinatorTypes
<1>3. ASSUME NEW s \in Sessions, Finish(s) PROVE Orphans'
  <2>1. /\ phase[s] = "over"
        /\ phase'[s] = "report" /\ orphans'[s] = IF Stopping THEN {} ELSE Of(s) \ cancelled
        /\ \A r \in Sessions : r # s => orphans'[r] = orphans[r] /\ phase'[r] = phase[r]
        /\ UNCHANGED home
    BY <1>0, <1>3 DEF Finish, CoordinatorTypes
  <2>2. ASSUME NEW l \in orphans'[s] PROVE home'[l] = s /\ s \in broken'
    <3>1. ~Stopping /\ l \in Of(s)
      BY <2>1, <2>2
    <3>2. QED
      BY <1>0, <2>1, <3>1, OrphansHaveACause DEF Of
  <2>3. QED
    BY <1>0, <2>1, <2>2 DEF Orphans, CoordinatorTypes
<1>4. ASSUME NEW s \in Sessions, ReportOrphan(s) PROVE Orphans'
  <2>1. CASE orphans[s] = {} /\ UNCHANGED orphans /\ phase' = [phase EXCEPT ![s] = "done"]
    BY <1>0, <1>1, <2>1 DEF CoordinatorTypes
  <2>2. CASE UNCHANGED phase /\ \E l \in orphans[s] : orphans' = [orphans EXCEPT ![s] = @ \ {l}]
    BY <1>0, <1>1, <2>2 DEF CoordinatorTypes
  <2>3. QED
    BY <1>4, <2>1, <2>2 DEF ReportOrphan
<1>5. ASSUME NEW s \in Sessions,
             \/ Connect(s) \/ ConnectFails(s) \/ Preamble(s) \/ PreambleFails(s) \/ Flush(s)
             \/ Read(s) \/ EndOfStream(s)
      PROVE  Orphans'
  <2>1. /\ UNCHANGED orphans /\ phase[s] # "report"
        /\ \A r \in Sessions : r # s => phase'[r] = phase[r]
    BY <1>0, <1>5 DEF Connect, ConnectFails, Preamble, PreambleFails, Flush, Read, EndOfStream,
                      CoordinatorTypes
  <2>2. QED
    BY <1>1, <2>1
<1>6. CASE UNCHANGED <<orphans, phase>>
  BY <1>1, <1>6
<1>7. CASE \/ \E l \in Leases : Cancel(l) \/ LeaseExpired(l)
           \/ StopBegins \/ Stop \/ CloseIdleSession \/ \E t \in Threads : Write(t)
  BY <1>6, <1>7 DEF Cancel, LeaseExpired, StopBegins, Stop, StopCloses, StopWrites, StopWaits, StopJoins,
                    CloseIdleSession, Write
<1>8. CASE \/ \E s \in Sessions : Worker(s) \/ LoseConnection(s) \/ Deliver(s)
           \/ \E l \in Leases : Task(l)
  BY <1>6, <1>8 DEF Worker, WorkerReads, WorkerRejects, WorkerCloses, LoseConnection, Task,
                    TaskReturns, TaskAnswers, Deliver
<1>9. QED
  BY <1>2, <1>3, <1>4, <1>5, <1>7, <1>8 DEF Next, Scheduler, SessionThread, Handshake

LEMMA ReportsStep ==
    ASSUME IInv, Next
    PROVE  Reports'
<1> USE DEF leaseVars
<1>0. /\ CoordinatorTypes /\ Reports /\ broken \subseteq broken'
      /\ \A l \in Leases : home[l] # NoSession => home'[l] = home[l]
      /\ \A s \in Sessions : s # NoSession
      /\ NoSession \notin broken
  <2>1. \A s \in Sessions : s # NoSession
    BY BoundsAssumption DEF Sessions, NoSession
  <2>2. QED
    BY <2>1, Settled DEF IInv, CoordinatorTypes
<1>1. ASSUME NEW l \in Leases, NEW k \in Kinds, report' = [report EXCEPT ![l] = Append(@, k)],
             home[l] # NoSession, k = "executor_lost" => home[l] \in broken
      PROVE  Reports'
  <2>1. report'[l] = Append(report[l], k) /\ \A m \in Leases : m # l => report'[m] = report[m]
    BY <1>0, <1>1 DEF CoordinatorTypes
  <2>2. Has(report'[l], "executor_lost") => Has(report[l], "executor_lost") \/ k = "executor_lost"
    BY <1>0, <2>1, Appended DEF CoordinatorTypes
  <2>3. QED
    BY <1>0, <1>1, <2>1, <2>2 DEF Reports
<1>2. CASE UNCHANGED report
  BY <1>0, <1>2 DEF Reports
<1>3. ASSUME NEW s \in Sessions, Deliver(s) PROVE Reports'
  <2>1. /\ claim[s][1] \in Leases /\ claim[s][2] \in Kinds /\ claim[s][2] # "executor_lost"
        /\ home[claim[s][1]] = s
    BY <1>3 DEF Deliver, IInv, Claims, Kinds
  <2>2. QED
    BY <1>0, <1>1, <1>3, <2>1 DEF Deliver
<1>4. ASSUME NEW s \in Sessions, ReportOrphan(s) PROVE Reports'
  <2>1. ASSUME NEW l \in orphans[s], NEW k \in {"invalid_result", "executor_lost"},
               report' = [report EXCEPT ![l] = Append(@, k)]
        PROVE  Reports'
    <3>1. l \in Leases /\ home[l] = s /\ s \in broken /\ k \in Kinds
      BY DEF IInv, CoordinatorTypes, Orphans, Kinds
    <3>2. QED
      BY <1>0, <1>1, <2>1, <3>1
  <2>2. QED
    BY <1>2, <1>4, <2>1 DEF ReportOrphan
<1>5. \/ UNCHANGED report
      \/ \E s \in Sessions : Deliver(s) \/ ReportOrphan(s)
  BY DEF Next, Scheduler, Assign, Cancel, LeaseExpired, CloseIdleSession, Write, StopBegins, Stop,
         StopCloses, StopWrites, StopWaits, StopJoins, SessionThread, Handshake, Worker, Task, Connect,
         ConnectFails, Flush, Read, EndOfStream, Finish, Preamble, PreambleFails, WorkerReads,
         WorkerRejects, WorkerCloses, LoseConnection, TaskReturns, TaskAnswers
<1>6. QED
  BY <1>2, <1>3, <1>4, <1>5

-----------------------------------------------------------------------------
(* The reasons for which sessions end.                                     *)
LEMMA StillExcused ==
    ASSUME IInv, Next
    PROVE  \A s \in Sessions : Excused(s) => Excused(s)'
  BY Settled DEF Excused

Shutdown == <<"SHUTDOWN", "none">>

LEMMA CauseOfLink ==
    ASSUME IInv, Next
    PROVE  \A s \in Sessions : link'[s] = "down" => Excused(s)'
<1> USE DEF linkVars
<1>0. /\ link \in [Sessions -> {"none", "up", "down"}]
      /\ \A s \in Sessions : Excused(s) => Excused(s)'
      /\ \A s \in Sessions : link[s] = "down" => Excused(s)
  BY StillExcused DEF IInv, Causes, WorkerTypes
<1>1. ASSUME NEW s, Excused(s)', Break(s) \/ Cut(s, 0) \/ WorkerCloses(s)
      PROVE  \A r \in Sessions : link'[r] = "down" => Excused(r)'
  <2>1. \A r \in Sessions : r # s => link'[r] = link[r]
    BY <1>0, <1>1 DEF Break, Cut, WorkerCloses
  <2>2. QED
    BY <1>0, <1>1, <2>1
<1>2. ASSUME NEW s \in Sessions, Connect(s) PROVE \A r \in Sessions : link'[r] = "down" => Excused(r)'
  <2>1. \A r \in Sessions : link'[r] \in {"up", link[r]}
    BY <1>0, <1>2 DEF Connect
  <2>2. QED
    BY <1>0, <2>1
<1>3. ASSUME UNCHANGED link PROVE \A r \in Sessions : link'[r] = "down" => Excused(r)'
  BY <1>0, <1>3
<1>4. ASSUME NEW s \in Sessions, WorkerCloses(s) \/ Finish(s) PROVE Excused(s)'
  BY <1>0, <1>4 DEF WorkerCloses, Finish, IInv, Causes
<1>5. ASSUME NEW s \in Sessions, LoseConnection(s) PROVE Excused(s)'
  BY <1>5 DEF LoseConnection, Fault, Excused
<1>6. ASSUME NEW l \in Leases, LeaseExpired(l)
      PROVE  \A r \in Sessions : link'[r] = "down" => Excused(r)'
  <2>1. CASE l \in known
    <3>1. Excused(home[l])' /\ Break(home[l]) /\ UNCHANGED home
      BY <1>6, <2>1 DEF LeaseExpired, Fault, Excused, leaseVars
    <3>2. QED
      BY <1>1, <3>1
  <2>2. CASE l \notin known
    BY <1>3, <1>6, <2>2 DEF LeaseExpired
  <2>3. QED
    BY <2>1, <2>2
<1>7. CASE CloseIdleSession
  <2>1. Excused(current)' /\ UNCHANGED current
    BY <1>7 DEF CloseIdleSession, Excused
  <2>2. QED
    BY <1>1, <1>3, <1>7, <2>1 DEF CloseIdleSession
<1>8. CASE Stop
  <2>1. Excused(stopAt)' /\ \A r : Excused(r)'
    BY <1>8 DEF Stop, StopCloses, StopWrites, StopWaits, StopJoins, Excused, Stopping
  <2>2. QED
    BY <2>1
<1>9. \/ UNCHANGED link
      \/ \E s \in Sessions : \/ Connect(s) \/ WorkerCloses(s)
                             \/ Finish(s) /\ Cut(s, 0)
                             \/ LoseConnection(s) /\ Break(s)
      \/ \E l \in Leases : LeaseExpired(l)
      \/ CloseIdleSession \/ Stop
  BY DEF Next, Scheduler, Assign, Cancel, Write, StopBegins, SessionThread, Handshake, Worker, Task,
         ConnectFails, Flush, Read, Deliver, EndOfStream, Finish, ReportOrphan, Preamble,
         PreambleFails, WorkerReads, WorkerRejects, LoseConnection, TaskReturns, TaskAnswers,
         Send, Answer
<1>10. QED
  BY <1>1, <1>2, <1>3, <1>4, <1>5, <1>6, <1>7, <1>8, <1>9

LEMMA CauseOfShutdown ==
    ASSUME IInv, Next
    PROVE  \A s \in Sessions : Has(toWorker'[s], Shutdown) => Excused(s)'
<1> USE DEF linkVars
<1>0. /\ toWorker \in [Sessions -> Seq(Frames)]
      /\ \A s \in Sessions : Excused(s) => Excused(s)'
      /\ \A s \in Sessions : Has(toWorker[s], Shutdown) => Excused(s)
      /\ Shutdown \in Frames
  BY StillExcused DEF IInv, Causes, WorkerTypes, Shutdown, Frames
<1>1. ASSUME UNCHANGED toWorker PROVE \A r \in Sessions : Has(toWorker'[r], Shutdown) => Excused(r)'
  BY <1>0, <1>1
<1>2. ASSUME NEW s, Break(s) \/ Cut(s, 0)
      PROVE  \A r \in Sessions : Has(toWorker'[r], Shutdown) => Excused(r)'
  <2>1. \A r \in Sessions : toWorker'[r] = <<>> \/ toWorker'[r] = toWorker[r]
    BY <1>0, <1>2 DEF Break, Cut
  <2>2. QED
    BY <1>0, <2>1, NothingInEmpty
<1>3. ASSUME NEW s \in Sessions, toWorker[s] # <<>>, toWorker' = [toWorker EXCEPT ![s] = Tail(@)]
      PROVE  \A r \in Sessions : Has(toWorker'[r], Shutdown) => Excused(r)'
  <2>1. Has(Tail(toWorker[s]), Shutdown) => Has(toWorker[s], Shutdown)
    BY <1>0, <1>3, Removed
  <2>2. QED
    BY <1>0, <1>3, <2>1
<1>4. ASSUME NEW s \in Sessions, NEW f \in Frames, Send(s, f), f = Shutdown => Excused(s)'
      PROVE  \A r \in Sessions : Has(toWorker'[r], Shutdown) => Excused(r)'
  <2>1. Has(Append(toWorker[s], f), Shutdown) => Has(toWorker[s], Shutdown) \/ f = Shutdown
    BY <1>0, Appended
  <2>2. QED
    BY <1>0, <1>4, <2>1 DEF Send
<1>5. ASSUME NEW t \in Threads, Write(t)
      PROVE  \A r \in Sessions : Has(toWorker'[r], Shutdown) => Excused(r)'
  <2>1. writing[t][2] \in Sessions /\ <<writing[t][1], writing[t][3]>> \in Frames
    BY <1>5 DEF Write, IInv, Traffic, Threads, Frames
  <2>2. ASSUME <<writing[t][1], writing[t][3]>> = Shutdown PROVE Excused(writing[t][2])
    <3>1. writing[t][1] = "SHUTDOWN"
      BY <2>2 DEF Shutdown
    <3>2. t = "closer"
      BY <1>5, <3>1 DEF Write, IInv, Traffic, Threads
    <3>3. QED
      BY <1>5, <3>2 DEF Write, IInv, Causes, Excused
  <2>3. PICK s \in Sessions : s = writing[t][2]
    BY <2>1
  <2>4. QED
    BY <1>0, <1>4, <1>5, <2>1, <2>2, <2>3 DEF Write
<1>6. ASSUME NEW s \in Sessions, Flush(s)
      PROVE  \A r \in Sessions : Has(toWorker'[r], Shutdown) => Excused(r)'
  <2>1. ASSUME pending[s] # <<>>
        PROVE  <<"ASSIGN", Head(pending[s])>> \in Frames /\ <<"ASSIGN", Head(pending[s])>> # Shutdown
    BY <2>1, Removed DEF IInv, CoordinatorTypes, Frames, Shutdown
  <2>2. QED
    BY <1>1, <1>4, <1>6, <2>1 DEF Flush
<1>7. CASE Stop
  BY <1>7 DEF Stop, StopCloses, StopWrites, StopWaits, StopJoins, Excused, Stopping
<1>8. ASSUME NEW s \in Sessions, WorkerReads(s) \/ WorkerRejects(s)
      PROVE  \A r \in Sessions : Has(toWorker'[r], Shutdown) => Excused(r)'
  BY <1>3, <1>8 DEF WorkerReads, WorkerRejects
<1>9. CASE Scheduler \/ CloseIdleSession
  BY <1>1, <1>2, <1>9 DEF Scheduler, Assign, Cancel, LeaseExpired, StopBegins, CloseIdleSession
<1>10. ASSUME NEW s \in Sessions,
              \/ Connect(s) \/ ConnectFails(s) \/ Read(s) \/ Deliver(s) \/ EndOfStream(s)
              \/ Finish(s) \/ ReportOrphan(s) \/ Preamble(s) \/ PreambleFails(s)
              \/ WorkerCloses(s) \/ LoseConnection(s)
       PROVE  \A r \in Sessions : Has(toWorker'[r], Shutdown) => Excused(r)'
  BY <1>1, <1>2, <1>10 DEF Connect, ConnectFails, Read, Deliver, EndOfStream, Finish, ReportOrphan, Preamble,
                    PreambleFails, WorkerCloses, LoseConnection
<1>11. CASE \E l \in Leases : Task(l)
  BY <1>1, <1>11 DEF Task, TaskReturns, TaskAnswers, Answer
<1>12. QED
  BY <1>5, <1>6, <1>7, <1>8, <1>9, <1>10, <1>11
  DEF Next, SessionThread, Handshake, Worker

LEMMA CauseOfClosing ==
    ASSUME IInv, Next
    PROVE  \A s \in Sessions : worker'[s] = "closing" => Excused(s)'
<1> USE DEF workerVars
<1>0. /\ worker \in [Sessions -> {"none", "serving", "closing", "gone"}]
      /\ \A s \in Sessions : Excused(s) => Excused(s)'
      /\ \A s \in Sessions : worker[s] = "closing" => Excused(s)
      /\ \A s \in Sessions : Has(toWorker[s], Shutdown) => Excused(s)
  BY StillExcused DEF IInv, Causes, WorkerTypes, Shutdown
<1>1. ASSUME \A s \in Sessions : worker'[s] = "closing" => worker[s] = "closing"
      PROVE  \A s \in Sessions : worker'[s] = "closing" => Excused(s)'
  BY <1>0, <1>1
<1>2. ASSUME NEW s, Break(s) \/ Cut(s, 0) \/ Connect(s) \/ WorkerCloses(s)
      PROVE  \A r \in Sessions : worker'[r] = "closing" => worker[r] = "closing"
  BY <1>0, <1>2 DEF Break, Cut, Connect, WorkerCloses
<1>3. ASSUME NEW s \in Sessions, WorkerReads(s)
      PROVE  \A r \in Sessions : worker'[r] = "closing" => Excused(r)'
  <2>1. Head(toWorker[s]) \in Frames /\ Has(toWorker[s], Head(toWorker[s])) /\ toWorker[s] # <<>>
    BY <1>3, Removed DEF WorkerReads, IInv, WorkerTypes
  <2>2. \/ UNCHANGED worker
        \/ Head(toWorker[s])[1] = "SHUTDOWN" /\ worker' = [worker EXCEPT ![s] = "closing"]
    BY <1>3, <2>1, AssignedOnce DEF WorkerReads
  <2>3. Head(toWorker[s])[1] = "SHUTDOWN" => Head(toWorker[s]) = Shutdown
    BY <2>1 DEF Frames, Shutdown
  <2>4. QED
    BY <1>0, <2>1, <2>2, <2>3
<1>4. \/ UNCHANGED worker
      \/ \E s : Break(s) \/ Cut(s, 0) \/ Connect(s) \/ WorkerCloses(s)
      \/ \E s \in Sessions : WorkerReads(s)
  BY DEF Next, Scheduler, Assign, Cancel, LeaseExpired, CloseIdleSession, Write, StopBegins, Stop,
         StopCloses, StopWrites, StopWaits, StopJoins, SessionThread, Handshake, Worker, Task,
         ConnectFails, Flush, Read, Deliver, EndOfStream, Finish, ReportOrphan, Preamble,
         PreambleFails, WorkerRejects, LoseConnection, TaskReturns, TaskAnswers
<1>5. QED
  BY <1>1, <1>2, <1>3, <1>4

LEMMA CauseOfEnd ==
    ASSUME IInv, Next
    PROVE  \A s \in Sessions : phase'[s] \in {"over", "report", "done"} => Excused(s)'
<1> USE DEF sessionVars
<1>0. /\ CoordinatorTypes /\ WorkerTypes
      /\ \A s \in Sessions : Excused(s) => Excused(s)'
      /\ \A s \in Sessions : phase[s] \in {"over", "report", "done"} => Excused(s)
      /\ \A s \in Sessions : link[s] = "down" => Excused(s)
  BY StillExcused DEF IInv, Causes
<1>1. ASSUME NEW s \in Sessions, Connect(s) \/ ConnectFails(s) \/ EndOfStream(s) \/ Finish(s) \/ ReportOrphan(s)
      PROVE  Excused(s)' \/ phase'[s] = "preamble"
  BY <1>0, <1>1 DEF Connect, ConnectFails, EndOfStream, Finish, ReportOrphan, Fault, Excused, CoordinatorTypes
<1>2. ASSUME NEW s \in Sessions, PreambleFails(s) PROVE Excused(s)'
  <2>1. link[s] \in {"up", "down"}
    BY <1>0, <1>2 DEF PreambleFails, IInv, Order, Connected, WorkerTypes
  <2>2. QED
    BY <1>0, <1>2, <2>1 DEF PreambleFails, Fault, Excused
<1>3. ASSUME NEW s \in Sessions, SessionThread(s) \/ Handshake(s)
      PROVE  \A r \in Sessions : phase'[r] \in {"over", "report", "done"} => Excused(r)'
  <2>1. \A r \in Sessions : r # s => phase'[r] = phase[r]
    BY <1>3, SessionPhase
  <2>2. CASE Preamble(s) \/ Flush(s) \/ Deliver(s)
    BY <1>0, <2>1, <2>2 DEF Preamble, Flush, Deliver, CoordinatorTypes
  <2>3. CASE Read(s)
    BY <1>0, <2>1, <2>3, ReadFacts DEF ReadOf
  <2>4. QED
    BY <1>0, <1>1, <1>2, <1>3, <2>1, <2>2, <2>3 DEF SessionThread, Handshake
<1>4. ASSUME NEW l \in Leases, Assign(l)
      PROVE  \A r \in Sessions : phase'[r] \in {"over", "report", "done"} => Excused(r)'
  BY <1>0, <1>4 DEF Assign, CoordinatorTypes
<1>5. CASE UNCHANGED phase
  BY <1>0, <1>5
<1>6. \/ UNCHANGED phase
      \/ \E l \in Leases : Assign(l)
      \/ \E s \in Sessions : SessionThread(s) \/ Handshake(s)
  BY DEF Next, Scheduler, Cancel, LeaseExpired, CloseIdleSession, Write, StopBegins, Stop,
         StopCloses, StopWrites, StopWaits, StopJoins, Worker, Task, WorkerReads, WorkerRejects, WorkerCloses,
         LoseConnection, TaskReturns, TaskAnswers
<1>7. QED
  BY <1>3, <1>4, <1>5, <1>6

LEMMA CausesStep ==
    ASSUME IInv, Next
    PROVE  Causes'
<1> USE DEF leaseVars, sessionVars, callVars
<1>0. /\ CoordinatorTypes /\ Causes
      /\ broken \subseteq broken' /\ retiring \subseteq retiring'
      /\ \A l \in Leases : home[l] # NoSession => home'[l] = home[l]
      /\ \A s \in Sessions : s # NoSession
  BY Settled, BoundsAssumption DEF IInv, Sessions, NoSession
<1>1. writing'["closer"] # Idle => writing'["closer"][2] \in retiring'
  <2>1. CASE CloseIdleSession
    <3>1. \/ UNCHANGED writing
          \/ writing' = [writing EXCEPT !["closer"] = <<"SHUTDOWN", current, "none">>]
      BY <2>1 DEF CloseIdleSession
    <3>2. current \in retiring'
      BY <2>1 DEF CloseIdleSession
    <3>3. "closer" \in Threads /\ <<"SHUTDOWN", current, "none">>[2] = current
      BY DEF Threads
    <3>4. CASE UNCHANGED writing
      BY <1>0, <3>4 DEF Causes
    <3>5. CASE writing' = [writing EXCEPT !["closer"] = <<"SHUTDOWN", current, "none">>]
      BY <1>0, <3>2, <3>3, <3>5 DEF CoordinatorTypes
    <3>6. QED
      BY <3>1, <3>4, <3>5
  <2>2. CASE \E t \in Threads : Write(t)
    BY <1>0, <2>2 DEF Write, Causes, CoordinatorTypes
  <2>3. CASE \E l \in Leases : Assign(l) \/ Cancel(l)
    <3>1. UNCHANGED writing \/ \E w : writing' = [writing EXCEPT !["scheduler"] = w]
      BY <2>3 DEF Assign, Cancel
    <3>2. writing'["closer"] = writing["closer"]
      BY <1>0, <3>1 DEF CoordinatorTypes, Threads
    <3>3. QED
      BY <1>0, <3>2 DEF Causes
  <2>4. CASE UNCHANGED writing
    BY <1>0, <2>4 DEF Causes
  <2>5. \/ UNCHANGED writing
        \/ CloseIdleSession
        \/ \E t \in Threads : Write(t)
        \/ \E l \in Leases : Assign(l) \/ Cancel(l)
    BY DEF Next, Scheduler, LeaseExpired, StopBegins, Stop, StopCloses, StopWrites, StopWaits, StopJoins, SessionThread,
           Handshake, Worker, Task, Connect, ConnectFails, Flush, Read, Deliver, EndOfStream, Finish,
           ReportOrphan, Preamble, PreambleFails, WorkerReads, WorkerRejects, WorkerCloses,
           LoseConnection, TaskReturns, TaskAnswers
  <2>6. QED
    BY <2>1, <2>2, <2>3, <2>4, <2>5
<1>2. \A s \in retiring' : s \in broken' \/ Of(s)' = {}
  <2>1. ASSUME NEW l \in Leases, Assign(l) PROVE \A s \in retiring' : s \in broken' \/ Of(s)' = {}
    <3>1. PICK h \in Sessions : h = LiveSession
      BY <2>1 DEF Assign
    <3>2. /\ home' = [home EXCEPT ![l] = h] /\ known' = known \cup {l} /\ UNCHANGED retiring
          /\ h \notin retiring
      BY <2>1, <3>1, LiveSessionFacts DEF Assign
    <3>3. \A s \in retiring : Of(s)' \subseteq Of(s)
      BY <1>0, <3>2 DEF Of, CoordinatorTypes
    <3>4. QED
      BY <1>0, <3>2, <3>3 DEF Causes
  <2>2. ASSUME known' \subseteq known, UNCHANGED home,
               \A s \in retiring' : s \in retiring \/ s \in broken' \/ Of(s) = {}
        PROVE  \A s \in retiring' : s \in broken' \/ Of(s)' = {}
    BY <1>0, <2>2 DEF Causes, Of
  <2>3. CASE CloseIdleSession
    BY <2>2, <2>3 DEF CloseIdleSession
  <2>4. ASSUME NEW l \in Leases, LeaseExpired(l) PROVE \A s \in retiring' : s \in broken' \/ Of(s)' = {}
    BY <2>2, <2>4 DEF LeaseExpired, MarkCancelled, Fault
  <2>5. CASE \/ StopBegins \/ Stop
             \/ \E l \in Leases : Cancel(l) \/ Task(l)
             \/ \E t \in Threads : Write(t)
             \/ \E s \in Sessions : Worker(s) \/ LoseConnection(s)
    <3>1. UNCHANGED <<known, home, retiring>>
      BY <2>5 DEF StopBegins, Stop, StopCloses, StopWrites, StopWaits, StopJoins, Cancel, MarkCancelled, Write, Worker, Task,
                  WorkerReads, WorkerRejects, WorkerCloses, LoseConnection, TaskReturns, TaskAnswers
    <3>2. QED
      BY <2>2, <3>1
  <2>6. ASSUME NEW s \in Sessions, SessionThread(s) \/ Handshake(s)
        PROVE  \A r \in retiring' : r \in broken' \/ Of(r)' = {}
    BY <2>2, <2>6, SessionPhase
  <2>7. QED
    BY <2>1, <2>3, <2>4, <2>5, <2>6 DEF Next, Scheduler
<1>3. QED
  BY <1>1, <1>2, CauseOfLink, CauseOfShutdown, CauseOfClosing, CauseOfEnd DEF Causes, Shutdown

-----------------------------------------------------------------------------
(* The way of a lease to the worker and back.                              *)

(* The step puts l nowhere new in session s.                               *)
Stays(l, s) ==
    /\ Queued(l, s)' => Queued(l, s)
    /\ Written(l, s)' => Written(l, s)
    /\ OnWire(l, s)' => OnWire(l, s)
    /\ AtWorker(l, s)' => AtWorker(l, s)
    /\ Has(toCoordinator'[s], <<"RESULT", l>>) => Has(toCoordinator[s], <<"RESULT", l>>)
    /\ Has(toCoordinator'[s], <<"REJECT", l>>) => Has(toCoordinator[s], <<"REJECT", l>>)
    /\ Once(pending[s], l) => Once(pending'[s], l)
    /\ Once(toWorker[s], <<"ASSIGN", l>>) => Once(toWorker'[s], <<"ASSIGN", l>>)
    /\ Once(toCoordinator[s], <<"RESULT", l>>) => Once(toCoordinator'[s], <<"RESULT", l>>)
    /\ Once(toCoordinator[s], <<"REJECT", l>>) => Once(toCoordinator'[s], <<"REJECT", l>>)

LEMMA StaysOne ==
    ASSUME NEW l, NEW s, OneAt(l, s), Stays(l, s)
    PROVE  OneAt(l, s)'
  BY DEF OneAt, Stays, Answered

LEMMA StaysUnderWay ==
    ASSUME NEW l, NEW s, Stays(l, s), UnderWay(l, s)'
    PROVE  UnderWay(l, s)
  BY DEF UnderWay, Stays, Answered

LEMMA FinishedStays ==
    ASSUME IInv, Next
    PROVE  \A s \in Sessions : Finished(s) => Finished(s)'
<1>1. ASSUME NEW l \in Leases, Assign(l) PROVE \A s \in Sessions : Finished(s) => Finished(s)'
  <2>1. /\ phase' = IF LiveSession = current THEN phase ELSE [phase EXCEPT ![LiveSession] = "connecting"]
        /\ ~Finished(LiveSession)
    BY <1>1, LiveSessionFacts DEF Assign
  <2>2. QED
    BY <2>1 DEF Finished, IInv, CoordinatorTypes
<1>2. ASSUME NEW s \in Sessions, SessionThread(s) \/ Handshake(s)
      PROVE  \A r \in Sessions : Finished(r) => Finished(r)'
  <2>1. \A r \in Sessions : r # s => phase'[r] = phase[r]
    BY <1>2, SessionPhase
  <2>2. Finished(s) => Finished(s)'
    BY <1>2, SessionPhase
  <2>3. QED
    BY <2>1, <2>2 DEF Finished
<1>3. CASE UNCHANGED phase
  BY <1>3 DEF Finished
<1>4. \/ UNCHANGED phase
      \/ \E l \in Leases : Assign(l)
      \/ \E s \in Sessions : SessionThread(s) \/ Handshake(s)
  BY DEF Next, Scheduler, Cancel, LeaseExpired, CloseIdleSession, Write, StopBegins, Stop,
         StopCloses, StopWrites, StopWaits, StopJoins, Worker, Task, WorkerReads, WorkerRejects, WorkerCloses,
         LoseConnection, TaskReturns, TaskAnswers, sessionVars
<1>5. QED
  BY <1>1, <1>2, <1>3, <1>4

(* A step that puts no lease anywhere new.                                 *)
LEMMA NobodyMoves ==
    ASSUME IInv, Next,
           \A k \in Leases, r \in Sessions : Stays(k, r),
           \A k \in Leases : Active(k)' => Active(k),
           \A k \in known : k \in known' \/ phase'[home[k]] \in {"report", "done"}
    PROVE  OnTheWay' /\ OnePlace'
<1>1. OnePlace'
  BY StaysOne DEF IInv, OnePlace
<1>2. ASSUME NEW k \in Leases, NEW r \in Sessions, UnderWay(k, r)'
      PROVE  home'[k] = r /\ (Finished(r)' \/ k \in known')
  <2>1. home[k] = r /\ (Finished(r) \/ k \in known)
    BY <1>2, StaysUnderWay DEF IInv, OnTheWay
  <2>2. home'[k] = r
    BY <2>1, Settled, BoundsAssumption DEF Sessions, NoSession
  <2>3. QED
    BY <2>1, <2>2, FinishedStays DEF Finished
<1>3. \A k \in Leases : Active(k)' => home'[k] # NoSession
  BY Settled DEF IInv, OnTheWay
<1>4. QED
  BY <1>1, <1>2, <1>3 DEF OnTheWay

(* A step that moves lease l in session s.                                 *)
LEMMA OneMoves ==
    ASSUME IInv, Next, NEW l \in Leases, NEW s \in Sessions,
           home[l] \in {NoSession, s}, home'[l] = s,
           \A k \in Leases, r \in Sessions : k # l \/ r # s => Stays(k, r),
           \A k \in Leases : k # l => (Active(k)' => Active(k)),
           \A k \in known : k # l => k \in known',
           OneAt(l, s)',
           UnderWay(l, s)' => Finished(s)' \/ l \in known'
    PROVE  OnTheWay' /\ OnePlace'
<1>0. \A r \in Sessions : r # NoSession
  BY BoundsAssumption DEF Sessions, NoSession
<1>1. OnePlace'
  <2>1. ASSUME NEW k \in Leases, NEW r \in Sessions PROVE OneAt(k, r)'
    <3>1. CASE k = l /\ r = s
      BY <3>1
    <3>2. CASE ~(k = l /\ r = s)
      <4>1. OneAt(k, r) /\ Stays(k, r)
        BY <3>2 DEF IInv, OnePlace
      <4>2. QED
        BY <4>1, StaysOne
    <3>3. QED
      BY <3>1, <3>2
  <2>2. QED
    BY <2>1 DEF OnePlace
<1>2. ASSUME NEW k \in Leases, NEW r \in Sessions, UnderWay(k, r)'
      PROVE  home'[k] = r /\ (Finished(r)' \/ k \in known')
  <2>1. CASE k = l /\ r = s
    BY <1>2, <2>1
  <2>2. CASE ~(k = l /\ r = s)
    <3>1. Stays(k, r)
      BY <2>2
    <3>2. home[k] = r /\ (Finished(r) \/ k \in known)
      BY <1>2, <3>1, StaysUnderWay DEF IInv, OnTheWay
    <3>3. k # l
      BY <1>0, <2>2, <3>2
    <3>4. QED
      BY <1>0, <3>2, <3>3, Settled, FinishedStays
  <2>3. QED
    BY <2>1, <2>2
<1>3. \A k \in Leases : Active(k)' => home'[k] # NoSession
  BY <1>0, Settled DEF IInv, OnTheWay
<1>4. QED
  BY <1>1, <1>2, <1>3 DEF OnTheWay

JourneyVars == <<home, pending, toWorker, toCoordinator, attempt>>

LEMMA QuietJourney ==
    ASSUME IInv, Next, UNCHANGED JourneyVars, known \subseteq known',
           \/ UNCHANGED writing
           \/ \E w : writing' = [writing EXCEPT !["closer"] = w]
    PROVE  OnTheWay' /\ OnePlace'
<1>1. writing'["scheduler"] = writing["scheduler"]
  BY DEF IInv, CoordinatorTypes, Threads
<1>2. \A k \in Leases, r \in Sessions : Stays(k, r)
  BY <1>1 DEF JourneyVars, Stays, Queued, Written, OnWire, AtWorker, Running
<1>3. \A k \in Leases : Active(k)' => Active(k)
  BY DEF JourneyVars, Active
<1>4. QED
  BY <1>2, <1>3, NobodyMoves

LEMMA CutStays ==
    ASSUME IInv, NEW s \in Sessions, Break(s) \/ Cut(s, 0), UNCHANGED <<home, writing>>,
           pending' = pending \/ pending' = [pending EXCEPT ![s] = <<>>]
    PROVE  /\ \A k \in Leases, r \in Sessions : Stays(k, r)
           /\ \A k \in Leases : Active(k)' => Active(k)
<1>0. toCoordinator \in [Sessions -> Seq(Frames)] /\ toWorker \in [Sessions -> Seq(Frames)]
      /\ pending \in [Sessions -> Seq(Leases)]
  BY DEF IInv, WorkerTypes, CoordinatorTypes
<1>1. PICK kept \in 0..Len(toCoordinator[s]) : Cut(s, kept)
  BY <1>0 DEF Break
<1>2. /\ toWorker' = [toWorker EXCEPT ![s] = <<>>]
      /\ toCoordinator' = [toCoordinator EXCEPT ![s] = SubSeq(@, 1, kept)]
      /\ attempt' = [l \in Leases |-> IF l \in Running(s) THEN "done" ELSE attempt[l]]
  BY <1>1 DEF Cut
<1>3. \A k \in Leases : Active(k)' => Active(k)
  BY <1>2 DEF Active
<1>4. ASSUME NEW r \in Sessions
      PROVE  /\ \A y : Has(toWorker'[r], y) => Has(toWorker[r], y)
             /\ \A y : Once(toWorker[r], y) => Once(toWorker'[r], y)
  <2>1. toWorker'[r] \in {<<>>, toWorker[r]}
    BY <1>0, <1>2
  <2>2. QED
    BY <2>1, NothingInEmpty
<1>5. ASSUME NEW r \in Sessions
      PROVE  /\ \A y : Has(pending'[r], y) => Has(pending[r], y)
             /\ \A y : Once(pending[r], y) => Once(pending'[r], y)
  <2>1. pending'[r] \in {<<>>, pending[r]}
    BY <1>0
  <2>2. QED
    BY <2>1, NothingInEmpty
<1>6. ASSUME NEW r \in Sessions
      PROVE  /\ \A y : Has(toCoordinator'[r], y) => Has(toCoordinator[r], y)
             /\ \A y : Once(toCoordinator[r], y) => Once(toCoordinator'[r], y)
  <2>1. \/ r = s /\ toCoordinator'[r] = SubSeq(toCoordinator[r], 1, kept)
        \/ toCoordinator'[r] = toCoordinator[r]
    BY <1>0, <1>2
  <2>2. /\ \A y : Has(SubSeq(toCoordinator[s], 1, kept), y) => Has(toCoordinator[s], y)
        /\ \A y : Once(toCoordinator[s], y) => Once(SubSeq(toCoordinator[s], 1, kept), y)
    BY <1>0, Shortened
  <2>3. QED
    BY <2>1, <2>2
<1>7. ASSUME NEW k \in Leases, NEW r \in Sessions PROVE Stays(k, r)
  <2>1. AtWorker(k, r)' => AtWorker(k, r)
    BY <1>3 DEF AtWorker, Running, Active
  <2>2. QED
    BY <1>4, <1>5, <1>6, <2>1 DEF Stays, Queued, Written, OnWire
<1>8. QED
  BY <1>3, <1>7

LEMMA CutJourney ==
    ASSUME IInv, Next, NEW s \in Sessions, Break(s), UNCHANGED <<home, writing, pending, known>>
    PROVE  OnTheWay' /\ OnePlace'
<1>1. /\ \A k \in Leases, r \in Sessions : Stays(k, r)
      /\ \A k \in Leases : Active(k)' => Active(k)
  BY CutStays
<1>2. QED
  BY <1>1, NobodyMoves

LEMMA FinishJourney ==
    ASSUME IInv, Next, NEW s \in Sessions, Finish(s)
    PROVE  OnTheWay' /\ OnePlace'
<1>1. /\ \A k \in Leases, r \in Sessions : Stays(k, r)
      /\ \A k \in Leases : Active(k)' => Active(k)
  BY CutStays DEF Finish, leaseVars, callVars
<1>2. \A k \in known : k \in known' \/ phase'[home[k]] \in {"report", "done"}
  BY DEF Finish, Of, IInv, CoordinatorTypes
<1>3. QED
  BY <1>1, <1>2, NobodyMoves

(* Nothing of an unassigned lease is under way.                            *)
LEMMA AssignJourney ==
    ASSUME IInv, Next, NEW l \in Leases, Assign(l)
    PROVE  OnTheWay' /\ OnePlace'
<1>0. PICK s \in Sessions : s = LiveSession
  BY DEF Assign
<1>1. /\ home[l] = NoSession /\ home' = [home EXCEPT ![l] = s] /\ known' = known \cup {l}
      /\ writing["scheduler"] = Idle
      /\ \/ /\ writing' = [writing EXCEPT !["scheduler"] = <<"ASSIGN", s, l>>]
            /\ UNCHANGED pending
         \/ /\ pending' = [pending EXCEPT ![s] = Append(@, l)]
            /\ UNCHANGED writing
      /\ UNCHANGED <<toWorker, toCoordinator, attempt>>
  BY <1>0 DEF Assign, Callable, linkVars, workerVars
<1>2. /\ \A r \in Sessions : r # NoSession
      /\ \A r \in Sessions : ~UnderWay(l, r)
      /\ ~Active(l)
  <2>1. \A r \in Sessions : r # NoSession
    BY BoundsAssumption DEF Sessions, NoSession
  <2>2. QED
    BY <1>1, <2>1 DEF IInv, OnTheWay
<1>3. \A k \in Leases : Active(k)' <=> Active(k)
  BY <1>1 DEF Active
<1>4. home'[l] = s /\ \A k \in Leases : k # l => home'[k] = home[k]
  BY <1>1 DEF IInv, CoordinatorTypes
<1>5. ASSUME NEW k \in Leases, NEW r \in Sessions
      PROVE  AtWorker(k, r)' => AtWorker(k, r)
  BY <1>2, <1>3, <1>4 DEF AtWorker, Running, Active
<1>6. /\ pending \in [Sessions -> Seq(Leases)] /\ writing \in [Threads -> Calls]
      /\ "scheduler" \in Threads
  BY DEF IInv, CoordinatorTypes, Threads
<1>7. /\ \A y : Has(Append(pending[s], l), y) <=> Has(pending[s], y) \/ y = l
      /\ \A y : Once(pending[s], y) /\ (y = l => ~Has(pending[s], y)) => Once(Append(pending[s], l), y)
  BY <1>6, Appended
<1>8. ASSUME NEW k \in Leases, NEW r \in Sessions, k # l \/ r # s PROVE Stays(k, r)
  <2>1. Queued(k, r)' => Queued(k, r)
    BY <1>1, <1>6, <1>7, <1>8 DEF Queued
  <2>2. Written(k, r)' => Written(k, r)
    <3>1. writing'["scheduler"] \in {<<"ASSIGN", s, l>>, writing["scheduler"]}
      BY <1>1, <1>6
    <3>2. <<"ASSIGN", s, l>> # <<"ASSIGN", r, k>>
      BY <1>8
    <3>3. QED
      BY <3>1, <3>2 DEF Written
  <2>3. Once(pending[r], k) => Once(pending'[r], k)
    BY <1>1, <1>6, <1>7, <1>8
  <2>4. QED
    BY <1>1, <1>5, <2>1, <2>2, <2>3 DEF Stays, OnWire
<1>9. OneAt(l, s)'
  <2>1. ~OnWire(l, s)' /\ ~AtWorker(l, s)' /\ ~Answered(l, s)'
    BY <1>1, <1>2, <1>5 DEF UnderWay, OnWire, Answered
  <2>2. ~Queued(l, s) /\ ~Written(l, s) /\ OneAt(l, s)
    BY <1>2 DEF UnderWay, IInv, OnePlace
  <2>3. ~(Queued(l, s)' /\ Written(l, s)')
    BY <1>1, <1>6, <2>2 DEF Queued, Written
  <2>4. Once(pending'[s], l)
    BY <1>1, <1>6, <1>7, <2>2 DEF OneAt, Queued
  <2>5. QED
    BY <1>1, <2>1, <2>2, <2>3, <2>4 DEF OneAt, Answered
<1>10. QED
  BY <1>1, <1>3, <1>4, <1>8, <1>9, OneMoves

LEMMA CancelJourney ==
    ASSUME IInv, Next, NEW l \in Leases, Cancel(l)
    PROVE  OnTheWay' /\ OnePlace'
<1>0. home[l] \in Sessions /\ pending \in [Sessions -> Seq(Leases)] /\ writing \in [Threads -> Calls]
      /\ "scheduler" \in Threads
  BY DEF Cancel, IInv, CoordinatorTypes, Threads
<1>1. /\ UNCHANGED <<home, toWorker, toCoordinator, attempt, known>>
      /\ UNCHANGED writing \/ writing' = [writing EXCEPT !["scheduler"] = <<"CANCEL", home[l], l>>]
      /\ UNCHANGED pending \/ pending' = [pending EXCEPT ![home[l]] = Without(@, l)]
  BY DEF Cancel, MarkCancelled, linkVars, workerVars
<1>2. ASSUME NEW r \in Sessions
      PROVE  /\ \A y : Has(pending'[r], y) => Has(pending[r], y)
             /\ \A y : Once(pending[r], y) => Once(pending'[r], y)
  <2>1. pending'[r] = pending[r] \/ pending'[r] = Without(pending[r], l)
    BY <1>0, <1>1
  <2>2. QED
    BY <1>0, <2>1, Erased
<1>3. ASSUME NEW k \in Leases, NEW r \in Sessions PROVE Stays(k, r)
  <2>1. Written(k, r)' => Written(k, r)
    BY <1>0, <1>1 DEF Written
  <2>2. QED
    BY <1>1, <1>2, <2>1 DEF Stays, Queued, OnWire, AtWorker, Running
<1>4. QED
  BY <1>1, <1>3, NobodyMoves DEF Active

(* A frame other than an ASSIGN moves no lease.                            *)
LEMMA OtherFrameStays ==
    ASSUME IInv, NEW s \in Sessions, NEW f \in Frames, f[1] # "ASSIGN", Send(s, f),
           UNCHANGED <<home, pending, attempt>>,
           \A k \in Leases, r \in Sessions : Written(k, r)' => Written(k, r)
    PROVE  \A k \in Leases, r \in Sessions : Stays(k, r)
<1>0. toWorker \in [Sessions -> Seq(Frames)] /\ UNCHANGED toCoordinator
  BY DEF IInv, WorkerTypes, Send
<1>1. /\ \A y : Has(Append(toWorker[s], f), y) <=> Has(toWorker[s], y) \/ y = f
      /\ \A y : Once(toWorker[s], y) /\ (y = f => ~Has(toWorker[s], y)) => Once(Append(toWorker[s], f), y)
  BY <1>0, Appended
<1>2. ASSUME NEW k \in Leases, NEW r \in Sessions
      PROVE  /\ Has(toWorker'[r], <<"ASSIGN", k>>) => Has(toWorker[r], <<"ASSIGN", k>>)
             /\ Once(toWorker[r], <<"ASSIGN", k>>) => Once(toWorker'[r], <<"ASSIGN", k>>)
  <2>1. <<"ASSIGN", k>> # f
    OBVIOUS
  <2>2. toWorker'[r] = toWorker[r] \/ (r = s /\ toWorker'[r] = Append(toWorker[s], f))
    BY <1>0 DEF Send
  <2>3. QED
    BY <1>1, <2>1, <2>2
<1>3. QED
  BY <1>0, <1>2 DEF Stays, Queued, OnWire, AtWorker, Running

(* The scheduler's frame goes out, or the connection is gone.              *)
LEMMA WriteJourney ==
    ASSUME IInv, Next, NEW t \in Threads, Write(t)
    PROVE  OnTheWay' /\ OnePlace'
<1>0. /\ UNCHANGED <<home, pending, attempt, toCoordinator, known>>
      /\ writing \in [Threads -> Calls] /\ writing' = [writing EXCEPT ![t] = Idle] /\ writing[t] # Idle
      /\ toWorker \in [Sessions -> Seq(Frames)]
      /\ "scheduler" \in Threads
  BY DEF Write, Send, leaseVars, sessionVars, workerVars, IInv, CoordinatorTypes, WorkerTypes, Threads
<1>1. \A k \in Leases, r \in Sessions : Written(k, r)' => Written(k, r) /\ t # "scheduler"
  <2>1. \A k \in Leases, r \in Sessions : Idle # <<"ASSIGN", r, k>>
    BY DEF Idle
  <2>2. writing'["scheduler"] = IF t = "scheduler" THEN Idle ELSE writing["scheduler"]
    BY <1>0
  <2>3. QED
    BY <2>1, <2>2 DEF Written
<1>2. PICK s \in Sessions, f \in Frames :
         s = writing[t][2] /\ f = <<writing[t][1], writing[t][3]>> /\ Send(s, f)
  BY DEF Write, IInv, Traffic, Threads, Frames
<1>3. \A k \in Leases : Active(k)' => Active(k)
  BY <1>0 DEF Active
<1>4. CASE f[1] # "ASSIGN"
  <2>1. \A k \in Leases, r \in Sessions : Stays(k, r)
    BY <1>0, <1>1, <1>2, <1>4, OtherFrameStays
  <2>2. QED
    BY <1>0, <1>3, <2>1, NobodyMoves
<1>5. CASE f[1] = "ASSIGN"
  <2>1. t = "scheduler" /\ writing[t] \in {"ASSIGN", "CANCEL"} \X Sessions \X Leases
    BY <1>0, <1>2, <1>5 DEF IInv, Traffic, Threads
  <2>2. PICK l \in Leases : l = writing[t][3]
    BY <2>1
  <2>3. writing[t] = <<"ASSIGN", s, l>> /\ f = <<"ASSIGN", l>>
    BY <1>2, <1>5, <2>1, <2>2
  <2>4. Written(l, s) /\ UnderWay(l, s) /\ OneAt(l, s)
    BY <2>1, <2>3 DEF Written, UnderWay, IInv, OnePlace
  <2>5. home[l] = s /\ (Finished(s) \/ l \in known)
    BY <2>4 DEF IInv, OnTheWay
  <2>6. /\ \A y : Has(Append(toWorker[s], f), y) <=> Has(toWorker[s], y) \/ y = f
        /\ \A y : Once(toWorker[s], y) /\ (y = f => ~Has(toWorker[s], y)) => Once(Append(toWorker[s], f), y)
    BY <1>0, Appended
  <2>7. \A r \in Sessions : toWorker'[r] = toWorker[r] \/ (r = s /\ toWorker'[r] = Append(toWorker[s], f))
    BY <1>0, <1>2 DEF Send
  <2>8. ASSUME NEW k \in Leases, NEW r \in Sessions, k # l \/ r # s PROVE Stays(k, r)
    <3>1. r = s => <<"ASSIGN", k>> # f
      BY <2>3, <2>8
    <3>2. /\ Has(toWorker'[r], <<"ASSIGN", k>>) => Has(toWorker[r], <<"ASSIGN", k>>)
          /\ Once(toWorker[r], <<"ASSIGN", k>>) => Once(toWorker'[r], <<"ASSIGN", k>>)
      BY <2>6, <2>7, <3>1
    <3>3. QED
      BY <1>0, <1>1, <3>2 DEF Stays, Queued, OnWire, AtWorker, Running
  <2>9. OneAt(l, s)'
    <3>1. ~Queued(l, s) /\ ~OnWire(l, s) /\ ~AtWorker(l, s) /\ ~Answered(l, s)
      BY <2>4 DEF OneAt
    <3>2. ~Queued(l, s)' /\ ~AtWorker(l, s)' /\ ~Answered(l, s)' /\ ~Written(l, s)'
      BY <1>0, <1>1, <2>1, <3>1 DEF Queued, AtWorker, Running, Answered
    <3>3. Once(toWorker'[s], <<"ASSIGN", l>>)
      BY <2>3, <2>4, <2>6, <2>7, <3>1 DEF OneAt, OnWire
    <3>4. QED
      BY <1>0, <2>4, <3>2, <3>3 DEF OneAt, Answered
  <2>10. QED
    BY <1>0, <1>3, <2>5, <2>8, <2>9, FinishedStays, OneMoves
<1>6. QED
  BY <1>4, <1>5

(* The session thread sends the ASSIGNs that were queued.                  *)
LEMMA FlushJourney ==
    ASSUME IInv, Next, NEW s \in Sessions, Flush(s)
    PROVE  OnTheWay' /\ OnePlace'
<1>0. /\ UNCHANGED <<home, attempt, toCoordinator, known, writing>>
      /\ pending \in [Sessions -> Seq(Leases)]
      /\ toWorker \in [Sessions -> Seq(Frames)]
  BY DEF Flush, Send, linkVars, leaseVars, sessionVars, workerVars, callVars, IInv, CoordinatorTypes, WorkerTypes
<1>1. \A k \in Leases : Active(k)' => Active(k)
  BY <1>0 DEF Active
<1>2. CASE ~(pending[s] # <<>> /\ link[s] = "up")
  <2>1. pending' = [pending EXCEPT ![s] = <<>>] /\ UNCHANGED toWorker
    BY <1>2 DEF Flush, linkVars
  <2>2. \A r \in Sessions : pending'[r] \in {<<>>, pending[r]}
    BY <1>0, <2>1
  <2>3. \A k \in Leases, r \in Sessions : Stays(k, r)
    BY <1>0, <2>1, <2>2, NothingInEmpty DEF Stays, Queued, Written, OnWire, AtWorker, Running
  <2>4. QED
    BY <1>0, <1>1, <2>3, NobodyMoves
<1>3. CASE pending[s] # <<>> /\ link[s] = "up"
  <2>0. PICK l : l = Head(pending[s])
    OBVIOUS
  <2>1. /\ l \in Leases /\ Has(pending[s], l)
        /\ \A y : Has(Tail(pending[s]), y) => Has(pending[s], y)
        /\ \A y : Once(pending[s], y) => Once(Tail(pending[s]), y)
        /\ Once(pending[s], l) => ~Has(Tail(pending[s]), l)
    BY <1>0, <1>3, <2>0, Removed
  <2>2. PICK f \in Frames : f = <<"ASSIGN", l>>
    BY <2>1 DEF Frames
  <2>3. /\ toWorker' = [toWorker EXCEPT ![s] = Append(@, f)]
        /\ pending' = [pending EXCEPT ![s] = Tail(@)]
    BY <1>3, <2>0, <2>2 DEF Flush, Send
  <2>4. Queued(l, s) /\ UnderWay(l, s) /\ OneAt(l, s)
    BY <2>1 DEF Queued, UnderWay, IInv, OnePlace
  <2>5. home[l] = s /\ (Finished(s) \/ l \in known)
    BY <2>1, <2>4 DEF IInv, OnTheWay
  <2>6. /\ \A y : Has(Append(toWorker[s], f), y) <=> Has(toWorker[s], y) \/ y = f
        /\ \A y : Once(toWorker[s], y) /\ (y = f => ~Has(toWorker[s], y)) => Once(Append(toWorker[s], f), y)
    BY <1>0, Appended
  <2>7. /\ toWorker'[s] = Append(toWorker[s], f) /\ pending'[s] = Tail(pending[s])
        /\ \A r \in Sessions : r # s => toWorker'[r] = toWorker[r] /\ pending'[r] = pending[r]
    BY <1>0, <2>3
  <2>8. ASSUME NEW k \in Leases, NEW r \in Sessions, k # l \/ r # s PROVE Stays(k, r)
    <3>1. r = s => <<"ASSIGN", k>> # f
      BY <2>2, <2>8
    <3>2. /\ Has(toWorker'[r], <<"ASSIGN", k>>) => Has(toWorker[r], <<"ASSIGN", k>>)
          /\ Once(toWorker[r], <<"ASSIGN", k>>) => Once(toWorker'[r], <<"ASSIGN", k>>)
      BY <2>6, <2>7, <3>1
    <3>3. /\ Has(pending'[r], k) => Has(pending[r], k)
          /\ Once(pending[r], k) => Once(pending'[r], k)
      BY <2>1, <2>7
    <3>4. QED
      BY <1>0, <3>2, <3>3 DEF Stays, Queued, Written, OnWire, AtWorker, Running
  <2>9. OneAt(l, s)'
    <3>1. ~Written(l, s) /\ ~OnWire(l, s) /\ ~AtWorker(l, s) /\ ~Answered(l, s) /\ Once(pending[s], l)
      BY <2>4 DEF OneAt
    <3>2. ~Queued(l, s)' /\ ~AtWorker(l, s)' /\ ~Answered(l, s)' /\ ~Written(l, s)'
      BY <1>0, <2>1, <2>7, <3>1 DEF Queued, AtWorker, Running, Answered, Written
    <3>3. Once(toWorker'[s], <<"ASSIGN", l>>) /\ Once(pending'[s], l)
      BY <2>1, <2>2, <2>4, <2>6, <2>7, <3>1 DEF OneAt, OnWire
    <3>4. QED
      BY <1>0, <2>4, <3>2, <3>3 DEF OneAt, Answered
  <2>10. QED
    BY <1>0, <1>1, <2>1, <2>5, <2>8, <2>9, FinishedStays, OneMoves
<1>4. QED
  BY <1>2, <1>3

(* The session takes the answer: nothing of the lease is left.             *)
LEMMA ReadJourney ==
    ASSUME IInv, Next, NEW s \in Sessions, Read(s)
    PROVE  OnTheWay' /\ OnePlace'
<1>1. PICK l \in Leases, kind \in {"finished", "rejected"} : ReadOf(s, l, kind)
  BY ReadFacts
<1>2. PICK f : f = Head(toCoordinator[s])
  OBVIOUS
<1>3. /\ UNCHANGED <<home, attempt, toWorker, pending, writing>>
      /\ toCoordinator \in [Sessions -> Seq(Frames)] /\ toCoordinator[s] # <<>>
      /\ toCoordinator' = [toCoordinator EXCEPT ![s] = Tail(@)]
      /\ known' = known \ {l} /\ home[l] = s
      /\ f = <<"RESULT", l>> \/ f = <<"REJECT", l>>
  BY <1>1, <1>2 DEF ReadOf, IInv, WorkerTypes
<1>4. /\ Has(toCoordinator[s], f)
      /\ \A y : Has(Tail(toCoordinator[s]), y) => Has(toCoordinator[s], y)
      /\ \A y : Once(toCoordinator[s], y) => Once(Tail(toCoordinator[s]), y)
      /\ Once(toCoordinator[s], f) => ~Has(Tail(toCoordinator[s]), f)
  BY <1>2, <1>3, Removed
<1>5. /\ toCoordinator'[s] = Tail(toCoordinator[s])
      /\ \A r \in Sessions : r # s => toCoordinator'[r] = toCoordinator[r]
  BY <1>3
<1>6. \A k \in Leases : Active(k)' => Active(k)
  BY <1>3 DEF Active
<1>7. ASSUME NEW k \in Leases, NEW r \in Sessions PROVE Stays(k, r)
  BY <1>3, <1>4, <1>5 DEF Stays, Queued, Written, OnWire, AtWorker, Running
<1>8. Answered(l, s) /\ OneAt(l, s)
  BY <1>3, <1>4 DEF Answered, IInv, OnePlace
<1>9. ~UnderWay(l, s)'
  <2>1. ~Queued(l, s) /\ ~Written(l, s) /\ ~OnWire(l, s) /\ ~AtWorker(l, s)
    BY <1>8 DEF OneAt
  <2>2. ~Has(toCoordinator'[s], <<"RESULT", l>>) /\ ~Has(toCoordinator'[s], <<"REJECT", l>>)
    BY <1>3, <1>4, <1>5, <1>8 DEF OneAt
  <2>3. QED
    BY <1>7, <2>1, <2>2 DEF UnderWay, Stays, Answered
<1>10. OneAt(l, s)'
  BY <1>7, <1>8, StaysOne
<1>11. QED
  BY <1>3, <1>6, <1>7, <1>9, <1>10, OneMoves

(* The worker reads an ASSIGN: it starts the lease or turns it down.       *)
LEMMA AssignReadJourney ==
    ASSUME IInv, Next, NEW s \in Sessions, toWorker[s] # <<>>, Head(toWorker[s])[1] = "ASSIGN",
           toWorker' = [toWorker EXCEPT ![s] = Tail(@)],
           UNCHANGED <<home, pending, writing, known>>,
           \/ /\ attempt' = [attempt EXCEPT ![Head(toWorker[s])[2]] = "running"]
              /\ UNCHANGED toCoordinator
           \/ /\ toCoordinator' = [toCoordinator EXCEPT ![s] =
                                      Append(@, <<"REJECT", Head(toWorker[s])[2]>>)]
              /\ UNCHANGED attempt
           \/ UNCHANGED <<attempt, toCoordinator>>
    PROVE  OnTheWay' /\ OnePlace'
<1>0. /\ toCoordinator \in [Sessions -> Seq(Frames)] /\ toWorker \in [Sessions -> Seq(Frames)]
      /\ attempt \in [Leases -> {"none", "running", "answering", "done"}]
  BY DEF IInv, WorkerTypes
<1>1. PICK l \in Leases : l = Head(toWorker[s])[2]
  BY AssignedOnce
<1>2. PICK f \in Frames : f = Head(toWorker[s]) /\ f = <<"ASSIGN", l>>
  BY <1>0, <1>1, AssignedOnce, Removed
<1>3. OnWire(l, s) /\ UnderWay(l, s) /\ OneAt(l, s)
  BY <1>1, AssignedOnce DEF UnderWay, IInv, OnePlace
<1>4. home[l] = s /\ (Finished(s) \/ l \in known)
  BY <1>3 DEF IInv, OnTheWay
<1>5. /\ ~Queued(l, s) /\ ~Written(l, s) /\ ~AtWorker(l, s) /\ ~Answered(l, s)
      /\ Once(toWorker[s], f)
  BY <1>2, <1>3 DEF OneAt
<1>6. /\ \A y : Has(Tail(toWorker[s]), y) => Has(toWorker[s], y)
      /\ \A y : Once(toWorker[s], y) => Once(Tail(toWorker[s]), y)
      /\ ~Has(Tail(toWorker[s]), f)
  BY <1>0, <1>2, <1>5, Removed
<1>7. toWorker'[s] = Tail(toWorker[s]) /\ \A r \in Sessions : r # s => toWorker'[r] = toWorker[r]
  BY <1>0
<1>8. PICK g \in Frames : g = <<"REJECT", l>>
  BY DEF Frames
<1>9. /\ \A y : Has(Append(toCoordinator[s], g), y) <=> Has(toCoordinator[s], y) \/ y = g
      /\ \A y : Once(toCoordinator[s], y) /\ (y = g => ~Has(toCoordinator[s], y))
                   => Once(Append(toCoordinator[s], g), y)
  BY <1>0, Appended
<1>10. \A r \in Sessions : \/ toCoordinator'[r] = toCoordinator[r]
                           \/ /\ r = s /\ toCoordinator'[r] = Append(toCoordinator[s], g)
                              /\ UNCHANGED attempt
  BY <1>0, <1>1, <1>8
<1>11. \A k \in Leases : k # l => attempt'[k] = attempt[k]
  BY <1>0, <1>1
<1>12. ASSUME NEW k \in Leases, NEW r \in Sessions, k # l \/ r # s PROVE Stays(k, r)
  <2>1. /\ Has(toWorker'[r], <<"ASSIGN", k>>) => Has(toWorker[r], <<"ASSIGN", k>>)
        /\ Once(toWorker[r], <<"ASSIGN", k>>) => Once(toWorker'[r], <<"ASSIGN", k>>)
    BY <1>6, <1>7
  <2>2. r = s => <<"REJECT", k>> # g /\ <<"RESULT", k>> # g
    BY <1>8, <1>12
  <2>3. /\ Has(toCoordinator'[r], <<"RESULT", k>>) => Has(toCoordinator[r], <<"RESULT", k>>)
        /\ Has(toCoordinator'[r], <<"REJECT", k>>) => Has(toCoordinator[r], <<"REJECT", k>>)
        /\ Once(toCoordinator[r], <<"RESULT", k>>) => Once(toCoordinator'[r], <<"RESULT", k>>)
        /\ Once(toCoordinator[r], <<"REJECT", k>>) => Once(toCoordinator'[r], <<"REJECT", k>>)
    BY <1>9, <1>10, <2>2
  <2>4. AtWorker(k, r)' => AtWorker(k, r)
    <3>1. CASE k = l
      BY <1>4, <1>12, <3>1 DEF AtWorker, Running
    <3>2. CASE k # l
      BY <1>11, <3>2 DEF AtWorker, Running
    <3>3. QED
      BY <3>1, <3>2
  <2>5. QED
    BY <2>1, <2>3, <2>4 DEF Stays, Queued, Written, OnWire
<1>13. OneAt(l, s)'
  <2>1. ~OnWire(l, s)' /\ ~Queued(l, s)' /\ ~Written(l, s)'
    BY <1>2, <1>5, <1>6, <1>7 DEF OnWire, Queued, Written
  <2>2. /\ ~Has(toCoordinator[s], <<"RESULT", l>>) /\ ~Has(toCoordinator[s], g)
        /\ Once(toCoordinator[s], <<"RESULT", l>>) /\ Once(toCoordinator[s], g)
        /\ Once(pending[s], l) /\ Once(toWorker[s], <<"ASSIGN", l>>)
    BY <1>3, <1>5, <1>8 DEF OneAt, Answered
  <2>3. <<"RESULT", l>> # g
    BY <1>8
  <2>4. /\ ~Has(toCoordinator'[s], <<"RESULT", l>>)
        /\ Once(toCoordinator'[s], <<"RESULT", l>>) /\ Once(toCoordinator'[s], g)
        /\ Once(pending'[s], l) /\ Once(toWorker'[s], <<"ASSIGN", l>>)
    BY <1>6, <1>7, <1>9, <1>10, <2>2, <2>3
  <2>5. ~(AtWorker(l, s)' /\ Has(toCoordinator'[s], g))
    <3>1. CASE toCoordinator'[s] = toCoordinator[s]
      BY <2>2, <3>1
    <3>2. CASE UNCHANGED attempt
      BY <1>5, <3>2 DEF AtWorker, Running
    <3>3. QED
      BY <1>10, <3>1, <3>2
  <2>6. QED
    BY <1>8, <2>1, <2>4, <2>5 DEF OneAt, Answered
<1>14. \A k \in Leases : k # l => (Active(k)' => Active(k))
  BY <1>11 DEF Active
<1>15. QED
  BY <1>4, <1>12, <1>13, <1>14, FinishedStays, OneMoves

LEMMA WorkerJourney ==
    ASSUME IInv, Next, NEW s \in Sessions, Worker(s)
    PROVE  OnTheWay' /\ OnePlace'
<1> USE DEF leaseVars, sessionVars, linkVars, workerVars, callVars
<1>1. CASE WorkerRejects(s)
  <2>1. /\ toWorker[s] # <<>> /\ Head(toWorker[s])[1] = "ASSIGN"
        /\ toWorker' = [toWorker EXCEPT ![s] = Tail(@)]
        /\ UNCHANGED <<home, pending, writing, known, attempt>>
        /\ \/ UNCHANGED toCoordinator
           \/ toCoordinator' = [toCoordinator EXCEPT ![s] =
                                   Append(@, <<"REJECT", Head(toWorker[s])[2]>>)]
    BY <1>1 DEF WorkerRejects
  <2>2. QED
    BY <2>1, AssignReadJourney
<1>2. CASE WorkerReads(s)
  <2>1. /\ toWorker[s] # <<>> /\ toWorker' = [toWorker EXCEPT ![s] = Tail(@)]
        /\ UNCHANGED <<home, pending, writing, known, toCoordinator>>
        /\ Head(toWorker[s])[1] # "ASSIGN" => UNCHANGED attempt
        /\ Head(toWorker[s])[1] = "ASSIGN" => attempt' = [attempt EXCEPT ![Head(toWorker[s])[2]] = "running"]
    BY <1>2, AssignedOnce DEF WorkerReads
  <2>2. CASE Head(toWorker[s])[1] = "ASSIGN"
    BY <2>1, <2>2, AssignReadJourney
  <2>3. CASE Head(toWorker[s])[1] # "ASSIGN"
    <3>1. toWorker \in [Sessions -> Seq(Frames)]
      BY DEF IInv, WorkerTypes
    <3>2. /\ \A y : Has(Tail(toWorker[s]), y) => Has(toWorker[s], y)
          /\ \A y : Once(toWorker[s], y) => Once(Tail(toWorker[s]), y)
      BY <2>1, <3>1, Removed
    <3>3. \A r \in Sessions : toWorker'[r] = toWorker[r] \/ (r = s /\ toWorker'[r] = Tail(toWorker[s]))
      BY <2>1, <3>1
    <3>4. \A k \in Leases, r \in Sessions : Stays(k, r)
      BY <2>1, <2>3, <3>2, <3>3 DEF Stays, Queued, Written, OnWire, AtWorker, Running
    <3>5. QED
      BY <2>1, <2>3, <3>4, NobodyMoves DEF Active
  <2>4. QED
    BY <2>2, <2>3
<1>3. CASE WorkerCloses(s)
  <2>1. /\ attempt' = [l \in Leases |-> IF l \in Running(s) THEN "done" ELSE attempt[l]]
        /\ UNCHANGED <<home, pending, writing, known, toWorker, toCoordinator>>
    BY <1>3 DEF WorkerCloses
  <2>2. \A k \in Leases : Active(k)' => Active(k)
    BY <2>1 DEF Active
  <2>3. \A k \in Leases, r \in Sessions : Stays(k, r)
    BY <2>1, <2>2 DEF Stays, Queued, Written, OnWire, AtWorker, Running, Active
  <2>4. QED
    BY <2>1, <2>2, <2>3, NobodyMoves
<1>4. QED
  BY <1>1, <1>2, <1>3 DEF Worker

(* A task ends: its thread answers, or finds the lease dropped.            *)
LEMMA TaskJourney ==
    ASSUME IInv, Next, NEW l \in Leases, Task(l)
    PROVE  OnTheWay' /\ OnePlace'
<1> USE DEF leaseVars, sessionVars, linkVars, workerVars, callVars
<1>0. /\ toCoordinator \in [Sessions -> Seq(Frames)]
      /\ attempt \in [Leases -> {"none", "running", "answering", "done"}]
  BY DEF IInv, WorkerTypes
<1>1. /\ UNCHANGED <<home, pending, writing, known, toWorker>>
      /\ Active(l) /\ attempt' \in {[attempt EXCEPT ![l] = "answering"], [attempt EXCEPT ![l] = "done"]}
  BY DEF Task, TaskReturns, TaskAnswers, Answer, Active
<1>2. \A k \in Leases : Active(k)' => Active(k)
  BY <1>0, <1>1 DEF Active
<1>3. CASE UNCHANGED toCoordinator
  <2>1. \A k \in Leases, r \in Sessions : Stays(k, r)
    BY <1>1, <1>2, <1>3 DEF Stays, Queued, Written, OnWire, AtWorker, Running, Active
  <2>2. QED
    BY <1>1, <1>2, <2>1, NobodyMoves
<1>4. CASE ~UNCHANGED toCoordinator
  <2>1. PICK s \in Sessions : s = home[l]
    BY <1>1 DEF IInv, OnTheWay, CoordinatorTypes
  <2>2. PICK g \in Frames : g = <<"RESULT", l>>
    BY DEF Frames
  <2>3. /\ toCoordinator' = [toCoordinator EXCEPT ![s] = Append(@, g)]
        /\ attempt' = [attempt EXCEPT ![l] = "done"]
    BY <1>4, <2>1, <2>2 DEF Task, TaskReturns, TaskAnswers, Answer
  <2>4. AtWorker(l, s) /\ UnderWay(l, s) /\ OneAt(l, s)
    BY <1>1, <2>1 DEF AtWorker, Running, Active, UnderWay, IInv, OnePlace
  <2>5. Finished(s) \/ l \in known
    BY <2>4 DEF IInv, OnTheWay
  <2>6. /\ \A y : Has(Append(toCoordinator[s], g), y) <=> Has(toCoordinator[s], y) \/ y = g
        /\ \A y : Once(toCoordinator[s], y) /\ (y = g => ~Has(toCoordinator[s], y))
                     => Once(Append(toCoordinator[s], g), y)
    BY <1>0, Appended
  <2>7. /\ toCoordinator'[s] = Append(toCoordinator[s], g)
        /\ \A r \in Sessions : r # s => toCoordinator'[r] = toCoordinator[r]
    BY <1>0, <2>3
  <2>8. ASSUME NEW k \in Leases, NEW r \in Sessions, k # l \/ r # s PROVE Stays(k, r)
    <3>1. r = s => <<"REJECT", k>> # g /\ <<"RESULT", k>> # g
      BY <2>2, <2>8
    <3>2. /\ Has(toCoordinator'[r], <<"RESULT", k>>) => Has(toCoordinator[r], <<"RESULT", k>>)
          /\ Has(toCoordinator'[r], <<"REJECT", k>>) => Has(toCoordinator[r], <<"REJECT", k>>)
          /\ Once(toCoordinator[r], <<"RESULT", k>>) => Once(toCoordinator'[r], <<"RESULT", k>>)
          /\ Once(toCoordinator[r], <<"REJECT", k>>) => Once(toCoordinator'[r], <<"REJECT", k>>)
      BY <2>6, <2>7, <3>1
    <3>3. AtWorker(k, r)' => AtWorker(k, r)
      BY <1>1, <1>2 DEF AtWorker, Running, Active
    <3>4. QED
      BY <1>1, <3>2, <3>3 DEF Stays, Queued, Written, OnWire
  <2>9. OneAt(l, s)'
    <3>1. /\ ~Queued(l, s) /\ ~Written(l, s) /\ ~OnWire(l, s) /\ ~Answered(l, s)
          /\ Once(toCoordinator[s], <<"REJECT", l>>) /\ Once(toCoordinator[s], g)
          /\ Once(pending[s], l) /\ Once(toWorker[s], <<"ASSIGN", l>>)
      BY <2>2, <2>4 DEF OneAt
    <3>2. ~AtWorker(l, s)' /\ ~Queued(l, s)' /\ ~Written(l, s)' /\ ~OnWire(l, s)'
      BY <1>0, <1>1, <2>3, <3>1 DEF AtWorker, Running, Queued, Written, OnWire
    <3>3. <<"REJECT", l>> # g
      BY <2>2
    <3>4. /\ ~Has(toCoordinator'[s], <<"REJECT", l>>)
          /\ Once(toCoordinator'[s], <<"REJECT", l>>) /\ Once(toCoordinator'[s], g)
      BY <2>2, <2>6, <2>7, <3>1, <3>3 DEF Answered
    <3>5. QED
      BY <1>1, <2>2, <3>1, <3>2, <3>4 DEF OneAt
  <2>10. QED
    BY <1>1, <1>2, <2>1, <2>5, <2>8, <2>9, FinishedStays, OneMoves
<1>5. QED
  BY <1>3, <1>4

LEMMA JourneyStep ==
    ASSUME IInv, Next
    PROVE  OnTheWay' /\ OnePlace'
<1> USE DEF leaseVars, sessionVars, linkVars, workerVars, callVars
<1>1. ASSUME NEW l \in Leases, LeaseExpired(l) PROVE OnTheWay' /\ OnePlace'
  <2>1. home[l] \in Sessions /\ UNCHANGED <<home, writing, pending, known>>
    BY <1>1 DEF LeaseExpired, MarkCancelled, IInv, CoordinatorTypes
  <2>2. CASE l \in known
    BY <1>1, <2>1, <2>2, CutJourney DEF LeaseExpired
  <2>3. CASE l \notin known
    BY <1>1, <2>1, <2>3, QuietJourney DEF LeaseExpired, JourneyVars
  <2>4. QED
    BY <2>2, <2>3
<1>2. CASE CloseIdleSession
  <2>1. current \in Sessions /\ UNCHANGED <<home, pending, known>>
    BY <1>2 DEF CloseIdleSession, Live, IInv, CoordinatorTypes
  <2>2. CASE current \in ready
    <3>1. UNCHANGED JourneyVars /\ \E w : writing' = [writing EXCEPT !["closer"] = w]
      BY <1>2, <2>2 DEF CloseIdleSession, JourneyVars
    <3>2. QED
      BY <2>1, <3>1, QuietJourney
  <2>3. CASE current \notin ready
    BY <1>2, <2>1, <2>3, CutJourney DEF CloseIdleSession
  <2>4. QED
    BY <2>2, <2>3
<1>3. CASE Stop
  <2>1. stopAt \in Sessions /\ UNCHANGED <<home, writing, pending, known>>
    BY <1>3, StopsASession DEF Stop, StopCloses, StopWrites, StopWaits, StopJoins
  <2>2. CASE Break(stopAt)
    BY <2>1, <2>2, CutJourney
  <2>3. CASE UNCHANGED <<linkVars, workerVars>>
    BY <2>1, <2>3, QuietJourney DEF JourneyVars
  <2>4. CASE Send(stopAt, <<"SHUTDOWN", "none">>) /\ UNCHANGED workerVars
    <3>1. PICK f \in Frames : f = <<"SHUTDOWN", "none">>
      BY DEF Frames
    <3>2. PICK s \in Sessions : s = stopAt
      BY <2>1
    <3>3. f[1] # "ASSIGN" /\ Send(s, f)
      BY <2>4, <3>1, <3>2
    <3>4. \A k \in Leases, r \in Sessions : Written(k, r)' => Written(k, r)
      BY <2>1 DEF Written
    <3>5. \A k \in Leases, r \in Sessions : Stays(k, r)
      BY <2>1, <2>4, <3>3, <3>4, OtherFrameStays
    <3>6. QED
      BY <2>1, <2>4, <3>5, NobodyMoves DEF Active
  <2>5. QED
    BY <1>3, <2>2, <2>3, <2>4 DEF Stop, StopCloses, StopWrites, StopWaits, StopJoins
<1>4. CASE StopBegins
  BY <1>4, QuietJourney DEF StopBegins, JourneyVars
<1>5. ASSUME NEW s \in Sessions,
             \/ Connect(s) \/ ConnectFails(s) \/ Preamble(s) \/ PreambleFails(s) \/ Deliver(s)
             \/ EndOfStream(s) \/ ReportOrphan(s)
      PROVE  OnTheWay' /\ OnePlace'
  <2>1. UNCHANGED JourneyVars /\ UNCHANGED <<known, writing>>
    BY <1>5 DEF Connect, ConnectFails, Preamble, PreambleFails, Deliver, EndOfStream, ReportOrphan,
                MarkReady, JourneyVars
  <2>2. QED
    BY <2>1, QuietJourney
<1>6. ASSUME NEW s \in Sessions, LoseConnection(s) PROVE OnTheWay' /\ OnePlace'
  BY <1>6, CutJourney DEF LoseConnection
<1>7. CASE Scheduler
  BY <1>1, <1>4, <1>7, AssignJourney, CancelJourney DEF Scheduler
<1>8. ASSUME NEW s \in Sessions, SessionThread(s) \/ Handshake(s) PROVE OnTheWay' /\ OnePlace'
  BY <1>5, <1>8, FlushJourney, ReadJourney, FinishJourney DEF SessionThread, Handshake
<1>9. QED
  BY <1>2, <1>3, <1>6, <1>7, <1>8, WriteJourney, WorkerJourney, TaskJourney DEF Next

-----------------------------------------------------------------------------
LEMMA NextIInv == IInv /\ [Next]_vars => IInv'
<1> SUFFICES ASSUME IInv, [Next]_vars PROVE IInv'
  OBVIOUS
<1>1. CASE Next
  BY <1>1, TypesStep, TrafficStep, OrderStep, ClaimsStep, OrphansStep, ReportsStep, CausesStep,
     JourneyStep, StopOrderStep, HonestStep DEF IInv
<1>2. CASE UNCHANGED vars
  <2> USE <1>2 DEF vars, leaseVars, sessionVars, linkVars, workerVars, callVars
  <2>1. CoordinatorTypes' /\ WorkerTypes' /\ Traffic' /\ Reports' /\ StopOrder'
    BY DEF IInv, CoordinatorTypes, WorkerTypes, Traffic, Reports, StopOrder
  <2>2. Order' /\ Claims' /\ Orphans' /\ HonestWorkerIsTrusted'
    BY DEF IInv, Order, Claims, Orphans, HonestWorkerIsTrusted, Finished, Connected
  <2>3. Causes'
    BY DEF IInv, Causes, Excused, Stopping, Of
  <2>4. OnTheWay' /\ OnePlace'
    BY DEF IInv, OnTheWay, OnePlace, OneAt, UnderWay, Active, Queued, Written, OnWire, AtWorker,
           Answered, Running, Finished
  <2>5. QED
    BY <2>1, <2>2, <2>3, <2>4 DEF IInv
<1>3. QED
  BY <1>1, <1>2

(* The inductive invariant holds in every reachable state: the sessions,   *)
(* the two directions of every connection, the worker and the callers'     *)
(* threads agree on where each lease is.                                   *)
THEOREM Invariance == Spec => []IInv
  BY InitIInv, NextIInv, PTL DEF Spec

(* The state keeps its types, and an ASSIGN waits in a session's queue     *)
(* only while the session answers for its lease.                           *)
THEOREM TypeCorrectness == Spec => []TypeOK
<1>1. ASSUME IInv PROVE TypeOK
  <2>1. ASSUME NEW s \in Sessions, NEW i \in 1..Len(pending[s]) PROVE pending[s][i] \in Of(s)
    <3>1. pending[s] \in Seq(Leases)
      BY <1>1 DEF IInv, CoordinatorTypes
    <3>2. pending[s][i] \in Leases /\ UnderWay(pending[s][i], s)
      BY <3>1 DEF UnderWay, Queued, Has
    <3>3. ~Finished(s)
      BY <1>1, <3>1, <2>1 DEF IInv, Order
    <3>4. QED
      BY <1>1, <3>2, <3>3 DEF IInv, OnTheWay, Of
  <2>2. QED
    BY <1>1, <2>1 DEF TypeOK, QueuedIsKnown, IInv
<1>2. QED
  BY <1>1, Invariance, PTL

(* pump_worker_frames() never ends the session of a worker that keeps to   *)
(* the protocol with invalid_result or protocol_error, however cancels,    *)
(* expiries, rejections and late results cross.                            *)
THEOREM HonestWorkersAreTrusted == Spec => []HonestWorkerIsTrusted
<1>1. IInv => HonestWorkerIsTrusted
  BY DEF IInv
<1>2. QED
  BY <1>1, Invariance, PTL

(* run_session() reports executor_lost only for a lease whose session met  *)
(* a fault or an expired lease.                                            *)
THEOREM LossesHaveACause == Spec => []LossHasACause
<1>1. ASSUME IInv PROVE LossHasACause
  <2>1. ASSUME NEW l \in Leases, report[l] = <<"executor_lost">> PROVE home[l] \in broken
    <3>1. Has(<<"executor_lost">>, "executor_lost")
      <4>1. Len(<<"executor_lost">>) = 1 /\ <<"executor_lost">>[1] = "executor_lost"
        OBVIOUS
      <4>2. QED
        BY <4>1 DEF Has
    <3>2. QED
      BY <1>1, <2>1, <3>1 DEF IInv, Reports
  <2>2. QED
    BY <2>1 DEF LossHasACause
<1>2. QED
  BY <1>1, Invariance, PTL

-----------------------------------------------------------------------------
(* The refinement.                                                         *)
(* An event is its lease's last one, and no other lease's.                 *)
LEMMA Ended ==
    ASSUME IInv, NEW l \in Leases, NEW k \in Kinds, report' = [report EXCEPT ![l] = Append(@, k)]
    PROVE  LastEvent' = [LastEvent EXCEPT ![l] = k]
<1>1. report \in [Leases -> Seq(Kinds)]
  BY DEF IInv, CoordinatorTypes
<1>2. report'[l] = Append(report[l], k) /\ \A m \in Leases : m # l => report'[m] = report[m]
  BY <1>1
<1>3. report'[l] # <<>> /\ report'[l][Len(report'[l])] = k
  BY <1>1, <1>2
<1>4. DOMAIN LastEvent = Leases /\ LastEvent = [m \in Leases |-> LastEvent[m]]
  BY DEF LastEvent
<1>5. LastEvent' = [m \in Leases |-> LastEvent'[m]]
  BY DEF LastEvent
<1>6. LastEvent'[l] = k
  BY <1>3 DEF LastEvent
<1>7. ASSUME NEW m \in Leases, m # l PROVE LastEvent'[m] = LastEvent[m]
  BY <1>2, <1>7 DEF LastEvent
<1>8. \A m \in Leases : LastEvent'[m] = [LastEvent EXCEPT ![l] = k][m]
  BY <1>4, <1>6, <1>7
<1>9. QED
  BY <1>4, <1>5, <1>8

(* A claimed lease and an orphan are nowhere else.                         *)
LEMMA ClaimAlone ==
    ASSUME IInv, NEW s \in Sessions, claim[s] # NoClaim
    PROVE  /\ claim[s][1] \in Leases /\ claim[s][1] \notin known
           /\ \A r \in Sessions : claim[s][1] \notin orphans[r]
           /\ \A r \in Sessions : r # s => claim[r][1] # claim[s][1]
<1>1. claim[s][1] \in Leases /\ claim[s][1] \notin known /\ home[claim[s][1]] = s /\ phase[s] = "pump"
  BY DEF IInv, Claims
<1>2. ASSUME NEW r \in Sessions, claim[s][1] \in orphans[r] PROVE FALSE
  <2>1. home[claim[s][1]] = r /\ phase[r] = "report"
    BY <1>2 DEF IInv, Orphans
  <2>2. QED
    BY <1>1, <2>1
<1>3. ASSUME NEW r \in Sessions, r # s, claim[r][1] = claim[s][1] PROVE FALSE
  <2>1. claim[r] # NoClaim
    BY <1>1, <1>3, LeasesAssumption DEF NoClaim
  <2>2. home[claim[r][1]] = r
    BY <2>1 DEF IInv, Claims
  <2>3. QED
    BY <1>1, <1>3, <2>2
<1>4. QED
  BY <1>1, <1>2, <1>3

LEMMA OrphanAlone ==
    ASSUME IInv, NEW s \in Sessions, NEW l \in orphans[s]
    PROVE  /\ l \in Leases /\ l \notin known
           /\ \A r \in Sessions : r # s => l \notin orphans[r]
           /\ \A r \in Sessions : claim[r][1] # l
<1>1. l \in Leases /\ home[l] = s /\ phase[s] = "report"
  BY DEF IInv, Orphans, CoordinatorTypes
<1>2. l \notin known
  BY <1>1 DEF IInv, Order, Finished
<1>3. \A r \in Sessions : r # s => l \notin orphans[r]
  BY <1>1 DEF IInv, Orphans
<1>4. ASSUME NEW r \in Sessions, claim[r][1] = l PROVE FALSE
  <2>1. claim[r] # NoClaim
    BY <1>1, <1>4, LeasesAssumption DEF NoClaim
  <2>2. QED
    BY <1>4, <2>1, ClaimAlone
<1>5. QED
  BY <1>1, <1>2, <1>3, <1>4

LEMMA NotStopped ==
    ASSUME IInv, NEW s \in Sessions, phase[s] \in {"pump", "report"}
    PROVE  stop # "stopped"
<1>1. s <= current
  <2>1. current \in Nat /\ s \in Nat
    BY BoundsAssumption DEF IInv, CoordinatorTypes, Sessions, NoSession
  <2>2. ~(s > current)
    BY DEF IInv, Order
  <2>3. QED
    BY <2>1, <2>2
<1>2. QED
  BY <1>1 DEF IInv, StopOrder

LEMMA CallsRefine ==
    ASSUME IInv, NEW l \in Leases, Assign(l) \/ Cancel(l) \/ LeaseExpired(l)
    PROVE  Contract!Next
<1>1. CASE Assign(l)
  <2>1. /\ UNCHANGED <<claim, orphans, cancelled, report, stop>> /\ known' = known \cup {l} /\ ~Stopping
        /\ home[l] = NoSession
    BY <1>1 DEF Assign, Callable
  <2>2. l \notin Held
    <3>1. l \notin known /\ \A s \in Sessions : s # NoSession
      BY <2>1, BoundsAssumption DEF IInv, Order, Sessions, NoSession
    <3>2. ASSUME NEW s \in Sessions, claim[s][1] = l PROVE FALSE
      <4>1. claim[s] # NoClaim
        BY <3>2, LeasesAssumption DEF NoClaim
      <4>2. QED
        BY <2>1, <3>1, <3>2, <4>1 DEF IInv, Claims
    <3>3. \A s \in Sessions : l \notin orphans[s]
      BY <2>1, <3>1 DEF IInv, Orphans
    <3>4. QED
      BY <3>1, <3>2, <3>3 DEF Held
  <2>3. LastEvent[l] = "none"
    BY <2>1 DEF LastEvent, IInv, Reports
  <2>4. Held' = Held \cup {l} /\ UNCHANGED <<LastEvent, Stopping>>
    BY <2>1 DEF Held, LastEvent, Stopping
  <2>5. Contract!Assign(l)
    BY <2>1, <2>2, <2>3, <2>4 DEF Contract!Assign
  <2>6. QED
    BY <2>5 DEF Contract!Next
<1>2. CASE Cancel(l) \/ LeaseExpired(l)
  <2>1. /\ UNCHANGED <<known, claim, orphans, report, stop>> /\ ~Stopping
        /\ cancelled' = cancelled \cup {l}
    BY <1>2 DEF Cancel, LeaseExpired, Callable, MarkCancelled, callVars
  <2>2. UNCHANGED <<Held, LastEvent, Stopping>>
    BY <2>1 DEF Held, LastEvent, Stopping
  <2>3. Contract!Abandon(l)
    BY <2>1, <2>2 DEF Contract!Abandon
  <2>4. QED
    BY <2>3 DEF Contract!Next
<1>3. QED
  BY <1>1, <1>2

(* Deliver and ReportOrphan report; what Read and Finish drop was given up *)
(* by the scheduler or is dropped by stop().                               *)
LEMMA ReportsRefine ==
    ASSUME IInv, NEW s \in Sessions, Deliver(s) \/ Read(s) \/ Finish(s) \/ ReportOrphan(s)
    PROVE  [Contract!Next]_(Contract!vars)
<1>0. CoordinatorTypes
  BY DEF IInv
<1>1. CASE Deliver(s)
  <2>1. PICK l \in Leases, k \in Kinds : claim[s] = <<l, k>> /\ l = claim[s][1]
    BY <1>0, <1>1 DEF Deliver, CoordinatorTypes
  <2>2. /\ claim[s] # NoClaim /\ report' = [report EXCEPT ![l] = Append(@, k)]
        /\ claim'[s] = NoClaim /\ \A r \in Sessions : r # s => claim'[r] = claim[r]
        /\ UNCHANGED <<known, orphans, cancelled, stop>>
    BY <1>0, <1>1, <2>1 DEF Deliver, callVars, CoordinatorTypes
  <2>3. /\ l \notin known /\ \A r \in Sessions : l \notin orphans[r]
        /\ \A r \in Sessions : r # s => claim[r][1] # l
    BY <2>1, <2>2, ClaimAlone
  <2>4. \A x \in Leases : NoClaim[1] # x
    BY LeasesAssumption DEF NoClaim
  <2>5. l \in Held /\ Held' = Held \ {l}
    BY <2>1, <2>2, <2>3, <2>4 DEF Held
  <2>6. phase[s] = "pump"
    BY <2>2 DEF IInv, Claims
  <2>7. Contract!Report(l, k)
    BY <2>2, <2>5, <2>6, NotStopped, Ended DEF Contract!Report, Stopping
  <2>8. QED
    BY <2>7 DEF Contract!Next
<1>2. CASE Read(s)
  <2>1. PICK l \in Leases, kind \in {"finished", "rejected"} : ReadOf(s, l, kind)
    BY <1>2, ReadFacts
  <2>2. /\ known' = known \ {l} /\ l \in known /\ UNCHANGED <<orphans, cancelled, report, stop>>
        /\ claim[s] = NoClaim
        /\ claim' = IF l \in cancelled THEN claim ELSE [claim EXCEPT ![s] = <<l, kind>>]
    BY <2>1 DEF ReadOf
  <2>3. l \in Held /\ UNCHANGED <<LastEvent, Stopping>>
    BY <2>2 DEF Held, LastEvent, Stopping
  <2>4. \A r \in Sessions : l \notin orphans[r]
    BY <2>2, OrphanAlone
  <2>5. ASSUME NEW r \in Sessions PROVE claim[r][1] # l
    <3>1. CASE claim[r] = NoClaim
      BY <3>1, LeasesAssumption DEF NoClaim
    <3>2. CASE claim[r] # NoClaim
      BY <2>2, <3>2, ClaimAlone
    <3>3. QED
      BY <3>1, <3>2
  <2>6. CASE l \in cancelled
    <3>1. Held' = Held \ {l}
      BY <2>2, <2>4, <2>5, <2>6 DEF Held
    <3>2. Contract!Forget({l})
      BY <2>2, <2>3, <2>6, <3>1 DEF Contract!Forget
    <3>3. {l} \in SUBSET Leases
      OBVIOUS
    <3>4. QED
      BY <3>2, <3>3 DEF Contract!Next
  <2>7. CASE l \notin cancelled
    <3>1. claim'[s] = <<l, kind>> /\ \A r \in Sessions : r # s => claim'[r] = claim[r]
      BY <1>0, <2>2, <2>7 DEF CoordinatorTypes
    <3>2. claim'[s][1] = l /\ \A x \in Leases : claim[s][1] # x
      BY <2>2, <3>1, LeasesAssumption DEF NoClaim
    <3>3. Held' = Held
      <4>1. ASSUME NEW x \in Leases PROVE x \in Held' <=> x \in Held
        <5>1. CASE x = l
          BY <2>3, <3>2, <5>1 DEF Held
        <5>2. CASE x # l
          BY <2>2, <3>1, <3>2, <5>2 DEF Held
        <5>3. QED
          BY <5>1, <5>2
      <4>2. QED
        BY <4>1 DEF Held
    <3>4. QED
      BY <2>2, <2>3, <3>3 DEF Contract!vars
  <2>8. QED
    BY <2>6, <2>7
<1>3. CASE Finish(s)
  <2>1. /\ orphans'[s] = IF Stopping THEN {} ELSE Of(s) \ cancelled
        /\ \A r \in Sessions : r # s => orphans'[r] = orphans[r]
        /\ known' = known \ Of(s) /\ phase[s] = "over"
        /\ UNCHANGED <<cancelled, report, claim, stop>>
    BY <1>0, <1>3 DEF Finish, leaseVars, callVars, CoordinatorTypes
  <2>2. orphans[s] = {}
    BY <2>1 DEF IInv, Orphans
  <2>3. PICK ls \in SUBSET Leases : ls = IF Stopping THEN Of(s) ELSE Of(s) \cap cancelled
    BY <1>0 DEF Of, CoordinatorTypes
  <2>4. Of(s) \subseteq known
    BY DEF Of
  <2>5. ls \subseteq Held /\ UNCHANGED <<LastEvent, Stopping>>
    BY <2>1, <2>3, <2>4 DEF Held, LastEvent, Stopping
  <2>6. \A x \in ls : \A r \in Sessions : claim[r][1] # x /\ x \notin orphans[r]
    <3>1. ASSUME NEW x \in Leases, x \in known, NEW r \in Sessions
          PROVE  claim[r][1] # x /\ x \notin orphans[r]
      <4>1. x \notin orphans[r]
        BY <3>1, OrphanAlone
      <4>2. CASE claim[r] = NoClaim
        BY <4>1, <4>2, LeasesAssumption DEF NoClaim
      <4>3. CASE claim[r] # NoClaim
        BY <3>1, <4>1, <4>3, ClaimAlone
      <4>4. QED
        BY <4>2, <4>3
    <3>2. QED
      BY <2>3, <2>4, <3>1
  <2>7. Held' = Held \ ls
    <3>1. ASSUME NEW x \in Leases, x \in Held' PROVE x \in Held \ ls
      BY <2>1, <2>2, <2>3, <2>4, <2>6, <3>1 DEF Held
    <3>2. ASSUME NEW x \in Leases, x \in Held \ ls PROVE x \in Held'
      BY <2>1, <2>2, <2>3, <2>4, <3>2 DEF Held
    <3>3. QED
      BY <3>1, <3>2 DEF Held
  <2>8. Contract!Forget(ls)
    BY <2>1, <2>3, <2>5, <2>7 DEF Contract!Forget
  <2>9. QED
    BY <2>8 DEF Contract!Next
<1>4. CASE ReportOrphan(s)
  <2>1. CASE UNCHANGED <<report, orphans>>
    <3>1. UNCHANGED <<Held, LastEvent, Stopping, cancelled, stop>>
      BY <1>4, <2>1 DEF ReportOrphan, Held, LastEvent, Stopping, callVars
    <3>2. QED
      BY <3>1 DEF Contract!vars
  <2>2. ASSUME NEW l \in orphans[s], NEW k \in Kinds,
               report' = [report EXCEPT ![l] = Append(@, k)],
               orphans' = [orphans EXCEPT ![s] = @ \ {l}]
        PROVE  Contract!Next
    <3>1. /\ l \in Leases /\ l \notin known
          /\ \A r \in Sessions : r # s => l \notin orphans[r]
          /\ \A r \in Sessions : claim[r][1] # l
      BY OrphanAlone
    <3>2. /\ orphans'[s] = orphans[s] \ {l} /\ \A r \in Sessions : r # s => orphans'[r] = orphans[r]
          /\ UNCHANGED <<known, claim, cancelled, stop>> /\ phase[s] = "report"
      BY <1>0, <1>4, <2>2 DEF ReportOrphan, callVars, CoordinatorTypes
    <3>3. l \in Held /\ Held' = Held \ {l}
      BY <3>1, <3>2 DEF Held
    <3>4. Contract!Report(l, k)
      BY <2>2, <3>1, <3>2, <3>3, NotStopped, Ended DEF Contract!Report, Stopping
    <3>5. QED
      BY <3>1, <3>4 DEF Contract!Next
  <2>3. {"invalid_result", "executor_lost"} \subseteq Kinds
    BY DEF Kinds
  <2>4. QED
    BY <1>4, <2>1, <2>2, <2>3 DEF ReportOrphan
<1>5. QED
  BY <1>1, <1>2, <1>3, <1>4

LEMMA StopRefines ==
    ASSUME StopBegins \/ Stop
    PROVE  Contract!Next
<1>1. /\ UNCHANGED <<known, claim, orphans, report, cancelled>>
      /\ Stopping' = TRUE /\ (stop' = "stopped") \in {(stop = "stopped"), TRUE}
  BY DEF StopBegins, Stop, StopCloses, StopWrites, StopWaits, StopJoins, Stopping, leaseVars, sessionVars, Callable
<1>2. UNCHANGED <<Held, LastEvent>>
  BY <1>1 DEF Held, LastEvent
<1>3. Contract!Stop
  BY <1>1, <1>2 DEF Contract!Stop
<1>4. QED
  BY <1>3 DEF Contract!Next

LEMMA OthersStutter ==
    ASSUME UNCHANGED <<known, claim, orphans, report, cancelled, stop>>
    PROVE  UNCHANGED Contract!vars
  BY DEF Contract!vars, Held, LastEvent, Stopping

LEMMA StepRefines ==
    ASSUME IInv, [Next]_vars
    PROVE  [Contract!Next]_(Contract!vars)
<1> USE DEF leaseVars, sessionVars, callVars
<1>1. CASE Scheduler \/ Stop
  BY <1>1, CallsRefine, StopRefines DEF Scheduler
<1>2. CASE CloseIdleSession \/ \E t \in Threads : Write(t)
  BY <1>2, OthersStutter DEF CloseIdleSession, Write
<1>3. ASSUME NEW s \in Sessions,
             \/ Connect(s) \/ ConnectFails(s) \/ Preamble(s) \/ PreambleFails(s) \/ Flush(s)
             \/ EndOfStream(s)
      PROVE  UNCHANGED Contract!vars
  BY <1>3, OthersStutter DEF Connect, ConnectFails, Preamble, PreambleFails, Flush, EndOfStream
<1>4. CASE \/ \E s \in Sessions : Worker(s) \/ LoseConnection(s)
           \/ \E l \in Leases : Task(l)
  BY <1>4, OthersStutter DEF Worker, WorkerReads, WorkerRejects, WorkerCloses, LoseConnection, Task,
                             TaskReturns, TaskAnswers
<1>5. CASE UNCHANGED vars
  BY <1>5, OthersStutter DEF vars
<1>6. ASSUME NEW s \in Sessions, SessionThread(s) \/ Handshake(s)
      PROVE  [Contract!Next]_(Contract!vars)
  BY <1>3, <1>6, ReportsRefine DEF SessionThread, Handshake
<1>7. QED
  BY <1>1, <1>2, <1>4, <1>5, <1>6 DEF Next

LEMMA InitRefines == Init => Contract!Init
<1> SUFFICES ASSUME Init PROVE Contract!Init
  OBVIOUS
<1>1. Held = {}
  BY LeasesAssumption DEF Init, Held, NoClaim
<1>2. LastEvent = [l \in Leases |-> "none"]
  BY DEF Init, LastEvent
<1>3. QED
  BY <1>1, <1>2 DEF Init, Contract!Init, Stopping

(* The executor implements ExecutorContract: a lease is reported at most   *)
(* once and only after assign(), is dropped only when the scheduler gave   *)
(* it up or stop() was called, and nothing is reported after stop()        *)
(* returned, whatever the worker and the network do.                       *)
THEOREM ImplementsContract == Spec => ImplementsExecutorContract
<1>1. IInv /\ [Next]_vars => [Contract!Next]_(Contract!vars)
  BY StepRefines
<1>2. QED
  BY <1>1, InitRefines, Invariance, PTL DEF Spec, ImplementsExecutorContract, Contract!Spec
=============================================================================
