----------------------- MODULE InProcessExecutorProofs -----------------------
(***************************************************************************)
(* What is proved about InProcessExecutor for any number of threads and    *)
(* leases: its types, that stop() silences it, and that it implements      *)
(* ExecutorContract.                                                       *)
(***************************************************************************)
EXTENDS InProcessExecutor, SequenceTheorems, TLAPS

Once(q) == \A i, j \in DOMAIN q : q[i] = q[j] => i = j

(* A lease is in one place: once in the queue, or at one thread.           *)
OnePlace ==
    /\ Once(queue)
    /\ \A w \in Threads : lease[w] \notin Range(queue)
    /\ \A w, v \in Threads : lease[w] = lease[v] /\ lease[w] # None => w = v

(* A thread has a lease exactly between taking it and disposing of it.     *)
Busy == \A w \in Threads : pc[w] \in {"run", "done", "report"} <=> lease[w] # None

(* What the executor holds or has reported was assigned.                   *)
KnownLeases ==
    /\ Range(queue) \subseteq assigned
    /\ \A w \in Threads : lease[w] # None => lease[w] \in assigned
    /\ \A l \in Leases : report[l] # "none" => l \in assigned

(* Only leases that the scheduler gave up are dropped.                     *)
DropsAreAbandoned ==
    /\ dropped \subseteq abandoned
    /\ call = "cancel" => givenUp \in abandoned

(* How far stop() is, and what has ended by then.                          *)
StopPhases ==
    /\ stopping => call \in {"join", "beats", "over"}
    /\ call \in {"beats", "over"} => \A w \in Threads : pc[w] = "over"
    /\ call = "over" => beater = "over"
    /\ beater # "send" => batch = {}

Inv == TypeOK /\ OnePlace /\ Busy /\ KnownLeases /\ DropsAreAbandoned /\ StopPhases

-----------------------------------------------------------------------------
(* What the queue's operations leave in it.                                *)

LEMMA AppendedQueue ==
    ASSUME NEW q \in Seq(Leases), NEW l \in Leases, Once(q), l \notin Range(q)
    PROVE  /\ Append(q, l) \in Seq(Leases)
           /\ Range(Append(q, l)) = Range(q) \cup {l}
           /\ Once(Append(q, l))
<1>1. /\ Append(q, l) \in Seq(Leases)
      /\ DOMAIN Append(q, l) = DOMAIN q \cup {Len(q) + 1}
      /\ \A i \in DOMAIN q : Append(q, l)[i] = q[i]
      /\ Append(q, l)[Len(q) + 1] = l
  OBVIOUS
<1>2. QED
  BY <1>1 DEF Range, Once

LEMMA ShorterQueue ==
    ASSUME NEW q \in Seq(Leases), NEW i \in DOMAIN q, Once(q)
    PROVE  /\ RemoveAt(q, i) \in Seq(Leases)
           /\ Range(RemoveAt(q, i)) = Range(q) \ {q[i]}
           /\ Once(RemoveAt(q, i))
<1> DEFINE r == RemoveAt(q, i)
<1>1. /\ r \in Seq(Leases) /\ Len(r) = Len(q) - 1
      /\ \A j \in 1..(Len(q) - 1) : r[j] = q[IF j < i THEN j ELSE j + 1]
  <2> DEFINE front == SubSeq(q, 1, i - 1)
             back == SubSeq(q, i + 1, Len(q))
  <2>1. i \in 1..Len(q) /\ Len(q) \in Nat /\ \A j \in 1..Len(q) : q[j] \in Leases
    OBVIOUS
  <2>2. /\ front \in Seq(Leases) /\ Len(front) = i - 1
        /\ \A j \in 1..(i - 1) : front[j] = q[j]
    BY <2>1
  <2>3. /\ back \in Seq(Leases) /\ Len(back) = Len(q) - i
        /\ \A j \in 1..(Len(q) - i) : back[j] = q[i + j]
    BY <2>1
  <2>4. r = front \o back
    BY DEF RemoveAt
  <2> HIDE DEF front, back, r
  <2>5. /\ r \in Seq(Leases) /\ Len(r) = Len(front) + Len(back)
        /\ \A j \in 1..(Len(front) + Len(back)) :
              r[j] = IF j <= Len(front) THEN front[j] ELSE back[j - Len(front)]
    BY <2>2, <2>3, <2>4, ConcatProperties
  <2>6. \A j \in 1..(Len(q) - 1) : r[j] = q[IF j < i THEN j ELSE j + 1]
    <3> TAKE j \in 1..(Len(q) - 1)
    <3>1. CASE j < i
      BY <3>1, <2>1, <2>2, <2>3, <2>5
    <3>2. CASE ~(j < i)
      <4>1. j - (i - 1) \in 1..(Len(q) - i) /\ i + (j - (i - 1)) = j + 1
        BY <3>2, <2>1
      <4>2. r[j] = back[j - (i - 1)]
        BY <3>2, <2>1, <2>2, <2>3, <2>5
      <4>3. QED
        BY <3>2, <4>1, <4>2, <2>3
    <3>3. QED
      BY <3>1, <3>2
  <2>7. QED
    BY <2>1, <2>2, <2>3, <2>5, <2>6
<1>2. DOMAIN q = 1..Len(q) /\ DOMAIN r = 1..(Len(q) - 1) /\ i \in Nat /\ Len(q) \in Nat
  BY <1>1
<1> HIDE DEF r
<1>3. Once(r)
  <2> SUFFICES ASSUME NEW j \in DOMAIN r, NEW k \in DOMAIN r, r[j] = r[k] PROVE j = k
    BY DEF Once
  <2>1. (IF j < i THEN j ELSE j + 1) = (IF k < i THEN k ELSE k + 1)
    BY <1>1, <1>2 DEF Once
  <2>2. QED
    BY <2>1, <1>2
<1>4. \A j \in DOMAIN r : r[j] \in Range(q) \ {q[i]}
  <2> TAKE j \in DOMAIN r
  <2> DEFINE k == IF j < i THEN j ELSE j + 1
  <2>1. k \in DOMAIN q /\ k # i /\ r[j] = q[k]
    BY <1>1, <1>2
  <2>2. QED
    BY <2>1 DEF Range, Once
<1>5. \A k \in DOMAIN q : k # i => q[k] \in Range(r)
  <2> SUFFICES ASSUME NEW k \in DOMAIN q, k # i PROVE q[k] \in Range(r)
    OBVIOUS
  <2> DEFINE j == IF k < i THEN k ELSE k - 1
  <2>1. j \in DOMAIN r /\ r[j] = q[k]
    BY <1>1, <1>2
  <2>2. QED
    BY <2>1 DEF Range
<1>6. Range(r) = Range(q) \ {q[i]}
  BY <1>4, <1>5 DEF Range
<1>7. QED
  BY <1>1, <1>3, <1>6 DEF r

LEMMA TakenQueue ==
    ASSUME NEW q \in Seq(Leases), q # <<>>, Once(q)
    PROVE  /\ Tail(q) \in Seq(Leases) /\ Head(q) \in Range(q)
           /\ Range(Tail(q)) = Range(q) \ {Head(q)}
           /\ Once(Tail(q))
<1>1. /\ 1 \in DOMAIN q /\ Head(q) = q[1] /\ Tail(q) \in Seq(Leases)
      /\ DOMAIN Tail(q) = 1..(Len(q) - 1) /\ DOMAIN q = 1..Len(q) /\ Len(q) \in Nat
      /\ \A j \in 1..(Len(q) - 1) : Tail(q)[j] = q[j + 1]
  OBVIOUS
<1>2. Once(Tail(q))
  BY <1>1 DEF Once
<1>3. \A j \in DOMAIN Tail(q) : Tail(q)[j] \in Range(q) \ {Head(q)}
  BY <1>1 DEF Range, Once
<1>4. \A k \in DOMAIN q : k # 1 => q[k] \in Range(Tail(q))
  <2> SUFFICES ASSUME NEW k \in DOMAIN q, k # 1 PROVE q[k] \in Range(Tail(q))
    OBVIOUS
  <2>1. k - 1 \in DOMAIN Tail(q) /\ Tail(q)[k - 1] = q[k]
    BY <1>1
  <2>2. QED
    BY <2>1 DEF Range
<1>5. Range(Tail(q)) = Range(q) \ {Head(q)}
  BY <1>1, <1>3, <1>4 DEF Range
<1>6. QED
  BY <1>1, <1>2, <1>5 DEF Range

LEMMA EmptyQueue == <<>> \in Seq(Leases) /\ Range(<<>>) = {} /\ Once(<<>>)
  BY DEF Range, Once

-----------------------------------------------------------------------------
(* The invariant.                                                          *)

LEMMA InitInv == Init => Inv
<1> SUFFICES ASSUME Init PROVE Inv
  OBVIOUS
<1>1. TypeOK
  BY EmptyQueue DEF Init, TypeOK
<1>2. OnePlace
  BY EmptyQueue DEF Init, OnePlace
<1>3. Busy /\ KnownLeases /\ DropsAreAbandoned /\ StopPhases
  BY EmptyQueue, ExecutorAssumption DEF Init, Busy, KnownLeases, DropsAreAbandoned, StopPhases
<1>4. QED
  BY <1>1, <1>2, <1>3 DEF Inv

(* The steps of the scheduler's thread.                                    *)
LEMMA CallerInv ==
    ASSUME Inv, (\E l \in Leases : Assign(l) \/ GiveUp(l)) \/ CallStop \/ Return
    PROVE  Inv'
<1> USE DEF Inv
<1>1. ASSUME NEW l \in Leases, Assign(l) PROVE Inv'
  <2> USE <1>1 DEF Assign
  <2>1. l \notin Range(queue) /\ \A w \in Threads : lease[w] # l
    BY ExecutorAssumption DEF KnownLeases
  <2>2. queue' \in Seq(Leases) /\ Range(queue') = Range(queue) \cup {l} /\ Once(queue')
    BY <2>1, AppendedQueue DEF TypeOK, OnePlace
  <2>3. /\ pc' \in [Threads -> {"check", "asleep", "run", "done", "report", "over"}]
        /\ \A w \in Threads : pc'[w] = pc[w] \/ (pc[w] = "asleep" /\ pc'[w] = "check")
    BY DEF TypeOK, Asleep, Goto
  <2>4. TypeOK'
    BY <2>2, <2>3 DEF TypeOK, beats, caller
  <2>5. OnePlace' /\ KnownLeases' /\ Busy'
    BY <2>1, <2>2, <2>3 DEF TypeOK, OnePlace, KnownLeases, Busy
  <2>6. DropsAreAbandoned' /\ StopPhases'
    BY <2>3 DEF DropsAreAbandoned, StopPhases, beats, caller
  <2>7. QED
    BY <2>4, <2>5, <2>6
<1>2. ASSUME NEW l \in Leases, GiveUp(l) PROVE Inv'
  BY <1>2 DEF GiveUp, TypeOK, OnePlace, KnownLeases, Busy, DropsAreAbandoned, StopPhases,
              shared, workers, beats
<1>3. CASE CallStop
  BY <1>3 DEF CallStop, TypeOK, OnePlace, KnownLeases, Busy, DropsAreAbandoned, StopPhases,
              shared, workers, beats, seen
<1>4. CASE Cancel
  <2> USE <1>4 DEF Cancel
  <2>1. queue' \in Seq(Leases) /\ Range(queue') \subseteq Range(queue) /\ Once(queue')
    BY ShorterQueue DEF TypeOK, OnePlace, Unqueue
  <2>2. /\ dropped' \subseteq dropped \cup {givenUp} /\ requested' \subseteq requested \cup running
        /\ dropped' \subseteq dropped \cup running
    BY DEF Unqueue
  <2>3. UNCHANGED <<running, stopping, workers, beats, seen>> /\ call' = "idle" /\ givenUp' = None
        /\ call = "cancel"
    OBVIOUS
  <2>4. TypeOK'
    BY <2>1, <2>2, <2>3 DEF TypeOK, workers, beats, seen
  <2>5. OnePlace' /\ KnownLeases' /\ Busy'
    BY <2>1, <2>3 DEF OnePlace, KnownLeases, Busy, workers, seen
  <2>6. DropsAreAbandoned' /\ StopPhases'
    BY <2>2, <2>3 DEF DropsAreAbandoned, StopPhases, workers, beats, seen
  <2>7. QED
    BY <2>4, <2>5, <2>6
<1>5. CASE Stop
  <2> USE <1>5 DEF Stop
  <2>1. /\ pc' \in [Threads -> {"check", "asleep", "run", "done", "report", "over"}]
        /\ \A w \in Threads : pc'[w] = pc[w] \/ (pc[w] = "asleep" /\ pc'[w] = "check")
    BY DEF TypeOK, WakeAll
  <2>2. TypeOK'
    BY <2>1, EmptyQueue DEF TypeOK, beats, seen
  <2>3. OnePlace' /\ KnownLeases' /\ Busy'
    BY <2>1, EmptyQueue DEF OnePlace, KnownLeases, Busy, seen
  <2>4. DropsAreAbandoned' /\ StopPhases'
    BY DEF DropsAreAbandoned, StopPhases, beats, seen
  <2>5. QED
    BY <2>2, <2>3, <2>4
<1>6. CASE ThreadsJoined \/ HeartbeatsJoined
  BY <1>6 DEF ThreadsJoined, HeartbeatsJoined, TypeOK, OnePlace, KnownLeases, Busy,
              DropsAreAbandoned, StopPhases, shared, workers, beats, seen
<1>7. QED
  BY <1>1, <1>2, <1>3, <1>4, <1>5, <1>6 DEF Return

(* The steps of a worker thread.                                           *)
LEMMA WorkerInv ==
    ASSUME Inv, NEW w \in Threads, Work(w) \/ TaskReturns(w) \/ SpuriousWake(w)
    PROVE  Inv'
<1> USE DEF Inv
<1>1. CASE Sleep(w) \/ SpuriousWake(w) \/ Leave(w)
  BY <1>1 DEF Sleep, SpuriousWake, Leave, Goto, TypeOK, OnePlace, KnownLeases, Busy,
              DropsAreAbandoned, StopPhases, shared, beats, caller, seen
<1>2. CASE Take(w)
  <2> USE <1>2 DEF Take
  <2> DEFINE h == Head(queue)
  <2>1. /\ queue' \in Seq(Leases) /\ h \in Range(queue) /\ Once(queue')
        /\ Range(queue') = Range(queue) \ {h}
    BY TakenQueue DEF TypeOK, OnePlace
  <2>2. h \in Leases
    BY <2>1 DEF TypeOK, Range
  <2> HIDE DEF h
  <2>3. lease' = [lease EXCEPT ![w] = h] /\ pc' = [pc EXCEPT ![w] = "run"]
        /\ running' = running \cup {h} /\ beating' = beating \cup {h} /\ pc[w] = "check" /\ ~stopping
    BY DEF Goto, h
  <2>4. TypeOK'
    BY <2>1, <2>2, <2>3 DEF TypeOK, caller, seen
  <2>5. OnePlace'
    BY <2>1, <2>2, <2>3, ExecutorAssumption DEF OnePlace, TypeOK
  <2>6. KnownLeases' /\ Busy'
    BY <2>1, <2>2, <2>3, ExecutorAssumption DEF KnownLeases, Busy, TypeOK, seen
  <2>7. DropsAreAbandoned' /\ StopPhases'
    BY <2>3 DEF DropsAreAbandoned, StopPhases, caller, seen, TypeOK
  <2>8. QED
    BY <2>4, <2>5, <2>6, <2>7
<1>3. CASE TaskReturns(w)
  BY <1>3 DEF TaskReturns, Goto, TypeOK, OnePlace, KnownLeases, Busy,
              DropsAreAbandoned, StopPhases, shared, caller, seen
<1>4. CASE Decide(w)
  <2> USE <1>4 DEF Decide
  <2>1. PICK s \in {"check", "report"} :
            /\ pc' = [pc EXCEPT ![w] = s]
            /\ lease' = [lease EXCEPT ![w] = IF s = "report" THEN lease[w] ELSE None]
    BY DEF Goto, TypeOK
  <2>2. /\ running' \subseteq running /\ dropped' \subseteq dropped /\ pc[w] = "done"
        /\ UNCHANGED <<queue, requested, stopping, beats, caller, seen>>
    OBVIOUS
  <2>3. TypeOK'
    BY <2>1, <2>2 DEF TypeOK, beats, caller, seen
  <2>4. None \notin Range(queue)
    BY ExecutorAssumption DEF TypeOK, Range
  <2>5. OnePlace' /\ KnownLeases' /\ Busy'
    BY <2>1, <2>2, <2>4 DEF OnePlace, KnownLeases, Busy, TypeOK, seen
  <2>6. DropsAreAbandoned' /\ StopPhases'
    BY <2>1, <2>2 DEF DropsAreAbandoned, StopPhases, beats, caller, seen, TypeOK
  <2>7. QED
    BY <2>3, <2>5, <2>6
<1>5. CASE Report(w)
  <2> USE <1>5 DEF Report
  <2>1. None \notin Range(queue)
    BY ExecutorAssumption DEF TypeOK, Range
  <2>2. lease[w] # None /\ lease[w] \in Leases
    BY DEF Busy, TypeOK
  <2>3. TypeOK'
    BY <2>2 DEF TypeOK, Goto, shared, beats, caller
  <2>4. OnePlace' /\ KnownLeases' /\ Busy'
    BY <2>1, <2>2 DEF OnePlace, KnownLeases, Busy, TypeOK, Goto, shared
  <2>5. DropsAreAbandoned' /\ StopPhases'
    BY DEF DropsAreAbandoned, StopPhases, Goto, shared, beats, caller, TypeOK
  <2>6. QED
    BY <2>3, <2>4, <2>5
<1>6. QED
  BY <1>1, <1>2, <1>3, <1>4, <1>5 DEF Work

(* The steps of the heartbeat thread.                                      *)
LEMMA BeatInv == ASSUME Inv, Beat PROVE Inv'
<1>1. TypeOK' /\ StopPhases'
  BY DEF Inv, Beat, BeatDue, SendBeat, BeatsSent, BeatsOver, TypeOK, StopPhases,
         shared, workers, caller, seen
<1>2. OnePlace' /\ KnownLeases' /\ Busy' /\ DropsAreAbandoned'
  BY DEF Inv, Beat, BeatDue, SendBeat, BeatsSent, BeatsOver, OnePlace, KnownLeases, Busy,
         DropsAreAbandoned, shared, workers, caller, seen
<1>3. QED
  BY <1>1, <1>2 DEF Inv

LEMMA StutterInv == ASSUME Inv, UNCHANGED vars PROVE Inv'
  BY DEF Inv, TypeOK, OnePlace, KnownLeases, Busy, DropsAreAbandoned, StopPhases,
         vars, shared, workers, beats, caller, seen

(* Every reachable state satisfies the invariant.                          *)
THEOREM Invariance == Spec => []Inv
<1>1. Inv /\ [Next]_vars => Inv'
  BY CallerInv, WorkerInv, BeatInv, StutterInv DEF Next
<1>2. QED
  BY InitInv, <1>1, PTL DEF Spec

(* The variables of the executor keep their types.                         *)
THEOREM TypeCorrect == Spec => []TypeOK
<1>1. Inv => TypeOK
  BY DEF Inv
<1>2. QED
  BY <1>1, Invariance, PTL

(* Once stop() has returned, no heartbeat is sent or about to be sent,     *)
(* although a round is sent from a copy and outside the lock: stop() joins *)
(* the heartbeat thread after the workers.                                 *)
THEOREM StopSilences == Spec => []QuietOnceStopped
<1>1. Inv => QuietOnceStopped
  BY DEF Inv, StopPhases, QuietOnceStopped
<1>2. QED
  BY <1>1, Invariance, PTL

-----------------------------------------------------------------------------
(* The refinement.                                                         *)

(* A thread that disposes of its lease takes it out of what is held.       *)
LEMMA Disposed ==
    ASSUME Inv, NEW w \in Threads, lease[w] # None, queue' = queue,
           lease' = [lease EXCEPT ![w] = None]
    PROVE  lease[w] \in Held /\ Held' = Held \ {lease[w]}
<1>1. DOMAIN lease = Threads /\ DOMAIN lease' = Threads
  BY DEF Inv, TypeOK
<1>2. lease[w] \notin Range(queue)
  BY DEF Inv, OnePlace
<1>3. \A v \in Threads : v # w => lease'[v] = lease[v] /\ (lease[v] # None => lease[v] # lease[w])
  BY DEF Inv, TypeOK, OnePlace
<1>4. lease'[w] = None
  BY <1>1
<1>5. QED
  BY <1>1, <1>2, <1>3, <1>4 DEF Held, Range

LEMMA HeldTypes == ASSUME TypeOK PROVE Held \subseteq Leases
  BY DEF TypeOK, Held, Range

(* The scheduler's steps are the contract's.                               *)
LEMMA CallerRefines ==
    ASSUME Inv, (\E l \in Leases : Assign(l) \/ GiveUp(l)) \/ CallStop \/ Return
    PROVE  [Contract!Next]_(Contract!vars)
<1> USE DEF Inv
<1>1. ASSUME NEW l \in Leases, Assign(l) PROVE Contract!Assign(l)
  <2> USE <1>1 DEF Assign
  <2>1. l \notin Range(queue) /\ \A w \in Threads : lease[w] # l
    BY ExecutorAssumption DEF KnownLeases
  <2>2. Range(queue') = Range(queue) \cup {l}
    BY <2>1, AppendedQueue DEF TypeOK, OnePlace
  <2>3. l # None /\ DOMAIN lease = Threads
    BY ExecutorAssumption DEF TypeOK
  <2>4. l \notin Held /\ Held' = Held \cup {l}
    BY <2>1, <2>2, <2>3 DEF Held, Range
  <2>5. report[l] = "none"
    BY DEF KnownLeases
  <2>6. QED
    BY <2>4, <2>5 DEF Contract!Assign, caller
<1>2. ASSUME NEW l \in Leases, GiveUp(l) PROVE Contract!Abandon(l)
  <2>1. Held' = Held
    BY <1>2 DEF GiveUp, Held, shared, workers
  <2>2. QED
    BY <1>2, <2>1 DEF GiveUp, Contract!Abandon
<1>3. CASE CallStop
  <2>1. Held' = Held
    BY <1>3 DEF CallStop, Held, shared, workers
  <2>2. Contract!Stop
    BY <1>3, <2>1 DEF CallStop, Contract!Stop, seen
  <2>3. QED
    BY <2>2 DEF Contract!Next
<1>4. CASE Cancel
  <2> USE <1>4 DEF Cancel
  <2>1. \/ queue' = queue
        \/ givenUp \in Range(queue) /\ Range(queue') = Range(queue) \ {givenUp}
    BY ShorterQueue DEF TypeOK, OnePlace, Unqueue
  <2>2. /\ call = "cancel" /\ call' = "idle" /\ lease' = lease
        /\ UNCHANGED <<assigned, abandoned, report>>
    BY DEF workers, seen
  <2>3. CASE queue' = queue
    <3>1. Held' = Held
      BY <2>2, <2>3 DEF Held
    <3>2. QED
      BY <2>2, <3>1 DEF Contract!vars
  <2>4. CASE givenUp \in Range(queue) /\ Range(queue') = Range(queue) \ {givenUp}
    <3>1. \A w \in Threads : lease[w] # givenUp
      BY <2>4 DEF OnePlace
    <3>2. Held' = Held \ {givenUp} /\ givenUp \in Held
      BY <2>2, <2>4, <3>1 DEF Held, Range, TypeOK
    <3>3. Contract!Forget({givenUp})
      BY <2>2, <3>2 DEF Contract!Forget, DropsAreAbandoned
    <3>4. {givenUp} \in SUBSET Leases
      BY <3>2, HeldTypes
    <3>5. QED
      BY <3>3, <3>4 DEF Contract!Next
  <2>5. QED
    BY <2>1, <2>3, <2>4
<1>5. CASE Stop
  <2> DEFINE ls == Held \ Held'
  <2>1. Held' \subseteq Held
    BY <1>5, EmptyQueue DEF Stop, Held
  <2>2. ls \in SUBSET Leases
    BY HeldTypes
  <2>3. Contract!Forget(ls)
    BY <1>5, <2>1 DEF Stop, Contract!Forget, seen
  <2>4. QED
    BY <2>2, <2>3 DEF Contract!Next
<1>6. CASE ThreadsJoined \/ HeartbeatsJoined
  <2>1. Held' = Held
    BY <1>6 DEF ThreadsJoined, HeartbeatsJoined, Held, shared, workers
  <2>2. Contract!Stop
    BY <1>6, <2>1 DEF ThreadsJoined, HeartbeatsJoined, Contract!Stop, seen
  <2>3. QED
    BY <2>2 DEF Contract!Next
<1>7. QED
  BY <1>1, <1>2, <1>3, <1>4, <1>5, <1>6 DEF Contract!Next, Return

(* A worker's report is the contract's; a result it does not report is one *)
(* the scheduler gave up or stop() discards.                               *)
LEMMA WorkerRefines ==
    ASSUME Inv, NEW w \in Threads, Work(w) \/ TaskReturns(w) \/ SpuriousWake(w)
    PROVE  [Contract!Next]_(Contract!vars)
<1> USE DEF Inv
<1>1. CASE Sleep(w) \/ SpuriousWake(w) \/ Leave(w) \/ TaskReturns(w)
  <2>1. Held' = Held
    BY <1>1 DEF Sleep, SpuriousWake, Leave, TaskReturns, Held, shared
  <2>2. QED
    BY <1>1, <2>1 DEF Sleep, SpuriousWake, Leave, TaskReturns, Contract!vars, caller, seen
<1>2. CASE Take(w)
  <2> DEFINE h == Head(queue)
  <2>1. h \in Range(queue) /\ Range(queue') = Range(queue) \ {h}
    BY <1>2, TakenQueue DEF Take, TypeOK, OnePlace
  <2>2. h # None
    BY <2>1, ExecutorAssumption DEF TypeOK, Range
  <2> HIDE DEF h
  <2>3. lease[w] = None /\ lease' = [lease EXCEPT ![w] = h]
    BY <1>2 DEF Take, Busy, h
  <2>4. /\ DOMAIN lease = Threads /\ DOMAIN lease' = Threads /\ lease'[w] = h
        /\ \A v \in Threads : v # w => lease'[v] = lease[v]
    BY <2>3 DEF TypeOK
  <2>5. Range(lease') \ {None} = (Range(lease) \ {None}) \cup {h}
    BY <2>2, <2>3, <2>4 DEF Range
  <2>6. Held' = Held
    BY <2>1, <2>5 DEF Held
  <2>7. QED
    BY <1>2, <2>6 DEF Take, Contract!vars, caller, seen
<1>3. CASE Decide(w)
  <2>1. lease[w] # None
    BY <1>3 DEF Decide, Busy
  <2>2. CASE stopping \/ lease[w] \in dropped
    <3>1. lease' = [lease EXCEPT ![w] = None] /\ queue' = queue
      BY <1>3, <2>2 DEF Decide, Goto, TypeOK
    <3>2. lease[w] \in Held /\ Held' = Held \ {lease[w]}
      BY <2>1, <3>1, Disposed
    <3>3. Contract!Forget({lease[w]})
      BY <1>3, <2>2, <3>2 DEF Decide, Contract!Forget, DropsAreAbandoned, StopPhases, caller, seen
    <3>4. {lease[w]} \in SUBSET Leases
      BY <3>2, HeldTypes
    <3>5. QED
      BY <3>3, <3>4 DEF Contract!Next
  <2>3. CASE ~(stopping \/ lease[w] \in dropped)
    <3>1. lease' = lease /\ queue' = queue
      BY <1>3, <2>3 DEF Decide, Goto, TypeOK
    <3>2. Held' = Held
      BY <3>1 DEF Held
    <3>3. QED
      BY <1>3, <3>2 DEF Decide, Contract!vars, caller, seen
  <2>4. QED
    BY <2>2, <2>3
<1>4. CASE Report(w)
  <2>1. lease[w] # None
    BY <1>4 DEF Report, Busy
  <2>2. lease[w] \in Held /\ Held' = Held \ {lease[w]}
    BY <1>4, <2>1, Disposed DEF Report, shared
  <2>3. call # "over"
    BY <1>4 DEF Report, StopPhases
  <2>4. Contract!Report(lease[w], "finished")
    BY <1>4, <2>2, <2>3 DEF Report, Contract!Report, caller
  <2>5. lease[w] \in Leases
    BY <2>2, HeldTypes
  <2>6. QED
    BY <2>4, <2>5 DEF Contract!Next
<1>5. QED
  BY <1>1, <1>2, <1>3, <1>4 DEF Work

LEMMA BeatRefines == ASSUME Beat \/ UNCHANGED vars PROVE UNCHANGED Contract!vars
<1>1. UNCHANGED <<queue, lease, call, abandoned, report>>
  BY DEF Beat, BeatDue, SendBeat, BeatsSent, BeatsOver, vars, shared, workers, caller, seen
<1>2. Held' = Held
  BY <1>1 DEF Held
<1>3. QED
  BY <1>1, <1>2 DEF Contract!vars

(* The in-process executor keeps the executor's contract (executor.hpp):   *)
(* it reports a lease at most once, drops none the scheduler waits for,    *)
(* and reports nothing once stop() has returned.                           *)
THEOREM Implementation == Spec => ImplementsExecutorContract
<1>1. Init => Contract!Init
  <2> SUFFICES ASSUME Init PROVE Contract!Init
    OBVIOUS
  <2>1. Held = {}
    BY EmptyQueue DEF Init, Held, Range
  <2>2. QED
    BY <2>1 DEF Init, Contract!Init
<1>2. Inv /\ [Next]_vars => [Contract!Next]_(Contract!vars)
  BY CallerRefines, WorkerRefines, BeatRefines DEF Next
<1>3. QED
  BY <1>1, <1>2, Invariance, PTL DEF Spec, Contract!Spec, ImplementsExecutorContract
=============================================================================
