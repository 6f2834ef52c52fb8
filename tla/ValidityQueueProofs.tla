-------------------------- MODULE ValidityQueueProofs --------------------------
(***************************************************************************)
(* For any number of files, processes, draining threads, requests and      *)
(* faults: one consumer at a time checks a row, and no request is answered *)
(* by a check that began before it, until two processes drain at once.     *)
(***************************************************************************)
EXTENDS ValidityQueue, TLAPS

(* The locks of the processes exclude each other as long as no two of them   *)
(* drain at once.                                                            *)
SoleDrainer ==
    ~overlapped =>
        \A p, q \in Proc : holder[p] # None /\ holder[q] # None => p = q

IInv == TypeOK /\ SoleDrainer /\ CheckedRowIsRunning /\ RequestIsFresh

-----------------------------------------------------------------------------
LEMMA InitIInv == Init => IInv
<1> SUFFICES ASSUME Init PROVE IInv
  OBVIOUS
<1>1. TypeOK
  <2>1. \A d \in Drainer : d[1] \in Proc /\ d[2] \in Thread
    BY DEF Drainer
  <2>2. queue \in Seq(RowState) /\ Len(queue) = 0
    BY DEF Init
  <2>3. \A d \in Drainer : holder[d[1]] # d[2] /\ at[d] = "out" /\ row[d] = 0
    BY <2>1, ValidityQueueAssumption DEF Init
  <2>4. QED
    <3>1. Len(queue) <= MaxRows
      BY <2>2, ValidityQueueAssumption
    <3>2. /\ holder \in [Proc -> Thread \cup {None}]
          /\ at \in [Drainer -> {"out", "requeued", "loop", "check"}]
          /\ batch \in [Drainer -> SUBSET Ids]
          /\ row \in [Drainer -> Ids \cup {0}]
          /\ asked \subseteq File /\ overlapped \in BOOLEAN /\ faults \in Nat
          /\ scheduled \subseteq Proc
      BY DEF Init
    <3>3. QED
      BY <2>2, <2>3, <3>1, <3>2 DEF TypeOK
<1>2. SoleDrainer
  BY DEF Init, SoleDrainer
<1>3. CheckedRowIsRunning
  BY DEF Init, CheckedRowIsRunning, Checking
<1>4. RequestIsFresh
  BY DEF Init, RequestIsFresh
<1>5. QED
  BY <1>1, <1>2, <1>3, <1>4 DEF IInv

(* A thread that drains holds the lock of its process.                       *)
LEMMA DrainingHolds ==
    ASSUME TypeOK, NEW d \in Drainer
    PROVE  /\ d[1] \in Proc /\ d[2] \in Thread /\ d[2] # None
           /\ at[d] # "out" => holder[d[1]] = d[2]
           /\ holder[d[1]] = None => at[d] = "out"
  BY ValidityQueueAssumption DEF TypeOK, Drainer

(* Without an overlap one thread drains.                                     *)
LEMMA OneDrains ==
    ASSUME TypeOK, SoleDrainer, ~overlapped,
           NEW d \in Drainer, NEW e \in Drainer, at[d] # "out", at[e] # "out"
    PROVE  d = e
<1>1. holder[d[1]] = d[2] /\ holder[e[1]] = e[2]
  BY DrainingHolds
<1>2. d[1] = e[1]
  BY <1>1, DrainingHolds DEF SoleDrainer
<1>3. QED
  BY <1>1, <1>2 DEF Drainer

(* What a statement on one row changes.                                      *)
LEMMA SetStatusRow ==
    ASSUME TypeOK, NEW i \in Ids, NEW st \in {"pending", "running", "success", "failed"},
           SetStatus(i, st)
    PROVE  /\ queue' \in Seq(RowState) /\ Len(queue') = Len(queue) /\ Ids' = Ids
           /\ queue'[i].st = st /\ queue'[i].file = queue[i].file
           /\ \A j \in Ids \ {i} : queue'[j] = queue[j]
<1>1. queue \in Seq(RowState) /\ Ids = 1..Len(queue)
  BY DEF TypeOK, Ids
<1>2. queue[i] \in RowState
  BY <1>1
<1>3. [queue[i] EXCEPT !.st = st] \in RowState
  BY <1>2 DEF RowState
<1>4. /\ [queue[i] EXCEPT !.st = st].st = st
      /\ [queue[i] EXCEPT !.st = st].file = queue[i].file
  BY <1>2 DEF RowState
<1> DEFINE r == [queue[i] EXCEPT !.st = st]
<1>5. queue' = [queue EXCEPT ![i] = r]
  BY DEF SetStatus
<1> HIDE DEF r
<1>6. queue' \in Seq(RowState) /\ Len(queue') = Len(queue)
  BY <1>1, <1>3, <1>5 DEF r
<1>7. queue'[i] = r /\ \A j \in Ids \ {i} : queue'[j] = queue[j]
  BY <1>1, <1>5
<1>8. QED
  BY <1>1, <1>4, <1>6, <1>7 DEF r, Ids

LEMMA RequeuedRows ==
    ASSUME TypeOK, queue' = Requeued
    PROVE  /\ queue' \in Seq(RowState) /\ Len(queue') = Len(queue) /\ Ids' = Ids
           /\ \A j \in Ids : /\ queue'[j].file = queue[j].file
                             /\ queue[j].st = "pending" => queue'[j].st = "pending"
<1>1. queue \in Seq(RowState) /\ Ids = 1..Len(queue) /\ Len(queue) \in Nat
  BY DEF TypeOK, Ids
<1>2. ASSUME NEW j \in Ids
      PROVE  /\ Requeued[j] \in RowState
             /\ Requeued[j].file = queue[j].file
             /\ queue[j].st = "pending" => Requeued[j].st = "pending"
  <2>1. queue[j] \in RowState
    BY <1>1
  <2>2. [queue[j] EXCEPT !.st = "pending"] \in RowState
    BY <2>1 DEF RowState
  <2>3. /\ [queue[j] EXCEPT !.st = "pending"].file = queue[j].file
        /\ [queue[j] EXCEPT !.st = "pending"].st = "pending"
    BY <2>1 DEF RowState
  <2>4. Requeued[j] = queue[j] \/ Requeued[j] = [queue[j] EXCEPT !.st = "pending"]
    BY DEF Requeued
  <2>5. QED
    BY <2>1, <2>2, <2>3, <2>4
<1>3. Requeued = [j \in 1..Len(queue) |-> Requeued[j]]
  BY <1>1 DEF Requeued
<1>4. Requeued \in Seq(RowState) /\ Len(Requeued) = Len(queue) /\ DOMAIN Requeued = Ids
  BY <1>1, <1>2, <1>3
<1>5. QED
  BY <1>2, <1>4 DEF Ids

LEMMA AppendedRow ==
    ASSUME TypeOK, NEW f \in File, queue' = Append(queue, [file |-> f, st |-> "pending"])
    PROVE  /\ queue' \in Seq(RowState) /\ Len(queue') = Len(queue) + 1
           /\ Ids \subseteq Ids' /\ Len(queue) + 1 \in Ids'
           /\ queue'[Len(queue) + 1] = [file |-> f, st |-> "pending"]
           /\ \A j \in Ids : queue'[j] = queue[j]
  BY DEF TypeOK, Ids, RowState

-----------------------------------------------------------------------------
(* Taking and leaving the lock keep who holds it and who drains in step.     *)
LEMMA EnterTypes ==
    ASSUME TypeOK, NEW d \in Drainer, Enter(d), at' = [at EXCEPT ![d] = "requeued"],
           UNCHANGED row
    PROVE  /\ holder' \in [Proc -> Thread \cup {None}]
           /\ at' \in [Drainer -> {"out", "requeued", "loop", "check"}]
           /\ \A e \in Drainer : /\ at'[e] = "check" <=> row'[e] # 0
                                 /\ holder'[e[1]] = e[2] <=> at'[e] # "out"
           /\ overlapped' \in BOOLEAN
<1>1. at[d] = "out" /\ d[1] \in Proc /\ d[2] \in Thread
  BY DrainingHolds DEF Enter
<1>2. ASSUME NEW e \in Drainer
      PROVE  holder'[e[1]] = e[2] <=> at'[e] # "out"
  <2>1. CASE e = d
    BY <1>1, <2>1 DEF TypeOK, Enter
  <2>2. CASE e # d /\ e[1] = d[1]
    <3>1. e[2] # d[2]
      BY <2>2 DEF Drainer
    <3>2. at[e] = "out" /\ e[2] # None
      BY <2>2, DrainingHolds DEF Enter
    <3>3. QED
      BY <2>2, <3>1, <3>2, <1>1 DEF TypeOK, Enter
  <2>3. CASE e[1] # d[1]
    BY <2>3, <1>1 DEF TypeOK, Enter
  <2>4. QED
    BY <2>1, <2>2, <2>3
<1>3. \A e \in Drainer : at'[e] = "check" <=> row'[e] # 0
  BY <1>1 DEF TypeOK
<1>4. overlapped' \in BOOLEAN
  BY DEF TypeOK, Enter
<1>5. QED
  BY <1>1, <1>2, <1>3, <1>4 DEF TypeOK, Enter

LEMMA LeaveTypes ==
    ASSUME TypeOK, NEW d \in Drainer, Leave(d), at[d] # "out"
    PROVE  TypeOK' \/ faults' \notin Nat \/ ~(scheduled' \subseteq Proc)
<1>1. holder[d[1]] = d[2] /\ d[1] \in Proc /\ d[2] \in Thread
  BY DrainingHolds
<1>2. ASSUME NEW e \in Drainer
      PROVE  holder'[e[1]] = e[2] <=> at'[e] # "out"
  <2>0. e[2] # None /\ e[1] \in Proc
    BY DrainingHolds
  <2>1. CASE e = d
    BY <1>1, <2>0, <2>1 DEF TypeOK, Leave
  <2>2. CASE e # d /\ e[1] = d[1]
    <3>1. e[2] # d[2]
      BY <2>2 DEF Drainer
    <3>2. at[e] = "out"
      BY <2>2, <3>1, <1>1 DEF TypeOK
    <3>3. QED
      BY <2>2, <3>2, <2>0, <1>1 DEF TypeOK, Leave
  <2>3. CASE e[1] # d[1]
    BY <2>3, <2>0, <1>1 DEF TypeOK, Leave
  <2>4. QED
    BY <2>1, <2>2, <2>3
<1>3. \A e \in Drainer : at'[e] = "check" <=> row'[e] # 0
  BY DEF TypeOK, Leave
<1>4. Ids' = Ids
  BY DEF Leave, Ids
<1>5. QED
  BY <1>1, <1>2, <1>3, <1>4 DEF TypeOK, Leave

-----------------------------------------------------------------------------
LEMMA TypeStep == TypeOK /\ [Next]_vars => TypeOK'
<1> SUFFICES ASSUME TypeOK, [Next]_vars PROVE TypeOK'
  OBVIOUS
<1>1. ASSUME NEW f \in File, EnqueueFile(f) PROVE TypeOK'
  <2>1. CASE UNCHANGED queue
    BY <1>1, <2>1 DEF TypeOK, EnqueueFile, Ids
  <2>2. CASE Len(queue) < MaxRows /\ queue' = Append(queue, [file |-> f, st |-> "pending"])
    <3>1. Len(queue') <= MaxRows
      BY <2>2, AppendedRow, ValidityQueueAssumption DEF TypeOK
    <3>2. QED
      BY <1>1, <2>2, <3>1, AppendedRow DEF TypeOK, EnqueueFile
  <2>3. QED
    BY <1>1, <2>1, <2>2 DEF EnqueueFile
<1>2. ASSUME NEW d \in Drainer, Requeue(d) PROVE TypeOK'
  <2>1. UNCHANGED scheduled
    BY <1>2 DEF Requeue, Enter
  <2>2. QED
    BY <1>2, <2>1, EnterTypes, RequeuedRows DEF TypeOK, Requeue
<1>3. ASSUME NEW d \in Drainer, RequeueRaises(d) PROVE TypeOK'
  BY <1>3 DEF RequeueRaises, TypeOK, vars, Ids
<1>4. ASSUME NEW d \in Drainer, Select(d) PROVE TypeOK'
  BY <1>4 DEF TypeOK, Select, Ids
<1>5. ASSUME NEW d \in Drainer, NEW i \in Ids, Claim(d, i) PROVE TypeOK'
  <2>1. 0 \notin Ids
    BY DEF Ids, TypeOK
  <2>2. at[d] = "loop" /\ at' = [at EXCEPT ![d] = "check"] /\ row' = [row EXCEPT ![d] = i]
    BY <1>5 DEF Claim, Visits
  <2>3. asked' \subseteq File
    BY <1>5 DEF TypeOK, Claim
  <2>4. QED
    BY <1>5, <2>1, <2>2, <2>3, SetStatusRow DEF TypeOK, Claim, Visits
<1>6. ASSUME NEW d \in Drainer, NEW i \in Ids, PassOver(d, i) PROVE TypeOK'
  BY <1>6 DEF TypeOK, PassOver, Visits, Ids
<1>7. ASSUME NEW d \in Drainer, NEW o \in Outcome, Finish(d, o) PROVE TypeOK'
  <2>1. row[d] \in Ids
    BY <1>7 DEF TypeOK, Finish
  <2>2. Verdict(o) \in {"success", "failed"}
    BY DEF Verdict
  <2>3. QED
    BY <1>7, <2>1, <2>2, SetStatusRow DEF TypeOK, Finish
<1>8. ASSUME NEW d \in Drainer, Raises(d) \/ Done(d) \/ Crash(d) PROVE TypeOK'
  <2>1. at[d] # "out" /\ Leave(d)
    BY <1>8, DrainingHolds DEF Raises, Done, Crash, TypeOK
  <2>2. faults' \in Nat /\ scheduled' \subseteq Proc
    BY <1>8 DEF Raises, Done, Crash, Fault, TypeOK
  <2>3. QED
    BY <2>1, <2>2, LeaveTypes
<1>9. ASSUME NEW p \in Proc, Schedule(p) \/ Unschedule(p) PROVE TypeOK'
  BY <1>9 DEF TypeOK, Schedule, Unschedule, Ids
<1>10. CASE UNCHANGED vars
  BY <1>10 DEF TypeOK, vars, Ids
<1>11. QED
  BY <1>1, <1>2, <1>3, <1>4, <1>5, <1>6, <1>7, <1>8, <1>9, <1>10 DEF Next, DrainStep

-----------------------------------------------------------------------------
(* A lock is taken alone, or the overlap is noted.                           *)
LEMMA SoleStep == TypeOK /\ SoleDrainer /\ [Next]_vars => SoleDrainer'
<1> SUFFICES ASSUME TypeOK, SoleDrainer, [Next]_vars, ~overlapped',
                    NEW p \in Proc, NEW q \in Proc,
                    holder'[p] # None, holder'[q] # None
             PROVE  p = q
  BY DEF SoleDrainer
<1>1. CASE UNCHANGED <<holder, overlapped>>
  BY <1>1 DEF SoleDrainer
<1>2. ASSUME NEW d \in Drainer, Enter(d) PROVE p = q
  <2>1. \A r \in Proc \ {d[1]} : holder'[r] = None
    BY <1>2 DEF Enter, TypeOK
  <2>2. QED
    BY <2>1
<1>3. ASSUME NEW d \in Drainer, Leave(d) PROVE p = q
  <2>1. \A r \in Proc : holder'[r] # None => holder[r] # None
    BY <1>3 DEF Leave, TypeOK
  <2>2. QED
    BY <1>3, <2>1 DEF SoleDrainer, Leave
<1>4. QED
  BY <1>1, <1>2, <1>3 DEF Next, EnqueueFile, Requeue, RequeueRaises, DrainStep, Select,
     Claim, PassOver, Visits, Finish, Done, Raises, Crash, Schedule, Unschedule, vars

(* Who comes to check was alone in draining, and its row is its own.         *)
LEMMA CheckedStep ==
    IInv /\ TypeOK' /\ SoleDrainer' /\ [Next]_vars => CheckedRowIsRunning'
<1> SUFFICES ASSUME IInv, TypeOK', SoleDrainer', [Next]_vars, ~overlapped',
                    NEW d \in Drainer, NEW i \in Ids', Checking(d, i)'
             PROVE  /\ queue'[i].st = "running"
                    /\ \A e \in Drainer \ {d} : ~Checking(e, i)'
  BY DEF CheckedRowIsRunning
<1> USE DEF IInv
<1>1. \A e \in Drainer \ {d} : at'[e] = "out"
  <2> SUFFICES ASSUME NEW e \in Drainer, at'[e] # "out" PROVE e = d
    OBVIOUS
  <2>1. at'[d] # "out"
    BY DEF Checking
  <2>2. holder'[d[1]] = d[2] /\ holder'[e[1]] = e[2]
    BY <2>1 DEF TypeOK
  <2>3. d[2] # None /\ e[2] # None /\ d[1] \in Proc /\ e[1] \in Proc
    BY DrainingHolds
  <2>4. d[1] = e[1]
    BY <2>2, <2>3 DEF SoleDrainer
  <2>5. QED
    BY <2>2, <2>4 DEF Drainer
<1>2. queue'[i].st = "running"
  <2>0. ASSUME Checking(d, i), i \in Ids, ~overlapped PROVE queue[i].st = "running"
    BY <2>0 DEF CheckedRowIsRunning
  <2>1. ASSUME NEW f \in File, EnqueueFile(f) PROVE queue'[i].st = "running"
    <3>1. Checking(d, i) /\ ~overlapped /\ i \in Ids
      BY <2>1 DEF EnqueueFile, Checking, TypeOK
    <3>2. queue'[i] = queue[i]
      BY <2>1, <3>1, AppendedRow DEF EnqueueFile
    <3>3. QED
      BY <3>1, <3>2, <2>0
  <2>2. ASSUME NEW e \in Drainer, Requeue(e) PROVE FALSE
    <3>1. at[e] = "out" /\ at'[e] = "requeued"
      BY <2>2, DrainingHolds DEF Requeue, Enter, TypeOK
    <3>2. e = d
      BY <1>1, <3>1
    <3>3. QED
      BY <3>1, <3>2 DEF Checking
  <2>3. ASSUME NEW e \in Drainer, NEW j \in Ids, Claim(e, j)
        PROVE  queue'[i].st = "running"
    <3>1. at'[e] = "check" /\ row'[e] = j
      BY <2>3 DEF Claim, TypeOK
    <3>2. e = d
      BY <1>1, <3>1
    <3>3. i = j
      BY <3>1, <3>2 DEF Checking
    <3>4. QED
      BY <2>3, <3>3, SetStatusRow DEF Claim
  <2>4. ASSUME NEW e \in Drainer, NEW o \in Outcome, Finish(e, o) PROVE FALSE
    <3>1. at'[e] = "loop"
      BY <2>4 DEF Finish, TypeOK
    <3>2. e = d
      BY <1>1, <3>1
    <3>3. QED
      BY <3>1, <3>2 DEF Checking
  <2>5. ASSUME NEW e \in Drainer,
               Select(e) \/ Leave(e) \/ (\E j \in Ids : PassOver(e, j))
        PROVE  queue'[i].st = "running"
    <3>1. UNCHANGED <<queue, overlapped>> /\ Ids' = Ids
      BY <2>5 DEF Select, Leave, PassOver, Visits, Ids
    <3>2. Checking(d, i)
      BY <2>5 DEF Select, Leave, PassOver, Visits, Checking, TypeOK
    <3>3. QED
      BY <3>1, <3>2, <2>0
  <2>6. CASE UNCHANGED <<queue, at, row, overlapped>>
    BY <2>6, <2>0 DEF Checking, Ids
  <2>7. QED
    BY <2>1, <2>2, <2>3, <2>4, <2>5, <2>6
    DEF Next, RequeueRaises, DrainStep, Raises, Done, Crash, Schedule, Unschedule, vars
<1>3. QED
  BY <1>1, <1>2 DEF Checking

(* The pending row of a request stays until it is claimed: what a drain puts *)
(* back or settles was not pending, or not of this file.                     *)
LEMMA FreshStep == IInv /\ [Next]_vars => RequestIsFresh'
<1> SUFFICES ASSUME IInv, [Next]_vars, ~overlapped', NEW f \in asked'
             PROVE  (PendingRow(f) # {})'
  BY DEF RequestIsFresh
<1> USE DEF IInv
<1>0. ASSUME f \in asked, ~overlapped
      PROVE  \E j \in Ids : queue[j].file = f /\ queue[j].st = "pending"
  BY <1>0 DEF RequestIsFresh, PendingRow, With
<1>q. SUFFICES \E j \in Ids' : queue'[j].file = f /\ queue'[j].st = "pending"
  BY DEF PendingRow, With
<1>1. ASSUME NEW g \in File, EnqueueFile(g)
      PROVE  \E j \in Ids' : queue'[j].file = f /\ queue'[j].st = "pending"
  <2>1. CASE f # g
    <3>1. PICK j \in Ids : queue[j].file = f /\ queue[j].st = "pending"
      BY <1>0, <1>1, <2>1 DEF EnqueueFile
    <3>2. j \in Ids' /\ queue'[j] = queue[j]
      BY <1>1, AppendedRow DEF EnqueueFile, Ids
    <3>3. QED
      BY <3>1, <3>2
  <2>2. CASE f = g /\ UNCHANGED queue
    <3>1. CASE Duplicate(g)
      BY <2>2, <3>1 DEF Duplicate, PendingRow, With, Ids
    <3>2. CASE ~Duplicate(g)
      BY <1>1, <2>2, <3>2, AppendedRow DEF EnqueueFile
    <3>3. QED
      BY <3>1, <3>2
  <2>3. CASE f = g /\ queue' = Append(queue, [file |-> g, st |-> "pending"])
    BY <2>3, AppendedRow
  <2>4. QED
    BY <1>1, <2>1, <2>2, <2>3 DEF EnqueueFile
<1>2. ASSUME NEW d \in Drainer, Requeue(d)
      PROVE  \E j \in Ids' : queue'[j].file = f /\ queue'[j].st = "pending"
  <2>1. f \in asked /\ ~overlapped /\ queue' = Requeued
    BY <1>2 DEF Requeue, Enter
  <2>2. PICK j \in Ids : queue[j].file = f /\ queue[j].st = "pending"
    BY <1>0, <2>1
  <2>3. QED
    BY <2>1, <2>2, RequeuedRows
<1>3. ASSUME NEW d \in Drainer, NEW i \in Ids, Claim(d, i)
      PROVE  \E j \in Ids' : queue'[j].file = f /\ queue'[j].st = "pending"
  <2>1. f \in asked /\ ~overlapped /\ f # queue[i].file
    BY <1>3 DEF Claim, Visits
  <2>2. PICK j \in Ids : queue[j].file = f /\ queue[j].st = "pending"
    BY <1>0, <2>1
  <2>3. QED
    BY <1>3, <2>1, <2>2, SetStatusRow DEF Claim
<1>4. ASSUME NEW d \in Drainer, NEW o \in Outcome, Finish(d, o)
      PROVE  \E j \in Ids' : queue'[j].file = f /\ queue'[j].st = "pending"
  <2>1. f \in asked /\ ~overlapped /\ row[d] \in Ids
    BY <1>4 DEF Finish, TypeOK
  <2>2. PICK j \in Ids : queue[j].file = f /\ queue[j].st = "pending"
    BY <1>0, <2>1
  <2>3. queue[row[d]].st = "running"
    BY <1>4, <2>1 DEF Finish, CheckedRowIsRunning, Checking
  <2>4. Verdict(o) \in {"success", "failed"}
    BY DEF Verdict
  <2>5. QED
    BY <1>4, <2>1, <2>2, <2>3, <2>4, SetStatusRow DEF Finish
<1>5. CASE UNCHANGED <<queue, asked, overlapped>>
  BY <1>0, <1>5 DEF Ids
<1>6. QED
  BY <1>1, <1>2, <1>3, <1>4, <1>5
  DEF Next, RequeueRaises, DrainStep, Select, PassOver, Visits, Raises, Done, Crash,
      Leave, Schedule, Unschedule, vars

LEMMA IInvStep == IInv /\ [Next]_vars => IInv'
  BY TypeStep, SoleStep, CheckedStep, FreshStep DEF IInv

-----------------------------------------------------------------------------
(* Every variable keeps its type; in particular a thread has its process'    *)
(* lock exactly while it drains, and a row exactly while it checks.          *)
THEOREM TypeCorrect == Spec => []TypeOK
<1>1. IInv => TypeOK
  BY DEF IInv
<1>2. QED
  BY <1>1, InitIInv, IInvStep, PTL DEF Spec

(* A single consumer: a row under check is running in the table and nobody   *)
(* else checks it, as long as no two processes drain at once.                *)
THEOREM SingleConsumer == Spec => []CheckedRowIsRunning
<1>1. IInv => CheckedRowIsRunning
  BY DEF IInv
<1>2. QED
  BY <1>1, InitIInv, IInvStep, PTL DEF Spec

(* No request is answered by a check that began before it, under the same    *)
(* condition.                                                                *)
THEOREM RequestsAreFresh == Spec => []RequestIsFresh
<1>1. IInv => RequestIsFresh
  BY DEF IInv
<1>2. QED
  BY <1>1, InitIInv, IInvStep, PTL DEF Spec
=============================================================================
