---------------------------- MODULE ValidityQueue ----------------------------
(***************************************************************************)
(* The queue of files whose validity the user asked to check:              *)
(* pilotstd/manager/validity_service.py (enqueue_files, process_pending)   *)
(* over the table of pilotstd/core/db/_migrate_v75_validity_queue.py, whose *)
(* index keeps the pending rows of one file unique.                        *)
(*                                                                         *)
(* Two threads of a process drain the queue, the job of every minute and   *)
(* the thread started with the scheduler; a lock of the process, taken     *)
(* without waiting, lets one in.  Every SQL statement commits on its own,  *)
(* so a drain is a sequence of steps; a check takes long.  Two processes   *)
(* drain only when their schedulers overlap (SchedulerLock), and nobody    *)
(* drains while no process has a scheduler.                                *)
(***************************************************************************)
EXTENDS Naturals, Sequences, FiniteSets

CONSTANTS
    File,       \* paths in file_path
    Proc,       \* processes that run a scheduler
    Thread,     \* draining threads of a process: the job, the startup thread
    None,       \* no thread
    Limit,      \* rows taken by one drain
    MaxRows,    \* bound: rows ever inserted
    MaxFaults   \* bound: crashes and failed writes

ASSUME ValidityQueueAssumption ==
    /\ None \notin Thread
    /\ Limit \in Nat \ {0} /\ MaxRows \in Nat /\ MaxFaults \in Nat

VARIABLES
    scheduled,  \* processes whose scheduler was started
    queue,      \* validity_check_queue in the order of id: [file, st]
    holder,     \* holder[p]: the thread of p that holds _queue_lock, or None
    at,         \* at[d]: where a thread is: "out", "requeued", "loop", "check"
    batch,      \* batch[d]: ids selected and still to visit, in their order
    row,        \* row[d]: the id it checks, 0 when it checks none
    asked,      \* files requested and not claimed since
    overlapped, \* whether two processes ever drained at once
    faults

vars == <<scheduled, queue, holder, at, batch, row, asked, overlapped, faults>>

Id == 1..MaxRows
Drainer == Proc \X Thread
Ids == DOMAIN queue

With(st) == {i \in Ids : queue[i].st = st}
PendingRow(f) == {i \in With("pending") : queue[i].file = f}

Init ==
    /\ scheduled = {}
    /\ queue = <<>>
    /\ holder = [p \in Proc |-> None]
    /\ at = [d \in Drainer |-> "out"]
    /\ batch = [d \in Drainer |-> {}]
    /\ row = [d \in Drainer |-> 0]
    /\ asked = {}
    /\ overlapped = FALSE
    /\ faults = 0

SetStatus(i, st) == queue' = [queue EXCEPT ![i].st = st]

-----------------------------------------------------------------------------
(* Definitions marked "faulty" are used by no action: they are faults one    *)
(* could make in the code, and show that the properties would notice.        *)

(* faulty: a running row counts as the same request *)
DuplicateOfUnfinished(f) ==
    \E i \in Ids : queue[i].file = f /\ queue[i].st \in {"pending", "running"}

(* The unique index: OR IGNORE drops the insert. *)
Duplicate(f) == PendingRow(f) # {}

(* enqueue_files, one file of the request. *)
EnqueueFile(f) ==
    /\ \/ /\ Duplicate(f)
          /\ UNCHANGED queue
       \/ /\ ~Duplicate(f)
          /\ Len(queue) < MaxRows
          /\ queue' = Append(queue, [file |-> f, st |-> "pending"])
    /\ asked' = asked \cup {f}
    /\ UNCHANGED <<scheduled, holder, at, batch, row, overlapped, faults>>

-----------------------------------------------------------------------------
(* Putting every running row back would leave two pending rows of one file. *)
RequeueCollides ==
    \E i \in With("running"), j \in With("running") \cup With("pending") :
        i # j /\ queue[i].file = queue[j].file

Requeued ==
    [i \in Ids |-> IF i \in With("running") THEN [queue[i] EXCEPT !.st = "pending"]
                   ELSE queue[i]]

(* faulty: the lock is not looked at *)
EnterAnyway(d) ==
    /\ d[1] \in scheduled /\ at[d] = "out"
    /\ holder' = [holder EXCEPT ![d[1]] = d[2]]
    /\ UNCHANGED scheduled
    /\ overlapped' = (overlapped \/ \E q \in Proc \ {d[1]} : holder[q] # None)

(* acquire(blocking=False); a thread that finds the lock taken returns. *)
Enter(d) ==
    /\ d[1] \in scheduled /\ holder[d[1]] = None
    /\ holder' = [holder EXCEPT ![d[1]] = d[2]]
    /\ UNCHANGED scheduled
    /\ overlapped' = (overlapped \/ \E q \in Proc \ {d[1]} : holder[q] # None)

(* faulty: rows of a crash are left running *)
RequeueNothing(d) ==
    /\ Enter(d)
    /\ at' = [at EXCEPT ![d] = "requeued"]
    /\ UNCHANGED <<queue, batch, row, asked, faults>>

(* process_pending enters and puts running rows back to pending: they can   *)
(* only be left over by a crash, it reasons, there being one consumer.      *)
Requeue(d) ==
    /\ Enter(d)
    /\ ~RequeueCollides
    /\ queue' = Requeued
    /\ at' = [at EXCEPT ![d] = "requeued"]
    /\ UNCHANGED <<batch, row, asked, faults>>

(* The index refuses the statement: the exception ends the drain and its    *)
(* caller logs it.  Nothing has changed, the lock is free again.            *)
RequeueRaises(d) ==
    /\ d[1] \in scheduled /\ holder[d[1]] = None
    /\ RequeueCollides
    /\ UNCHANGED vars

(* The oldest Limit pending rows. *)
Oldest(S) ==
    /\ S \subseteq With("pending")
    /\ \A i \in S, j \in With("pending") \ S : i < j
    /\ \/ Cardinality(S) = Limit
       \/ Cardinality(S) < Limit /\ S = With("pending")

Select(d) ==
    /\ at[d] = "requeued"
    /\ \E S \in SUBSET Ids : Oldest(S) /\ batch' = [batch EXCEPT ![d] = S]
    /\ at' = [at EXCEPT ![d] = "loop"]
    /\ UNCHANGED <<scheduled, queue, holder, row, asked, overlapped, faults>>

(* The row the loop comes to next. *)
Visits(d, i) ==
    /\ at[d] = "loop"
    /\ i \in batch[d] /\ \A j \in batch[d] : i <= j
    /\ batch' = [batch EXCEPT ![d] = @ \ {i}]
    /\ UNCHANGED <<scheduled, holder, overlapped, faults>>

(* The guarded UPDATE found the row pending: its check begins. *)
Claim(d, i) ==
    /\ Visits(d, i)
    /\ queue[i].st = "pending"
    /\ SetStatus(i, "running")
    /\ asked' = asked \ {queue[i].file}
    /\ row' = [row EXCEPT ![d] = i]
    /\ at' = [at EXCEPT ![d] = "check"]

(* rowcount 0: somebody else has the row. *)
PassOver(d, i) ==
    /\ Visits(d, i)
    /\ queue[i].st # "pending"
    /\ UNCHANGED <<queue, at, row, asked>>

(* What check_standard may come to.  Only a path that is not indexed, an    *)
(* empty result or an exception fails: a query that failed is returned as a *)
(* result, and the row says success.                                        *)
Outcome == {"answered", "query_failed", "unindexed", "none", "raised"}

Verdict(o) == IF o \in {"answered", "query_failed"} THEN "success" ELSE "failed"

(* The check ends and the row gets its verdict, unconditionally.  (A failed *)
(* write of success is caught and written as failed.)                       *)
Finish(d, o) ==
    /\ at[d] = "check"
    /\ SetStatus(row[d], Verdict(o))
    /\ row' = [row EXCEPT ![d] = 0]
    /\ at' = [at EXCEPT ![d] = "loop"]
    /\ UNCHANGED <<scheduled, holder, batch, asked, overlapped, faults>>

(* The finally clause, and the local variables gone. *)
Leave(d) ==
    /\ holder' = [holder EXCEPT ![d[1]] = None]
    /\ at' = [at EXCEPT ![d] = "out"]
    /\ batch' = [batch EXCEPT ![d] = {}]
    /\ row' = [row EXCEPT ![d] = 0]
    /\ UNCHANGED <<queue, asked, overlapped>>

Fault == faults < MaxFaults /\ faults' = faults + 1

(* A statement outside the try of one row raises, or the one that writes     *)
(* failed does: the drain is over, a row under check stays running.          *)
Raises(d) ==
    /\ holder[d[1]] = d[2]
    /\ Fault
    /\ Leave(d)
    /\ UNCHANGED scheduled

Done(d) ==
    /\ at[d] = "loop" /\ batch[d] = {}
    /\ Leave(d)
    /\ UNCHANGED <<scheduled, faults>>

(* The process dies: its lock and its scheduler are gone with it. *)
Crash(d) ==
    /\ holder[d[1]] = d[2]
    /\ Fault
    /\ Leave(d)
    /\ scheduled' = scheduled \ {d[1]}

-----------------------------------------------------------------------------
(* start_scheduler got the lock: it adds the job and starts the startup      *)
(* thread.  A process that finds a fresh row of the lock, were it its own    *)
(* from before a restart, does neither, and never tries again.               *)
Schedule(p) ==
    /\ p \notin scheduled
    /\ scheduled' = scheduled \cup {p}
    /\ UNCHANGED <<queue, holder, at, batch, row, asked, overlapped, faults>>

(* stop_scheduler waits for a drain, or the process dies between two. *)
Unschedule(p) ==
    /\ p \in scheduled /\ holder[p] = None
    /\ scheduled' = scheduled \ {p}
    /\ UNCHANGED <<queue, holder, at, batch, row, asked, overlapped, faults>>

-----------------------------------------------------------------------------
DrainStep(d) ==
    \/ Select(d)
    \/ \E i \in Ids : Claim(d, i) \/ PassOver(d, i)
    \/ \E o \in Outcome : Finish(d, o)
    \/ Done(d)

Next ==
    \/ \E f \in File : EnqueueFile(f)
    \/ \E d \in Drainer :
         \/ Requeue(d) \/ RequeueRaises(d)
         \/ DrainStep(d)
         \/ Raises(d) \/ Crash(d)
    \/ \E p \in Proc : Schedule(p) \/ Unschedule(p)

Spec == Init /\ [][Next]_vars

(* A scheduler that was started runs the job every minute, and a check ends  *)
(* (its queries have timeouts).  Nobody need enqueue, and that a scheduler   *)
(* is started (again) is nobody's duty.                                      *)
Fairness ==
    /\ \A p \in Proc : WF_vars(\E t \in Thread : Requeue(<<p, t>>))
    /\ \A d \in Drainer : WF_vars(DrainStep(d))

FairSpec == Spec /\ Fairness

-----------------------------------------------------------------------------
RowState == [file : File, st : {"pending", "running", "success", "failed"}]

TypeOK ==
    /\ scheduled \subseteq Proc
    /\ queue \in Seq(RowState) /\ Len(queue) <= MaxRows
    /\ holder \in [Proc -> Thread \cup {None}]
    /\ at \in [Drainer -> {"out", "requeued", "loop", "check"}]
    /\ batch \in [Drainer -> SUBSET Ids]
    /\ row \in [Drainer -> Ids \cup {0}]
    /\ \A d \in Drainer : /\ at[d] = "check" <=> row[d] # 0
                          /\ holder[d[1]] = d[2] <=> at[d] # "out"
    /\ asked \subseteq File
    /\ overlapped \in BOOLEAN
    /\ faults \in Nat

Checking(d, i) == at[d] = "check" /\ row[d] = i

(* "Single consumer": a row under check is running in the table, so that     *)
(* nobody claims it again, and only one process checks it.  Two schedulers   *)
(* at once break it: the second one puts the first one's rows back.          *)
CheckedRowIsRunning ==
    ~overlapped =>
        \A d \in Drainer, i \in Ids :
            Checking(d, i) => /\ queue[i].st = "running"
                              /\ \A e \in Drainer \ {d} : ~Checking(e, i)

(* A request is never answered by a check that began before it: until a      *)
(* claim that comes after the request there is a pending row for the file,   *)
(* however the request met earlier rows, drains and crashes.  (Of two        *)
(* overlapping processes one may settle the row the other put back.)         *)
RequestIsFresh == ~overlapped => \A f \in asked : PendingRow(f) # {}

(* A crash left a running row and its file was requested again: from now on  *)
(* every drain fails at its first statement.                                 *)
Blocked == RequeueCollides /\ \A p \in Proc : holder[p] = None

Unfinished(i) == i \in Ids /\ queue[i].st \in {"pending", "running"}

SchedulerStays == \E p \in Proc : <>[](p \in scheduled)

(* "Rows of a crash are put back safely": while some process keeps its       *)
(* scheduler, every row is settled, through any order of requests, drains,   *)
(* crashes and failed writes but the one that blocks the queue.              *)
SettledUnlessBlocked ==
    SchedulerStays => \A i \in Id : Unfinished(i) ~> (Blocked \/ ~Unfinished(i))

(* The same without the exception, as the comment of process_pending and the *)
(* index "by path and status, so that a failure can be retried" promise.     *)
EveryRowSettled ==
    SchedulerStays => \A i \in Id : Unfinished(i) ~> ~Unfinished(i)

=============================================================================
