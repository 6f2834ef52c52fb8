---------------------------- MODULE SchedulerLock ----------------------------
(***************************************************************************)
(* The database lock that decides which worker process starts the          *)
(* APScheduler jobs: docker/scheduler.py (_acquire_scheduler_lock,         *)
(* start_scheduler, _heartbeat_loop, stop_scheduler) as docker/app.py      *)
(* calls them.                                                             *)
(*                                                                         *)
(* The lock is the row id=1 of table scheduler_lock.  A worker tries once, *)
(* when it boots.  Neither the heartbeat, nor the takeover, nor the        *)
(* release compares the pid in the row, so the pid is left out.            *)
(*                                                                         *)
(* Time advances in ticks of one heartbeat interval (30 s).  A worker      *)
(* writes time stamps it took earlier: late[w] is the age of its last one. *)
(*                                                                         *)
(* Names that SuppressionQueue has as well begin with Lock: LeaderRelease  *)
(* extends the two.                                                        *)
(***************************************************************************)
EXTENDS Naturals

CONSTANTS
    Worker,        \* processes that may run start_scheduler
    StaleTicks,    \* _STALE_TIMEOUT in ticks: an older heartbeat is stale
    MaxAge,        \* bound: ages are not told apart from here on
    MaxLockFaults  \* bound: crashes and failed statements

ASSUME SchedulerLockAssumption ==
    /\ StaleTicks \in Nat /\ MaxAge \in Nat /\ MaxLockFaults \in Nat
    /\ StaleTicks < MaxAge

VARIABLES
    present,    \* whether the row is there
    age,        \* the age of its heartbeat_at
    state,      \* state[w]: where the process is, see WorkerState
    beating,    \* workers whose heartbeat thread woke up and has yet to write
    late,       \* late[w]: ticks since w took its last time stamp
    serial,     \* history: so far no two processes acquired at the same time
    timely,     \* history: so far no working process was late by the timeout
    lockFaults  \* crashes and failed statements so far

history == <<serial, timely>>
lockVars == <<present, age, state, beating, late, history, lockFaults>>

(* down, or in _acquire_scheduler_lock before its INSERT, its SELECT and its *)
(* UPDATE; holding: acquired, jobs being registered; running; stopping:      *)
(* stop_scheduler waits for the jobs; exiting: the row is deleted, the       *)
(* process not gone yet; idle: did not get the lock, serves HTTP only.       *)
WorkerState == {"down", "inserting", "selecting", "updating", "holding",
                "running", "stopping", "exiting", "idle"}

Acquiring  == {w \in Worker : state[w] \in {"inserting", "selecting", "updating"}}
Scheduling == {w \in Worker : state[w] \in {"holding", "running", "stopping"}}

LockInit ==
    /\ present = FALSE
    /\ age = 0
    /\ state = [w \in Worker |-> "down"]
    /\ beating = {}
    /\ late = [w \in Worker |-> 0]
    /\ serial = TRUE /\ timely = TRUE
    /\ lockFaults = 0

-----------------------------------------------------------------------------
Goto(w, s) == state' = [state EXCEPT ![w] = s]

LockFault == lockFaults < MaxLockFaults /\ lockFaults' = lockFaults + 1

(* faulty definitions are used by no action: see the note in TaskQueue *)

(* The process starts and takes the time stamp it will write. *)
Boot(w) ==
    /\ state[w] = "down"
    /\ Goto(w, "inserting")
    /\ late' = [late EXCEPT ![w] = 0]
    /\ serial' = (serial /\ Acquiring = {})
    /\ UNCHANGED <<present, age, beating, timely, lockFaults>>

Insert(w) ==
    /\ state[w] = "inserting"
    /\ IF present
         THEN Goto(w, "selecting") /\ UNCHANGED <<present, age>>
         ELSE Goto(w, "holding") /\ present' = TRUE /\ age' = late[w]
    /\ UNCHANGED <<beating, late, lockFaults, history>>

(* The INSERT raises for a reason of its own: the code does not tell that    *)
(* from a row being there.                                                   *)
InsertFails(w) ==
    /\ state[w] = "inserting"
    /\ Goto(w, "selecting")
    /\ LockFault
    /\ UNCHANGED <<present, age, beating, late, history>>

(* faulty: a heartbeat is stale as soon as it is one interval old *)
SelectEager(w) ==
    /\ state[w] = "selecting"
    /\ Goto(w, IF present /\ age > 1 THEN "updating" ELSE "idle")
    /\ UNCHANGED <<present, age, beating, late, lockFaults, history>>

(* A row deleted since the INSERT failed also makes the worker give up. *)
SelectRow(w) ==
    /\ state[w] = "selecting"
    /\ Goto(w, IF present /\ age > StaleTicks THEN "updating" ELSE "idle")
    /\ UNCHANGED <<present, age, beating, late, lockFaults, history>>

(* UPDATE ... WHERE id=1: returns True whatever the number of rows changed. *)
TakeOver(w) ==
    /\ state[w] = "updating"
    /\ Goto(w, "holding")
    /\ age' = IF present THEN late[w] ELSE age
    /\ UNCHANGED <<present, beating, late, lockFaults, history>>

StartJobs(w) ==
    /\ state[w] = "holding"
    /\ Goto(w, "running")
    /\ UNCHANGED <<present, age, beating, late, lockFaults, history>>

(* The wait of _heartbeat_loop ends without a stop request. *)
HeartbeatWakes(w) ==
    /\ state[w] = "running"
    /\ w \notin beating
    /\ late[w] > 0
    /\ beating' = beating \cup {w}
    /\ UNCHANGED <<present, age, state, late, lockFaults, history>>

(* faulty: the heartbeat only updates, it does not put a lost row back *)
HeartbeatNoInsert(w) ==
    /\ w \in beating
    /\ age' = IF present THEN 0 ELSE age
    /\ late' = [late EXCEPT ![w] = 0]
    /\ beating' = beating \ {w}
    /\ UNCHANGED <<present, state, lockFaults, history>>

(* faulty: the stamp is taken when the loop starts, not at each beat *)
HeartbeatOldStamp(w) ==
    /\ w \in beating
    /\ present' = TRUE
    /\ age' = IF present THEN age ELSE 0
    /\ late' = [late EXCEPT ![w] = 0]
    /\ beating' = beating \ {w}
    /\ UNCHANGED <<state, lockFaults, history>>

(* UPDATE; if no row matched, INSERT OR IGNORE and UPDATE again.  The thread *)
(* is not joined by stop_scheduler: it may write after the DELETE.           *)
HeartbeatWrites(w) ==
    /\ w \in beating
    /\ present' = TRUE
    /\ age' = 0
    /\ late' = [late EXCEPT ![w] = 0]
    /\ beating' = beating \ {w}
    /\ UNCHANGED <<state, lockFaults, history>>

(* The write raises: a warning, and the loop waits for the next beat. *)
HeartbeatFails(w) ==
    /\ w \in beating
    /\ LockFault
    /\ beating' = beating \ {w}
    /\ UNCHANGED <<present, age, state, late, history>>

(* stop_scheduler of the worker that runs the jobs: stop the heartbeat, wait *)
(* for the jobs, delete the row.                                             *)
Stop(w) ==
    /\ state[w] = "running"
    /\ Goto(w, "stopping")
    /\ UNCHANGED <<present, age, beating, late, lockFaults, history>>

Release(w) ==
    /\ state[w] = "stopping"
    /\ Goto(w, "exiting")
    /\ present' = FALSE
    /\ UNCHANGED <<age, beating, late, lockFaults, history>>

(* The DELETE raises: a warning, and the row stays. *)
ReleaseFails(w) ==
    /\ state[w] = "stopping"
    /\ Goto(w, "exiting")
    /\ LockFault
    /\ UNCHANGED <<present, age, beating, late, history>>

(* In a worker without jobs scheduler.shutdown raises before the DELETE. *)
StopIdle(w) ==
    /\ state[w] = "idle"
    /\ Goto(w, "down")
    /\ UNCHANGED <<present, age, beating, late, lockFaults, history>>

Exit(w) ==
    /\ state[w] = "exiting"
    /\ Goto(w, "down")
    /\ beating' = beating \ {w}
    /\ UNCHANGED <<present, age, late, lockFaults, history>>

(* A SELECT or UPDATE that raises ends the boot, and so the process, too.    *)
Crash(w) ==
    /\ state[w] # "down"
    /\ LockFault
    /\ Goto(w, "down")
    /\ beating' = beating \ {w}
    /\ UNCHANGED <<present, age, late, history>>

Older(n) == IF n < MaxAge THEN n + 1 ELSE n

(* One interval passes, for processes that stall as well: a process that     *)
(* acquires, runs or stops may be any number of intervals behind.            *)
LockTick ==
    /\ age' = Older(age)
    /\ late' = [w \in Worker |-> Older(late[w])]
    /\ timely' = (timely /\ \A w \in Acquiring \cup Scheduling : late[w] < StaleTicks)
    /\ UNCHANGED <<present, state, beating, serial, lockFaults>>

WorkerStep(w) ==
    \/ Boot(w) \/ Insert(w) \/ InsertFails(w) \/ SelectRow(w) \/ TakeOver(w)
    \/ StartJobs(w) \/ HeartbeatWakes(w) \/ HeartbeatWrites(w) \/ HeartbeatFails(w)
    \/ Stop(w) \/ Release(w) \/ ReleaseFails(w) \/ StopIdle(w) \/ Exit(w) \/ Crash(w)

LockNext == LockTick \/ \E w \in Worker : WorkerStep(w)

LockSpec == LockInit /\ [][LockNext]_lockVars

(* Time passes; the container runtime starts a process that is down; a       *)
(* process that started goes through start_scheduler and keeps beating.      *)
(* Stops and faults are nobody's obligation.                                 *)
LockFairness ==
    /\ WF_lockVars(LockTick)
    /\ \A w \in Worker :
         /\ WF_lockVars(Boot(w))
         /\ WF_lockVars(Insert(w) \/ SelectRow(w) \/ TakeOver(w) \/ StartJobs(w))
         /\ WF_lockVars(HeartbeatWakes(w)) /\ WF_lockVars(HeartbeatWrites(w))
         /\ WF_lockVars(Release(w)) /\ WF_lockVars(Exit(w))

LockFairSpec == LockSpec /\ LockFairness

-----------------------------------------------------------------------------
LockTypeOK ==
    /\ present \in BOOLEAN
    /\ age \in 0..MaxAge
    /\ state \in [Worker -> WorkerState]
    /\ beating \in SUBSET Worker
    /\ late \in [Worker -> 0..MaxAge]
    /\ serial \in BOOLEAN /\ timely \in BOOLEAN
    /\ lockFaults \in Nat

AtMostOneScheduler == \A w1, w2 \in Scheduling : w1 = w2

(* The lock excludes as long as acquisitions did not overlap and no working  *)
(* process was late by the stale timeout, whatever stops, failed statements, *)
(* crashes and heartbeats of stopped processes did to the row.               *)
RegularLockExcludes == serial /\ timely => AtMostOneScheduler

(* Under the same condition, while the jobs run the row is there and fresh   *)
(* enough that no worker that boots now would take it over, and the health   *)
(* check (docker/api/health.py) sees a heartbeat.                            *)
SchedulerKeepsRowFresh ==
    serial /\ timely /\ Scheduling # {} => present /\ age <= StaleTicks

(* A row deleted under a running scheduler (by another worker's stop) comes  *)
(* back: the heartbeat inserts it again as long as the scheduler runs.       *)
RowHeals ==
    \A w \in Worker : state[w] = "running" ~> present \/ state[w] # "running"

=============================================================================
