----------------------------- MODULE LeaderRelease -----------------------------
(***************************************************************************)
(* The release of suppressed notifications (SuppressionQueue) as a job of  *)
(* the process that holds the scheduler lock (SchedulerLock):              *)
(* docker/scheduler.py (start_scheduler, stop_scheduler) and docker/app.py *)
(* (lifespan).                                                             *)
(*                                                                         *)
(* The two meet in three places: a process has the job while its scheduler *)
(* runs or stops, stop_scheduler waits for a running job before it deletes *)
(* the row, and a process that dies takes its run of the job with it.  All *)
(* the rest interleaves: the clocks of the two are not related.            *)
(***************************************************************************)
EXTENDS SchedulerLock, SuppressionQueue

(* The workers of the lock are the processes that run the job. *)
ASSUME LeaderReleaseAssumption == Worker = Proc

leaderVars == <<vars, lockVars>>

LeaderInit == Init /\ LockInit

Releasing(p) == job[p].pc # "idle"

-----------------------------------------------------------------------------
(* Definitions marked "faulty" are used by no action: they are faults one    *)
(* could make in the code, and show that the properties would notice.        *)

(* Requests and tasks of any process that is up may find quiet hours; the    *)
(* configuration is read again when a process starts.                        *)
QueueStep(p) ==
    /\ \/ \E m \in Message : state[p] # "down" /\ Enqueue(p, m)
       \/ Begin(p) \/ JobStep(p) \/ WriteSentFails(p) \/ Abort(p)
       \/ state[p] = "down" /\ Restart(p)
    /\ UNCHANGED lockVars

Serves(w) == state[w] \in {"running", "stopping"}

(* The process has the job from scheduler.start() to the end of shutdown:    *)
(* the pool still starts a run that it was handed before the stop.           *)
Follows(p) ==
    IF Serves(p)' = (p \in scheduled) THEN UNCHANGED vars
    ELSE Schedule(p) \/ Unschedule(p)

(* faulty: scheduler.shutdown(wait=False) leaves a run to itself *)
LockStepNoWait(p) ==
    /\ WorkerStep(p)
    /\ IF Releasing(p) /\ ~Serves(p)'
         THEN state'[p] # "down" /\ UNCHANGED vars
         ELSE Follows(p)

(* scheduler.shutdown(wait=True): a process that runs the job neither        *)
(* deletes the row nor exits.                                                *)
LockStep(p) == WorkerStep(p) /\ (Releasing(p) => Serves(p)') /\ Follows(p)

Dies(p) == Crash(p) /\ Perish(p)

LeaderNext ==
    \/ Tick /\ UNCHANGED lockVars
    \/ LockTick /\ UNCHANGED vars
    \/ \E p \in Proc : QueueStep(p) \/ LockStep(p) \/ Dies(p)

LeaderSpec == LeaderInit /\ [][LeaderNext]_leaderVars

-----------------------------------------------------------------------------
(* While acquisitions do not overlap and no working process is late by the   *)
(* stale timeout, no two processes release at once, whatever stops, crashes, *)
(* restarts and failed statements come in between: the condition under which *)
(* a message that was held back is sent once (SentOnceOrDropped).            *)
ReleasesStayApart == serial /\ timely => ~overlapped

(* Under the same condition a message that was held back reaches the         *)
(* channels once at most, and one that is still held or expired never did.   *)
OnceWhileRegular ==
    serial /\ timely =>
        \A m \in Message :
            /\ sends[m] <= 1
            /\ row[m].st \in {"none", "suppressed", "expired"} => sends[m] = 0
            /\ row[m].st = "sent" => sends[m] = 1

=============================================================================
