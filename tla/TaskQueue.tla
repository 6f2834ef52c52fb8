------------------------------ MODULE TaskQueue ------------------------------
(***************************************************************************)
(* The persistent background task queue: pilotstd/task/queue.py, the       *)
(* poller of pilotstd/task/scheduler.py and the HTTP operations of         *)
(* docker/api/tasks.py.                                                    *)
(*                                                                         *)
(* A task is one row of the SQLite table task_queue.  Any number of worker *)
(* processes share the table; each polls it, claims pending rows with one  *)
(* guarded UPDATE and executes the handler in a thread that works on its   *)
(* own in-memory TaskInfo copy.  That copy is written back to the row as a *)
(* whole, never re-read, which is where the interesting interleavings are. *)
(*                                                                         *)
(* TaskQueue._lock belongs to one process: what runs under it is atomic    *)
(* towards the other locked steps of that process, and towards nobody in   *)
(* another one.  A pause, cancel or resume reads the row and writes it     *)
(* back under the lock: two actions, and while it is between them the      *)
(* other locked steps of its process wait.  start() and a retry request    *)
(* take no lock: their reads and writes are actions of their own as well.  *)
(***************************************************************************)
EXTENDS Naturals, FiniteSets

CONSTANTS
    Task,         \* task ids ever handed out by enqueue (uuid4: never reused)
    Worker,       \* processes that own a TaskQueue and a TaskScheduler
    Run,          \* executions: one per successful claim, numbered in order
    NoTask,       \* the task of an execution slot not used yet
    NoWorker,     \* the worker of such a slot
    MaxRelease,   \* bound: times one task is made pending
    MaxInflight,  \* bound: requests of one task between read and write
    MaxFaults     \* bound: crashes, failed starts and failed final writes

ASSUME TaskQueueAssumption ==
    /\ NoTask \notin Task
    /\ NoWorker \notin Worker
    /\ Run \subseteq Nat
    /\ MaxRelease \in Nat /\ MaxInflight \in Nat /\ MaxFaults \in Nat

VARIABLES
    row,       \* row[t]: the status column of task t, or "absent"
    release,   \* release[t]: how many times t was made pending (history)
    retrying,  \* retrying[t]: retry requests that read "failed", not yet wrote
    asking,    \* asking[w]: the request of process w inside _set_status
    up,        \* workers that are running
    run,       \* run[r]: one execution, see RunState
    faults     \* crashes, failed starts and failed final writes so far

vars == <<row, release, retrying, asking, up, run, faults>>

Status   == {"pending", "running", "paused", "completed", "failed", "cancelled"}
Finished == {"completed", "failed", "cancelled"}

(* watch is the thread of TaskQueue._run: "free" slot, "claimed" (inside     *)
(* start), "joining" (waiting for the handler), "expired" (join timed out,   *)
(* lock not taken yet), "ended", or "lost": with its process, or by an       *)
(* exception of the database.  handler is the thread it spawns.  ticket is   *)
(* the release this execution consumed; earned tells that the handler        *)
(* returned or counted its progress to the total.                            *)
RunState ==
    [task: Task \cup {NoTask}, worker: Worker \cup {NoWorker}, ticket: Nat,
     copy: Status, earned: BOOLEAN,
     watch: {"free", "claimed", "joining", "expired", "ended", "lost"},
     handler: {"idle", "alive", "returned", "raised", "dead"}]

FreeRun ==
    [task |-> NoTask, worker |-> NoWorker, ticket |-> 0, copy |-> "pending",
     earned |-> FALSE, watch |-> "free", handler |-> "idle"]

(* A request between its get() and its _persist(), or none. *)
Request == [task: Task \cup {NoTask}, status: {"pending", "paused", "cancelled"}]

NoRequest     == [task |-> NoTask, status |-> "pending"]
Wish(t, s)    == [task |-> t, status |-> s]
LockFree(w)   == asking[w] = NoRequest
LockFreeOf(r) == run[r].worker \in Worker => LockFree(run[r].worker)

RunsOf(t)      == {r \in Run : run[r].task = t}
Watched(r)     == run[r].watch \in {"claimed", "joining", "expired"}
HandlerLive(r) == run[r].handler = "alive"
NextFree(r)    ==
    run[r].watch = "free" /\ \A q \in Run : q < r => run[q].watch # "free"

Init ==
    /\ row = [t \in Task |-> "absent"]
    /\ release = [t \in Task |-> 0]
    /\ retrying = [t \in Task |-> 0]
    /\ asking = [w \in Worker |-> NoRequest]
    /\ up = Worker
    /\ run = [r \in Run |-> FreeRun]
    /\ faults = 0

-----------------------------------------------------------------------------
SetRun(r, s) == run' = [run EXCEPT ![r] = s]

SetRow(t, s) == row' = [row EXCEPT ![t] = s]

(* _persist: SELECT, then UPDATE or INSERT.  The row ends up with the status *)
(* of the copy.  A row deleted meanwhile is inserted again, or, deleted      *)
(* after the SELECT, the UPDATE finds nothing and it stays away.             *)
Persist(t, s) ==
    \/ SetRow(t, s)
    \/ row[t] = "absent" /\ UNCHANGED row

(* The same with the copy's status pending: a release when it gets through. *)
PersistPending(t) ==
    \/ SetRow(t, "pending") /\ release' = [release EXCEPT ![t] = @ + 1]
    \/ row[t] = "absent" /\ UNCHANGED <<row, release>>

(* Bounds: another request of t, and another one that makes t pending. *)
Inflight(t)   == retrying[t] + Cardinality({w \in Worker : asking[w].task = t})
Room(t)       == Inflight(t) < MaxInflight
Releasable(t) == release[t] + Inflight(t) < MaxRelease

Enqueue(t) ==
    /\ release[t] = 0 /\ row[t] = "absent"
    /\ SetRow(t, "pending")
    /\ release' = [release EXCEPT ![t] = 1]
    /\ UNCHANGED <<retrying, asking, up, run, faults>>

(* The claim with its guard changed.  These and the other definitions marked  *)
(* "faulty" are used by no action: they are faults one could make in the     *)
(* code, and show that the properties below would notice.                    *)
FaultyClaim(w, t, r, claimable) ==
    /\ w \in up
    /\ claimable
    /\ NextFree(r)
    /\ SetRow(t, "running")
    /\ SetRun(r, [FreeRun EXCEPT !.task = t, !.worker = w, !.ticket = release[t],
                                 !.copy = "running", !.watch = "claimed"])
    /\ UNCHANGED <<release, retrying, asking, up, faults>>

(* faulty: UPDATE ... WHERE task_id=? without AND status=? *)
ClaimUnguarded(w, t, r)   == FaultyClaim(w, t, r, row[t] # "absent")
(* faulty: the get_pending of old, which returned paused rows as well (D6-2) *)
ClaimPausedToo(w, t, r)   == FaultyClaim(w, t, r, row[t] \in {"pending", "paused"})
(* faulty: a poller that remembers the ids it started and skips them *)
ClaimOncePerTask(w, t, r) == FaultyClaim(w, t, r, row[t] = "pending" /\ RunsOf(t) = {})

(* The guarded UPDATE of start(), whoever calls it: a poller for a row of    *)
(* its get_pending list, or resume().  A caller that finds the row not       *)
(* pending any more returns without a trace.                                 *)
Claim(w, t, r) ==
    /\ w \in up
    /\ row[t] = "pending"
    /\ NextFree(r)
    /\ SetRow(t, "running")
    /\ SetRun(r, [FreeRun EXCEPT !.task = t, !.worker = w, !.ticket = release[t],
                                 !.copy = "running", !.watch = "claimed"])
    /\ UNCHANGED <<release, retrying, asking, up, faults>>

(* The rest of start(): write the whole copy back, spawn _run. *)
SyncAndSpawn(r) ==
    /\ run[r].watch = "claimed"
    /\ Persist(run[r].task, run[r].copy)
    /\ SetRun(r, [run[r] EXCEPT !.watch = "joining", !.handler = "alive"])
    /\ UNCHANGED <<release, retrying, asking, up, faults>>

(* The rest of start() raises (database, thread creation): the poller logs a *)
(* warning and goes on, the claim stays.                                     *)
StartFails(r) ==
    /\ run[r].watch = "claimed"
    /\ faults < MaxFaults
    /\ faults' = faults + 1
    /\ SetRun(r, [run[r] EXCEPT !.watch = "lost"])
    /\ UNCHANGED <<row, release, retrying, asking, up>>

-----------------------------------------------------------------------------
(* The handler thread. *)

(* update_progress: under the lock, on the copy the handler was given.  full: *)
(* completed + failed >= total_items > 0.                                     *)
UpdateProgress(r, full) ==
    /\ HandlerLive(r)
    /\ LockFreeOf(r)
    /\ LET s == IF full THEN "completed" ELSE run[r].copy IN
         /\ SetRun(r, [run[r] EXCEPT !.copy = s, !.earned = @ \/ full])
         /\ Persist(run[r].task, s)
    /\ UNCHANGED <<release, retrying, asking, up, faults>>

HandlerReturns(r) ==
    /\ HandlerLive(r)
    /\ SetRun(r, [run[r] EXCEPT !.handler = "returned", !.earned = TRUE])
    /\ UNCHANGED <<row, release, retrying, asking, up, faults>>

(* _unimplemented: mark the copy FAILED and return it. *)
HandlerSetsFailed(r) ==
    /\ HandlerLive(r)
    /\ SetRun(r, [run[r] EXCEPT !.handler = "returned", !.copy = "failed"])
    /\ UNCHANGED <<row, release, retrying, asking, up, faults>>

HandlerRaises(r) ==
    /\ HandlerLive(r)
    /\ SetRun(r, [run[r] EXCEPT !.handler = "raised"])
    /\ UNCHANGED <<row, release, retrying, asking, up, faults>>

-----------------------------------------------------------------------------
(* The thread of _run. *)

EndRun(r, s) ==
    /\ LockFreeOf(r)
    /\ Persist(run[r].task, s)
    /\ SetRun(r, [run[r] EXCEPT !.watch = "ended", !.copy = s])
    /\ UNCHANGED <<release, retrying, asking, up, faults>>

(* faulty: join() without a timeout *)
TimeoutFiresNever(r) == r \notin Run /\ UNCHANGED vars

(* join(timeout) gave up and is_alive() said yes; the lock comes next. *)
TimeoutFires(r) ==
    /\ run[r].watch = "joining"
    /\ HandlerLive(r)
    /\ SetRun(r, [run[r] EXCEPT !.watch = "expired"])
    /\ UNCHANGED <<row, release, retrying, asking, up, faults>>

(* faulty: the timeout marks the copy and forgets to persist it *)
TimeoutPersistsNothing(r) ==
    /\ run[r].watch = "expired"
    /\ SetRun(r, [run[r] EXCEPT !.watch = "ended", !.copy = "failed"])
    /\ UNCHANGED <<row, release, retrying, asking, up, faults>>

(* The handler thread is not stopped: it may go on, or have ended by now. *)
TimeoutPersists(r) ==
    /\ run[r].watch = "expired"
    /\ EndRun(r, "failed")

FinishRaised(r) ==
    /\ run[r].watch = "joining"
    /\ run[r].handler = "raised"
    /\ EndRun(r, "failed")

(* faulty: the status the handler chose is not looked at *)
FinalStatusAlwaysCompleted(s) == IF s \in Status THEN "completed" ELSE s
(* faulty: the word the download table uses for a finished item *)
FinalStatusSuccess(s) == IF s \in {"cancelled", "failed"} THEN s ELSE "success"

FinalStatus(s) == IF s \in {"cancelled", "failed"} THEN s ELSE "completed"

FinishReturned(r) ==
    /\ run[r].watch = "joining"
    /\ run[r].handler = "returned"
    /\ EndRun(r, FinalStatus(run[r].copy))

(* The last write of _run raises (database locked for longer than its        *)
(* retries): the copy is marked, the row is not, and the thread is gone.     *)
FinalWriteFails(r) ==
    /\ LockFreeOf(r)
    /\ faults < MaxFaults
    /\ faults' = faults + 1
    /\ \E s \in Status :
         /\ \/ run[r].watch = "expired" /\ s = "failed"
            \/ run[r].watch = "joining" /\ run[r].handler = "raised" /\ s = "failed"
            \/ /\ run[r].watch = "joining" /\ run[r].handler = "returned"
               /\ s = FinalStatus(run[r].copy)
         /\ SetRun(r, [run[r] EXCEPT !.watch = "lost", !.copy = s])
    /\ UNCHANGED <<row, release, retrying, asking, up>>

-----------------------------------------------------------------------------
(* Requests of users, served by any process.                                *)

(* _set_status, its get(): no guard on the current status, only on the row   *)
(* being there.                                                              *)
Ask(w, t, s) ==
    /\ w \in up
    /\ LockFree(w)
    /\ row[t] # "absent"
    /\ Room(t)
    /\ asking' = [asking EXCEPT ![w] = Wish(t, s)]
    /\ UNCHANGED <<row, release, retrying, up, run, faults>>

(* resume puts the row back to pending; its own start() is a Claim, in a     *)
(* race with every poller.                                                   *)
Pause(w, t)  == Ask(w, t, "paused")
Cancel(w, t) == Ask(w, t, "cancelled")
Resume(w, t) == Releasable(t) /\ Ask(w, t, "pending")

(* _set_status, its _persist(): the whole row as it was read, whatever       *)
(* happened to it in between, with the status asked for.                     *)
Answer(w) ==
    /\ ~LockFree(w)
    /\ LET t == asking[w].task
           s == asking[w].status
       IN  \/ s = "pending" /\ PersistPending(t)
           \/ s # "pending" /\ Persist(t, s) /\ UNCHANGED release
    /\ asking' = [asking EXCEPT ![w] = NoRequest]
    /\ UNCHANGED <<retrying, up, run, faults>>

(* POST /api/tasks/{id}/retry: check a copy, then write it back as pending.  *)
RetryRead(t) ==
    /\ row[t] = "failed"
    /\ Room(t) /\ Releasable(t)
    /\ retrying' = [retrying EXCEPT ![t] = @ + 1]
    /\ UNCHANGED <<row, release, asking, up, run, faults>>

RetryWrite(t) ==
    /\ retrying[t] > 0
    /\ PersistPending(t)
    /\ retrying' = [retrying EXCEPT ![t] = @ - 1]
    /\ UNCHANGED <<asking, up, run, faults>>

ClearFinished(w) ==
    /\ w \in up /\ LockFree(w)
    /\ \E t \in Task : row[t] \in Finished
    /\ row' = [t \in Task |-> IF row[t] \in Finished THEN "absent" ELSE row[t]]
    /\ UNCHANGED <<release, retrying, asking, up, run, faults>>

-----------------------------------------------------------------------------
(* A process dies with its threads (all of them daemons) and its requests;   *)
(* rows stay.  The constructor that runs at the next start recovers nothing: *)
(* it creates the table and installs the default handlers.                   *)
Crash(w) ==
    /\ w \in up
    /\ faults < MaxFaults
    /\ faults' = faults + 1
    /\ up' = up \ {w}
    /\ asking' = [asking EXCEPT ![w] = NoRequest]
    /\ run' = [r \in Run |->
                 IF run[r].worker # w THEN run[r]
                 ELSE [run[r] EXCEPT
                         !.watch = IF Watched(r) THEN "lost" ELSE @,
                         !.handler = IF HandlerLive(r) THEN "dead" ELSE @]]
    /\ UNCHANGED <<row, release, retrying>>

Restart(w) ==
    /\ w \in Worker \ up
    /\ up' = up \cup {w}
    /\ UNCHANGED <<row, release, retrying, asking, run, faults>>

-----------------------------------------------------------------------------
ClaimAny  == \E w \in Worker, t \in Task, r \in Run : Claim(w, t, r)

RunStep(r) ==
    \/ SyncAndSpawn(r) \/ StartFails(r)
    \/ \E full \in BOOLEAN : UpdateProgress(r, full)
    \/ HandlerReturns(r) \/ HandlerSetsFailed(r) \/ HandlerRaises(r)
    \/ TimeoutFires(r) \/ TimeoutPersists(r)
    \/ FinishRaised(r) \/ FinishReturned(r) \/ FinalWriteFails(r)

RequestStep(t) ==
    \/ Enqueue(t) \/ RetryRead(t) \/ RetryWrite(t)
    \/ \E w \in Worker : Pause(w, t) \/ Cancel(w, t) \/ Resume(w, t)

Next ==
    \/ ClaimAny
    \/ \E r \in Run : RunStep(r)
    \/ \E t \in Task : RequestStep(t)
    \/ \E w \in Worker : Answer(w) \/ ClearFinished(w) \/ Crash(w) \/ Restart(w)

Spec == Init /\ [][Next]_vars

(* The poller loop never stops, a killed container is restarted, a request   *)
(* that has read its row writes it, and the watching thread takes its next   *)
(* step: it spawns the handler, its join ends by the handler or by the       *)
(* timeout.  It waits for the lock of its process, which requests take again *)
(* and again but each for one read and one write: strong fairness, the lock  *)
(* passes over nobody for ever.  Nothing is assumed of handlers and users.   *)
Fairness ==
    /\ WF_vars(ClaimAny)
    /\ \A w \in Worker : WF_vars(Restart(w)) /\ WF_vars(Answer(w))
    /\ \A r \in Run : SF_vars(\/ SyncAndSpawn(r) \/ TimeoutFires(r)
                              \/ TimeoutPersists(r)
                              \/ FinishRaised(r) \/ FinishReturned(r))

FairSpec == Spec /\ Fairness

-----------------------------------------------------------------------------
TypeOK ==
    /\ row \in [Task -> Status \cup {"absent"}]
    /\ release \in [Task -> Nat]
    /\ retrying \in [Task -> Nat]
    /\ asking \in [Worker -> Request]
    /\ up \in SUBSET Worker
    /\ run \in [Run -> RunState]
    /\ faults \in Nat

(* Each time a task is made pending it is executed at most once, however     *)
(* many pollers and resumers see the row: no two executions consume the same *)
(* release.  (queue.py:75, the atomic claim D6-1.)                           *)
OneRunPerRelease ==
    \A t \in Task : \A r1, r2 \in RunsOf(t) :
        r1 # r2 => run[r1].ticket # run[r2].ticket

(* A row that says running is backed by an execution somebody still watches, *)
(* or by one that a crash, a failed start or a failed final write cut off:   *)
(* no other path through _run (timeout, exception, late progress report of   *)
(* an abandoned handler) leaves a phantom running row behind.                *)
RunningIsBacked ==
    \A t \in Task : row[t] = "running" =>
        \E r \in RunsOf(t) : Watched(r) \/ run[r].watch = "lost"

(* A completed row was earned: some execution of the task returned without   *)
(* failing or counted its items to the total.  A timeout, an exception and   *)
(* the stub handler never lead there.                                        *)
CompletedIsEarned ==
    \A t \in Task : row[t] = "completed" => \E r \in RunsOf(t) : run[r].earned

(* No thread and no request holds an old copy of the task. *)
Quiet(t) ==
    /\ retrying[t] = 0
    /\ \A w \in Worker : asking[w].task # t
    /\ \A r \in RunsOf(t) : ~Watched(r) /\ ~HandlerLive(r)

(* What may happen to a row nobody holds a copy of. *)
QuietMoves ==
    {<<"pending", "running">>, <<"absent", "pending">>} \cup (Finished \X {"absent"})

QuietRowMove(t) ==
    Quiet(t) /\ row'[t] # row[t] =>
        /\ <<row[t], row'[t]>> \in QuietMoves
        /\ row[t] = "absent" => release[t] = 0

(* A row is rewritten only by who holds a copy of it, and copies end with    *)
(* their threads and requests: a paused row at rest is never picked up by a  *)
(* poller (D6-2), a finished one is not reopened, a row in progress is not   *)
(* cleared, and a cleared row comes back only from a copy read before.       *)
OnlyHoldersRewrite == [][\A t \in Task : QuietRowMove(t)]_vars

(* No task stays pending for ever (queue.py:33, "avoid tasks stuck in        *)
(* pending"): a poller claims it unless an operator withdraws it first.      *)
PendingIsTaken == \A t \in Task : row[t] = "pending" ~> row[t] # "pending"

(* Every execution comes to an end, a handler that never returns included:   *)
(* the timeout ends it, or its process died.                                 *)
RunsEnd == \A r \in Run : Watched(r) ~> run[r].watch \in {"ended", "lost"}

=============================================================================
