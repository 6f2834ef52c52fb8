# PilotStd: a formal model

PilotStd manages technical standards: it scans documents, queries standard
sites, downloads and archives files, watches announcements and notifies its
users. It runs as a server (FastAPI and APScheduler in a container) and as a
desktop program over the same library. Its state lives in one SQLite database
and in the memory of its processes.

This directory models the parts whose correctness depends on an *order of
steps*: several threads, processes or requests over shared rows, timers, crashes
and restarts. Text processing (parsing, OCR, matching, rendering) is tested by
the repository and is not modelled.

| file | what it is |
| --- | --- |
| `TaskQueue.tla` | the persistent task queue, its pollers, handlers, operators |
| `SchedulerLock.tla` | the leader lock in the database that guards the scheduled jobs |
| `AggregateBuffer.tla` | the notification aggregator: buffers, timers, windows, shutdown |
| `Delivery.tla` | what the aggregator promises, without timers and locks: its abstract specification |
| `PipelineRun.tla` | pipeline runs: the row, the stage endpoints, the browser that drives them |
| `SuppressionQueue.tla` | notifications held back in quiet hours: deferral, expiry, release |
| `ValidityQueue.tla` | the queue of files to check, drained by two threads |
| `ExpiredMove.tla` | the files of a withdrawn standard: move, rollback, index, status, repair |
| `FavoriteChain.tla` | the download chain of a favourite |
| `AnnounceCrawl.tla` | the incremental crawl of an announcement site, its checkpoint and breaker |
| `LeaderRelease.tla` | the release of held notifications as a job of the process that has the leader lock: `SchedulerLock` and `SuppressionQueue` composed |
| `*Proofs.tla` | theorems for every value of the constants: `AggregateBufferProofs` includes `Delivery`, `LeaderReleaseProofs` the two modules it composes, the others are named after their module |
| `MC*.tla`, `*.cfg` | the instances TLC checks: `MCX` extends `X` with symmetry sets, where sound, and with bounds |
| `PROJECT.json` | components, runs, mutants, source lines, findings, hazards, theorems |

Run a model with `tlc -config TaskQueue.cfg MCTaskQueue`, check the proofs with
`tlapm TaskQueueProofs.tla`.

## 1. Inventory

### 1.1 Components

Paths are relative to `src/`. "Hard" names what a unit test hardly reaches.

**Task queue and poller** (`pilotstd/task/queue.py`, `models.py`,
`scheduler.py`, HTTP operations in `docker/api/tasks.py`).
State: table `task_queue`, one row per task with its status; per execution a
`TaskInfo` copy in memory, a watcher thread and a handler thread.
Operations: enqueue, start (claim), run, update_progress, pause, resume, cancel,
retry, clear_finished, poll.
Interaction: pollers of every process and the API share the table; nothing else.
Hard: the copy is written back as a whole and never re-read; `start()` and the
retry request work without the lock, and the lock is one of each process; a
timed-out handler goes on running; a process may die at any point.
Correct when: each release of a task is executed at most once, no row says
running without an execution behind it, completed is earned, pending is taken,
a row is rewritten only by who holds a copy of it. (That a cancellation
stands is what the code promises and does not keep.)

**Leader lock and scheduled jobs** (`docker/scheduler.py`, `docker/app.py`).
State: row `id=1` of `scheduler_lock` with a heartbeat; one heartbeat thread.
Operations: acquire at boot (INSERT, SELECT, UPDATE), heartbeat every 30 s,
release at stop.
Interaction: whoever holds it runs every scheduled job, among them the
suppression release, the validity queue and the favorite downloads, so their
"single consumer" assumption is this lock.
Hard: takeover without a condition on what was read, late heartbeats, a delete
of somebody else's row, crashes; the lock is tried once per process.
Correct when: at most one scheduler, its row stays fresh, a lost row comes back,
a residue is taken over (it is not, see the divergences).

**Notification aggregator** (`pilotstd/core/notification/aggregate_buffer.py`,
`aggregate_keys.py`; the desktop's adapter `core/notification_aggregator.py`
delegates to it).
State: a buffer, a timer and a window start per group, under one lock.
Operations: enqueue, timer callback, flush, flush_all, shutdown.
Interaction: called by the notification manager, calls the sender.
Hard: callbacks that can not be cancelled any more, superseded timers, a clock
read before the lock is taken, sends with and without the lock, timers that do not start, daemon timers at the end of
the process.
Correct when: a message is in exactly one place, no group is left without a
timer, windows and batches keep their bounds, a shutdown saves what is buffered.

**Suppression queue and dispatch** (`core/notification/_suppression_queue.py`,
`_dispatcher.py`, `_policy.py`, `manager.py`).
State: rows of `notification_queue` with a state (suppressed, sending, sent,
failed, expired), a time of arrival and a release time; in-memory throttling
windows.
Operations: defer (`do_send` in quiet hours), release, expire, dispatch.
Interaction: the job of every five minutes, run by the leader, releases.
Hard: a crash between "sending" and "sent", two releasers, expiry by ids read
earlier, a system switched off with rows in the queue, quiet hours over midnight.
Correct when: a message is sent once at most, an outcome is final, none is held
for ever.

**Delivery health and callbacks** (`delivery_health.py`, `callback_service.py`,
`callback_store.py`). State: per channel failure streaks; callback tokens with an
expiry and a used mark. Hard: a token used twice, health updated from several
threads.

**Channels, rendering, receivers** (`channels/`, `renderer.py`,
`telegram_receiver.py`). Network I/O and formatting.

**Pipeline runs** (`task/pipeline_store.py`, `docker/api/_pipeline.py`, the
stages in `docker/api/scan.py`, `query.py`, `download.py`, `normalize.py`,
`archive.py`, and their driver `web/src/views/TaskView.vue` with
`web/src/utils/taskRestore.ts`). State: a row per run (status, step, results), a
key in the browser. Operations: create, update_step, request_stop, finish_stop,
resume, mark_interrupted. Hard: a stop request against unconditional step
writes, restarts in the middle of a stage, reloads of the browser, a rerun clicked
while a run goes on.

**Download engine and task store** (`pilotstd/download/`). State: rows in the
same table `task_queue`, retry rounds in memory. Hard: recovery that runs twice,
retry bounds, the poller that sees these rows too.

**Favorite download chain** (`services/favorite_chain_processor.py`,
`tasks/favorite_download.py`, `docker/api/favorites.py`).
State: per favourite a row with a status and a count of failures.
Operations: add and remove a favourite; the daily job: select, download, wait for
the index, judge, count a failure, abandon.
Interaction: the scheduler of the leader; the file index tells that a file came.
Hard: the job selects only pending and failed rows below the limit, so every
other state strands a row; the count is read and written by different keys; a
favourite removed and added again while its first row is worked on.
Correct when: a row leaves the queue only as done or abandoned, attempts end.

**Site rotator and query engine** (`pilotstd/query/`). State: quota per day,
error streak and cool-down per site. Hard: quotas checked when sites are listed
and counted when the answer is there.

**Announcement crawl** (`announcement/base.py`, `engine.py`, `_circuit_breaker.py`,
`announce/crawler_service.py`, `persistence.py`, `task_runner.py`,
`manager/announce_service.py`).
State: per site a checkpoint date and a breaker (streak, freeze) in the database;
in the adapter, one per server, the dates of the details that failed; rows per
announcement.
Operations: the daily job and manual crawls: list, fetch details, insert rows,
move the checkpoint; freeze after failing crawls.
Interaction: favourites and validity checks read the rows.
Hard: failures that must hold the checkpoint back, among several requests per
announcement; announcements that appear late, two kinds of crawls over one
checkpoint and one adapter, crawls cut short.
Correct when: no announcement is passed unread, each is read one day, but for
those of which a failure leaves no record.

**Announcement parsing, OCR, matching** (`announcement/parser.py`, `matcher.py`,
`ocr/`). Text, but for the batches of rows.

**Validity checks** (`core/validity_checker.py`, `_validity_pipeline.py`,
`manager/validity_service.py`; for the files `organizer/mover.py`,
`core/file_utils.py`, `core/archive_reconcile.py`).
State: a table of requested files with pending, running, success and failed rows,
a lock per process; the status of a standard, its files, their rows in the index.
Operations: enqueue, drain (put running rows back, select, claim, check, settle);
update_status (move the files, roll back, update the index, write the status);
reconcile at start-up.
Interaction: the job of every minute and the start-up thread drain; rounds are
run by the server's jobs and by the command line.
Hard: rows left running by a crash against a unique index of pending rows;
requests during a check; one of several files that can not be moved; a crash
between copy, rename, deletion, index and status; taken names.
Correct when: one consumer per row, a request is answered by a later check, every
row is settled; the status is never ahead of the files, no file is lost, the index
names the files.

**Sessions and users** (`docker/session_store.py`, `auth.py`, `users.py`). A map
under a lock with an expiry.

**Database layer and migrations** (`core/db/`). A lock file around the
migrations, retried statements. Hard: the file is stale by its age alone.

**File index, organizer, archive reconciliation** move one file at a time; the
move, its rollback and the repair are modelled with the validity checks.
**Scanner and file monitor**; **WeChat IP watcher**; **configuration, i18n, CLI**;
**web API, web front end, desktop UI**: names, I/O, settings and views over the
components above.

### 1.2 How they interact

```
 web / desktop UI --HTTP/calls--> task API ----> task queue (rows) <---- pollers (one per process)
        |                                             |  handlers run chains, downloads, checks
        |--pipeline stages--> pipeline runs (rows)    v
 scheduler leader lock --> jobs: validity queue, favorite chain, suppression release, backups
                                     |
                                     +--> validity round --> files, file index, status
 every component --push--> notification policy --> suppression queue | aggregator --> channels
```

The jobs of the leader are written for a single process. `SuppressionQueue`,
`ValidityQueue`, `ExpiredMove` and `FavoriteChain` therefore let *any* process
run the job at any time and record in a history variable (`overlapped`,
`contended`) whether two ever did at once; `SchedulerLock` says under which
conditions that does not happen. What needs the lock is stated under that
condition, what does not is stated without it. `LeaderRelease` closes the gap for
the suppression queue: it puts the job into the processes that the lock admits and
shows that `overlapped` stays false as long as the lock is regular.

That *some* process runs the jobs is not granted by the code. `start_scheduler` tries
the lock once (`docker/scheduler.py:408`); a server restarted within 90 s of a crash
finds the fresh row of its own former life, returns, and has no job and no start-up
drain (`:464`) for as long as it lives. Nor is a job of the list at `:413` there
unless the settings enable it. The models of the jobs therefore keep who has the job
(`scheduled`): `Schedule` and `Unschedule` may happen at any time and nothing obliges
anybody to schedule. A crash unschedules. Their liveness properties begin with "while
some process keeps the job", `<>[](p \in scheduled)`: without it they are false.

Shared state is SQLite: one statement is atomic, a sequence of statements is not
unless the code holds a lock *and* only one process writes. The models take the
first as given and are about the second.

## 2. The modules

Every action is a whole method up to the point where other threads can get in
between: the release of a lock, a statement outside any lock, a thread switch
between two of them. Definitions marked *faulty* are used by no action: they
are plausible slips of the code that show that a property notices them.

### 2.1 TaskQueue

`row[t]` is the status column. `run[r]` is one execution: the watcher thread of
`_run` (`watch`), the handler thread (`handler`), the in-memory status (`copy`)
and the release it consumed (`ticket`). `release` and `earned` are history.
`asking[w]` is a request that process `w` serves inside `_set_status`: it has read
its row and holds the lock of its process. `TaskQueue._lock` is a lock of one process
(`queue.py:26`), so while `asking[w]` is set the other locked steps of `w` wait
(`LockFree`) and those of other processes do not.

| code | action |
| --- | --- |
| `enqueue` | `Enqueue` |
| `start`: guarded UPDATE | `Claim` |
| `start`: whole-row write and thread | `SyncAndSpawn`, `StartFails` |
| `update_progress` | `UpdateProgress` |
| handler returns, returns FAILED, raises | `HandlerReturns`, `HandlerSetsFailed`, `HandlerRaises` |
| `_run` after `join`: timeout | `TimeoutFires`, `TimeoutPersists` |
| `_run` after `join`: exception, result | `FinishRaised`, `FinishReturned` |
| the last write raises | `FinalWriteFails` |
| `pause`, `cancel`, `resume`: `get()`, then `_persist()` | `Pause`, `Cancel`, `Resume` (all `Ask`), then `Answer` |
| retry request: check, write | `RetryRead`, `RetryWrite` |
| `clear_finished` | `ClearFinished` |
| process dies, is started again | `Crash`, `Restart` |

Abstractions. `_persist` is SELECT, then UPDATE or INSERT. Either way the row ends
with the copy's status, so it is one blind write, which inserts a row again that
was cleared since the copy was read; or the row is cleared between SELECT and UPDATE,
and stays away (`Persist`). A poller reads a list of
pending rows and claims from it; since the claim is guarded, the list is left
out. Counters are left out except for whether they reach the total (`full`). A
failing `update_progress` raises inside the handler: `HandlerRaises`.

What the runs show:

* `task_queue` (one task, two workers, two executions, two releases, one request
  at a time between its read and its write, one fault; 282 k states): all safety
  properties and, under `FairSpec`, that a pending row is taken and an execution
  ends. One task is enough: actions touch one row, except `ClearFinished`, which
  treats all alike. Two workers and executions are the smallest numbers at which
  claims race; one request under way meets a claim, an execution, a clearing and
  the end of its process. Two requests at a time, and a third execution, are left
  to the proofs, which cover any number.

`OnlyHoldersRewrite` says what may happen to a row of which no thread and no request
holds a copy: it is claimed, cleared, or enqueued for the first time. A row that
comes back after `clear_finished` does so from a copy read before; that this happens
is in section 5. The loss of a pause, a cancel or a retry is not excluded by any
property: the code does lose them (section 5). Nor does `RunningIsBacked` exclude
rows that a crash leaves running: it says that a crash, a failed start or a failed
final write is the only way to such a row.

Fairness: the poll loop catches everything and never stops, the container is
restarted (the poller, unlike the scheduler, needs no lock row), a watcher's join
ends by result or timeout, a request that read its row writes it. The watcher's
steps are under strong fairness, because they wait for a lock that requests take
again and again, each for one read and one write. Handlers and operators owe nothing.

### 2.2 SchedulerLock

`present` and `age` are the row; `state[w]` is where process `w` is; `late[w]`
is how long ago it took the time stamp it is about to write; `beating` are
heartbeat threads between waking and writing (they are not joined by the stop).
A tick is one heartbeat interval (30 s) and `StaleTicks = 3` is
`_STALE_TIMEOUT = 90 s`. No statement compares the pid, so it is left out.
A process that did not get the lock idles: nothing calls `start_scheduler` again
(`docker/scheduler.py:408`).

| code | action |
| --- | --- |
| `_acquire_scheduler_lock`: INSERT, SELECT and compare, UPDATE | `Insert`/`InsertFails`, `SelectRow`, `TakeOver` |
| `start_scheduler` | `Boot`, `StartJobs` |
| `_heartbeat_loop` | `HeartbeatWakes`, `HeartbeatWrites`, `HeartbeatFails` |
| `stop_scheduler` | `Stop`, `Release`, `ReleaseFails`, `StopIdle` |
| process ends, dies | `Exit`, `Crash` |

What the deployment grants is no constant of the model: two history variables
record it. `serial` stays true as long as no two processes were acquiring at the
same time, `timely` as long as no working process was late by the stale timeout.
The safety properties are conditional on them. `MaxAge` caps ages (all ages
beyond `StaleTicks` behave alike), `MaxLockFaults` caps crashes and failed statements.

What the runs show:

* `scheduler_lock`: two workers, crashes, stops, failed statements, boots and
  heartbeats in any order. While the history is serial and timely there is one
  scheduler and its row is fresh; and in every history a running scheduler whose
  row somebody else deleted has it back. Two workers are enough for a takeover
  that meets a boot, a release or a late heartbeat; the theorems cover any number.
  That the types hold is proved (`LockTypeCorrect`) and not run.

Fairness: time passes, the runtime starts a process that is down, a process goes
through its start, a heartbeat thread keeps beating. Stops and faults are nobody's
obligation.

### 2.3 AggregateBuffer

`buffer`, `cur`, `win` are `_buffers`, `_timers`, `_window_start`; `timer[i]` are
Timer objects, those that were replaced in `_timers` and still run included;
`sending` and `locked` are batches on their way out without and with the lock;
the rest is history. A timer is *waiting* or *fired*: after the wait
`Timer.cancel` has no effect and the callback takes what it finds. `late` is how long
ago that callback read the clock: `enqueue` (`aggregate_buffer.py:194`) and
`_on_timer` (`:315`) read it *before* they ask for the lock, so the age of a window
is judged, and the next delay computed, by an instant that is past. What a timer was
started with stays in its `late`.

| code | action |
| --- | --- |
| `enqueue` | `Bypass`, `Enqueue`, `EnqueueRaises`, `EnqueueFull` |
| the end of a timer's wait | `TimerFires` |
| `_on_timer` | `OnTimerRenews`, `OnTimerCannotRenew`, `OnTimerForces` |
| `flush`, `flush_all`, `shutdown` | `Flush`, `FlushAll`, `Shutdown` |
| the server's way out | `ManagerShutdown`, `Exit` |
| the sender returns or raises | `SendEnds`, `LockedSendEnds` |

Abstractions. Time is in ticks; the tolerance at which a callback prefers to
force (a tenth of the window, 50 ms at most) is below a tick. The group key is a
value of `Group`; `flush` selects any set of groups, which covers both of its
filters. Merging and formatting are left out: a batch is the sequence of its
messages. `flush` and `flush_all` have no caller in production; they are public
and modelled. `Slot` has to be large enough for a free timer object to be there
whenever one is needed; for the instances below it is.

A callback whose wait is over runs when it gets the lock, up to `MaxWait` ticks
after it read the clock. `MaxWait` is a bound of the model: the theorems hold for
any.
`Flushing` says whether the process calls `shutdown` on its way out. The desktop
does (`aboutToQuit`), the server does not; the first run has the former, the second
the latter.

`Delivery` is the abstract specification: a notification is held, under way, and
then sent, lost or (at the end of the process) dropped; it goes out together with
others, at any time, once. `ImplementsDelivery` is `D!Spec` under the mapping
held = in some buffer, underway = in a batch of a sender or in the one sent under
the lock, open = the process runs. `sent`, `lost` and `dropped` are history
variables of the detailed module, so the refinement says that each of its steps
moves messages the way the abstract one may: a callback that takes an emptied
buffer, two callbacks of one group, a flush that races with a full buffer.

What the runs show (`Window = 2`, `MaxWindow = 3`, so that the last renewal is
shorter than a window; `BatchSize = 2`):

* `aggregate_buffer_safety`: two groups, three messages, three timer objects,
  callbacks and enqueues that wait up to a tick for the lock (`MaxWait = 1`), one
  fault. The aggregator implements
  `Delivery`, no group is left without a timer, batches and windows keep their
  bounds, the desktop's shutdown saves everything. Two groups let one block the
  other; three messages fill one buffer and open another window.
* `aggregate_buffer_liveness`: one group, two messages, the server's exit: every
  message leaves, superseded timers do not renew each other for ever.

`WindowContract` bounds an open window by `MaxWindow` plus the `late` of its present
timer: the class comment's ε, which depends on how long a sender holds the lock.
That waits of several renewals do not add up is what the property is about, and
what a window that is forgotten or a full last renewal would break.

Fairness: time passes, timer threads run, senders answer (requests have a
timeout). Nobody has to enqueue, flush or close.

### 2.4 PipelineRun

`status`, `results` are the row; `results[r][s]` is *entered* when the
endpoint of stage `s` wrote its first `{count}` and *done* when it wrote the
outcome. `handlers` are the stage requests at the server. `page[p]` holds the
refs of one `TaskView`: a tab, or an instance that was navigated away from and
whose `runPipeline` goes on. `call[p][c]` is an async function of that page which
awaits something: the restore, a resume, a stage, the confirmation of a stop. There
may be several, and all of them read and write the same refs: `rerun` of the history
(`TaskView.vue:187`, the button at `:479`) begins a `runPipeline` whatever goes on.
`overlap` is history: a page began a run while it awaited something. `saved` is `task_active_run` in the local storage of
the browser, which all pages share.

| code | action |
| --- | --- |
| stage endpoints: refused, first write, first write lost | `ScanRefused`, `EnterStage`, `EnterStageUnrecorded` |
| ... outcome, failure, failure that is not recorded | `StageCompletes`, `StageFails`, `StageFailsUnrecorded` |
| `runPipeline`: from await to await, catch, finally | `StartClicked`, `RerunClicked`, `StageAnswered`, `StageFailed`, `StopConfirmed` |
| `requestStop`: click, server, answer | `StopClicked`, `StopServed`, `StopAnswered` |
| the page is mounted; `restoreActiveRun` has its answer | `Mount`, `Restored` |
| `continueRun`: request with its guarded UPDATE, answer | `ContinueClicked`, `Continued` |
| polling finds the run at its end | `Poll` |
| start of the server with its clean-up | `ServerStarts`, `ServerStartsUncleaned` |
| the server dies, a connection breaks | `ServerDown`, `ConnectionBreaks` |

Abstractions. JavaScript runs to completion between two awaits, so that is one
action. What the files of a run are is left out except for what ends or skips a
stage (`Reaches`). `update_step` reads, merges and writes; it is one step, since
only the handler of the run writes `step_results` and `OneStageAtATime` shows
that there is only one (after `overlap` there may be two, whose merges are then taken
as atomic). The server is one process (`docker/entrypoint.sh`); by
the time a new one is up, pages have heard of their broken connections. A page
has one stop request under way at a time, and at most as many awaiting functions as
`Call` has members. Not modelled: the deletion of old rows. Which of the files of the
two runs a runPipeline carries into its next stage is data; whose run the stage is
posted for is not, and comes from `runId` (`page[p].run`), as in the code.
`stale` is history: a run was resumed on an offer that a tab had read before
somebody else resumed the run and got further.

What the runs show:

* `pipeline_run` (two pages with two functions each, two restarts, or one restart
  and one fault; 603 k states): until a page begins a run while it awaits something,
  a run is worked on by one request at a time, an interrupted run by none, a
  completed stage is not repeated while no offer is outdated, an offer never starts
  from scratch. `runPipeline` always ends, also after that. Two pages are the tabs
  that race for a resume; two restarts are a run interrupted, resumed and interrupted
  again. The constraint `Bounded` gives the part before `overlap` one run, since runs
  share nothing but `saved` and a page has one `runId`; the part after it has a second
  run, one page and a server that neither goes down nor fails. There TLC finds what
  section 5 says of a rerun if `overlap` is dropped from `OneStageAtATime`,
  `NoStageRepeats` or `OfferContinuesTheRun`, and, if a stop is allowed there as well,
  from `InterruptedIsQuiet`: without that condition none of the four is true of the code.

Fairness: a request that reached the server is worked off and a page goes on when
it has its answer. Nobody has to click, to load a page or to start the server.

### 2.5 SuppressionQueue

`row[m]` is the row of message `m`: its state, arrival and release time.
`sends[m]` counts the times it was handed to the channels. `job[p]` is the run of
the job in process `p`: the rows selected and still to write (`todo`), the one
being sent (`cur`), whether it is at the first of its two expiries. `on[p]` is the
switch of the system as the process read it; `scheduled` are the processes that have
the job (section 1.2).

| code | action |
| --- | --- |
| `do_send` in quiet hours, `enqueue` | `Enqueue`, with `IsQuietHours`, `Scheduled` |
| the job: `expire` selects, writes each row | `Begin`, `ExpireRow` |
| ... the system is off | `SwitchedOff` |
| `release`: time, expiry once more | `StartRelease`, `ExpireRow` |
| ... SELECT with its LIMIT | `Select` |
| ... per row: sending, send, outcome | `MarkSending`, `SendReturns`, `SendRaises`, `WriteSent`, `WriteFailed` |
| the write of sent raises | `WriteSentFails` |
| a statement raises outside the inner try; the process dies | `Abort`; `Perish` |
| `start_scheduler` with the lock; `stop_scheduler` or death between two runs | `Schedule`; `Unschedule` |
| another setting after a restart | `Restart` |

Abstractions. A day has `DayLength` moments. Warnings pass at once, so `Message`
holds the others. A user's preference gives
another end of the quiet hours (`UserEnds`); when the row is due is computed from
the configured one, as in the code. SELECT takes any `Limit` of the due rows.
Throttling, the policy table and the delivery log are left out.

`suppression_queue`: two messages, two processes, quiet hours over midnight
(`DayLength = 3`, from 2 to 1, for a user to 0), `Limit = 1` so that two due rows
are a backlog, `ExpireAge = 2` so that a backlog can expire, one fault (406 k
states). A message is sent once at most or expires, its outcome is final unless
releases overlap, and it leaves while some process keeps the job. `Horizon` bounds
the clock; `Enqueue` keeps it far enough away for the
last message to expire, so that liveness is not an artefact of the bound.

Fairness: time passes, a process that has the job begins it again and again
(APScheduler, every five minutes), a run that began goes on. Nobody is obliged to have
the job: after a quick restart nobody has it, and rows are held for as long as that
lasts (`docker/scheduler.py:408`), which is why `EveryMessageLeaves` is conditional.
A run may be aborted (`MaxFaults` times) and nobody need enqueue.

### 2.6 ValidityQueue

`queue` is the table in the order of ids; `holder[p]` is `_queue_lock` of process
`p`; `at`, `batch` and `row` are the local variables of a draining thread, the
job's or the start-up one; `scheduled` are the processes whose scheduler was started,
with the job and the start-up thread. `asked` is history: the files requested and not
claimed since.

| code | action |
| --- | --- |
| `enqueue_files`: INSERT OR IGNORE | `EnqueueFile` |
| `process_pending`: lock, running rows back | `Requeue`; refused by the index: `RequeueRaises` |
| ... SELECT of the oldest pending rows | `Select` |
| ... per row: guarded UPDATE | `Claim`, `PassOver` |
| ... check and verdict | `Finish` |
| ... a statement outside the try of a row raises, or the write of failed does | `Raises` |
| ... end, finally | `Done` |
| the process dies | `Crash` |
| `start_scheduler` with the lock; `stop_scheduler` or death between two drains | `Schedule`; `Unschedule` |

`validity_queue`: two files, three rows, two threads in each of two processes,
one fault (225 k states). Three rows are a request, its repetition during the check
and another file. `validity_queue_blocked` (**finding**) needs only one thread: a
crash or a failed write leaves a running row, its file is requested again, and from
then on putting the row back violates the index, so that every drain ends at its
first statement.

Rows are left in two ways. One is the blocked index. The other is that nobody drains:
`start_scheduler` returned on a fresh lock row and was never tried again, or the
scheduler was stopped; then neither the job (`docker/scheduler.py:442`) nor the
start-up drain (`:464`), which comes after the lock, exists. `SchedulerStays` excludes
the second from both `SettledUnlessBlocked` and the refuted `EveryRowSettled`; while
some process keeps its scheduler, the first is the only one.

Fairness: a process whose scheduler was started drains again (the job of every
minute), and a drain goes on: its queries have timeouts. Nobody need request, and
nobody need start a scheduler.

### 2.7 ExpiredMove

`disk[f]` is what lies at the paths of file `f`: where it was archived, under its
name in the expired folder of its code, beside that name, in the expired folder of
the root, in the recycle folder. `index[f]` is the path in `file_index`,
`status` the row of the standard. `settled` is history: the last round that moved
files wrote the status.

| code | action |
| --- | --- |
| `update_status`: read, decide, list the rows | `Begin` |
| `safe_move`: refused, copy, copy fails | `NotMoved`, `CopyFile`, `CopyFails` |
| ... `os.replace`, `os.remove`, file in use, copy withdrawn or not | `Replace`, `RemoveSource`, `SourceBusy`, `WithdrawCopy`, `WithdrawFails` |
| one failed: take the others back | `AllVisited`, `RollbackMove`, `RollbackFails`, `GiveUp` |
| rows of the index, one by one | `UpdateIndex`, `UpdateIndexRaises`, `AllIndexed` |
| the status | `WriteStatus` |
| process dies | `Crash` |
| `reconcile_archive` at start-up | `Reconcile` |

Abstractions. A file is its content; a content elsewhere is `Other`. How a status
is concluded, and whether the option and the parallel period allow a move, is the
input of `Begin`. A disk may begin with what an earlier move left behind
(`InitialDisk`). Names beside a taken one are the two of `Alt`.

`expired_move`: two files, the name of one taken, two processes, two faults. The
taken name brings in the move beside it and a rollback that meets the other file;
two files, that one fails after the other moved; two faults, a crash and a failed
operation after it, or a file in use whose copy can not be withdrawn. Without
fairness, and so without liveness: no promise of the code is of that kind.

### 2.8 FavoriteChain

`row[i]` is the row of the `i`-th addition of the favourite, `cur` the present
one, `proc[p]` the record a processor works on and the count it read, `scheduled` the
processes whose scheduler has the daily job.

| code | action |
| --- | --- |
| add: two inserts, the second fails | `AddFavorite`, `AddFavoriteUnqueued` |
| remove (cascades to the row) | `RemoveFavorite` |
| the job's selection | `Select` |
| `download_to_inbox` | `ReuseExistingFile`, `TargetFails`, `StartDownload`, `FavoriteSkip`, `FetchIntoInbox`, `FetchFails`, `Registered`, `NotRegistered` |
| `_process_one_record` after it | `JudgeDone`, `JudgeFailed`, `CountFailure`, `Abandon`, `AbandonTerminal` |
| the last except clause | `RecordRaises`, `CountException` |
| a database error inside an except clause | `Abort` |
| process dies | `Crash` |
| `start_scheduler` with the lock, `update_job` enables; it stops, `update_job` disables, it dies idle | `Schedule`; `Unschedule` |

`favorite_chain`: three additions, three attempts, two processors, two faults.
The code's limit is 7 (`favorite_chain_processor.py:31`); 3 is the run's bound, the
smallest at which there is an attempt between the first and the last, and the theorem
covers every limit above 1. Three additions let a processor of a removed
row meet the row made since, twice. Without faults and overlaps no row is left half
way; with them, attempts still end while some process keeps the job (249 k states).

Fairness: a process that has the job selects again and again and a record that was
begun is worked off. Nobody is obliged to have the job: it is off unless
`tasks.auto_archive_retry_enabled` is set, and gone after a quick restart
(`docker/scheduler.py:408`). One user and one record, since the job treats records one after the
other and shares nothing between them but the inbox and the index (left out).

### 2.9 AnnounceCrawl

`date`, `today`, `late` are the site and the clock; `rows`, `checkpoint`, `streak`
and `frozen` are in the database; `failed` is the list of the adapter; `crawl[c]` is
the crawl of the job or of the manual task runner, each of which runs one at a time.
`scheduled` tells whether the server has the daily job. `narrow`, `overlapped` and
`missed` are history; `missed` are the announcements hit by a failure that the code
notes nowhere.

| code | action |
| --- | --- |
| `check_all`, `_check_one_adapter`, `fetch_announcements` up to the list | `Begin` |
| `_fetch_list`; a request fails, the answer raises | `List`, `ListFails`, `ListRaises` |
| `_process_one_detail`: read, page not fetched, parsing raises | `FetchDetail`, `DetailFails`, `DetailRaises` |
| `_parse_items`: the second request, for the attachment, fails | `AttachmentFails` |
| all details are done: breaker | `DetailsDone` |
| `match_and_update`: a batch, the last of an announcement, a statement fails | `InsertSome`, `InsertRows`, `InsertRaises` |
| failed dates and newest date | `Conclude` |
| `write_checkpoint`: comparison, write | `Compare`, `WriteCheckpoint` |
| the freeze is over, the server restarts | `FreezeEnds`, `Restart` |
| `start_scheduler` with the lock and the job enabled, `update_job` | `Schedule`, `Unschedule` |
| the site, the clock | `Publish`, `DayPasses` |

Abstractions. The three adapters share nothing, so there is one. Dates are days;
"the day before the first" is 0, which lists as much as no checkpoint. Pages are
reduced to where a failing request cuts the list. Announcements from which nothing
can be parsed are `Blank`. A frozen adapter refuses a crawl, which changes nothing
here.

* `announce_crawl`: three announcements, one of them blank and one with an
  attachment, three days, a look-back
  and a lateness of one day, both kinds of crawls, one crawl by hand, two faults,
  `Threshold = 2` (3 in the code). Two announcements that matter are one that moves
  the checkpoint and one that is late or fails, the blank one lets the adapter freeze
  without a fault, and the second fault meets the retry of the first (790 k states). No
  announcement is passed by the checkpoint, and each is read one day while the server
  keeps the job. The constraint `Apart` stops where crawls overlapped, after which the
  properties say nothing; it also lets only one fault happen in a behaviour in which an
  announcement was missed, and no change of the settings while the job crawls.

Failures that leave no record are part of the model: a page of the list (`ListFails`),
a parse that raises (`DetailRaises`), an attachment (`AttachmentFails`), a crawl cut
off between two batches of the rows of one announcement (`CutOff`, in `InsertRaises`
and `Restart`). After one of them the announcements it hit are `missed`: the code loses
them (section 5), and the two properties except them, and only them: what else was to
be read is read, and the checkpoint passes nothing else.

Fairness: a job that is scheduled runs every day, a crawl goes on (requests have
timeouts), a freeze ends by the clock. That the job is scheduled is nobody's duty: it
is off by default (`docker/scheduler.py:420`) and gone after a quick restart (`:408`);
`EveryAnnouncementIsRead` is stated for a server that keeps it from some day on.
Nobody need crawl by hand and the site owes nothing. `MaxClicks` bounds the crawls by
hand, and liveness needs that bound: whoever crawls without end while the newest
announcement is blank keeps the adapter frozen, and with it the job.

### 2.10 LeaderRelease

`LeaderRelease` extends `SchedulerLock` and `SuppressionQueue`; their workers and
processes are the same (`LeaderReleaseAssumption`). A step of one leaves the
variables of the other alone, but for what the code ties together:

| code | action |
| --- | --- |
| the job of a process that has it; one that is up holds messages back; the switch is read again by one that starts | `QueueStep` |
| `start_scheduler` adds the job, `stop_scheduler` ends it: `scheduled` follows `Serves`, a process that is running or stopping | `LockStep`: `Follows` |
| `scheduler.shutdown(wait=True)` before the DELETE | `LockStep`: a process that releases stays in `Serves` |
| a process dies in the middle of the job | `Dies`: `Crash` of the lock and `Perish` of the run |

Here `Schedule` happens exactly when the lock admits the process: a worker that finds a
fresh row is idle in `SchedulerLock` for good, and no run of the job begins in it.
The clocks of the two (heartbeats; moments of a day) are not related: any number of
ticks of one may fall between two of the other, which is more than can happen.

`leader_release`: two processes, two messages held back from the first moment on,
sent or expired later, two crashes or failed statements of the lock and one of the
queue, `StaleTicks = 1`, so that one missed beat makes a row stale. Releases stay
apart (`ReleasesStayApart`) and a message is sent once at most (`OnceWhileRegular`)
while acquisitions do not overlap and no working process is late. The constraint
`WhileRegular` stops where that ends: neither flag ever comes back, so it cuts no
behaviour the properties speak about. With `shutdown(wait=False)` (`LockStepNoWait`)
both fail. No fairness is needed.

### 2.11 Where behaviours end

`CHECK_DEADLOCK FALSE` is set where a behaviour really ends: the process is gone
(`AggregateBuffer`), nobody clicks (`PipelineRun`), nobody adds a favourite any
more (`FavoriteChain`), or the bounds on releases and executions are used up
(`TaskQueue`).

## 3. Proofs

All assume only the named ASSUME of the module (types and ranges of the
constants); one theorem adds the constant `Flushing`. "Inductive" means: it holds
initially and every step of `Next` keeps it, proved action by action.

**TaskQueueProofs.** `IInv == TypeOK /\ RunInv /\ TicketInv /\ EarnedInv /\
RunningIsBacked` is inductive (`Invariance`). `OneRunPerRelease` alone is not: a
claim could reuse a ticket. `TicketInv` adds that a *pending* row still has its
last release unconsumed, which is what the guarded UPDATE buys.
`CompletedIsEarned` needs that a copy that says completed was earned and that a
handler that returned has earned it unless the copy says failed (`EarnedInv`).
`RunningIsBacked` needs that the copy of an ended or abandoned execution is never
"running" (`RunInv`): late progress reports of a handler whose watcher timed out
write that copy back. The copies that requests hold between their read and their
write (`asking`) need no part of their own: a request writes back a row at rest, never
one that says completed or running, whatever became of the row in between. From
`IInv` follow `TypeCorrect`, `AtMostOnePerRelease`, `NoPhantomRunning`,
`CompletedEarned`, and the action property `QuietRows` (`OnlyHoldersRewrite`): whoever
changes a row that is not pending is one who holds a copy of it, or clears it.

**PipelineRunProofs.** `RunTypeCorrect`, `OneStage`, `QuietInterrupted`,
`StagesDoNotRepeat` and `OffersContinue`, for any number of runs, pages, functions of a
page, restarts and faults. The inductive invariant is `IInv == TypeOK /\ (overlap \/
Sound)`: it claims nothing but types of a history in which a page began a run while it
awaited something, because there the four properties are false. Before that each page
awaits one thing, in its first function (`Single`), and that is about the run in its
`runId` (`Fits`). `OneStageAtATime` is not inductive: a
page whose stage was answered, or whose resume was granted, is about to send the
next request. Such a page *holds* the run, and `HoldInv` says that a run has one
holder or one handler and never both, that an interrupted run has neither, that
one never created has no holder, and that a server that is down works on nothing.
The other two theorems rest on `Progress`, which follows the results of a run through
every page and request: from the stage that a request or its holder asks for on,
nothing is done (`Clean`, `Ahead`); a run whose archive
is done is *completed* for good (`EndsCompleted`), because otherwise a restart would
interrupt it and its resume would archive again; and a page that may save or offer a
run has had its scan answered, so that its resume starts behind the scan (`Restores`).
All need `HoldInv`: two requests of one run would each complete what the other
asks for. Where `stale` is set, `Progress` is not claimed, only that scans are done.

**AggregateBufferProofs.** Three invariants on top of each other.
`MsgInv` (`MessagesApart`): the types, and every message is with one holder of
`Delivery` only. With it each step maps to a step of `Delivery` or a stutter
(`Implementation`); enqueue, drains and sends are first reduced to what they do
with sets of messages (`Moves`). `TimingInv` adds per group that what waits is
timed by a timer of its own and that the timer of an open window is due within
it; `NoGroupForgotten` and `ContractKept` follow. They need that callbacks of
superseded timers may still run, which is why the invariant is about the timer
that `_timers` names and not about all. The bound of `ContractKept` is
`MaxWindow` and the `late` of the window's own timer: its delay was computed from a
clock read before the lock was taken. A wait for the lock is charged to the timer it
delayed and to no other, so waits do not add up over renewals, and the theorem holds for any `MaxWait`. `BatchesBounded` counts the members of a
buffer but for those whose enqueue raised. `ShutdownSaves` assumes
`Flushing`: without it, as at the server's exit, the property is false (section 5).

**LeaderReleaseProofs.** Three parts.
*The queue.* `IInv` says that rows of a run exist, and, as long as
one process at a time runs the job, that what a run has yet to write is
*suppressed*, that what it sends is marked *sending*, and how often each has been
sent by then (`Clean`). `SentOnce` and `FinalOutcome` follow: an outcome is written
only to a row this run marked. `TypeCorrect` includes that a release time is after
the arrival and within a day for any ends of the quiet hours.
*The lock.* `LockTypeCorrect` holds unconditionally.
`MutualExclusion` and `RowStaysFresh` hold as long as the history is serial and
timely: exactly what the deployment has to grant. `LInv` adds to mutual exclusion
that the row of a scheduler is no older than its last time stamp, and that while a
worker is about to take over there is no scheduler; all of it under the same
condition, so that nothing is claimed of the histories after it broke.
*The two together.* Every step of the composition is a step, or none, of each
(`QueueStepKept`, `LockStepKept`), so it implements both (`LeaderImplementsQueue`,
`LeaderImplementsLock`) and has their invariants. `ApartInv` is what the composition
adds: the job runs only in processes that are running or stopping. Those are among
the processes of which the lock admits one, so a job that begins finds no other
(`ApartStep`), which is `ReleasesApart`; with `SentOnce` it gives
`LeaderSendsOnce`, whose only condition left is that the lock is regular.

**ValidityQueueProofs.** `SoleDrainer` (no two processes hold their locks, until
two did) makes `CheckedRowIsRunning` and `RequestIsFresh` inductive: only then does
putting running rows back never touch a row under check.

**ExpiredMoveProofs.** `IInv == MInv /\ SInv /\ NInv`. `MInv` holds without any
condition: a round that has not failed still has every row of an old path in
`todo`, `moved` or in its hands (`RoundCovers`), so the status is written only
over files that are away (`NeverAhead`), even by overlapping rounds. `SInv`, as
long as one process moves, says that the copy a round makes lies beside what it
copied until the source is deleted (`NoFileLost`); `NInv`, as long as nothing
fails either, where a file with a free name and its row are (`RowsNameFiles`).

**FavoriteChainProofs.** `NothingStrands` needs more than that one processor
works: one that works on a removed row charges its failure to the row made since,
so `NewRowIsFresh` says that this happens once at most and never uses that row up
(which is why the code's limit has to be above 1).

**AnnounceCrawlProofs.** `NothingPassed` and `TypeCorrect`, for any set of
announcements, look-back, threshold and number of faults, from what the model
assumes of the site: nothing appears later than the job looks back
(`MaxLate <= LookBack`). `NonePassed` is not inductive: it speaks about the
checkpoint, and a crawl decides on the next one long before it writes it. `IInv`
has three more parts. `PastInv`: no date lies ahead of the clock, so what appears
on time is never behind a checkpoint yet to be written. `ShapeInv`: what a crawl
works on is on the site, and it concludes only from something. `Clean`, while
crawls do not overlap, says of the one crawl that
every unread announcement that is not among the `missed` (passed by a crawl for a
reason section 5 names: a page of the list or an attachment that failed, a detail whose
parsing raised, an insertion cut short) is in its hands, or has its date among the failed ones,
or is not passed by *any* date the crawl may still conclude from (`Covers`); after
the conclusion, that its result passes none (`Keeps`); and that rows of a part of
an announcement are being completed by it (`PartsInHand`), because later crawls
will skip them. Late announcements are why `Keeps` asks nothing of a crawl that
does not look back, and why `narrow` is set when such a crawl writes. That dates
have a least and a greatest (`Least`, `Greatest`) comes from the library's theorem
that the order of the naturals is well-founded.

`TypeOK` of these four modules and of `SchedulerLock` is proved (`TypeCorrect`,
`LockTypeCorrect`) and no run repeats it.

Only model-checked: all liveness (`PendingIsTaken`, `RunsEnd`, `RowHeals`,
`EverySent`, `TimersStop`, `RunPipelineEnds`, `EveryMessageLeaves`,
`SettledUnlessBlocked`, `EveryFavoriteSettles`,
`EveryAnnouncementIsRead`), which is out of the prover's reach.

## 4. Not modelled

* **Download engine and task store** (`pilotstd/download/`). Its rows live in
  `task_queue`, under a task type no poller has a handler for; what a poller makes
  of them is a composition with `TaskQueue` that would have to model both tables'
  columns. That race is listed as a hazard; the bound of its retries is in
  section 5.
* **Site rotator and query engine**: counters that depend on the wall clock and on
  what sites answer; no other component relies on their exact values. The race
  of the quota is in section 5.
* **Announcement parsing, OCR, matching**; **channels, rendering, receivers**;
  **scanner**: text, formats and network I/O, a matter of data.
* **Delivery health and callbacks**, **sessions**, **configuration, i18n, CLI**: small
  state under one lock or in single statements.
* **Database layer and migrations**: the models take the atomicity of a statement
  from SQLite; migrations run before anything else.
* **Web API and front end** beyond the task routes, the stage endpoints and the
  driver of a run: views.
* Within the modelled components: of the announcement crawl how long a freeze lasts,
  the crawl from a given date and the parsing again of one announcement (neither
  moves the checkpoint), breakers of other processes on
  the same database; throttling and the log of deliveries, the jobs of the leader that
  have no queue (backups, retention), how a validity status is concluded, what
  favourites share, the list routes.

## 5. Known divergences

One is a run that TLC refutes (`PROJECT.json`, findings): a blocked validity queue.
The following were met while modelling; the models contain
the behaviour, and the properties are stated so as not to claim more than the
code does.

Task queue.
`_run` tests its own copy for CANCELLED, but `cancel` only writes the row: the outcome
of the execution replaces the cancellation (`pilotstd/task/queue.py:210`, against
`docker/api/tasks.py:219`).
A request reads the row, and writes it later whatever it has become (`_set_status`,
`queue.py:217-224`; `_persist`, `:226-258`), under a lock that each process has of its
own (`:26`). With two processes a row that `clear_finished` deleted in between comes
back, since `_persist` inserts what it does not find, and a status that another process
wrote in between is lost; so is one that a `pause` or `cancel` writes between the claim
and the first write of the execution (`:92`).
Rows left running by a process that died are never looked at again
(`pilotstd/task/queue.py:16-17` promises recovery, `:24` starts with an empty
map). A timed-out handler goes on and may run in parallel with its retry.

Leader lock.
Two workers that boot on a stale row both take it over
(`docker/scheduler.py:320`, against `:25`). A worker restarted within 90 s of a
crash finds a fresh row, gives up and never tries again (`:408`, against `:593`). With one
worker nothing is then scheduled until the next restart: no release of held
notifications, no drain of the validity queue (the one at the start comes after the
lock, `:464`), no retry of favourites, no crawl. The liveness properties of those
components are stated from the moment a job is scheduled (`scheduled`).

Notification aggregator.
The server's shutdown only stops the Telegram receiver
(`core/notification/manager.py:358`); timers are daemons, so buffered notifications are
lost (against `docker/app.py:327`).
A full buffer is sent with the lock held, so that a slow channel lets the windows
of other groups outlive the bound (`aggregate_buffer.py:216`, against `:105-106`).
The clock is read before the lock is waited for (`:194`, `:315`): a timer armed after a
wait is armed for the age the window had before it, and the window may exceed
`MAX_WINDOW_SECONDS` by that wait.
After `shutdown` it accepts messages and opens timers again.

Suppression queue.
`send_now` swallows the failures of channels and the row says sent; when the write
of sent fails, the row says failed though it was sent. Rows in failed or sending
are never tried again. A user's quiet hours may end at another time than the
configured ones, and the release time is computed from the latter: a message is
released within the user's quiet hours or held for longer; release does not look
at quiet hours again, so a backlog may be released at night.

Pipeline runs.
A run interrupted in the middle of a stage continues behind it, since entering it
wrote a result (`web/src/utils/taskRestore.ts:83`, against
`docs/onboarding/08-known-boundaries.md:214-215`). Between two stages a run says
completed: a restart does not mark it, polling forgets it, and a stop confirmed
there leaves it completed. A stop requested during a stage is erased by the write
of its result (`task/pipeline_store.py:71`). An answer to a stop that arrives late
stops the next run; an outdated offer of a second tab repeats a stage. `rerun` does not
ask whether a run is under way (`web/src/views/TaskView.vue:187`, and its button at
`:479` is never disabled): the new `runPipeline` sets the `runId` that the old one reads
after each of its awaits, so the old one posts its next stage for the new run. Two
requests then work on one run, and stages are repeated, the archive with its moves of
files included.

Validity checks.
A query that failed counts as success. With overlapping processes a check can
settle the row of a newer request, and rows are checked twice. The repair at
start-up searches `<root>/<expired folder>` while the mover files into
`<root>/<code>/<expired folder>`: rows a crash left behind are not repaired, and
the standard is stuck. A crash between the rename and the deletion leaves two
equal files, which `safe_move` refuses in every later round. For a taken name
`archive` returns the name it was asked for, not the numbered one that
`safe_move` chose: the index gets the wrong row or a UNIQUE error, and a rollback
takes the other file home. Each crash on a taken name leaves another numbered
copy. Two processes that move the same file can lose it without any fault.

Favourites.
When the second insert fails the favourite has no row in the queue. A crash
strands rows in downloading and archiving. The last except clause counts an
attempt without comparing it with the limit: at the limit the row stays failed and
is never abandoned. The status `remove_favorite` looks at stays pending, so it
deletes a favourite in the middle of its download. A favourite added again may be
charged for an attempt of its predecessor.

Announcement crawl.
`fetch_announcements` clears the failed dates of the adapter (`announcement/base.py:442`),
which the job and the manual crawls share, and nothing keeps the two apart: no caller
takes the manual lock (`manager/announce_service.py:60`, against `:61`, 获取独占式手动抓取锁，防止定时器冲突).
A crawl that begins before the other has read them (`announcement/engine.py:115`) makes
that one move the checkpoint past the announcement it failed to fetch (against `:122`,
失败项不能被 checkpoint 跨过); `NonePassed` without its condition `~overlapped` is refuted
by this with two announcements and one fault.
A manual crawl moves the checkpoint of the job but looks back 0 days
(`announce/task_runner.py:36`, against the shared configuration of
`manager/announce_service.py:165`): a late announcement behind it may leave the days the
job looks back. Rows are inserted in batches of 50 (`announcement/matcher.py:424`); a crawl
cut short between two leaves some rows of an announcement, and with any row it counts as
complete (`:387`). An outage that empties the list counts as a success of the breaker
(`announcement/base.py:445`, against `_circuit_breaker.py:151`).
A page of the list that fails, and a detail whose parsing raises, are passed by the
checkpoint without a record. So is an announcement whose attachment can not be
downloaded (`announcement/base.py:168-175`, `:210-230`): the failure is swallowed, what
the page itself holds counts as the whole, no failed date is kept, and with some rows in
the table later crawls skip it (against `announcement/engine.py:122`). An announcement from which nothing can be parsed is
fetched by every crawl that lists it, and a crawl that finds nothing else counts as
failed: a quiet week behind one such announcement freezes the adapter. The date a user
sets to crawl from (`web/src/views/AnnounceView.vue:60`) is stored with the user's
preferences, while the job reads `app_preferences`
(`pilotstd/manager/announce_service.py:87`), which nothing writes.

Read and not modelled.
`SiteRotator.record_error` has no caller in production; `record_result` leaves
out the cool-down within six hours of the last alert; the daily quota is checked when
sites are listed and counted when the answer is there (`query/rotator.py:105`). Download
rows share the table of the poller; their retry bound is read from the row and
written by the next attempt (`download/task_store.py:87`). Each process saves the whole
breaker state it loaded once (`_circuit_breaker.py:104`).
