----------------------------- MODULE PipelineRun -----------------------------
(***************************************************************************)
(* A pipeline run: scan, query, download, normalize, archive.  The row is  *)
(* kept by pilotstd/task/pipeline_store.py, each stage is one request to   *)
(* docker/api/{scan,query,download,normalize,archive}.py, and the browser  *)
(* page web/src/views/TaskView.vue drives them one after the other, with   *)
(* stop, resume after a restart of the server, and restore after a reload. *)
(*                                                                         *)
(* A page is one instance of TaskView: a tab, or an instance left by       *)
(* navigation whose runPipeline goes on.  What a page does between two     *)
(* awaits is one action; a request is served, and its answer reaches the   *)
(* page, in actions of their own.  Nothing keeps a page from awaiting two  *)
(* things at once: rerun of the history starts a runPipeline whatever goes *)
(* on, and all of them share the refs of the page.                         *)
(***************************************************************************)
EXTENDS Naturals

CONSTANTS
    Run,       \* run ids ever created, numbered in order
    Page,      \* instances of TaskView in one browser
    Call,      \* bound: functions of one page that await something, 1..n
    None,      \* no run
    MaxStops,  \* bound: how often the server goes down
    MaxFaults  \* bound: writes that fail and connections that break

ASSUME PipelineRunAssumption ==
    /\ None \notin Run /\ Run \subseteq Nat
    /\ 1 \in Call /\ Call \subseteq Nat \ {0}
    /\ MaxStops \in Nat /\ MaxFaults \in Nat

(* The stages by their index in STEP_ORDER; Over: nothing is left to do. *)
Query     == 1
Download  == 2
Normalize == 3
Archive   == 4
Over      == 5
Stage     == 0..Archive

VARIABLES
    status,    \* the status column, or "absent"
    results,   \* results[r][s]: step_results of stage s, see ResultState
    handlers,  \* stage requests under way, see Handler
    page,      \* page[p]: the refs of the component, see PageState
    call,      \* call[p][c]: what its async functions await, see CallState
    saved,     \* task_active_run in the browser's local storage
    up,        \* whether the server is running
    stops,     \* how often it went down
    stale,     \* history: a run was resumed on an outdated offer
    overlap,   \* history: a page began a run while it awaited something
    faults

rows == <<status, results>>
here == <<page, call>>
vars == <<rows, handlers, here, saved, up, stops, stale, overlap, faults>>

RunStatus == {"running", "stopping", "stopped", "completed", "failed", "interrupted"}

(* Nothing; {count}, written on entering the stage; the outcome. *)
ResultState == {"none", "entered", "done"}

(* sent: not yet at the server; working: past its first update_step. *)
Handler ==
    [run : Run, stage : Stage, page : Page, call : Call, at : {"sent", "working"}]

(* run: runId; offered: interruptedRun; start: resumeStart; stop, served: the *)
(* stop request under way; the rest as in the code.                           *)
PageState ==
    [run : Run \cup {None}, running : BOOLEAN, offered : BOOLEAN, start : Stage,
     stop : Run \cup {None}, served : BOOLEAN,
     stopping : BOOLEAN, stopRequested : BOOLEAN]

NewPage ==
    [run |-> None, running |-> FALSE, offered |-> FALSE, start |-> 0,
     stop |-> None, served |-> FALSE, stopping |-> FALSE, stopRequested |-> FALSE]

(* restore: restoreActiveRun; resume: continueRun; stage: runPipeline, in one *)
(* of its stages; confirm: in its finally block.  req is the run asked about, *)
(* ans what the request came to.                                              *)
CallState ==
    [doing : {"idle", "restore", "resume", "stage", "confirm"},
     req : Run \cup {None}, stage : Stage, ans : {"none", "ok", "error"}]

NoCall == [doing |-> "idle", req |-> None, stage |-> 0, ans |-> "none"]

Init ==
    /\ status = [r \in Run |-> "absent"]
    /\ results = [r \in Run |-> [s \in Stage |-> "none"]]
    /\ handlers = {}
    /\ page = [p \in Page |-> NewPage]
    /\ call = [p \in Page |-> [c \in Call |-> NoCall]]
    /\ saved = None
    /\ up = TRUE
    /\ stops = 0
    /\ stale = FALSE
    /\ overlap = FALSE
    /\ faults = 0

-----------------------------------------------------------------------------
(* The row: update_step writes the status whatever it was.  current_step and *)
(* progress, which it writes as well, are only shown.                        *)
UpdateStep(r, st) == status' = [status EXCEPT ![r] = st]

(* A status change guarded by the WHERE clause. *)
Change(r, from, to) ==
    /\ status' = [status EXCEPT ![r] = IF @ \in from THEN to ELSE @]
    /\ UNCHANGED results

Fault == faults < MaxFaults /\ faults' = faults + 1

(* The answer to h, if its page still waits for it. *)
Answer(h, a) ==
    /\ call' = [call EXCEPT ![h.page][h.call] =
                  IF @.doing = "stage" /\ @.req = h.run /\ @.stage = h.stage /\ @.ans = "none"
                  THEN [@ EXCEPT !.ans = a] ELSE @]
    /\ UNCHANGED page

(* A stage request begins: scan creates the row, the others write "running"  *)
(* and a first result.                                                       *)
EnterStage(h) ==
    /\ h \in handlers /\ h.at = "sent"
    /\ UpdateStep(h.run, "running")
    /\ results' = [results EXCEPT ![h.run][h.stage] = IF h.stage = 0 THEN @ ELSE "entered"]
    /\ handlers' = (handlers \ {h}) \cup {[h EXCEPT !.at = "working"]}
    /\ UNCHANGED <<here, saved, up, stops, stale, overlap, faults>>

(* A path outside the roots, or a row that can not be inserted. *)
ScanRefused(h) ==
    /\ h \in handlers /\ h.at = "sent" /\ h.stage = 0
    /\ Fault
    /\ handlers' = handlers \ {h}
    /\ Answer(h, "error")
    /\ UNCHANGED <<rows, saved, up, stops, stale, overlap>>

(* safe_update_step logs a failed write and the stage goes on. *)
EnterStageUnrecorded(h) ==
    /\ h \in handlers /\ h.at = "sent" /\ h.stage # 0
    /\ Fault
    /\ handlers' = (handlers \ {h}) \cup {[h EXCEPT !.at = "working"]}
    /\ UNCHANGED <<rows, here, saved, up, stops, stale, overlap>>

StageCompletes(h) ==
    /\ h \in handlers /\ h.at = "working"
    /\ UpdateStep(h.run, "completed")
    /\ results' = [results EXCEPT ![h.run][h.stage] = "done"]
    /\ handlers' = handlers \ {h}
    /\ Answer(h, "ok")
    /\ UNCHANGED <<saved, up, stops, stale, overlap, faults>>

(* The work raises, or the write of its completion does. *)
StageFails(h) ==
    /\ h \in handlers /\ h.at = "working"
    /\ UpdateStep(h.run, "failed")
    /\ handlers' = handlers \ {h}
    /\ Answer(h, "error")
    /\ UNCHANGED <<results, saved, up, stops, stale, overlap, faults>>

(* ... and then the write of the failure; scan does not even try that when   *)
(* its completion can not be written.                                        *)
StageFailsUnrecorded(h) ==
    /\ h \in handlers /\ h.at = "working"
    /\ Fault
    /\ handlers' = handlers \ {h}
    /\ Answer(h, "error")
    /\ UNCHANGED <<rows, saved, up, stops, stale, overlap>>

-----------------------------------------------------------------------------
(* The page. *)

Put(p, c, pg, k) ==
    /\ page' = [page EXCEPT ![p] = pg]
    /\ call' = [call EXCEPT ![p][c] = k]

Busy(p)        == \E c \in Call : call[p][c].doing # "idle"
NextCall(p, c) == /\ call[p][c].doing = "idle"
                  /\ \A d \in Call : d < c => call[p][d].doing # "idle"

Unused(r) == status[r] = "absent" /\ \A h \in handlers : h.run # r
Fresh(r)  == Unused(r) /\ \A q \in Run : q < r => ~Unused(q)

(* await postScan / postQuery / ...: fails at once while the server is down, *)
(* and without a run id the request is refused (422).                        *)
Post(p, c, pg, r, s) ==
    LET sent == up /\ r # None IN
    /\ Put(p, c, pg, [doing |-> "stage", req |-> r, stage |-> s,
                      ans |-> IF sent THEN "none" ELSE "error"])
    /\ handlers' = IF ~sent THEN handlers
                   ELSE handlers \cup {[run |-> r, stage |-> s, page |-> p,
                                        call |-> c, at |-> "sent"]}

(* The finally block: a requested stop is confirmed before it is forgotten.  *)
Finished(pg) == [pg EXCEPT !.running = FALSE, !.stopping = FALSE, !.stopRequested = FALSE]

PipelineEnds(p, c, pg) ==
    /\ IF pg.stopRequested /\ pg.run # None
       THEN Put(p, c, pg, [NoCall EXCEPT !.doing = "confirm", !.req = pg.run])
       ELSE Put(p, c, Finished(pg), NoCall)
    /\ UNCHANGED handlers

(* What runPipeline may send next when it comes to stage s: nothing scanned  *)
(* or no numbers ends it, nothing to download or to archive is skipped.      *)
Reaches(s) ==
    CASE s = Query    -> {Query, Over}
      [] s = Download -> {Download, Normalize}
      [] s = Archive  -> {Archive, Over}
      [] OTHER        -> {s}

(* resumeStart is looked at before each stage but archive.                   *)
Skip(pg, s) == IF s <= Normalize /\ pg.start > s THEN pg.start ELSE s

Proceed(p, c, pg, s) ==
    LET n == Skip(pg, s) IN
    IF n = 0 THEN \E r \in Run : Fresh(r) /\ Post(p, c, pg, r, 0)
    ELSE \E m \in Reaches(n) :
           IF m = Over THEN PipelineEnds(p, c, pg) ELSE Post(p, c, pg, pg.run, m)

(* What every runPipeline sets before its first stage, and what one that     *)
(* does not resume forgets.                                                  *)
Started(pg)   == [pg EXCEPT !.running = TRUE, !.offered = FALSE, !.stopping = FALSE,
                            !.stopRequested = FALSE]
Forgotten(pg) == [pg EXCEPT !.run = None, !.start = 0]

(* runPipeline(): scan answers with the id of the new run. *)
RunPipeline(p) ==
    /\ \E c \in Call : NextCall(p, c) /\ Proceed(p, c, Started(Forgotten(page[p])), 0)
    /\ overlap' = (overlap \/ Busy(p))
    /\ UNCHANGED <<rows, saved, up, stops, stale, faults>>

(* The start button is disabled while running, rerun in the history is not.  *)
StartClicked(p) == ~page[p].running /\ RunPipeline(p)
RerunClicked(p) == page[p].running /\ RunPipeline(p)

(* faulty: a stage that fails is sent again *)
StageRetried(p, c) ==
    LET k == call[p][c] IN
    /\ k.doing = "stage" /\ k.ans = "error"
    /\ Post(p, c, page[p], k.req, k.stage)
    /\ UNCHANGED <<rows, saved, up, stops, stale, overlap, faults>>

StageFailed(p, c) ==
    /\ call[p][c].doing = "stage" /\ call[p][c].ans = "error"
    /\ PipelineEnds(p, c, page[p])
    /\ UNCHANGED <<rows, saved, up, stops, stale, overlap, faults>>

(* The answer of scan is remembered, for restoreActiveRun and for polling.   *)
(* Then abortIfStopped, else on to the next stage, of the run in runId.      *)
StageAnswered(p, c) ==
    LET k  == call[p][c]
        pg == IF k.stage # 0 THEN page[p]
              ELSE [page[p] EXCEPT !.run = k.req] IN
    /\ k.doing = "stage" /\ k.ans = "ok"
    /\ saved' = IF k.stage = 0 THEN k.req ELSE saved
    /\ IF pg.stopRequested THEN PipelineEnds(p, c, pg) ELSE Proceed(p, c, pg, k.stage + 1)
    /\ UNCHANGED <<rows, up, stops, stale, overlap, faults>>

(* stopPipelineRun(runId, true): finish_stop. *)
StopConfirmed(p, c) ==
    /\ call[p][c].doing = "confirm"
    /\ IF up THEN Change(call[p][c].req, {"running", "stopping"}, "stopped")
       ELSE UNCHANGED rows
    /\ Put(p, c, Finished(page[p]), NoCall)
    /\ UNCHANGED <<handlers, saved, up, stops, stale, overlap, faults>>

Set(p, pg) == page' = [page EXCEPT ![p] = pg] /\ UNCHANGED call

(* requestStop: the request goes out, the server serves it, the page hears   *)
(* of it.  The finally block does not wait for that.                         *)
StopClicked(p) ==
    LET pg == page[p] IN
    /\ pg.running /\ pg.run # None /\ ~pg.stopping
    /\ pg.stop = None
    /\ up
    /\ Set(p, [pg EXCEPT !.stop = pg.run, !.stopping = TRUE])
    /\ UNCHANGED <<rows, handlers, saved, up, stops, stale, overlap, faults>>

StopServed(p) ==
    LET pg == page[p] IN
    /\ up
    /\ pg.stop # None /\ ~pg.served
    /\ Change(pg.stop, {"running"}, "stopping")
    /\ Set(p, [pg EXCEPT !.served = TRUE])
    /\ UNCHANGED <<handlers, saved, up, stops, stale, overlap, faults>>

StopAnswered(p) ==
    /\ page[p].served
    /\ Set(p, [page[p] EXCEPT !.stop = None, !.served = FALSE, !.stopRequested = TRUE])
    /\ UNCHANGED <<rows, handlers, saved, up, stops, stale, overlap, faults>>

-----------------------------------------------------------------------------
(* Restore and resume. *)

(* faulty: continue behind what is the current stage of the row *)
ResumeStartFromNext(res) ==
    LET found == {s \in Query..Normalize : res[s] = "done"} IN
    IF found = {} THEN 0 ELSE CHOOSE s \in found : \A u \in found : u <= s

(* faulty: the result of archive counts as well *)
ResumeStartFromAny(res) ==
    LET found == {s \in Stage : res[s] # "none"} IN
    IF found = {} THEN 0 ELSE 1 + CHOOSE s \in found : \A u \in found : u <= s

(* The stage behind the last one that has any result. *)
ResumeStartFrom(res) ==
    LET found == {s \in 0..Normalize : res[s] # "none"} IN
    IF found = {} THEN 0 ELSE 1 + CHOOSE s \in found : \A u \in found : u <= s

(* The page is loaded, or the component mounted: all refs are new, requests  *)
(* under way go on at the server.  restoreActiveRun looks for the saved run. *)
Mount(p) ==
    /\ page' = [page EXCEPT ![p] = NewPage]
    /\ call' = [call EXCEPT ![p] =
                  [c \in Call |-> IF c = 1 /\ saved # None
                                  THEN [NoCall EXCEPT !.doing = "restore", !.req = saved]
                                  ELSE NoCall]]
    /\ UNCHANGED <<rows, handlers, saved, up, stops, stale, overlap, faults>>

(* What the server says of it; the buttons work while the page waits.        *)
Restored(p, c) ==
    LET r  == call[p][c].req
        pg == page[p] IN
    /\ call[p][c].doing = "restore"
    /\ \/ /\ ~up \/ status[r] \notin {"running", "interrupted"}
          /\ Put(p, c, pg, NoCall)
          /\ saved' = None
       \/ /\ up /\ status[r] = "running"
          /\ Put(p, c, [pg EXCEPT !.run = r, !.running = TRUE], NoCall)
          /\ UNCHANGED saved
       \/ /\ up /\ status[r] = "interrupted"
          /\ Put(p, c, [pg EXCEPT !.run = r, !.running = FALSE, !.offered = TRUE,
                                  !.start = ResumeStartFrom(results[r])], NoCall)
          /\ UNCHANGED saved
    /\ UNCHANGED <<rows, handlers, up, stops, stale, overlap, faults>>

(* continueRun asks for the run in runId.  A second click while the first    *)
(* one waits meets a run that is not interrupted any more.                   *)
Continuing(p) ==
    /\ page[p].offered /\ page[p].run # None /\ up
    /\ \A c \in Call : call[p][c].doing # "resume"

Ask(p, ok) ==
    \E c \in Call :
        /\ NextCall(p, c)
        /\ Put(p, c, page[p], [NoCall EXCEPT !.doing = "resume", !.req = page[p].run,
                                             !.ans = IF ok THEN "ok" ELSE "error"])

(* faulty: resume() without AND status='interrupted' *)
ContinueClickedUnguarded(p) ==
    /\ Continuing(p)
    /\ status' = [status EXCEPT ![page[p].run] = "running"]
    /\ Ask(p, TRUE)
    /\ UNCHANGED <<results, handlers, saved, up, stops, stale, overlap, faults>>

(* The guarded UPDATE decides who resumes the run. *)
ContinueClicked(p) ==
    LET r  == page[p].run
        ok == status[r] = "interrupted" IN
    /\ Continuing(p)
    /\ Change(r, {"interrupted"}, "running")
    /\ Ask(p, ok)
    /\ stale' = (stale \/ (ok /\ page[p].start # ResumeStartFrom(results[r])))
    /\ overlap' = (overlap \/ Busy(p))
    /\ UNCHANGED <<handlers, saved, up, stops, faults>>

(* runPipeline(true), from resumeStart on; an error leaves the offer.        *)
Continued(p, c) ==
    LET k == call[p][c] IN
    /\ k.doing = "resume"
    /\ \/ k.ans = "ok" /\ Proceed(p, c, Started(page[p]), 0)
       \/ k.ans = "error" /\ Put(p, c, page[p], NoCall) /\ UNCHANGED handlers
    /\ UNCHANGED <<rows, saved, up, stops, stale, overlap, faults>>

(* A timer of startPolling finds the run completed or failed, between two    *)
(* stages as well, and forgets it.  Whether one runs is left open: it ends    *)
(* after that, after three failures and five seconds after a runPipeline, but *)
(* not when pollTimer was overwritten by the one of a rerun.                  *)
Poll(p) ==
    /\ saved # None /\ up
    /\ page[p].run # None /\ status[page[p].run] \in {"completed", "failed"}
    /\ saved' = None
    /\ UNCHANGED <<rows, handlers, here, up, stops, stale, overlap, faults>>

-----------------------------------------------------------------------------
(* A connection breaks while the stage goes on (a proxy's time limit).       *)
ConnectionBreaks(p, c) ==
    LET k == call[p][c] IN
    /\ k.doing = "stage" /\ k.ans = "none"
    /\ \E h \in handlers : h.page = p /\ h.call = c /\ h.run = k.req /\ h.at = "working"
    /\ Fault
    /\ Put(p, c, page[p], [k EXCEPT !.ans = "error"])
    /\ UNCHANGED <<rows, handlers, saved, up, stops, stale, overlap>>

(* The server process goes down, with its threads and connections.           *)
ServerDown ==
    /\ up
    /\ stops < MaxStops
    /\ up' = FALSE
    /\ stops' = stops + 1
    /\ handlers' = {}
    /\ page' = [p \in Page |->
                  LET lost == page[p].stop # None /\ ~page[p].served IN
                  [page[p] EXCEPT !.stop = IF lost THEN None ELSE @,
                                  !.stopping = @ /\ ~lost]]
    /\ call' = [p \in Page |-> [c \in Call |->
                  [call[p][c] EXCEPT !.ans =
                     IF call[p][c].doing = "stage" /\ @ = "none" THEN "error" ELSE @]]]
    /\ UNCHANGED <<rows, saved, stale, overlap, faults>>

MarkInterrupted ==
    status' = [r \in Run |-> IF status[r] \in {"running", "stopping"}
                             THEN "interrupted" ELSE status[r]]

AllHeard == \A p \in Page, c \in Call : call[p][c].ans = "none"

(* faulty: a second worker process starts beside the first *)
SecondWorkerStarts ==
    /\ AllHeard
    /\ MarkInterrupted
    /\ up' = TRUE
    /\ UNCHANGED <<results, handlers, here, saved, stops, stale, overlap, faults>>

(* The server starts and cleans up after the last process.  That takes       *)
(* seconds: by then the pages have heard of their broken connections.        *)
ServerStarts ==
    /\ ~up /\ AllHeard
    /\ MarkInterrupted
    /\ up' = TRUE
    /\ UNCHANGED <<results, handlers, here, saved, stops, stale, overlap, faults>>

(* ... and a start whose clean-up fails goes on, with a warning in the log.  *)
ServerStartsUncleaned ==
    /\ ~up /\ AllHeard
    /\ Fault
    /\ up' = TRUE
    /\ UNCHANGED <<rows, handlers, here, saved, stops, stale, overlap>>

-----------------------------------------------------------------------------
ServerStep(r) ==
    \E h \in handlers :
        /\ h.run = r
        /\ \/ EnterStage(h) \/ ScanRefused(h) \/ EnterStageUnrecorded(h)
           \/ StageCompletes(h) \/ StageFails(h) \/ StageFailsUnrecorded(h)

CallStep(p, c) ==
    \/ StageAnswered(p, c) \/ StageFailed(p, c) \/ StopConfirmed(p, c)
    \/ Restored(p, c) \/ Continued(p, c)

UserStep(p) ==
    \/ StartClicked(p) \/ RerunClicked(p)
    \/ StopClicked(p) \/ ContinueClicked(p) \/ Mount(p)

Next ==
    \/ \E r \in Run : ServerStep(r)
    \/ \E p \in Page :
         \/ \E c \in Call : CallStep(p, c) \/ ConnectionBreaks(p, c)
         \/ UserStep(p) \/ StopServed(p) \/ StopAnswered(p)
         \/ Poll(p)
    \/ ServerDown \/ ServerStarts \/ ServerStartsUncleaned

Spec == Init /\ [][Next]_vars

(* A request that reached the server is worked off, and a page goes on when  *)
(* it has its answer.  Nobody has to start the server or to click.           *)
Fairness ==
    /\ \A r \in Run : WF_vars(ServerStep(r))
    /\ \A p \in Page, c \in Call : WF_vars(CallStep(p, c))

FairSpec == Spec /\ Fairness

-----------------------------------------------------------------------------
TypeOK ==
    /\ status \in [Run -> RunStatus \cup {"absent"}]
    /\ results \in [Run -> [Stage -> ResultState]]
    /\ handlers \subseteq Handler
    /\ page \in [Page -> PageState]
    /\ call \in [Page -> [Call -> CallState]]
    /\ saved \in Run \cup {None}
    /\ {up, stale, overlap} \subseteq BOOLEAN
    /\ stops \in Nat /\ faults \in Nat

(* One request at a time works on a run, whatever tabs, reloads and restarts *)
(* do: the guarded UPDATE of resume() gives an interrupted run to one page.  *)
(* Only a page that began a run while it still awaited something (rerun, or  *)
(* a start before the restore has its answer) breaks it.                     *)
OneStageAtATime ==
    overlap \/ \A h1, h2 \in handlers : h1.run = h2.run => h1 = h2

(* A run the start marked interrupted is left alone until it is resumed:     *)
(* nothing of its old life still works on it.                                *)
InterruptedIsQuiet ==
    overlap \/ \A r \in Run : status[r] = "interrupted" => \A h \in handlers : h.run # r

(* A stage that was completed is not executed again (files would be moved    *)
(* twice), unless an outdated offer of another tab resumed the run, or a     *)
(* page began a run while it still awaited something.                        *)
NoStageRepeats ==
    overlap \/ stale \/ \A h \in handlers : results[h.run][h.stage] # "done"

(* A run that can be restored has been scanned: resuming it never starts a   *)
(* second run and leaves the first one running.                              *)
OfferContinuesTheRun ==
    overlap \/ \A p \in Page, c \in Call :
        page[p].offered \/ call[p][c].doing = "resume" => page[p].start # 0

(* No runPipeline awaits a stage for ever: it comes to its end, whatever     *)
(* fails, the one a rerun started beside another one as well.                *)
RunPipelineEnds ==
    \A p \in Page, c \in Call : []<>(call[p][c].doing # "stage")

=============================================================================
