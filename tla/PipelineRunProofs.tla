-------------------------- MODULE PipelineRunProofs --------------------------
(***************************************************************************)
(* Until a page begins a run while it still awaits something: one request  *)
(* at a time works on a run, and none on an interrupted run; no completed  *)
(* stage is executed again, and no resume begins before the scan.  For any *)
(* number of runs, pages, restarts and faults.                             *)
(***************************************************************************)
EXTENDS PipelineRun, TLAPS

-----------------------------------------------------------------------------
(* The shape of the steps, and the types they keep.                          *)

LEMMA StageRange == Stage = 0..4 /\ Over = 5 /\ Archive = 4 /\ Normalize = 3 /\ 0 \in Stage
BY DEF Stage, Over, Archive, Normalize

(* One page and one of its functions move, and nothing else does. *)
Moved(p, c, pg, k) ==
    /\ page' \in [Page -> PageState] /\ call' \in [Page -> [Call -> CallState]]
    /\ page'[p] = pg /\ call'[p][c] = k
    /\ \A q \in Page : q # p => page'[q] = page[q] /\ call'[q] = call[q]
    /\ \A d \in Call : d # c => call'[p][d] = call[p][d]

LEMMA PutShape ==
    ASSUME TypeOK, NEW p \in Page, NEW c \in Call, NEW pg \in PageState, NEW k \in CallState,
           Put(p, c, pg, k)
    PROVE  Moved(p, c, pg, k)
BY DEF TypeOK, Put, Moved

LEMMA SetShape ==
    ASSUME TypeOK, NEW p \in Page, NEW pg \in PageState, Set(p, pg)
    PROVE  Moved(p, 1, pg, call[p][1])
BY DEF TypeOK, Set, Moved

LEMMA NewTypes == NewPage \in PageState /\ NoCall \in CallState
BY StageRange DEF NewPage, PageState, NoCall, CallState

(* A call that awaits no stage, and holds nothing. *)
AtEnd(k) == k.doing \in {"idle", "confirm"} /\ k.ans = "none" /\ (k.doing = "confirm" => k.req \in Run)

(* A request is sent, or fails at once. *)
Sends(r, s) ==
    \/ handlers' = handlers
    \/ up /\ \E h \in Handler : h.run = r /\ h.stage = s /\ handlers' = handlers \cup {h}

(* A call that awaits stage s of run r, with its request under way or failed. *)
Awaits(k, r, s) ==
    k.doing = "stage" /\ k.req = r /\ k.stage = s /\ k.ans \in {"none", "error"}

(* The refs that only a restore, a start or an answer of scan sets. *)
SameOffer(g, pg) == g.run = pg.run /\ g.offered = pg.offered /\ g.start = pg.start

LEMMA PostShape ==
    ASSUME TypeOK, NEW p \in Page, NEW c \in Call, NEW pg \in PageState,
           NEW r \in Run \cup {None}, NEW s \in Stage, Post(p, c, pg, r, s)
    PROVE  /\ \E k \in CallState : Moved(p, c, pg, k) /\ Awaits(k, r, s)
           /\ Sends(r, s) /\ handlers' \subseteq Handler
<1> DEFINE a == IF up /\ r # None THEN "none" ELSE "error"
           k == [doing |-> "stage", req |-> r, stage |-> s, ans |-> a]
           h == [run |-> r, stage |-> s, page |-> p, call |-> c, at |-> "sent"]
<1>1. k \in CallState /\ Awaits(k, r, s)
  <2>1. a \in {"none", "error"}
    OBVIOUS
  <2> HIDE DEF a
  <2>2. QED
    BY <2>1 DEF CallState, Awaits
<1>2. Moved(p, c, pg, k)
  <2>1. Put(p, c, pg, k)
    BY DEF Post
  <2> HIDE DEF k
  <2>2. QED
    BY <1>1, <2>1, PutShape
<1>3. Sends(r, s) /\ handlers' \subseteq Handler
  <2>1. CASE up /\ r # None
    <3>1. h \in Handler /\ h.run = r /\ h.stage = s /\ handlers' = handlers \cup {h}
      BY <2>1 DEF Post, Handler
    <3> HIDE DEF h
    <3>2. QED
      BY <2>1, <3>1 DEF Sends, TypeOK
  <2>2. CASE ~(up /\ r # None)
    BY <2>2 DEF Post, Sends, TypeOK
  <2>3. QED
    BY <2>1, <2>2
<1> HIDE DEF k
<1>4. QED
  BY <1>1, <1>2, <1>3

LEMMA EndsShape ==
    ASSUME TypeOK, NEW p \in Page, NEW c \in Call, NEW pg \in PageState, PipelineEnds(p, c, pg)
    PROVE  /\ \E g \in PageState, k \in CallState :
                 Moved(p, c, g, k) /\ AtEnd(k) /\ SameOffer(g, pg)
           /\ handlers' = handlers
<1>1. handlers' = handlers
  BY DEF PipelineEnds
<1>2. CASE pg.stopRequested /\ pg.run # None
  <2> DEFINE k == [NoCall EXCEPT !.doing = "confirm", !.req = pg.run]
  <2>1. k \in CallState /\ AtEnd(k)
    BY <1>2, NewTypes DEF PageState, CallState, NoCall, AtEnd
  <2>2. Put(p, c, pg, k)
    BY <1>2 DEF PipelineEnds
  <2> HIDE DEF k
  <2>3. QED
    BY <1>1, <2>1, <2>2, PutShape DEF SameOffer
<1>3. CASE ~(pg.stopRequested /\ pg.run # None)
  <2>1. Finished(pg) \in PageState /\ SameOffer(Finished(pg), pg)
    BY DEF Finished, PageState, SameOffer
  <2>2. NoCall \in CallState /\ AtEnd(NoCall)
    BY NewTypes DEF NoCall, AtEnd
  <2>3. Put(p, c, Finished(pg), NoCall)
    BY <1>3 DEF PipelineEnds
  <2>4. QED
    BY <1>1, <2>1, <2>2, <2>3, PutShape
<1>4. QED
  BY <1>2, <1>3

(* runPipeline at stage s: it ends, scans a run that is not used, or goes on  *)
(* with runId at stage s or behind it, and not before resumeStart.            *)
LEMMA ProceedShape ==
    ASSUME TypeOK, NEW p \in Page, NEW c \in Call, NEW pg \in PageState, NEW s \in 0..5,
           Proceed(p, c, pg, s)
    PROVE  /\ handlers' \subseteq Handler
           /\ \E g \in PageState, k \in CallState :
                /\ Moved(p, c, g, k) /\ SameOffer(g, pg)
                /\ \/ AtEnd(k) /\ handlers' = handlers
                   \/ \E r \in Run : Fresh(r) /\ Awaits(k, r, 0) /\ Sends(r, 0) /\ s = 0 /\ pg.start = 0
                   \/ \E n \in Stage : /\ n # 0 /\ n >= s /\ (s = 0 => n >= pg.start)
                                       /\ ~(s = 0 /\ pg.start = 0)
                                       /\ Awaits(k, pg.run, n) /\ Sends(pg.run, n)
<1> DEFINE n == Skip(pg, s)
<1>1. /\ n \in 0..5 /\ n >= s /\ (s = 0 => n >= pg.start)
      /\ n = 0 <=> s = 0 /\ pg.start = 0
  BY StageRange DEF Skip, PageState
<1>2. pg.run \in Run \cup {None} /\ SameOffer(pg, pg) /\ 0 \in Stage
  BY StageRange DEF PageState, SameOffer
<1>3. CASE n = 0
  <2>1. PICK r \in Run : Fresh(r) /\ Post(p, c, pg, r, 0)
    BY <1>3 DEF Proceed
  <2>2. QED
    BY <1>1, <1>2, <1>3, <2>1, PostShape
<1>4. CASE n # 0
  <2>1. PICK m \in Reaches(n) :
          IF m = Over THEN PipelineEnds(p, c, pg) ELSE Post(p, c, pg, pg.run, m)
    BY <1>4 DEF Proceed
  <2>2. m \in 0..5 /\ m >= n /\ m # 0
    BY <1>1, <1>4, <2>1 DEF Reaches, Query, Download, Normalize, Archive, Over
  <2>3. CASE m = Over
    BY <2>1, <2>3, EndsShape DEF TypeOK
  <2>4. CASE m # Over
    <3>1. m \in Stage /\ m >= s /\ (s = 0 => m >= pg.start)
      BY <1>1, <2>2, <2>4, StageRange DEF PageState
    <3>2. Post(p, c, pg, pg.run, m)
      BY <2>1, <2>4
    <3>3. QED
      BY <1>1, <1>2, <1>4, <2>2, <3>1, <3>2, PostShape
  <2>5. QED
    BY <2>3, <2>4
<1> HIDE DEF n
<1>5. QED
  BY <1>3, <1>4

LEMMA StartedTypes ==
    ASSUME NEW pg \in PageState
    PROVE  /\ Started(pg) \in PageState /\ Forgotten(pg) \in PageState
           /\ Started(pg).run = pg.run /\ Started(pg).start = pg.start /\ ~Started(pg).offered
           /\ Started(Forgotten(pg)) \in PageState /\ Started(Forgotten(pg)).start = 0
           /\ Started(Forgotten(pg)).run = None /\ ~Started(Forgotten(pg)).offered
BY StageRange DEF Started, Forgotten, PageState

(* An answer reaches the call that waits for it, and nothing else. *)
LEMMA AnswerShape ==
    ASSUME TypeOK, NEW h \in Handler, NEW a \in {"ok", "error"}, Answer(h, a)
    PROVE  /\ page' = page /\ call' \in [Page -> [Call -> CallState]]
           /\ \A q \in Page, d \in Call :
                 \/ call'[q][d] = call[q][d]
                 \/ /\ call[q][d].doing = "stage" /\ call[q][d].req = h.run
                    /\ call[q][d].stage = h.stage /\ call[q][d].ans = "none"
                    /\ call'[q][d].doing = "stage" /\ call'[q][d].req = h.run
                    /\ call'[q][d].stage = h.stage /\ call'[q][d].ans = a
                    /\ q = h.page /\ d = h.call
<1> DEFINE k == call[h.page][h.call]
           n == IF k.doing = "stage" /\ k.req = h.run /\ k.stage = h.stage /\ k.ans = "none"
                THEN [k EXCEPT !.ans = a] ELSE k
<1>1. h.page \in Page /\ h.call \in Call /\ k \in CallState
  BY DEF Handler, TypeOK
<1>2. /\ n \in CallState
      /\ n = k \/ /\ k.doing = "stage" /\ k.req = h.run /\ k.stage = h.stage /\ k.ans = "none"
                  /\ n.doing = "stage" /\ n.req = h.run /\ n.stage = h.stage /\ n.ans = a
  BY <1>1 DEF CallState
<1>3. call' = [call EXCEPT ![h.page][h.call] = n] /\ page' = page
  BY DEF Answer
<1> HIDE DEF n
<1>4. QED
  BY <1>1, <1>2, <1>3 DEF TypeOK

-----------------------------------------------------------------------------
(* Types. *)

RowsOK ==
    /\ status \in [Run -> RunStatus \cup {"absent"}]
    /\ results \in [Run -> [Stage -> ResultState]]

LEMMA UpdateStepRows ==
    ASSUME RowsOK, NEW r \in Run, NEW st \in RunStatus, UpdateStep(r, st)
    PROVE  /\ status' \in [Run -> RunStatus \cup {"absent"}] /\ status'[r] = st
           /\ \A q \in Run : q # r => status'[q] = status[q]
BY DEF RowsOK, UpdateStep

LEMMA ChangeRows ==
    ASSUME RowsOK, NEW r, NEW from, NEW to \in RunStatus, Change(r, from, to)
    PROVE  /\ RowsOK' /\ results' = results
           /\ \A q \in Run : status'[q] # status[q] => q = r /\ status[q] \in from /\ status'[q] = to
BY DEF RowsOK, Change

LEMMA MarkedRows ==
    ASSUME RowsOK, MarkInterrupted
    PROVE  status' \in [Run -> RunStatus \cup {"absent"}]
BY DEF RowsOK, MarkInterrupted, RunStatus

(* Resuming begins at a stage, whatever the results are. *)
LEMMA ResumeStartType ==
    ASSUME NEW res
    PROVE  ResumeStartFrom(res) \in Stage
<1> DEFINE found == {s \in 0..Normalize : res[s] # "none"}
<1>1. CASE found = {}
  BY <1>1, StageRange DEF ResumeStartFrom
<1>2. CASE found # {}
  <2>1. found \subseteq {0, 1, 2, 3}
    BY StageRange
  <2>2. \E s \in found : \A u \in found : u <= s
    BY <1>2, <2>1
  <2>3. (CHOOSE s \in found : \A u \in found : u <= s) \in found
    BY <2>2
  <2>4. \A s \in {0, 1, 2, 3} : 1 + s \in Stage
    BY StageRange
  <2>5. QED
    BY <1>2, <2>1, <2>3, <2>4 DEF ResumeStartFrom
<1>3. QED
  BY <1>1, <1>2

(* The steps of the server on a stage request: what changes of the row, and  *)
(* how the request goes on or is answered.                                   *)
LEMMA ServerShape ==
    ASSUME TypeOK, NEW r \in Run, ServerStep(r)
    PROVE  /\ UNCHANGED <<page, saved, up, stops, stale, overlap>> /\ faults' \in Nat
           /\ RowsOK'
           /\ \E h \in handlers :
                /\ h.run = r
                /\ \/ /\ \E g \in Handler : /\ g.run = r /\ g.stage = h.stage
                                            /\ handlers' = (handlers \ {h}) \cup {g}
                      /\ call' = call
                      /\ \/ results' = results
                         \/ /\ results' = [results EXCEPT ![r][h.stage] = "entered"]
                            /\ h.stage # 0
                      /\ status' = status \/ UpdateStep(r, "running")
                   \/ /\ handlers' = handlers \ {h} /\ Answer(h, "error")
                      /\ results' = results /\ (status' = status \/ UpdateStep(r, "failed"))
                   \/ /\ handlers' = handlers \ {h} /\ Answer(h, "ok")
                      /\ results' = [results EXCEPT ![r][h.stage] = "done"]
                      /\ UpdateStep(r, "completed")
<1>1. PICK h \in handlers :
        /\ h.run = r
        /\ \/ EnterStage(h) \/ ScanRefused(h) \/ EnterStageUnrecorded(h)
           \/ StageCompletes(h) \/ StageFails(h) \/ StageFailsUnrecorded(h)
  BY DEF ServerStep
<1>2. h \in Handler /\ h.stage \in Stage /\ RowsOK
  BY DEF TypeOK, Handler, RowsOK
<1> DEFINE g == [h EXCEPT !.at = "working"]
<1>3. g \in Handler /\ g.run = r /\ g.stage = h.stage
  BY <1>1, <1>2 DEF Handler
<1> HIDE DEF g
<1> USE DEF rows, here, TypeOK, Fault, RunStatus, ResultState
<1>4. CASE EnterStage(h)
  <2>1. /\ UpdateStep(r, "running") /\ handlers' = (handlers \ {h}) \cup {g}
        /\ results' = [results EXCEPT ![r][h.stage] = IF h.stage = 0 THEN @ ELSE "entered"]
        /\ UNCHANGED <<page, call, saved, up, stops, stale, overlap, faults>>
    BY <1>1, <1>4 DEF EnterStage, g
  <2>2. /\ results' \in [Run -> [Stage -> ResultState]]
        /\ \/ results' = results
           \/ /\ results' = [results EXCEPT ![r][h.stage] = "entered"]
              /\ h.stage # 0
    <3>1. CASE h.stage = 0
      BY <1>2, <2>1, <3>1 DEF RowsOK
    <3>2. CASE h.stage # 0
      BY <1>2, <2>1, <3>2 DEF RowsOK
    <3>3. QED
      BY <3>1, <3>2
  <2>3. status' \in [Run -> RunStatus \cup {"absent"}]
    BY <1>2, <2>1, UpdateStepRows
  <2>4. QED
    BY <1>1, <1>3, <2>1, <2>2, <2>3 DEF RowsOK
<1>5. CASE EnterStageUnrecorded(h)
  <2>1. /\ handlers' = (handlers \ {h}) \cup {g} /\ faults' \in Nat
        /\ UNCHANGED <<status, results, page, call, saved, up, stops, stale, overlap>>
    BY <1>5 DEF EnterStageUnrecorded, g
  <2>2. QED
    BY <1>1, <1>2, <1>3, <2>1 DEF RowsOK
<1>6. CASE StageCompletes(h)
  <2>1. /\ UpdateStep(r, "completed") /\ handlers' = handlers \ {h} /\ Answer(h, "ok")
        /\ results' = [results EXCEPT ![r][h.stage] = "done"]
        /\ UNCHANGED <<saved, up, stops, stale, overlap, faults>>
    BY <1>1, <1>6 DEF StageCompletes
  <2>2. results' \in [Run -> [Stage -> ResultState]]
    BY <1>2, <2>1 DEF RowsOK
  <2>3. status' \in [Run -> RunStatus \cup {"absent"}]
    BY <1>2, <2>1, UpdateStepRows
  <2>4. page' = page
    BY <2>1 DEF Answer
  <2>5. QED
    BY <1>1, <2>1, <2>2, <2>3, <2>4 DEF RowsOK
<1>7. CASE StageFails(h)
  <2>1. /\ UpdateStep(r, "failed") /\ handlers' = handlers \ {h} /\ Answer(h, "error")
        /\ UNCHANGED <<results, saved, up, stops, stale, overlap, faults>>
    BY <1>1, <1>7 DEF StageFails
  <2>2. status' \in [Run -> RunStatus \cup {"absent"}]
    BY <1>2, <2>1, UpdateStepRows
  <2>3. page' = page
    BY <2>1 DEF Answer
  <2>4. QED
    BY <1>1, <1>2, <2>1, <2>2, <2>3 DEF RowsOK
<1>8. CASE ScanRefused(h) \/ StageFailsUnrecorded(h)
  <2>1. /\ handlers' = handlers \ {h} /\ Answer(h, "error") /\ faults' \in Nat
        /\ UNCHANGED <<status, results, saved, up, stops, stale, overlap>>
    BY <1>8 DEF ScanRefused, StageFailsUnrecorded
  <2>2. page' = page
    BY <2>1 DEF Answer
  <2>3. QED
    BY <1>1, <1>2, <2>1, <2>2 DEF RowsOK
<1>9. QED
  BY <1>1, <1>4, <1>5, <1>6, <1>7, <1>8

LEMMA ServerTypes ==
    ASSUME TypeOK, NEW r \in Run, ServerStep(r)
    PROVE  TypeOK'
<1>1. PICK h \in handlers :
        \/ \E g \in Handler : handlers' = (handlers \ {h}) \cup {g} /\ call' = call
        \/ handlers' = handlers \ {h} /\ \E a \in {"ok", "error"} : Answer(h, a)
  BY ServerShape
<1>2. h \in Handler
  BY DEF TypeOK
<1>3. handlers' \subseteq Handler /\ call' \in [Page -> [Call -> CallState]]
  BY <1>1, <1>2, AnswerShape DEF TypeOK
<1>4. QED
  BY <1>3, ServerShape DEF TypeOK, RowsOK

(* A call that gets its answer or its end. *)
LEMMA CallTypes ==
    ASSUME TypeOK, NEW p \in Page, NEW c \in Call, CallStep(p, c)
    PROVE  TypeOK'
<1> DEFINE Ok == /\ page' \in [Page -> PageState] /\ call' \in [Page -> [Call -> CallState]]
                 /\ handlers' \subseteq Handler
<1>0. /\ page[p] \in PageState /\ call[p][c] \in CallState /\ RowsOK
      /\ UNCHANGED <<up, stops, stale, overlap, faults>>
  BY DEF TypeOK, RowsOK, CallStep, StageAnswered, StageFailed, StopConfirmed, Restored, Continued
<1>1. CASE StageAnswered(p, c)
  <2> DEFINE k  == call[p][c]
             pg == IF k.stage # 0 THEN page[p] ELSE [page[p] EXCEPT !.run = k.req]
  <2>1. pg \in PageState /\ k.stage + 1 \in 0..5 /\ k.req \in Run \cup {None}
    BY <1>0, StageRange DEF PageState, CallState
  <2>2. /\ UNCHANGED <<status, results>> /\ saved' = IF k.stage = 0 THEN k.req ELSE saved
        /\ IF pg.stopRequested THEN PipelineEnds(p, c, pg) ELSE Proceed(p, c, pg, k.stage + 1)
    BY <1>1 DEF StageAnswered, rows
  <2> HIDE DEF pg
  <2>3. Ok
    BY <2>1, <2>2, EndsShape, ProceedShape DEF Moved, TypeOK
  <2>4. QED
    BY <1>0, <2>1, <2>2, <2>3 DEF TypeOK
<1>2. CASE StageFailed(p, c)
  <2>1. Ok
    BY <1>0, <1>2, EndsShape DEF StageFailed, Moved, TypeOK
  <2>2. QED
    BY <1>0, <1>2, <2>1 DEF StageFailed, TypeOK, rows
<1>3. CASE StopConfirmed(p, c)
  <2>1. Finished(page[p]) \in PageState /\ NoCall \in CallState
    BY <1>0, NewTypes DEF Finished, PageState
  <2>2. Ok
    BY <1>3, <2>1, PutShape DEF StopConfirmed, Moved, TypeOK
  <2>3. RowsOK' /\ saved' = saved
    BY <1>0, <1>3, ChangeRows DEF StopConfirmed, RunStatus, rows, RowsOK
  <2>4. QED
    BY <1>0, <2>2, <2>3 DEF TypeOK, RowsOK
<1>4. CASE Restored(p, c)
  <2> DEFINE r == call[p][c].req
             a == [page[p] EXCEPT !.run = r, !.running = TRUE]
             b == [page[p] EXCEPT !.run = r, !.running = FALSE, !.offered = TRUE,
                                  !.start = ResumeStartFrom(results[r])]
  <2>1. a \in PageState /\ b \in PageState /\ NoCall \in CallState
    BY <1>0, NewTypes, ResumeStartType DEF PageState, CallState
  <2>2. /\ \E g \in {page[p], a, b} : Put(p, c, g, NoCall)
        /\ saved' \in {saved, None} /\ UNCHANGED <<status, results, handlers>>
    BY <1>4 DEF Restored, rows
  <2> HIDE DEF a, b
  <2>3. Ok
    BY <1>0, <2>1, <2>2, PutShape DEF Moved, TypeOK
  <2>4. QED
    BY <1>0, <2>2, <2>3 DEF TypeOK
<1>5. CASE Continued(p, c)
  <2>1. Started(page[p]) \in PageState /\ NoCall \in CallState
    BY <1>0, StartedTypes, NewTypes
  <2>2. Ok
    <3>1. CASE Proceed(p, c, Started(page[p]), 0)
      BY <2>1, <3>1, ProceedShape DEF Moved
    <3>2. CASE Put(p, c, page[p], NoCall) /\ UNCHANGED handlers
      BY <1>0, <2>1, <3>2, PutShape DEF Moved, TypeOK
    <3>3. QED
      BY <1>5, <3>1, <3>2 DEF Continued
  <2>3. QED
    BY <1>0, <1>5, <2>2 DEF Continued, TypeOK, rows
<1>6. QED
  BY <1>1, <1>2, <1>3, <1>4, <1>5 DEF CallStep

(* A click, a load of the page, a stop served or heard of, a broken          *)
(* connection, a poll.                                                       *)
LEMMA PageTypes ==
    ASSUME TypeOK, NEW p \in Page,
           \/ UserStep(p) \/ StopServed(p) \/ StopAnswered(p) \/ Poll(p)
           \/ \E c \in Call : ConnectionBreaks(p, c)
    PROVE  TypeOK'
<1> DEFINE Ok == /\ page' \in [Page -> PageState] /\ call' \in [Page -> [Call -> CallState]]
                 /\ handlers' \subseteq Handler
<1>0. /\ page[p] \in PageState /\ RowsOK
      /\ \A c \in Call : call[p][c] \in CallState
  BY DEF TypeOK, RowsOK
<1>1. CASE StartClicked(p) \/ RerunClicked(p)
  <2>1. Started(Forgotten(page[p])) \in PageState
    BY <1>0, StartedTypes
  <2>2. RunPipeline(p)
    BY <1>1 DEF StartClicked, RerunClicked
  <2>3. Ok
    BY <2>1, <2>2, ProceedShape DEF RunPipeline, Moved
  <2>4. QED
    BY <2>2, <2>3 DEF RunPipeline, TypeOK, rows
<1>2. CASE StopClicked(p) \/ StopAnswered(p)
  <2> DEFINE a == [page[p] EXCEPT !.stop = page[p].run, !.stopping = TRUE]
             b == [page[p] EXCEPT !.stop = None, !.served = FALSE, !.stopRequested = TRUE]
  <2>1. a \in PageState /\ b \in PageState
    BY <1>0 DEF PageState
  <2>2. /\ Set(p, a) \/ Set(p, b)
        /\ UNCHANGED <<rows, handlers, saved, up, stops, stale, overlap, faults>>
    BY <1>2 DEF StopClicked, StopAnswered
  <2> HIDE DEF a, b
  <2>3. Ok
    BY <2>1, <2>2, SetShape DEF Moved, TypeOK
  <2>4. QED
    BY <2>2, <2>3 DEF TypeOK, rows
<1>3. CASE StopServed(p)
  <2> DEFINE a == [page[p] EXCEPT !.served = TRUE]
  <2>1. a \in PageState
    BY <1>0 DEF PageState
  <2>2. /\ Set(p, a) /\ Change(page[p].stop, {"running"}, "stopping")
        /\ UNCHANGED <<handlers, saved, up, stops, stale, overlap, faults>>
    BY <1>3 DEF StopServed
  <2> HIDE DEF a
  <2>3. Ok
    BY <2>1, <2>2, SetShape DEF Moved, TypeOK
  <2>4. RowsOK'
    BY <1>0, <2>2, ChangeRows DEF RunStatus
  <2>5. QED
    BY <2>2, <2>3, <2>4 DEF TypeOK, RowsOK
<1>4. CASE ContinueClicked(p)
  <2> DEFINE k(a) == [NoCall EXCEPT !.doing = "resume", !.req = page[p].run, !.ans = a]
  <2>1. \A a \in {"ok", "error"} : k(a) \in CallState
    BY <1>0, NewTypes DEF CallState, PageState
  <2>2. \E c \in Call : \E a \in {"ok", "error"} : Put(p, c, page[p], k(a))
    BY <1>4 DEF ContinueClicked, Ask
  <2> HIDE DEF k
  <2>3. Ok
    BY <1>0, <1>4, <2>1, <2>2, PutShape DEF ContinueClicked, Moved, TypeOK
  <2>4. RowsOK' /\ {stale', overlap'} \subseteq BOOLEAN
    BY <1>0, <1>4, ChangeRows DEF ContinueClicked, RunStatus, TypeOK
  <2>5. QED
    BY <1>4, <2>3, <2>4 DEF ContinueClicked, TypeOK, RowsOK
<1>5. CASE Mount(p)
  <2>1. saved # None => [NoCall EXCEPT !.doing = "restore", !.req = saved] \in CallState
    BY NewTypes DEF CallState, TypeOK
  <2>2. Ok
    BY <1>5, <2>1, NewTypes DEF Mount, TypeOK
  <2>3. QED
    BY <1>5, <2>2 DEF Mount, TypeOK, rows
<1>6. CASE Poll(p)
  BY <1>6 DEF Poll, TypeOK, rows, here
<1>7. ASSUME NEW c \in Call, ConnectionBreaks(p, c) PROVE TypeOK'
  <2> DEFINE k == [call[p][c] EXCEPT !.ans = "error"]
  <2>1. k \in CallState
    BY <1>0 DEF CallState
  <2>2. Put(p, c, page[p], k) /\ faults' \in Nat
        /\ UNCHANGED <<rows, handlers, saved, up, stops, stale, overlap>>
    BY <1>7 DEF ConnectionBreaks, Fault, TypeOK
  <2> HIDE DEF k
  <2>3. Ok
    BY <1>0, <2>1, <2>2, PutShape DEF Moved, TypeOK
  <2>4. QED
    BY <2>2, <2>3 DEF TypeOK, rows
<1>8. QED
  BY <1>1, <1>2, <1>3, <1>4, <1>5, <1>6, <1>7 DEF UserStep

(* The server goes down: a request no answer came to has failed. *)
LEMMA DownShape ==
    ASSUME TypeOK, ServerDown
    PROVE  /\ handlers' = {} /\ up' = FALSE /\ stops' \in Nat
           /\ UNCHANGED <<status, results, saved, stale, overlap, faults>>
           /\ page' \in [Page -> PageState] /\ call' \in [Page -> [Call -> CallState]]
           /\ \A p \in Page : SameOffer(page'[p], page[p])
           /\ \A p \in Page, c \in Call :
                 /\ call'[p][c].doing = call[p][c].doing
                 /\ call'[p][c].req = call[p][c].req /\ call'[p][c].stage = call[p][c].stage
                 /\ \/ call'[p][c].ans = call[p][c].ans
                    \/ call'[p][c].ans = "error" /\ call[p][c].doing = "stage"
<1> DEFINE lost(pg) == pg.stop # None /\ ~pg.served
           s(pg)    == IF lost(pg) THEN None ELSE pg.stop
           t(pg)    == pg.stopping /\ ~lost(pg)
           g(pg)    == [pg EXCEPT !.stop = s(pg), !.stopping = t(pg)]
           a(k)     == IF k.doing = "stage" /\ k.ans = "none" THEN "error" ELSE k.ans
           n(k)     == [k EXCEPT !.ans = a(k)]
<1>1. /\ page' = [p \in Page |-> g(page[p])]
      /\ call' = [p \in Page |-> [c \in Call |-> n(call[p][c])]]
      /\ handlers' = {} /\ up' = FALSE /\ stops' = stops + 1
      /\ UNCHANGED <<rows, saved, stale, overlap, faults>>
  BY DEF ServerDown
<1>2. ASSUME NEW pg \in PageState PROVE g(pg) \in PageState /\ SameOffer(g(pg), pg)
  <2>1. s(pg) \in Run \cup {None} /\ t(pg) \in BOOLEAN
    BY DEF PageState
  <2> HIDE DEF s, t
  <2>2. QED
    BY <2>1 DEF PageState, SameOffer
<1>3. ASSUME NEW k \in CallState
      PROVE  /\ n(k) \in CallState /\ n(k).doing = k.doing /\ n(k).req = k.req
             /\ n(k).stage = k.stage
             /\ n(k).ans = k.ans \/ (n(k).ans = "error" /\ k.doing = "stage")
  BY DEF CallState
<1> HIDE DEF g, n
<1>4. QED
  BY <1>1, <1>2, <1>3 DEF TypeOK, rows

(* ... and starts again. *)
LEMMA StartShape ==
    ASSUME TypeOK, ServerStarts \/ ServerStartsUncleaned
    PROVE  /\ UNCHANGED <<results, handlers, page, call, saved, stops, stale, overlap>>
           /\ up' = TRUE /\ faults' \in Nat /\ AllHeard /\ ~up
           /\ status' \in [Run -> RunStatus \cup {"absent"}]
           /\ \A r \in Run : \/ status'[r] = status[r]
                             \/ status[r] \in {"running", "stopping"}
<1>1. RowsOK
  BY DEF TypeOK, RowsOK
<1>2. CASE ServerStarts
  BY <1>1, <1>2, MarkedRows DEF ServerStarts, MarkInterrupted, TypeOK, here
<1>3. CASE ServerStartsUncleaned
  BY <1>1, <1>3 DEF ServerStartsUncleaned, TypeOK, rows, here, Fault
<1>4. QED
  BY <1>2, <1>3

LEMMA InitTypes == Init => TypeOK
<1> SUFFICES ASSUME Init PROVE TypeOK
  OBVIOUS
<1>1. /\ status \in [Run -> RunStatus \cup {"absent"}]
      /\ results \in [Run -> [Stage -> ResultState]]
  BY DEF Init, ResultState
<1>2. page \in [Page -> PageState] /\ call \in [Page -> [Call -> CallState]]
  BY NewTypes DEF Init
<1>3. QED
  BY <1>1, <1>2 DEF Init, TypeOK

LEMMA StepTypes == TypeOK /\ [Next]_vars => TypeOK'
<1> SUFFICES ASSUME TypeOK, [Next]_vars PROVE TypeOK'
  OBVIOUS
<1>1. CASE \E r \in Run : ServerStep(r)
  BY <1>1, ServerTypes
<1>2. CASE \E p \in Page, c \in Call : CallStep(p, c)
  BY <1>2, CallTypes
<1>3. CASE \E p \in Page : \/ UserStep(p) \/ StopServed(p) \/ StopAnswered(p) \/ Poll(p)
                           \/ \E c \in Call : ConnectionBreaks(p, c)
  BY <1>3, PageTypes
<1>4. CASE ServerDown
  BY <1>4, DownShape DEF TypeOK
<1>5. CASE ServerStarts \/ ServerStartsUncleaned
  BY <1>5, StartShape DEF TypeOK
<1>6. CASE UNCHANGED vars
  BY <1>6 DEF vars, rows, here, TypeOK
<1>7. QED
  BY <1>1, <1>2, <1>3, <1>4, <1>5, <1>6 DEF Next

(* The rows, the requests and every page keep their types, with any number   *)
(* of functions of a page awaiting: no order of answers, stops and restarts  *)
(* makes runPipeline ask for a stage that is not.                            *)
THEOREM RunTypeCorrect == Spec => []TypeOK
BY InitTypes, StepTypes, PTL DEF Spec

-----------------------------------------------------------------------------
(* While no page began a run as it awaited something, a page awaits one      *)
(* thing at a time, in its first function.                                   *)
Me(p) == call[p][1]

Single(p) == \A c \in Call : c # 1 => call[p][c].doing = "idle"

(* What a page awaits is about the run in its runId. *)
Fits(pg, k) ==
    /\ k.ans # "none" => k.doing \in {"stage", "resume"}
    /\ k.doing \in {"restore", "resume", "stage", "confirm"} => k.req \in Run
    /\ k.doing = "resume" \/ (k.doing = "stage" /\ k.stage # 0) => pg.run = k.req

(* A page that may send the next request of run r: its stage was answered,   *)
(* or its resume was granted.                                                *)
Holds(k, r) == k.ans = "ok" /\ k.req = r

(* A run has one request or one page that holds it, never both, and neither  *)
(* while it is interrupted; a server that is down works on nothing.          *)
HoldInv ==
    /\ \A h1, h2 \in handlers : h1.run = h2.run => h1 = h2
    /\ \A h \in handlers : \A p \in Page : ~Holds(Me(p), h.run)
    /\ \A r \in Run : \A p, q \in Page : Holds(Me(p), r) /\ Holds(Me(q), r) => p = q
    /\ \A h \in handlers : status[h.run] # "interrupted"
    /\ \A r \in Run : \A p \in Page :
          status[r] \in {"interrupted", "absent"} => ~Holds(Me(p), r)
    /\ ~up => handlers = {}

(* No stage from s on is completed. *)
Clean(r, s) == \A u \in Stage : u >= s => results[r][u] # "done"

(* A page that goes on asks for nothing that is completed.                   *)
Ahead(pg, k) ==
    /\ k.doing = "stage" /\ k.ans = "ok" => Clean(k.req, k.stage + 1)
    /\ k.doing = "resume" /\ k.ans = "ok" => Clean(k.req, pg.start)

(* A run whose archive is done is over for good, as its row says, so that no *)
(* restart interrupts it.                                                    *)
EndsCompleted(r) ==
    /\ results[r][Archive] = "done" => status[r] = "completed"
    /\ status[r] = "absent" => Clean(r, 0)

Progress ==
    /\ \A h \in handlers : Clean(h.run, h.stage)
    /\ \A p \in Page : Ahead(page[p], Me(p))
    /\ \A r \in Run : EndsCompleted(r)

Scanned(r) == results[r][0] = "done"

(* Only a run that was scanned is restored or offered. *)
Restores(pg, k) ==
    /\ pg.offered \/ k.doing = "resume" => pg.start # 0
    /\ k.doing = "restore" => Scanned(k.req)
    /\ k.doing = "stage" /\ k.ans = "ok" /\ k.stage = 0 => Scanned(k.req)

Sound ==
    /\ \A p \in Page : Single(p) /\ Fits(page[p], Me(p)) /\ Restores(page[p], Me(p))
    /\ HoldInv
    /\ stale \/ Progress
    /\ saved # None => Scanned(saved)

IInv == TypeOK /\ (overlap \/ Sound)

LEMMA FirstCall == 1 \in Call /\ \A c \in Call : c \in Nat /\ c >= 1
BY PipelineRunAssumption

(* The page's only call is what waits. *)
LEMMA OnlyCall ==
    ASSUME Sound, NEW p \in Page, NEW c \in Call, call[p][c].doing # "idle"
    PROVE  c = 1
BY DEF Sound, Single

LEMMA NextIsFirst ==
    ASSUME NEW p \in Page, NEW c \in Call, NextCall(p, c), ~Busy(p)
    PROVE  c = 1
BY FirstCall DEF NextCall, Busy

(* A request of page p for a run that it holds or that nobody used, or a     *)
(* step of p that neither sends nor takes anything.                          *)
LEMMA HoldKept ==
    ASSUME TypeOK, HoldInv, NEW p \in Page,
           \A q \in Page : q # p => Me(q)' = Me(q),
           \A r \in Run : Holds(Me(p)', r) => Holds(Me(p), r),
           up' = up,
           \A r \in Run : status'[r] # status[r] => status'[r] \notin {"interrupted", "absent"},
           \/ handlers' = handlers
           \/ /\ up /\ status' = status /\ \A r \in Run : ~Holds(Me(p)', r)
              /\ \E h \in Handler : /\ handlers' = handlers \cup {h}
                                    /\ Holds(Me(p), h.run) \/ Unused(h.run)
    PROVE  HoldInv'
<1> USE DEF Handler
<1>0. handlers \subseteq Handler
  BY DEF TypeOK
<1>1. \A q \in Page, r \in Run : Holds(Me(q)', r) => Holds(Me(q), r)
  OBVIOUS
<1>2. CASE handlers' = handlers
  BY <1>0, <1>1, <1>2 DEF HoldInv
<1>3. ASSUME NEW g \in Handler, handlers' = handlers \cup {g}, up, status' = status,
             \A r \in Run : ~Holds(Me(p)', r),
             Holds(Me(p), g.run) \/ Unused(g.run)
      PROVE  HoldInv'
  <2>1. /\ \A h \in handlers : h.run # g.run
        /\ \A q \in Page : q # p => ~Holds(Me(q), g.run)
        /\ status[g.run] # "interrupted"
    BY <1>0, <1>3 DEF HoldInv, Unused
  <2>2. \A h \in handlers' : \A q \in Page : ~Holds(Me(q)', h.run)
    BY <1>0, <1>1, <1>3, <2>1 DEF HoldInv
  <2>3. QED
    BY <1>0, <1>1, <1>3, <2>1, <2>2 DEF HoldInv
<1>4. QED
  BY <1>2, <1>3

(* The steps of one page, its refs then pg and its only call k, that leave   *)
(* the results alone.                                                        *)
LEMMA FreshCallKeeps ==
    ASSUME TypeOK, Sound, NEW p \in Page, NEW pg \in PageState, NEW k \in CallState,
           page'[p] = pg, Me(p)' = k, \A c \in Call : c # 1 => call'[p][c].doing = "idle",
           \A q \in Page : q # p => page'[q] = page[q] /\ call'[q] = call[q],
           Fits(pg, k), Restores(pg, k),
           results' = results, up' = up, stale' = stale,
           \A r \in Run : status'[r] # status[r] =>
              status[r] # "completed" /\ status'[r] \notin {"interrupted", "absent"},
           saved' \in {saved, None} \/ Scanned(saved'),
           k.ans # "ok" \/ (k = Me(p) /\ pg.start = page[p].start),
           \/ handlers' = handlers
           \/ /\ up /\ status' = status /\ k.ans # "ok"
              /\ \E h \in Handler : /\ handlers' = handlers \cup {h}
                                    /\ Holds(Me(p), h.run) \/ Unused(h.run)
                                    /\ stale \/ Clean(h.run, h.stage)
    PROVE  Sound'
<1>1. \A q \in Page : q # p => page'[q] = page[q] /\ Me(q)' = Me(q)
  BY DEF Me
<1>2. ASSUME NEW q \in Page PROVE Single(q)'
  BY DEF Sound, Single
<1>3. ASSUME NEW q \in Page PROVE Fits(page[q], Me(q))' /\ Restores(page[q], Me(q))'
  <2>1. Fits(page'[q], Me(q)') /\ Restores(page'[q], Me(q)')
    BY <1>1 DEF Sound
  <2>2. QED
    BY <2>1 DEF Fits, Restores, Scanned
<1>4. HoldInv'
  <2>1. \A r \in Run : Holds(Me(p)', r) => Holds(Me(p), r)
    BY <1>1 DEF Holds
  <2>2. k.ans # "ok" => \A r \in Run : ~Holds(Me(p)', r)
    BY <1>1 DEF Holds
  <2>3. QED
    BY <1>1, <2>1, <2>2, HoldKept DEF Sound
<1>5. ASSUME ~stale' PROVE Progress'
  <2>1. Progress
    BY <1>5 DEF Sound
  <2>2. \A h \in handlers' : Clean(h.run, h.stage)
    BY <1>5, <2>1 DEF Progress
  <2>3. \A h \in handlers' : Clean(h.run, h.stage)'
    BY <2>2 DEF Clean
  <2>4. \A q \in Page : Ahead(page'[q], Me(q)')
    BY <1>1, <2>1 DEF Progress, Ahead
  <2>5. \A q \in Page : Ahead(page[q], Me(q))'
    BY <2>4 DEF Ahead, Clean
  <2>6. \A r \in Run : EndsCompleted(r)'
    BY <2>1 DEF Progress, EndsCompleted, Clean
  <2>7. QED
    BY <2>3, <2>5, <2>6 DEF Progress
<1>6. (saved # None => Scanned(saved))'
  BY DEF Sound, Scanned
<1>7. QED
  BY <1>2, <1>3, <1>4, <1>5, <1>6 DEF Sound

LEMMA PageKeeps ==
    ASSUME TypeOK, Sound, NEW p \in Page, NEW pg \in PageState, NEW k \in CallState,
           Moved(p, 1, pg, k), Fits(pg, k), Restores(pg, k),
           results' = results, up' = up, stale' = stale,
           \A r \in Run : status'[r] # status[r] =>
              status[r] # "completed" /\ status'[r] \notin {"interrupted", "absent"},
           saved' \in {saved, None} \/ Scanned(saved'),
           k.ans # "ok" \/ (k = Me(p) /\ pg.start = page[p].start),
           \/ handlers' = handlers
           \/ /\ up /\ status' = status /\ k.ans # "ok"
              /\ \E h \in Handler : /\ handlers' = handlers \cup {h}
                                    /\ Holds(Me(p), h.run) \/ Unused(h.run)
                                    /\ stale \/ Clean(h.run, h.stage)
    PROVE  Sound'
<1>1. /\ page'[p] = pg /\ Me(p)' = k
      /\ \A q \in Page : q # p => page'[q] = page[q] /\ call'[q] = call[q]
  BY DEF Moved, Me
<1>2. \A c \in Call : c # 1 => call'[p][c].doing = "idle"
  BY DEF Moved, Sound, Single
<1>3. QED
  BY <1>1, <1>2, FreshCallKeeps

(* What is true of one page. *)
LEMMA OnePage ==
    ASSUME TypeOK, Sound, NEW p \in Page
    PROVE  /\ page[p] \in PageState /\ Me(p) \in CallState
           /\ Fits(page[p], Me(p)) /\ Restores(page[p], Me(p))
           /\ stale \/ Ahead(page[p], Me(p))
           /\ \A r \in Run : status[r] = "absent" => stale \/ Clean(r, 0)
BY FirstCall DEF TypeOK, Sound, Progress, Me, EndsCompleted

(* A call at its end is about nothing. *)
LEMMA EndFits ==
    ASSUME NEW pg, NEW k \in CallState, AtEnd(k)
    PROVE  Fits(pg, k) /\ (~pg.offered \/ pg.start # 0 => Restores(pg, k)) /\ k.ans # "ok"
BY DEF AtEnd, Fits, Restores

(* Where a run resumes nothing is completed, unless all of it is. *)
LEMMA ResumeIsClean ==
    ASSUME NEW res, res[Archive] # "done"
    PROVE  \A u \in Stage : u >= ResumeStartFrom(res) => res[u] # "done"
<1> DEFINE found == {s \in 0..Normalize : res[s] # "none"}
<1>0. Normalize = 3 /\ Archive = 4 /\ Stage = 0..4
  BY StageRange
<1>1. \A u \in Stage : u \notin found => res[u] # "done"
  BY <1>0
<1>2. CASE found = {}
  BY <1>1, <1>2
<1>3. CASE found # {}
  <2>1. found \subseteq {0, 1, 2, 3}
    BY <1>0
  <2>2. \E s \in found : \A u \in found : u <= s
    BY <1>3, <2>1
  <2> DEFINE c == CHOOSE s \in found : \A u \in found : u <= s
  <2>3. c \in found /\ \A u \in found : u <= c
    BY <2>2
  <2>4. ResumeStartFrom(res) = 1 + c
    BY <1>3 DEF ResumeStartFrom
  <2> HIDE DEF c, found
  <2>5. \A u \in Stage : u >= 1 + c => u \notin found
    BY <1>0, <2>1, <2>3
  <2>6. QED
    BY <1>1, <2>4, <2>5
<1>4. QED
  BY <1>2, <1>3

LEMMA ResumeAfterScan ==
    ASSUME NEW res, res[0] # "none"
    PROVE  ResumeStartFrom(res) # 0
<1> DEFINE found == {s \in 0..Normalize : res[s] # "none"}
<1>1. 0 \in found /\ found \subseteq {0, 1, 2, 3}
  BY DEF Normalize
<1>2. \E s \in found : \A u \in found : u <= s
  BY <1>1
<1> DEFINE c == CHOOSE s \in found : \A u \in found : u <= s
<1>3. c \in found
  BY <1>2
<1>4. ResumeStartFrom(res) = 1 + c
  BY <1>1 DEF ResumeStartFrom
<1> HIDE DEF c, found
<1>5. QED
  BY <1>1, <1>3, <1>4

-----------------------------------------------------------------------------
(* The steps of runPipeline. *)

LEMMA EndsKeeps ==
    ASSUME TypeOK, Sound, NEW p \in Page, NEW pg \in PageState, PipelineEnds(p, 1, pg),
           pg.offered => pg.start # 0,
           UNCHANGED <<rows, up, stale>>, saved' \in {saved, None} \/ Scanned(saved')
    PROVE  Sound'
<1>1. PICK g \in PageState, k \in CallState :
        Moved(p, 1, g, k) /\ AtEnd(k) /\ SameOffer(g, pg) /\ handlers' = handlers
  BY FirstCall, EndsShape
<1>2. Fits(g, k) /\ Restores(g, k) /\ k.ans # "ok"
  BY <1>1, EndFits DEF SameOffer
<1>3. QED
  BY <1>1, <1>2, PageKeeps DEF rows

(* A request for stage s of run r that is held or not used. *)
LEMMA SendsKeeps ==
    ASSUME TypeOK, Sound, NEW p \in Page, NEW g \in PageState, NEW k \in CallState,
           NEW r \in Run, NEW s \in Stage, Moved(p, 1, g, k), Awaits(k, r, s), Sends(r, s),
           g.offered => g.start # 0, s # 0 => g.run = r,
           Holds(Me(p), r) \/ Unused(r), stale \/ Clean(r, s),
           UNCHANGED <<rows, up, stale>>, saved' \in {saved, None} \/ Scanned(saved')
    PROVE  Sound'
<1>1. Fits(g, k) /\ Restores(g, k) /\ k.ans # "ok"
  BY DEF Awaits, Fits, Restores
<1>2. QED
  BY <1>1, PageKeeps DEF Sends, rows

LEMMA ProceedKeeps ==
    ASSUME TypeOK, Sound, NEW p \in Page, NEW pg \in PageState, NEW s \in 0..5,
           Proceed(p, 1, pg, s), pg.offered => pg.start # 0,
           \/ s = 0 /\ pg.start = 0
           \/ /\ pg.run \in Run /\ Holds(Me(p), pg.run)
              /\ stale \/ Clean(pg.run, IF s = 0 THEN pg.start ELSE s),
           UNCHANGED <<rows, up, stale>>, saved' \in {saved, None} \/ Scanned(saved')
    PROVE  Sound'
<1>1. PICK g \in PageState, k \in CallState :
        /\ Moved(p, 1, g, k) /\ SameOffer(g, pg)
        /\ \/ AtEnd(k) /\ handlers' = handlers
           \/ \E r \in Run : Fresh(r) /\ Awaits(k, r, 0) /\ Sends(r, 0) /\ s = 0 /\ pg.start = 0
           \/ \E n \in Stage : /\ n # 0 /\ n >= s /\ (s = 0 => n >= pg.start)
                               /\ ~(s = 0 /\ pg.start = 0)
                               /\ Awaits(k, pg.run, n) /\ Sends(pg.run, n)
  BY FirstCall, ProceedShape
<1>0. (g.offered => g.start # 0) /\ g.run = pg.run
  BY <1>1 DEF SameOffer
<1>2. CASE AtEnd(k) /\ handlers' = handlers
  <2>1. Fits(g, k) /\ Restores(g, k) /\ k.ans # "ok"
    BY <1>0, <1>2, EndFits
  <2>2. QED
    BY <1>1, <1>2, <2>1, PageKeeps DEF rows
<1>3. ASSUME NEW r \in Run, Fresh(r), Awaits(k, r, 0), Sends(r, 0) PROVE Sound'
  <2>1. Unused(r) /\ (stale \/ Clean(r, 0))
    BY <1>3, OnePage DEF Fresh, Unused
  <2>2. QED
    BY <1>0, <1>1, <1>3, <2>1, SendsKeeps, StageRange
<1>4. ASSUME NEW n \in Stage, n # 0, n >= s, s = 0 => n >= pg.start, ~(s = 0 /\ pg.start = 0),
             Awaits(k, pg.run, n), Sends(pg.run, n)
      PROVE  Sound'
  <2>1. stale \/ Clean(pg.run, n)
    BY <1>4, StageRange DEF Clean, PageState
  <2>2. QED
    BY <1>0, <1>1, <1>4, <2>1, SendsKeeps
<1>5. QED
  BY <1>1, <1>2, <1>3, <1>4

LEMMA RunPipelineKeeps ==
    ASSUME TypeOK, Sound, NEW p \in Page, RunPipeline(p), ~overlap'
    PROVE  Sound'
<1>1. PICK c \in Call : NextCall(p, c) /\ Proceed(p, c, Started(Forgotten(page[p])), 0)
  BY DEF RunPipeline
<1>2. c = 1
  BY <1>1, NextIsFirst DEF RunPipeline
<1> DEFINE pg == Started(Forgotten(page[p]))
<1>3. pg \in PageState /\ pg.start = 0 /\ ~pg.offered
  BY StartedTypes DEF TypeOK
<1>4. UNCHANGED <<rows, up, stale>> /\ saved' = saved /\ Proceed(p, 1, pg, 0)
  BY <1>1, <1>2 DEF RunPipeline
<1> HIDE DEF pg
<1>5. QED
  BY <1>3, <1>4, ProceedKeeps

LEMMA CallKeeps ==
    ASSUME TypeOK, Sound, NEW p \in Page, NEW c \in Call, CallStep(p, c)
    PROVE  Sound'
<1>0. c = 1 /\ call[p][c] = Me(p)
  BY OnlyCall DEF CallStep, StageAnswered, StageFailed, StopConfirmed, Restored, Continued, Me
<1>1. /\ page[p] \in PageState /\ Me(p) \in CallState
      /\ Fits(page[p], Me(p)) /\ Restores(page[p], Me(p))
      /\ stale \/ Ahead(page[p], Me(p))
  BY OnePage
<1>r. RowsOK
  BY DEF TypeOK, RowsOK
<1>2. CASE StageAnswered(p, c)
  <2> DEFINE k  == Me(p)
             pg == IF k.stage # 0 THEN page[p] ELSE [page[p] EXCEPT !.run = k.req]
  <2>1. /\ k.doing = "stage" /\ k.ans = "ok" /\ UNCHANGED <<rows, up, stale>>
        /\ saved' = IF k.stage = 0 THEN k.req ELSE saved
        /\ IF pg.stopRequested THEN PipelineEnds(p, 1, pg) ELSE Proceed(p, 1, pg, k.stage + 1)
    BY <1>0, <1>2 DEF StageAnswered
  <2>2. k.req \in Run /\ k.stage + 1 \in 1..5
    BY <1>1, <2>1, StageRange DEF Fits, CallState
  <2>3. pg \in PageState /\ pg.run = k.req /\ (pg.offered => pg.start # 0)
    BY <1>1, <2>1, <2>2 DEF PageState, Fits, Restores
  <2>4. saved' = saved \/ Scanned(saved')
    BY <1>1, <2>1 DEF Restores
  <2>5. Holds(Me(p), pg.run) /\ (stale \/ Clean(pg.run, k.stage + 1)) /\ k.stage + 1 # 0
    BY <1>1, <2>1, <2>2, <2>3 DEF Holds, Ahead
  <2> HIDE DEF pg, k
  <2>6. CASE PipelineEnds(p, 1, pg)
    BY <2>1, <2>3, <2>4, <2>6, EndsKeeps
  <2>7. CASE Proceed(p, 1, pg, k.stage + 1)
    BY <2>1, <2>2, <2>3, <2>4, <2>5, <2>7, ProceedKeeps
  <2>8. QED
    BY <2>1, <2>6, <2>7
<1>3. CASE StageFailed(p, c)
  BY <1>0, <1>1, <1>3, EndsKeeps DEF StageFailed, Restores
<1>4. CASE StopConfirmed(p, c)
  <2>1. Finished(page[p]) \in PageState /\ SameOffer(Finished(page[p]), page[p])
    BY <1>1 DEF Finished, PageState, SameOffer
  <2>2. NoCall \in CallState /\ AtEnd(NoCall)
    BY NewTypes DEF NoCall, AtEnd
  <2>3. Fits(Finished(page[p]), NoCall) /\ Restores(Finished(page[p]), NoCall) /\ NoCall.ans # "ok"
    BY <1>1, <2>1, <2>2, EndFits DEF SameOffer, Restores
  <2>4. Moved(p, 1, Finished(page[p]), NoCall)
    BY <1>0, <1>4, <2>1, <2>2, PutShape DEF StopConfirmed
  <2>5. UNCHANGED <<handlers, saved, up, stale>>
    BY <1>4 DEF StopConfirmed
  <2>6. results' = results /\ \A r \in Run : status'[r] # status[r] =>
                 status[r] \in {"running", "stopping"} /\ status'[r] = "stopped"
    BY <1>4, <1>r, ChangeRows DEF StopConfirmed, rows, RunStatus
  <2>7. QED
    BY <2>1, <2>2, <2>3, <2>4, <2>5, <2>6, PageKeeps
<1>5. CASE Restored(p, c)
  <2> DEFINE r == Me(p).req
             a == [page[p] EXCEPT !.run = r, !.running = TRUE]
             b == [page[p] EXCEPT !.run = r, !.running = FALSE, !.offered = TRUE,
                                  !.start = ResumeStartFrom(results[r])]
  <2>1. /\ \E g \in {page[p], a, b} : Put(p, 1, g, NoCall)
        /\ Me(p).doing = "restore"
        /\ saved' \in {saved, None} /\ UNCHANGED <<handlers, rows, up, stale>>
    BY <1>0, <1>5 DEF Restored
  <2>2. Scanned(r) /\ r \in Run /\ ResumeStartFrom(results[r]) # 0
    BY <1>1, <2>1, ResumeAfterScan DEF Restores, Scanned, Fits
  <2>3. /\ a \in PageState /\ b \in PageState
        /\ \A g \in {page[p], a, b} : g.offered => g.start # 0
    BY <1>1, <2>2, ResumeStartType DEF PageState, Restores
  <2>4. NoCall \in CallState /\ AtEnd(NoCall)
    BY NewTypes DEF NoCall, AtEnd
  <2> HIDE DEF a, b
  <2>5. PICK g \in PageState : Put(p, 1, g, NoCall) /\ (g.offered => g.start # 0)
    BY <1>1, <2>1, <2>3
  <2>6. Moved(p, 1, g, NoCall)
    BY <2>4, <2>5, FirstCall, PutShape
  <2>7. Fits(g, NoCall) /\ Restores(g, NoCall) /\ NoCall.ans # "ok"
    BY <2>4, <2>5, EndFits
  <2>8. QED
    BY <2>1, <2>4, <2>6, <2>7, PageKeeps DEF rows
<1>6. CASE Continued(p, c)
  <2>1. Me(p).doing = "resume" /\ UNCHANGED <<rows, saved, up, stale>>
    BY <1>0, <1>6 DEF Continued
  <2>2. CASE Me(p).ans = "ok" /\ Proceed(p, 1, Started(page[p]), 0)
    <3> DEFINE pg == Started(page[p])
    <3>1. pg \in PageState /\ pg.run = page[p].run /\ pg.start = page[p].start /\ ~pg.offered
      BY <1>1, StartedTypes
    <3>2. /\ pg.run \in Run /\ Holds(Me(p), pg.run) /\ (stale \/ Clean(pg.run, pg.start))
      BY <1>1, <2>1, <2>2, <3>1 DEF Fits, Holds, Ahead
    <3> HIDE DEF pg
    <3>3. QED
      BY <2>1, <2>2, <3>1, <3>2, ProceedKeeps DEF pg
  <2>3. CASE Put(p, 1, page[p], NoCall) /\ UNCHANGED handlers
    <3>1. NoCall \in CallState /\ AtEnd(NoCall)
      BY NewTypes DEF NoCall, AtEnd
    <3>2. Moved(p, 1, page[p], NoCall)
      BY <1>1, <2>3, <3>1, FirstCall, PutShape
    <3>3. Fits(page[p], NoCall) /\ Restores(page[p], NoCall) /\ NoCall.ans # "ok"
      BY <1>1, <3>1, EndFits DEF Restores
    <3>4. QED
      BY <1>1, <2>1, <2>3, <3>1, <3>2, <3>3, PageKeeps DEF rows
  <2>4. QED
    BY <1>0, <1>6, <2>2, <2>3 DEF Continued
<1>7. QED
  BY <1>2, <1>3, <1>4, <1>5, <1>6 DEF CallStep

(* The steps that leave what the page awaits, or forget it. *)
LEMMA OtherKeeps ==
    ASSUME TypeOK, Sound, NEW p \in Page,
           \/ StopClicked(p) \/ StopServed(p) \/ StopAnswered(p) \/ Mount(p) \/ Poll(p)
           \/ \E c \in Call : ConnectionBreaks(p, c)
    PROVE  Sound'
<1>1. /\ page[p] \in PageState /\ Me(p) \in CallState
      /\ Fits(page[p], Me(p)) /\ Restores(page[p], Me(p))
  BY OnePage
<1>r. RowsOK
  BY DEF TypeOK, RowsOK
<1>2. ASSUME NEW g \in PageState, Set(p, g), SameOffer(g, page[p]), results' = results,
             UNCHANGED <<handlers, saved, up, stale>>,
             \A r \in Run : status'[r] # status[r] =>
                status[r] # "completed" /\ status'[r] \notin {"interrupted", "absent"}
      PROVE  Sound'
  <2>1. Moved(p, 1, g, Me(p))
    BY <1>2, SetShape DEF Me
  <2>2. Fits(g, Me(p)) /\ Restores(g, Me(p)) /\ g.start = page[p].start
    BY <1>1, <1>2 DEF SameOffer, Fits, Restores
  <2>3. QED
    BY <1>1, <1>2, <2>1, <2>2, PageKeeps
<1>3. CASE StopClicked(p) \/ StopAnswered(p)
  <2> DEFINE a == [page[p] EXCEPT !.stop = page[p].run, !.stopping = TRUE]
             b == [page[p] EXCEPT !.stop = None, !.served = FALSE, !.stopRequested = TRUE]
  <2>1. /\ a \in PageState /\ SameOffer(a, page[p])
        /\ b \in PageState /\ SameOffer(b, page[p])
    BY <1>1 DEF PageState, SameOffer
  <2>2. Set(p, a) \/ Set(p, b)
    BY <1>3 DEF StopClicked, StopAnswered
  <2> HIDE DEF a, b
  <2>3. UNCHANGED <<rows, handlers, saved, up, stale>>
    BY <1>3 DEF StopClicked, StopAnswered
  <2>4. QED
    BY <1>2, <2>1, <2>2, <2>3 DEF rows
<1>4. CASE StopServed(p)
  <2> DEFINE a == [page[p] EXCEPT !.served = TRUE]
  <2>1. a \in PageState /\ SameOffer(a, page[p])
    BY <1>1 DEF PageState, SameOffer
  <2>2. /\ Set(p, a) /\ Change(page[p].stop, {"running"}, "stopping")
        /\ UNCHANGED <<handlers, saved, up, stale>>
    BY <1>4 DEF StopServed
  <2> HIDE DEF a
  <2>3. results' = results /\ \A r \in Run : status'[r] # status[r] =>
           status[r] = "running" /\ status'[r] = "stopping"
    BY <1>r, <2>2, ChangeRows DEF RunStatus
  <2>4. QED
    BY <1>2, <2>1, <2>2, <2>3
<1>5. CASE Mount(p)
  <2> DEFINE w    == [NoCall EXCEPT !.doing = "restore", !.req = saved]
             k(c) == IF c = 1 /\ saved # None THEN w ELSE NoCall
  <2>1. /\ w.doing = "restore" /\ w.ans = "none" /\ w.req = saved /\ (saved # None => w \in CallState)
        /\ NoCall.doing = "idle" /\ NoCall.ans = "none" /\ NoCall \in CallState
        /\ ~NewPage.offered /\ NewPage \in PageState
    BY NewTypes DEF NoCall, CallState, TypeOK, NewPage
  <2>2. /\ page' = [page EXCEPT ![p] = NewPage]
        /\ call' = [call EXCEPT ![p] = [c \in Call |-> k(c)]]
        /\ UNCHANGED <<rows, handlers, saved, up, stale>>
    BY <1>5 DEF Mount
  <2>3. saved # None => saved \in Run /\ Scanned(saved)
    BY DEF TypeOK, Sound
  <2>4. \A c \in Call : k(c) \in CallState /\ (c # 1 => k(c).doing = "idle")
    BY <2>1
  <2>5. Fits(NewPage, k(1)) /\ Restores(NewPage, k(1)) /\ k(1).ans # "ok"
    BY <2>1, <2>3 DEF Fits, Restores
  <2> HIDE DEF k, w
  <2>6. /\ page' \in [Page -> PageState] /\ call' \in [Page -> [Call -> CallState]]
        /\ page'[p] = NewPage /\ Me(p)' = k(1)
        /\ \A q \in Page : q # p => page'[q] = page[q] /\ call'[q] = call[q]
        /\ \A c \in Call : c # 1 => call'[p][c].doing = "idle"
    BY <2>1, <2>2, <2>4, FirstCall DEF TypeOK, Me
  <2>7. k(1) \in CallState /\ NewPage \in PageState
    BY <2>1, <2>4, FirstCall
  <2>8. UNCHANGED <<status, results, handlers, saved, up, stale>>
    BY <2>2 DEF rows
  <2>9. QED
    BY <2>5, <2>6, <2>7, <2>8, FreshCallKeeps
<1>6. CASE Poll(p)
  <2>1. UNCHANGED <<rows, handlers, here, up, stale>> /\ saved' = None
    BY <1>6 DEF Poll
  <2>2. Moved(p, 1, page[p], Me(p))
    BY <2>1 DEF here, Moved, Me, TypeOK
  <2>3. QED
    BY <1>1, <2>1, <2>2, PageKeeps DEF rows
<1>7. ASSUME NEW c \in Call, ConnectionBreaks(p, c) PROVE Sound'
  <2>0. c = 1 /\ call[p][c] = Me(p)
    BY <1>7, OnlyCall DEF ConnectionBreaks, Me
  <2> DEFINE k == [Me(p) EXCEPT !.ans = "error"]
  <2>1. k \in CallState /\ k.doing = Me(p).doing /\ k.req = Me(p).req /\ k.stage = Me(p).stage
        /\ k.ans = "error"
    BY <1>1 DEF CallState
  <2>2. Put(p, 1, page[p], k) /\ Me(p).doing = "stage"
        /\ UNCHANGED <<rows, handlers, saved, up, stale>>
    BY <1>7, <2>0 DEF ConnectionBreaks
  <2> HIDE DEF k
  <2>3. Moved(p, 1, page[p], k) /\ Fits(page[p], k) /\ Restores(page[p], k)
    BY <1>1, <2>1, <2>2, FirstCall, PutShape DEF Fits, Restores
  <2>4. QED
    BY <1>1, <2>1, <2>2, <2>3, PageKeeps DEF rows
<1>8. QED
  BY <1>3, <1>4, <1>5, <1>6, <1>7

(* The guarded UPDATE: only a run nobody holds is given away. *)
LEMMA ContinueKeeps ==
    ASSUME TypeOK, Sound, NEW p \in Page, ContinueClicked(p), ~overlap'
    PROVE  Sound'
<1> DEFINE r == page[p].run
           a == IF status[r] = "interrupted" THEN "ok" ELSE "error"
           k == [NoCall EXCEPT !.doing = "resume", !.req = r, !.ans = a]
<1>1. /\ page[p] \in PageState /\ r \in Run /\ page[p].offered /\ up
      /\ Restores(page[p], Me(p)) /\ RowsOK
  BY OnePage DEF ContinueClicked, Continuing, PageState, TypeOK, RowsOK
<1>2. k \in CallState /\ k.doing = "resume" /\ k.req = r /\ k.ans = a /\ a \in {"ok", "error"}
  BY <1>1, NewTypes DEF CallState, NoCall
<1>3. /\ Put(p, 1, page[p], k) /\ Me(p).doing = "idle"
      /\ Change(r, {"interrupted"}, "running")
      /\ UNCHANGED <<handlers, saved, up>>
      /\ stale' = (stale \/ (a = "ok" /\ page[p].start # ResumeStartFrom(results[r])))
  <2>1. PICK c \in Call : /\ NextCall(p, c)
                          /\ Put(p, c, page[p],
                                 [NoCall EXCEPT !.doing = "resume", !.req = page[p].run,
                                    !.ans = IF status[r] = "interrupted" THEN "ok" ELSE "error"])
    BY DEF ContinueClicked, Ask
  <2>2. c = 1
    BY <2>1, NextIsFirst DEF ContinueClicked
  <2>3. QED
    BY <2>1, <2>2 DEF ContinueClicked, NextCall, Me
<1>4. a = "ok" <=> status[r] = "interrupted"
  OBVIOUS
<1> HIDE DEF a, k
<1>5. /\ RowsOK' /\ results' = results
      /\ \A u \in Run : status'[u] # status[u] =>
            u = r /\ status[u] = "interrupted" /\ status'[u] = "running"
      /\ a = "ok" => status'[r] = "running"
  BY <1>1, <1>3, <1>4, ChangeRows DEF RunStatus, Change, RowsOK
<1>6. Moved(p, 1, page[p], k)
  BY <1>1, <1>2, <1>3, FirstCall, PutShape
<1>7. /\ page' = page /\ Me(p)' = k
      /\ \A q \in Page : q # p => Me(q)' = Me(q) /\ call'[q] = call[q]
      /\ \A d \in Call : d # 1 => call'[p][d] = call[p][d]
  BY <1>3, <1>6 DEF Put, Moved, Me, TypeOK
<1>8. HoldInv'
  <2>1. \A q \in Page, u \in Run : Holds(Me(q)', u) =>
              IF q = p THEN u = r /\ status[r] = "interrupted" ELSE Holds(Me(q), u)
    BY <1>2, <1>4, <1>7 DEF Holds
  <2>2. HoldInv /\ handlers \subseteq Handler
    BY DEF Sound, TypeOK
  <2>3. status[r] = "interrupted" => /\ \A h \in handlers : h.run # r
                                     /\ \A q \in Page : ~Holds(Me(q), r)
    BY <1>1, <2>2 DEF HoldInv
  <2>4. \A h \in handlers' : \A q \in Page : ~Holds(Me(q)', h.run)
    BY <1>3, <2>1, <2>2, <2>3 DEF HoldInv, Handler
  <2>5. \A u \in Run : \A q1, q2 \in Page : Holds(Me(q1)', u) /\ Holds(Me(q2)', u) => q1 = q2
    BY <2>1, <2>2, <2>3 DEF HoldInv
  <2>6. \A u \in Run : \A q \in Page :
           status'[u] \in {"interrupted", "absent"} => ~Holds(Me(q)', u)
    BY <1>4, <1>5, <2>1, <2>2 DEF HoldInv
  <2>7. \A h \in handlers' : status'[h.run] # "interrupted"
    BY <1>3, <1>5, <2>2 DEF HoldInv, Handler
  <2>8. QED
    BY <1>3, <2>2, <2>4, <2>5, <2>6, <2>7 DEF HoldInv
<1>9. ASSUME NEW q \in Page
      PROVE  (Single(q) /\ Fits(page[q], Me(q)) /\ Restores(page[q], Me(q)))'
  <2>1. Fits(page'[q], Me(q)') /\ Restores(page'[q], Me(q)')
    <3>1. CASE q = p
      BY <1>1, <1>2, <1>7, <3>1 DEF Fits, Restores
    <3>2. CASE q # p
      BY <1>7, <3>2 DEF Sound
    <3>3. QED
      BY <3>1, <3>2
  <2>2. Single(q)'
    BY <1>7 DEF Sound, Single
  <2>3. QED
    BY <1>5, <2>1, <2>2 DEF Fits, Restores, Scanned
<1>10. ASSUME ~stale' PROVE Progress'
  <2>1. Progress /\ (a = "ok" => page[p].start = ResumeStartFrom(results[r]))
    BY <1>3, <1>10 DEF Sound
  <2>2. a = "ok" => Clean(r, page[p].start)
    <3> SUFFICES ASSUME a = "ok" PROVE Clean(r, page[p].start)
      OBVIOUS
    <3>1. results[r][Archive] # "done"
      BY <1>1, <1>4, <2>1 DEF Progress, EndsCompleted
    <3>2. QED
      BY <2>1, <3>1, ResumeIsClean DEF Clean
  <2>3. \A q \in Page : Ahead(page'[q], Me(q)')
    BY <1>2, <1>7, <2>1, <2>2 DEF Progress, Ahead
  <2>4. \A q \in Page : Ahead(page[q], Me(q))'
    BY <1>5, <2>3 DEF Ahead, Clean
  <2>5. \A h \in handlers' : Clean(h.run, h.stage)'
    BY <1>3, <1>5, <2>1 DEF Progress, Clean
  <2>6. \A u \in Run : EndsCompleted(u)'
    BY <1>5, <2>1 DEF Progress, EndsCompleted, Clean
  <2>7. QED
    BY <2>4, <2>5, <2>6 DEF Progress
<1>11. (saved # None => Scanned(saved))'
  BY <1>3, <1>5 DEF Sound, Scanned
<1>12. QED
  BY <1>8, <1>9, <1>10, <1>11 DEF Sound

-----------------------------------------------------------------------------
(* The steps of the server. *)

(* What a completed stage, an entered one, or none does to the results. *)
LEMMA DoneChanges ==
    ASSUME TypeOK, NEW r \in Run, NEW s \in Stage, NEW x \in ResultState,
           results' = [results EXCEPT ![r][s] = x]
    PROVE  /\ \A u \in Run : u # r => results'[u] = results[u]
           /\ \A t \in Stage : t # s => results'[r][t] = results[r][t]
           /\ results'[r][s] = x
BY DEF TypeOK

(* A request that goes on, or whose stage fails: nothing more is completed,  *)
(* and no page goes on.                                                      *)
LEMMA ServerWorks ==
    ASSUME TypeOK, Sound, NEW h \in handlers,
           \A u \in Run, s \in Stage : results'[u][s] = "done" => results[u][s] = "done",
           \A u \in Run : Scanned(u) => Scanned(u)',
           status' = status \/ UpdateStep(h.run, "running") \/ UpdateStep(h.run, "failed"),
           \/ handlers' = handlers \ {h}
           \/ \E g \in Handler : /\ g.run = h.run /\ g.stage = h.stage
                                 /\ handlers' = (handlers \ {h}) \cup {g},
           page' = page, \A q \in Page : Single(q)',
           \A q \in Page : \/ Me(q)' = Me(q)
                           \/ /\ Me(q)'.doing = Me(q).doing /\ Me(q)'.req = Me(q).req
                              /\ Me(q)'.stage = Me(q).stage /\ Me(q)'.ans = "error"
                              /\ Me(q).doing = "stage",
           UNCHANGED <<saved, up, stale>>
    PROVE  Sound'
<1>1. /\ h \in Handler /\ h.run \in Run /\ h.stage \in Stage /\ handlers \subseteq Handler
      /\ HoldInv /\ RowsOK
  BY DEF TypeOK, Handler, Sound, RowsOK
<1>2. \A u \in Run : status'[u] # status[u] => u = h.run /\ status'[u] \in {"running", "failed"}
  BY <1>1, UpdateStepRows DEF RunStatus
<1>3. \A k \in handlers' : \E m \in handlers : /\ k.run = m.run /\ k.stage = m.stage
                                               /\ (k \notin handlers => m = h) /\ (k \in handlers => m = k)
                                               /\ (m = h => h \notin handlers' \/ k = h)
  OBVIOUS
<1>4. \A k1, k2 \in handlers' : k1.run = k2.run => k1 = k2
  <2>1. CASE handlers' = handlers \ {h}
    BY <1>1, <2>1 DEF HoldInv
  <2>2. ASSUME NEW g \in Handler, g.run = h.run, handlers' = (handlers \ {h}) \cup {g}
        PROVE  \A k1, k2 \in handlers' : k1.run = k2.run => k1 = k2
    BY <1>1, <2>2 DEF HoldInv
  <2>3. QED
    BY <2>1, <2>2
<1>5. ASSUME NEW q \in Page
      PROVE  /\ \A u \in Run : Holds(Me(q)', u) => Holds(Me(q), u)
             /\ Fits(page'[q], Me(q)') /\ Restores(page[q], Me(q))'
  <2>1. Fits(page[q], Me(q)) /\ Restores(page[q], Me(q))
    BY OnePage
  <2>2. QED
    BY <2>1 DEF Fits, Restores, Holds
<1>6. HoldInv'
  BY <1>1, <1>2, <1>3, <1>4, <1>5 DEF HoldInv, Handler
<1>7. ASSUME NEW q \in Page PROVE (Single(q) /\ Fits(page[q], Me(q)) /\ Restores(page[q], Me(q)))'
  BY <1>5 DEF Fits
<1>8. ASSUME ~stale' PROVE Progress'
  <2>1. Progress
    BY <1>8 DEF Sound
  <2>2. \A u, s : u \in Run /\ Clean(u, s) => Clean(u, s)'
    BY DEF Clean
  <2>3. \A k \in handlers' : Clean(k.run, k.stage)'
    BY <1>1, <1>3, <2>1, <2>2 DEF Progress, Handler
  <2>4. ASSUME NEW q \in Page PROVE Ahead(page[q], Me(q))'
    <3>1. Ahead(page[q], Me(q)) /\ Fits(page[q], Me(q))
      BY <2>1, OnePage DEF Progress
    <3>2. QED
      BY <2>2, <3>1 DEF Ahead, Fits
  <2>5. ASSUME NEW u \in Run PROVE EndsCompleted(u)'
    <3>1. EndsCompleted(u) /\ (u = h.run => results[u][Archive] # "done")
      BY <1>1, <2>1, StageRange DEF Progress, Clean
    <3>2. QED
      BY <1>2, <2>2, <3>1, StageRange DEF EndsCompleted
  <2>6. QED
    BY <2>3, <2>4, <2>5 DEF Progress
<1>9. (saved # None => Scanned(saved))'
  BY DEF Sound, TypeOK
<1>10. QED
  BY <1>6, <1>7, <1>8, <1>9 DEF Sound

(* A stage that is completed: its page may go on with the next one. *)
LEMMA ServerCompletes ==
    ASSUME TypeOK, Sound, NEW h \in handlers,
           results' = [results EXCEPT ![h.run][h.stage] = "done"],
           UpdateStep(h.run, "completed"), handlers' = handlers \ {h},
           page' = page, \A q \in Page : Single(q)',
           \A q \in Page : \/ Me(q)' = Me(q)
                           \/ /\ Me(q)'.doing = "stage" /\ Me(q)'.req = h.run
                              /\ Me(q)'.stage = h.stage /\ Me(q)'.ans = "ok"
                              /\ Me(q).doing = "stage" /\ Me(q).req = h.run
                              /\ Me(q).stage = h.stage /\ q = h.page,
           UNCHANGED <<saved, up, stale>>
    PROVE  Sound'
<1>1. /\ h \in Handler /\ h.run \in Run /\ h.stage \in Stage /\ handlers \subseteq Handler
      /\ HoldInv /\ RowsOK
  BY DEF TypeOK, Handler, Sound, RowsOK
<1>2. status'[h.run] = "completed" /\ \A u \in Run : u # h.run => status'[u] = status[u]
  BY <1>1, UpdateStepRows DEF RunStatus
<1>3. /\ \A u \in Run : u # h.run => results'[u] = results[u]
      /\ \A t \in Stage : t # h.stage => results'[h.run][t] = results[h.run][t]
      /\ results'[h.run][h.stage] = "done"
  BY <1>1 DEF TypeOK
<1>4. \A u \in Run : Scanned(u) => Scanned(u)'
  BY <1>1, <1>3, StageRange DEF Scanned
<1>5. \A k \in handlers' : k \in handlers /\ k.run \in Run /\ k.run # h.run
  BY <1>1 DEF HoldInv, Handler
<1>6. ASSUME NEW q \in Page
      PROVE  /\ \A u \in Run : Holds(Me(q)', u) => Holds(Me(q), u) \/ (q = h.page /\ u = h.run)
             /\ Fits(page'[q], Me(q)') /\ Restores(page[q], Me(q))'
  <2>1. Fits(page[q], Me(q)) /\ Restores(page[q], Me(q))
    BY OnePage
  <2>2. h.stage = 0 => Scanned(h.run)'
    BY <1>1, <1>3 DEF Scanned
  <2>3. QED
    BY <1>1, <1>4, <2>1, <2>2 DEF Fits, Restores, Holds
<1>7. HoldInv'
  <2>1. \A k \in handlers' : \A q \in Page : ~Holds(Me(q)', k.run)
    BY <1>1, <1>5, <1>6 DEF HoldInv
  <2>2. \A u \in Run : \A q1, q2 \in Page : Holds(Me(q1)', u) /\ Holds(Me(q2)', u) => q1 = q2
    BY <1>1, <1>6 DEF HoldInv
  <2>3. \A u \in Run : \A q \in Page :
           status'[u] \in {"interrupted", "absent"} => ~Holds(Me(q)', u)
    BY <1>1, <1>2, <1>6 DEF HoldInv
  <2>4. QED
    BY <1>1, <1>2, <1>5, <2>1, <2>2, <2>3 DEF HoldInv
<1>8. ASSUME NEW q \in Page PROVE (Single(q) /\ Fits(page[q], Me(q)) /\ Restores(page[q], Me(q)))'
  BY <1>6 DEF Fits
<1>9. ASSUME ~stale' PROVE Progress'
  <2>1. Progress /\ Clean(h.run, h.stage)
    BY <1>9 DEF Sound, Progress
  <2>2. \A u, s : u \in Run /\ u # h.run /\ Clean(u, s) => Clean(u, s)'
    BY <1>3 DEF Clean
  <2>3. Clean(h.run, h.stage + 1)'
    BY <1>1, <1>3, <2>1, StageRange DEF Clean
  <2>4. \A k \in handlers' : Clean(k.run, k.stage)'
    BY <1>5, <2>1, <2>2 DEF Progress
  <2>5. ASSUME NEW q \in Page PROVE Ahead(page[q], Me(q))'
    <3>1. Ahead(page[q], Me(q)) /\ Fits(page[q], Me(q)) /\ ~Holds(Me(q), h.run)
      BY <1>1, <2>1, OnePage DEF Progress, HoldInv
    <3>2. CASE Me(q)' = Me(q)
      BY <2>2, <3>1, <3>2 DEF Ahead, Fits, Holds
    <3>3. CASE Me(q)' # Me(q)
      BY <2>3, <3>3 DEF Ahead
    <3>4. QED
      BY <3>2, <3>3
  <2>6. ASSUME NEW u \in Run PROVE EndsCompleted(u)'
    <3>1. EndsCompleted(u)
      BY <2>1 DEF Progress
    <3>2. QED
      BY <1>2, <1>3, <2>2, <3>1 DEF EndsCompleted
  <2>7. QED
    BY <2>4, <2>5, <2>6 DEF Progress
<1>10. (saved # None => Scanned(saved))'
  BY <1>4 DEF Sound, TypeOK
<1>11. QED
  BY <1>7, <1>8, <1>9, <1>10 DEF Sound

LEMMA ServerKeeps ==
    ASSUME TypeOK, Sound, NEW r \in Run, ServerStep(r)
    PROVE  Sound'
<1>1. UNCHANGED <<page, saved, up, stale>>
  BY ServerShape
<1>2. PICK h \in handlers :
        /\ h.run = r
        /\ \/ /\ \E g \in Handler : /\ g.run = r /\ g.stage = h.stage
                                    /\ handlers' = (handlers \ {h}) \cup {g}
              /\ call' = call
              /\ \/ results' = results
                 \/ /\ results' = [results EXCEPT ![r][h.stage] = "entered"]
                    /\ h.stage # 0
              /\ status' = status \/ UpdateStep(r, "running")
           \/ /\ handlers' = handlers \ {h} /\ Answer(h, "error")
              /\ results' = results /\ (status' = status \/ UpdateStep(r, "failed"))
           \/ /\ handlers' = handlers \ {h} /\ Answer(h, "ok")
              /\ results' = [results EXCEPT ![r][h.stage] = "done"]
              /\ UpdateStep(r, "completed")
  BY ServerShape
<1>3. h \in Handler /\ h.stage \in Stage /\ 0 \in Stage
  BY StageRange DEF TypeOK, Handler
<1>4. CASE /\ \E g \in Handler : /\ g.run = r /\ g.stage = h.stage
                                 /\ handlers' = (handlers \ {h}) \cup {g}
           /\ call' = call
           /\ \/ results' = results
              \/ /\ results' = [results EXCEPT ![r][h.stage] = "entered"]
                 /\ h.stage # 0
           /\ status' = status \/ UpdateStep(r, "running")
  <2>1. \A q \in Page : Me(q)' = Me(q) /\ Single(q)'
    BY <1>4 DEF Me, Sound, Single
  <2>2. /\ \A u \in Run, s \in Stage : results'[u][s] = "done" => results[u][s] = "done"
        /\ \A u \in Run : Scanned(u) => Scanned(u)'
    <3>1. CASE results' = results
      BY <3>1 DEF Scanned
    <3>2. CASE results' = [results EXCEPT ![r][h.stage] = "entered"] /\ h.stage # 0
      BY <1>3, <3>2, DoneChanges DEF Scanned, ResultState
    <3>3. QED
      BY <1>4, <3>1, <3>2
  <2>3. QED
    BY <1>1, <1>2, <1>4, <2>1, <2>2, ServerWorks
<1>5. ASSUME NEW a \in {"ok", "error"}, Answer(h, a)
      PROVE  \A q \in Page :
               /\ \/ Me(q)' = Me(q)
                  \/ /\ Me(q)'.doing = "stage" /\ Me(q)'.req = h.run
                     /\ Me(q)'.stage = h.stage /\ Me(q)'.ans = a
                     /\ Me(q).doing = "stage" /\ Me(q).req = h.run
                     /\ Me(q).stage = h.stage /\ q = h.page
               /\ Single(q)'
  <2>1. \A q \in Page : Single(q)
    BY DEF Sound
  <2>2. QED
    BY <1>3, <1>5, <2>1, FirstCall, AnswerShape DEF Me, Single
<1>6. CASE /\ handlers' = handlers \ {h} /\ Answer(h, "error")
           /\ results' = results /\ (status' = status \/ UpdateStep(r, "failed"))
  <2>1. /\ \A u \in Run, s \in Stage : results'[u][s] = "done" => results[u][s] = "done"
        /\ \A u \in Run : Scanned(u) => Scanned(u)'
    BY <1>6 DEF Scanned
  <2>2. \A q \in Page : /\ Single(q)'
                        /\ \/ Me(q)' = Me(q)
                           \/ /\ Me(q)'.doing = Me(q).doing /\ Me(q)'.req = Me(q).req
                              /\ Me(q)'.stage = Me(q).stage /\ Me(q)'.ans = "error"
                              /\ Me(q).doing = "stage"
    BY <1>5, <1>6
  <2>3. QED
    BY <1>1, <1>2, <1>6, <2>1, <2>2, ServerWorks
<1>7. CASE /\ handlers' = handlers \ {h} /\ Answer(h, "ok")
           /\ results' = [results EXCEPT ![r][h.stage] = "done"]
           /\ UpdateStep(r, "completed")
  BY <1>1, <1>2, <1>5, <1>7, ServerCompletes
<1>8. QED
  BY <1>2, <1>4, <1>6, <1>7

LEMMA DownKeeps ==
    ASSUME TypeOK, Sound, ServerDown
    PROVE  Sound'
<1>1. /\ handlers' = {} /\ UNCHANGED <<status, results, saved, stale>>
      /\ \A q \in Page : SameOffer(page'[q], page[q])
      /\ \A q \in Page, c \in Call :
            /\ call'[q][c].doing = call[q][c].doing
            /\ call'[q][c].req = call[q][c].req /\ call'[q][c].stage = call[q][c].stage
            /\ \/ call'[q][c].ans = call[q][c].ans
               \/ call'[q][c].ans = "error" /\ call[q][c].doing = "stage"
  BY DownShape
<1>2. ASSUME NEW q \in Page
      PROVE  /\ \A u \in Run : Holds(Me(q)', u) => Holds(Me(q), u)
             /\ Fits(page'[q], Me(q)') /\ Restores(page'[q], Me(q)')
             /\ Ahead(page[q], Me(q)) => Ahead(page'[q], Me(q)')
             /\ Single(q)'
  <2>1. Fits(page[q], Me(q)) /\ Restores(page[q], Me(q)) /\ Single(q)
    BY DEF Sound
  <2>2. /\ Me(q)'.doing = Me(q).doing /\ Me(q)'.req = Me(q).req /\ Me(q)'.stage = Me(q).stage
        /\ Me(q)'.ans = Me(q).ans \/ (Me(q)'.ans = "error" /\ Me(q).doing = "stage")
    BY <1>1, FirstCall DEF Me
  <2>3. SameOffer(page'[q], page[q])
    BY <1>1
  <2>4. Single(q)'
    BY <1>1, <2>1 DEF Single
  <2> HIDE DEF Me
  <2>5. QED
    BY <2>1, <2>2, <2>3, <2>4 DEF Fits, Restores, Ahead, Holds, SameOffer
<1>3. HoldInv'
  BY <1>1, <1>2 DEF Sound, HoldInv
<1>4. ASSUME NEW q \in Page PROVE (Single(q) /\ Fits(page[q], Me(q)) /\ Restores(page[q], Me(q)))'
  BY <1>1, <1>2 DEF Fits, Restores, Scanned
<1>5. ASSUME ~stale' PROVE Progress'
  <2>1. Progress
    BY <1>1, <1>5 DEF Sound
  <2>2. \A q \in Page : Ahead(page'[q], Me(q)')
    BY <1>2, <2>1 DEF Progress
  <2>3. \A q \in Page : Ahead(page[q], Me(q))'
    BY <1>1, <2>2 DEF Ahead, Clean
  <2>4. \A u \in Run : EndsCompleted(u)'
    BY <1>1, <2>1 DEF Progress, EndsCompleted, Clean
  <2>5. QED
    BY <1>1, <2>3, <2>4 DEF Progress
<1>6. QED
  BY <1>1, <1>3, <1>4, <1>5 DEF Sound, Scanned

(* When it starts again no answer is on its way, so that nobody holds a run. *)
LEMMA StartKeeps ==
    ASSUME TypeOK, Sound, ServerStarts \/ ServerStartsUncleaned
    PROVE  Sound'
<1>1. /\ UNCHANGED <<results, handlers, page, call, saved, stale>> /\ AllHeard /\ ~up
      /\ \A r \in Run : status'[r] = status[r] \/ status[r] \in {"running", "stopping"}
      /\ status' \in [Run -> RunStatus \cup {"absent"}]
      /\ \A r \in Run : status'[r] = "absent" => status[r] = "absent"
  BY StartShape DEF ServerStarts, ServerStartsUncleaned, MarkInterrupted, rows
<1>2. handlers = {} /\ \A q \in Page : Me(q).ans = "none"
  BY <1>1, FirstCall DEF Sound, HoldInv, AllHeard, Me
<1>3. HoldInv'
  BY <1>1, <1>2 DEF HoldInv, Holds, Me
<1>4. ASSUME NEW q \in Page PROVE (Single(q) /\ Fits(page[q], Me(q)) /\ Restores(page[q], Me(q)))'
  BY <1>1 DEF Sound, Single, Fits, Restores, Scanned, Me
<1>5. ASSUME ~stale' PROVE Progress'
  <2>1. Progress
    BY <1>1, <1>5 DEF Sound
  <2>2. \A q \in Page : Ahead(page[q], Me(q))'
    BY <1>1, <2>1 DEF Progress, Ahead, Clean, Me
  <2>3. \A u \in Run : EndsCompleted(u)'
    BY <1>1, <2>1 DEF Progress, EndsCompleted, Clean
  <2>4. QED
    BY <1>1, <1>2, <2>2, <2>3 DEF Progress
<1>6. QED
  BY <1>1, <1>3, <1>4, <1>5 DEF Sound, Scanned

-----------------------------------------------------------------------------
LEMMA InitIInv == Init => IInv
<1> SUFFICES ASSUME Init PROVE Sound
  BY InitTypes DEF IInv
<1>1. /\ NoCall.doing = "idle" /\ NoCall.ans = "none" /\ ~NewPage.offered
      /\ \A p \in Page, c \in Call : call[p][c] = NoCall
      /\ \A p \in Page : page[p] = NewPage
  BY DEF Init, NoCall, NewPage
<1>2. ASSUME NEW p \in Page
      PROVE  Single(p) /\ Fits(page[p], Me(p)) /\ Restores(page[p], Me(p)) /\ Ahead(page[p], Me(p))
  BY <1>1, FirstCall DEF Single, Fits, Restores, Ahead, Me
<1>3. HoldInv
  BY <1>1, FirstCall DEF Init, HoldInv, Holds, Me
<1>4. ASSUME NEW r \in Run PROVE EndsCompleted(r)
  <2>1. \A s \in Stage : results[r][s] = "none"
    BY DEF Init
  <2>2. Archive \in Stage
    BY StageRange
  <2>3. QED
    BY <2>1, <2>2 DEF EndsCompleted, Clean
<1>5. QED
  BY <1>2, <1>3, <1>4 DEF Init, Sound, Progress

LEMMA StepIInv == IInv /\ [Next]_vars => IInv'
<1> SUFFICES ASSUME IInv, [Next]_vars, ~overlap' PROVE Sound'
  BY StepTypes DEF IInv
<1>0. TypeOK /\ ~overlap /\ Sound
  <2>1. overlap => overlap'
    <3>1. CASE \E r \in Run : ServerStep(r)
      BY <3>1, ServerShape DEF IInv
    <3>2. CASE ServerDown
      BY <3>2, DownShape DEF IInv
    <3>3. CASE ServerStarts \/ ServerStartsUncleaned
      BY <3>3, StartShape DEF IInv
    <3>4. ASSUME NEW p \in Page, NEW c \in Call, CallStep(p, c) \/ ConnectionBreaks(p, c)
          PROVE  overlap' = overlap
      BY <3>4 DEF CallStep, StageAnswered, StageFailed, StopConfirmed, Restored, Continued,
         ConnectionBreaks
    <3>5. ASSUME NEW p \in Page, UserStep(p) \/ StopServed(p) \/ StopAnswered(p) \/ Poll(p)
          PROVE  overlap => overlap'
      BY <3>5 DEF UserStep, StartClicked, RerunClicked, RunPipeline, StopClicked, ContinueClicked,
         Mount, StopServed, StopAnswered, Poll
    <3>6. CASE UNCHANGED vars
      BY <3>6 DEF vars
    <3>7. QED
      BY <3>1, <3>2, <3>3, <3>4, <3>5, <3>6 DEF Next
  <2>2. QED
    BY <2>1 DEF IInv
<1>1. CASE \E r \in Run : ServerStep(r)
  BY <1>0, <1>1, ServerKeeps
<1>2. CASE \E p \in Page, c \in Call : CallStep(p, c)
  BY <1>0, <1>2, CallKeeps
<1>3. CASE \E p \in Page : StartClicked(p) \/ RerunClicked(p)
  BY <1>0, <1>3, RunPipelineKeeps DEF StartClicked, RerunClicked
<1>4. CASE \E p \in Page : ContinueClicked(p)
  BY <1>0, <1>4, ContinueKeeps
<1>5. CASE \E p \in Page : \/ StopClicked(p) \/ StopServed(p) \/ StopAnswered(p) \/ Mount(p) \/ Poll(p)
                           \/ \E c \in Call : ConnectionBreaks(p, c)
  BY <1>0, <1>5, OtherKeeps
<1>6. CASE ServerDown
  BY <1>0, <1>6, DownKeeps
<1>7. CASE ServerStarts \/ ServerStartsUncleaned
  BY <1>0, <1>7, StartKeeps
<1>8. CASE UNCHANGED vars
  <2>1. UNCHANGED <<status, results, handlers, page, call, saved, up, stale>>
    BY <1>8 DEF vars, rows, here
  <2>2. HoldInv => HoldInv'
    BY <2>1 DEF HoldInv, Holds, Me
  <2>3. Progress => Progress'
    BY <2>1 DEF Progress, Ahead, EndsCompleted, Clean, Me
  <2>4. ASSUME NEW p \in Page, Single(p), Fits(page[p], Me(p)), Restores(page[p], Me(p))
        PROVE  (Single(p) /\ Fits(page[p], Me(p)) /\ Restores(page[p], Me(p)))'
    BY <2>1, <2>4 DEF Single, Fits, Restores, Scanned, Me
  <2>5. QED
    BY <1>0, <2>1, <2>2, <2>3, <2>4 DEF Sound, Scanned
<1>9. QED
  BY <1>1, <1>2, <1>3, <1>4, <1>5, <1>6, <1>7, <1>8 DEF Next, UserStep

(* The inductive invariant holds of every reachable state: once a page       *)
(* began a run while it awaited something, only the types are left of it.    *)
THEOREM RunInvariance == Spec => []IInv
BY InitIInv, StepIInv, PTL DEF Spec

(* Whatever tabs, reloads and restarts do, one request works on a run, as    *)
(* long as no page begins a run while it awaits something.                   *)
THEOREM OneStage == Spec => []OneStageAtATime
<1>1. IInv => OneStageAtATime
  BY DEF IInv, Sound, HoldInv, OneStageAtATime
<1>2. QED
  BY <1>1, RunInvariance, PTL

(* A run marked interrupted is left alone until resume() gives it away, as   *)
(* long as no page begins a run while it awaits something.                   *)
THEOREM QuietInterrupted == Spec => []InterruptedIsQuiet
<1>1. IInv => InterruptedIsQuiet
  BY DEF IInv, Sound, HoldInv, InterruptedIsQuiet
<1>2. QED
  BY <1>1, RunInvariance, PTL

(* The stage requests of docker/api never execute a completed stage again:   *)
(* neither after a stop nor after a restart, unless an outdated offer        *)
(* resumed a run or a page began one while it awaited something.             *)
THEOREM StagesDoNotRepeat == Spec => []NoStageRepeats
<1>1. IInv => NoStageRepeats
  <2> SUFFICES ASSUME IInv, ~overlap, ~stale, NEW h \in handlers
               PROVE  results[h.run][h.stage] # "done"
    BY DEF NoStageRepeats
  <2>1. h.stage \in Stage /\ Clean(h.run, h.stage)
    BY DEF IInv, TypeOK, Sound, Progress, Handler
  <2>2. QED
    BY <2>1, StageRange DEF Clean
<1>2. QED
  BY <1>1, RunInvariance, PTL

(* continueRun goes on behind the scan: no restored run is scanned anew.     *)
THEOREM OffersContinue == Spec => []OfferContinuesTheRun
<1>1. IInv => OfferContinuesTheRun
  <2> SUFFICES ASSUME IInv, ~overlap, NEW p \in Page, NEW c \in Call,
                      page[p].offered \/ call[p][c].doing = "resume"
               PROVE  page[p].start # 0
    BY DEF OfferContinuesTheRun
  <2>1. Sound /\ Restores(page[p], Me(p))
    BY DEF IInv, Sound
  <2>2. call[p][c].doing = "resume" => c = 1
    BY <2>1, OnlyCall
  <2>3. QED
    BY <2>1, <2>2 DEF Restores, Me
<1>2. QED
  BY <1>1, RunInvariance, PTL
=============================================================================
