--------------------------- MODULE TaskQueueProofs ---------------------------
(***************************************************************************)
(* Theorems about TaskQueue for any number of tasks, workers, executions   *)
(* and any bounds.                                                         *)
(***************************************************************************)
EXTENDS TaskQueue, TLAPS

(* The slot of an execution and its thread states fit together.  A copy is   *)
(* never pending, and the copy of an ended execution is never running.       *)
RunInv ==
    \A r \in Run :
        /\ run[r].watch = "free" <=> run[r].task = NoTask
        /\ run[r].watch \in {"free", "claimed"} => run[r].handler = "idle"
        /\ run[r].watch = "lost" /\ run[r].handler = "alive" => run[r].copy # "running"
        /\ run[r].watch # "free" => run[r].copy \in {"running", "completed", "failed"}
        /\ run[r].watch = "ended" => run[r].copy # "running"
        /\ run[r].watch = "claimed" => run[r].copy = "running"

(* Tickets consumed are releases already made; while a row is pending its    *)
(* last release is still there to consume.                                   *)
TicketInv ==
    /\ \A t \in Task : \A r \in RunsOf(t) :
         /\ run[r].ticket <= release[t]
         /\ row[t] = "pending" => run[r].ticket # release[t]
    /\ OneRunPerRelease

(* A copy says completed only if the execution earned it, and a handler that *)
(* returned without marking the copy failed has earned it.                   *)
EarnedInv ==
    /\ \A r \in Run : run[r].watch # "free" =>
         /\ run[r].copy = "completed" => run[r].earned
         /\ run[r].handler = "returned" /\ run[r].copy # "failed" => run[r].earned
    /\ CompletedIsEarned

IInv == TypeOK /\ RunInv /\ TicketInv /\ EarnedInv /\ RunningIsBacked

-----------------------------------------------------------------------------
WatchState   == {"free", "claimed", "joining", "expired", "ended", "lost"}
HandlerState == {"idle", "alive", "returned", "raised", "dead"}

(* What a step of execution r does to the slots: r keeps its task, worker    *)
(* and ticket, the other executions keep everything.                         *)
RunEffect(r, w, h, c, e) ==
    /\ run' \in [Run -> RunState]
    /\ run'[r].task = run[r].task
    /\ run'[r].ticket = run[r].ticket
    /\ run'[r].worker = run[r].worker
    /\ run'[r].watch = w
    /\ run'[r].handler = h
    /\ run'[r].copy = c
    /\ run'[r].earned = e
    /\ \A q \in Run \ {r} : run'[q] = run[q]

LEMMA FreeRunTyped == FreeRun \in RunState
  BY DEF FreeRun, RunState, Status

LEMMA RunFields ==
  ASSUME NEW s \in RunState
  PROVE  /\ s.task \in Task \cup {NoTask}
         /\ s.ticket \in Nat
         /\ s.copy \in Status
         /\ s.earned \in BOOLEAN
         /\ s.watch \in WatchState
         /\ s.handler \in HandlerState
  BY DEF RunState, WatchState, HandlerState

(* A row is overwritten, the others stay; a status keeps the table typed. *)
LEMMA PersistEffect ==
  ASSUME row \in [Task -> Status \cup {"absent"}],
         NEW t, NEW s \in Status \cup {"absent"}, Persist(t, s)
  PROVE  /\ row' \in [Task -> Status \cup {"absent"}]
         /\ \A u \in Task : \/ row'[u] = row[u] /\ (u # t \/ row[u] = "absent")
                            \/ u = t /\ row'[u] = s
  BY DEF Persist, SetRow

LEMMA SetRunEffect ==
  ASSUME run \in [Run -> RunState], NEW r \in Run, NEW s \in RunState, SetRun(r, s)
  PROVE  /\ run' \in [Run -> RunState]
         /\ run'[r] = s
         /\ \A q \in Run \ {r} : run'[q] = run[q]
  BY DEF SetRun

(* The shapes in which the actions rewrite a slot. *)
LEMMA WatchEffect ==
  ASSUME run \in [Run -> RunState], NEW r \in Run,
         NEW w \in WatchState,
         SetRun(r, [run[r] EXCEPT !.watch = w])
  PROVE  RunEffect(r, w, run[r].handler, run[r].copy, run[r].earned)
<1> DEFINE s == [run[r] EXCEPT !.watch = w]
<1>1. s \in RunState
  BY DEF RunState, WatchState, HandlerState
<1>2. /\ s.task = run[r].task /\ s.ticket = run[r].ticket
      /\ s.worker = run[r].worker /\ s.watch = w
      /\ s.handler = run[r].handler /\ s.copy = run[r].copy /\ s.earned = run[r].earned
  BY DEF RunState
<1> HIDE DEF s
<1>3. SetRun(r, s)
  BY DEF s
<1>4. QED
  BY <1>1, <1>2, <1>3, SetRunEffect DEF RunEffect

LEMMA HandlerEffect ==
  ASSUME run \in [Run -> RunState], NEW r \in Run,
         NEW h \in HandlerState,
         SetRun(r, [run[r] EXCEPT !.handler = h])
  PROVE  RunEffect(r, run[r].watch, h, run[r].copy, run[r].earned)
<1> DEFINE s == [run[r] EXCEPT !.handler = h]
<1>1. s \in RunState
  BY DEF RunState, WatchState, HandlerState
<1>2. /\ s.task = run[r].task /\ s.ticket = run[r].ticket
      /\ s.worker = run[r].worker /\ s.watch = run[r].watch
      /\ s.handler = h /\ s.copy = run[r].copy /\ s.earned = run[r].earned
  BY DEF RunState
<1> HIDE DEF s
<1>3. SetRun(r, s)
  BY DEF s
<1>4. QED
  BY <1>1, <1>2, <1>3, SetRunEffect DEF RunEffect

LEMMA WatchHandlerEffect ==
  ASSUME run \in [Run -> RunState], NEW r \in Run,
         NEW w \in WatchState, NEW h \in HandlerState,
         SetRun(r, [run[r] EXCEPT !.watch = w, !.handler = h])
  PROVE  RunEffect(r, w, h, run[r].copy, run[r].earned)
<1> DEFINE s == [run[r] EXCEPT !.watch = w, !.handler = h]
<1>1. s \in RunState
  BY DEF RunState, WatchState, HandlerState
<1>2. /\ s.task = run[r].task /\ s.ticket = run[r].ticket
      /\ s.worker = run[r].worker /\ s.watch = w
      /\ s.handler = h /\ s.copy = run[r].copy /\ s.earned = run[r].earned
  BY DEF RunState
<1> HIDE DEF s
<1>3. SetRun(r, s)
  BY DEF s
<1>4. QED
  BY <1>1, <1>2, <1>3, SetRunEffect DEF RunEffect

LEMMA WatchCopyEffect ==
  ASSUME run \in [Run -> RunState], NEW r \in Run,
         NEW w \in WatchState, NEW c \in Status,
         SetRun(r, [run[r] EXCEPT !.watch = w, !.copy = c])
  PROVE  RunEffect(r, w, run[r].handler, c, run[r].earned)
<1> DEFINE s == [run[r] EXCEPT !.watch = w, !.copy = c]
<1>1. s \in RunState
  BY DEF RunState, WatchState, HandlerState
<1>2. /\ s.task = run[r].task /\ s.ticket = run[r].ticket
      /\ s.worker = run[r].worker /\ s.watch = w
      /\ s.handler = run[r].handler /\ s.copy = c /\ s.earned = run[r].earned
  BY DEF RunState
<1> HIDE DEF s
<1>3. SetRun(r, s)
  BY DEF s
<1>4. QED
  BY <1>1, <1>2, <1>3, SetRunEffect DEF RunEffect

LEMMA HandlerCopyEffect ==
  ASSUME run \in [Run -> RunState], NEW r \in Run,
         NEW h \in HandlerState, NEW c \in Status,
         SetRun(r, [run[r] EXCEPT !.handler = h, !.copy = c])
  PROVE  RunEffect(r, run[r].watch, h, c, run[r].earned)
<1> DEFINE s == [run[r] EXCEPT !.handler = h, !.copy = c]
<1>1. s \in RunState
  BY DEF RunState, WatchState, HandlerState
<1>2. /\ s.task = run[r].task /\ s.ticket = run[r].ticket
      /\ s.worker = run[r].worker /\ s.watch = run[r].watch
      /\ s.handler = h /\ s.copy = c /\ s.earned = run[r].earned
  BY DEF RunState
<1> HIDE DEF s
<1>3. SetRun(r, s)
  BY DEF s
<1>4. QED
  BY <1>1, <1>2, <1>3, SetRunEffect DEF RunEffect

LEMMA HandlerEarnedEffect ==
  ASSUME run \in [Run -> RunState], NEW r \in Run,
         NEW h \in HandlerState, NEW e \in BOOLEAN,
         SetRun(r, [run[r] EXCEPT !.handler = h, !.earned = e])
  PROVE  RunEffect(r, run[r].watch, h, run[r].copy, e)
<1> DEFINE s == [run[r] EXCEPT !.handler = h, !.earned = e]
<1>1. s \in RunState
  BY DEF RunState, WatchState, HandlerState
<1>2. /\ s.task = run[r].task /\ s.ticket = run[r].ticket
      /\ s.worker = run[r].worker /\ s.watch = run[r].watch
      /\ s.handler = h /\ s.copy = run[r].copy /\ s.earned = e
  BY DEF RunState
<1> HIDE DEF s
<1>3. SetRun(r, s)
  BY DEF s
<1>4. QED
  BY <1>1, <1>2, <1>3, SetRunEffect DEF RunEffect

LEMMA CopyEarnedEffect ==
  ASSUME run \in [Run -> RunState], NEW r \in Run,
         NEW c \in Status, NEW e \in BOOLEAN,
         SetRun(r, [run[r] EXCEPT !.copy = c, !.earned = e])
  PROVE  RunEffect(r, run[r].watch, run[r].handler, c, e)
<1> DEFINE s == [run[r] EXCEPT !.copy = c, !.earned = e]
<1>1. s \in RunState
  BY DEF RunState, WatchState, HandlerState
<1>2. /\ s.task = run[r].task /\ s.ticket = run[r].ticket
      /\ s.worker = run[r].worker /\ s.watch = run[r].watch
      /\ s.handler = run[r].handler /\ s.copy = c /\ s.earned = e
  BY DEF RunState
<1> HIDE DEF s
<1>3. SetRun(r, s)
  BY DEF s
<1>4. QED
  BY <1>1, <1>2, <1>3, SetRunEffect DEF RunEffect

-----------------------------------------------------------------------------
(* An execution that is not a free slot belongs to a task. *)
LEMMA TaskOfRun ==
  ASSUME TypeOK, RunInv, NEW r \in Run, run[r].watch # "free"
  PROVE  run[r].task \in Task
  BY RunFields DEF TypeOK, RunInv

(* Each step of an execution keeps the invariant. *)
LEMMA RunStepKeepsIInv ==
  ASSUME IInv, NEW r \in Run, RunStep(r)
  PROVE  IInv'
<1> USE TaskQueueAssumption
<1> DEFINE t == run[r].task
<1>0. /\ TypeOK /\ RunInv /\ TicketInv /\ EarnedInv /\ RunningIsBacked
      /\ row \in [Task -> Status \cup {"absent"}] /\ run \in [Run -> RunState]
      /\ \A q \in Run : /\ run[q].task \in Task \cup {NoTask}
                        /\ run[q].ticket \in Nat
                        /\ run[q].copy \in Status
                        /\ run[q].earned \in BOOLEAN
                        /\ run[q].watch \in WatchState
                        /\ run[q].handler \in HandlerState
  BY RunFields DEF IInv, TypeOK
<1> USE <1>0 DEF RunsOf, Watched, HandlerLive
<1>1. CASE SyncAndSpawn(r)
  <2>0. /\ run[r].watch # "free" /\ t \in Task
        /\ UNCHANGED <<release, retrying, asking, up>> /\ faults' \in Nat
    BY <1>1, TaskOfRun DEF SyncAndSpawn, RunInv, TypeOK
  <2>1. RunEffect(r, "joining", "alive", run[r].copy, run[r].earned)
    BY <1>1, WatchHandlerEffect DEF SyncAndSpawn, WatchState, HandlerState, Status
  <2>2. /\ row' \in [Task -> Status \cup {"absent"}]
        /\ \A u \in Task : \/ row'[u] = row[u] /\ (u # t \/ row[u] = "absent")
                           \/ u = t /\ row'[u] = run[r].copy
    BY <1>1, <2>0, PersistEffect DEF SyncAndSpawn, Status
  <2>3. TypeOK'
    BY <2>0, <2>1, <2>2 DEF TypeOK, RunEffect
  <2>4. RunInv'
    BY <1>1, <2>1 DEF RunInv, RunEffect, SyncAndSpawn
  <2>5. TicketInv'
    BY <1>1, <2>0, <2>1, <2>2
       DEF RunInv, TicketInv, OneRunPerRelease, RunEffect, SyncAndSpawn
  <2>6. EarnedInv'
    BY <1>1, <2>0, <2>1, <2>2
       DEF RunInv, EarnedInv, CompletedIsEarned, RunEffect, SyncAndSpawn
  <2>7. RunningIsBacked'
    BY <1>1, <2>0, <2>1, <2>2 DEF RunInv, RunningIsBacked, RunEffect, SyncAndSpawn
  <2>8. QED
    BY <2>3, <2>4, <2>5, <2>6, <2>7 DEF IInv
<1>2. CASE StartFails(r)
  <2>0. /\ run[r].watch # "free" /\ t \in Task
        /\ UNCHANGED <<release, retrying, asking, up>> /\ faults' \in Nat
    BY <1>2, TaskOfRun DEF StartFails, RunInv, TypeOK
  <2>1. RunEffect(r, "lost", run[r].handler, run[r].copy, run[r].earned)
    BY <1>2, WatchEffect DEF StartFails, WatchState, HandlerState, Status
  <2>2. row' = row
    BY <1>2 DEF StartFails
  <2>3. TypeOK'
    BY <2>0, <2>1, <2>2 DEF TypeOK, RunEffect
  <2>4. RunInv'
    BY <1>2, <2>1 DEF RunInv, RunEffect, StartFails
  <2>5. TicketInv'
    BY <1>2, <2>0, <2>1, <2>2
       DEF RunInv, TicketInv, OneRunPerRelease, RunEffect, StartFails
  <2>6. EarnedInv'
    BY <1>2, <2>0, <2>1, <2>2
       DEF RunInv, EarnedInv, CompletedIsEarned, RunEffect, StartFails
  <2>7. RunningIsBacked'
    BY <1>2, <2>0, <2>1, <2>2 DEF RunInv, RunningIsBacked, RunEffect, StartFails
  <2>8. QED
    BY <2>3, <2>4, <2>5, <2>6, <2>7 DEF IInv
<1>3. ASSUME NEW full \in BOOLEAN, UpdateProgress(r, full) PROVE IInv'
  <2> DEFINE s == IF full THEN "completed" ELSE run[r].copy
  <2>0. /\ run[r].watch # "free" /\ t \in Task
        /\ UNCHANGED <<release, retrying, asking, up>> /\ faults' \in Nat
    BY <1>3, TaskOfRun DEF UpdateProgress, RunInv, TypeOK
  <2>1. RunEffect(r, run[r].watch, run[r].handler, s, run[r].earned \/ full)
    BY <1>3, CopyEarnedEffect DEF UpdateProgress, WatchState, HandlerState, Status
  <2>2. /\ row' \in [Task -> Status \cup {"absent"}]
        /\ \A u \in Task : \/ row'[u] = row[u] /\ (u # t \/ row[u] = "absent")
                           \/ u = t /\ row'[u] = s
    BY <1>3, <2>0, PersistEffect DEF UpdateProgress, Status
  <2>3. TypeOK'
    BY <2>0, <2>1, <2>2 DEF TypeOK, RunEffect
  <2>4. RunInv'
    BY <1>3, <2>1 DEF RunInv, RunEffect, UpdateProgress
  <2>5. TicketInv'
    BY <1>3, <2>0, <2>1, <2>2
       DEF RunInv, TicketInv, OneRunPerRelease, RunEffect, UpdateProgress
  <2>6. EarnedInv'
    BY <1>3, <2>0, <2>1, <2>2
       DEF RunInv, EarnedInv, CompletedIsEarned, RunEffect, UpdateProgress
  <2>7. RunningIsBacked'
    <3>1. \A q \in Run : run'[q].task = run[q].task /\ run'[q].watch = run[q].watch
      BY <2>1 DEF RunEffect
    <3>2. s = "running" => Watched(r)
      BY <1>3, <2>0 DEF RunInv, UpdateProgress, WatchState
    <3>3. \A u \in Task : row'[u] = "running" =>
             \E q \in Run : run[q].task = u /\ (Watched(q) \/ run[q].watch = "lost")
      BY <2>2, <3>2 DEF RunningIsBacked
    <3>4. QED
      BY <3>1, <3>3 DEF RunningIsBacked
  <2>8. QED
    BY <2>3, <2>4, <2>5, <2>6, <2>7 DEF IInv
<1>4. CASE HandlerReturns(r)
  <2>0. /\ run[r].watch # "free" /\ t \in Task
        /\ UNCHANGED <<release, retrying, asking, up>> /\ faults' \in Nat
    BY <1>4, TaskOfRun DEF HandlerReturns, RunInv, TypeOK
  <2>1. RunEffect(r, run[r].watch, "returned", run[r].copy, TRUE)
    BY <1>4, HandlerEarnedEffect
       DEF HandlerReturns, WatchState, HandlerState, Status
  <2>2. row' = row
    BY <1>4 DEF HandlerReturns
  <2>3. TypeOK'
    BY <2>0, <2>1, <2>2 DEF TypeOK, RunEffect
  <2>4. RunInv'
    BY <1>4, <2>1 DEF RunInv, RunEffect, HandlerReturns
  <2>5. TicketInv'
    BY <1>4, <2>0, <2>1, <2>2
       DEF RunInv, TicketInv, OneRunPerRelease, RunEffect, HandlerReturns
  <2>6. EarnedInv'
    BY <1>4, <2>0, <2>1, <2>2
       DEF RunInv, EarnedInv, CompletedIsEarned, RunEffect, HandlerReturns
  <2>7. RunningIsBacked'
    BY <1>4, <2>0, <2>1, <2>2 DEF RunInv, RunningIsBacked, RunEffect, HandlerReturns
  <2>8. QED
    BY <2>3, <2>4, <2>5, <2>6, <2>7 DEF IInv
<1>5. CASE HandlerSetsFailed(r)
  <2>0. /\ run[r].watch # "free" /\ t \in Task
        /\ UNCHANGED <<release, retrying, asking, up>> /\ faults' \in Nat
    BY <1>5, TaskOfRun DEF HandlerSetsFailed, RunInv, TypeOK
  <2>1. RunEffect(r, run[r].watch, "returned", "failed", run[r].earned)
    BY <1>5, HandlerCopyEffect
       DEF HandlerSetsFailed, WatchState, HandlerState, Status
  <2>2. row' = row
    BY <1>5 DEF HandlerSetsFailed
  <2>3. TypeOK'
    BY <2>0, <2>1, <2>2 DEF TypeOK, RunEffect
  <2>4. RunInv'
    BY <1>5, <2>1 DEF RunInv, RunEffect, HandlerSetsFailed
  <2>5. TicketInv'
    BY <1>5, <2>0, <2>1, <2>2
       DEF RunInv, TicketInv, OneRunPerRelease, RunEffect, HandlerSetsFailed
  <2>6. EarnedInv'
    BY <1>5, <2>0, <2>1, <2>2
       DEF RunInv, EarnedInv, CompletedIsEarned, RunEffect, HandlerSetsFailed
  <2>7. RunningIsBacked'
    BY <1>5, <2>0, <2>1, <2>2
       DEF RunInv, RunningIsBacked, RunEffect, HandlerSetsFailed
  <2>8. QED
    BY <2>3, <2>4, <2>5, <2>6, <2>7 DEF IInv
<1>6. CASE HandlerRaises(r)
  <2>0. /\ run[r].watch # "free" /\ t \in Task
        /\ UNCHANGED <<release, retrying, asking, up>> /\ faults' \in Nat
    BY <1>6, TaskOfRun DEF HandlerRaises, RunInv, TypeOK
  <2>1. RunEffect(r, run[r].watch, "raised", run[r].copy, run[r].earned)
    BY <1>6, HandlerEffect DEF HandlerRaises, WatchState, HandlerState, Status
  <2>2. row' = row
    BY <1>6 DEF HandlerRaises
  <2>3. TypeOK'
    BY <2>0, <2>1, <2>2 DEF TypeOK, RunEffect
  <2>4. RunInv'
    BY <1>6, <2>1 DEF RunInv, RunEffect, HandlerRaises
  <2>5. TicketInv'
    BY <1>6, <2>0, <2>1, <2>2
       DEF RunInv, TicketInv, OneRunPerRelease, RunEffect, HandlerRaises
  <2>6. EarnedInv'
    BY <1>6, <2>0, <2>1, <2>2
       DEF RunInv, EarnedInv, CompletedIsEarned, RunEffect, HandlerRaises
  <2>7. RunningIsBacked'
    BY <1>6, <2>0, <2>1, <2>2 DEF RunInv, RunningIsBacked, RunEffect, HandlerRaises
  <2>8. QED
    BY <2>3, <2>4, <2>5, <2>6, <2>7 DEF IInv
<1>7. CASE TimeoutFires(r)
  <2>0. /\ run[r].watch # "free" /\ t \in Task
        /\ UNCHANGED <<release, retrying, asking, up>> /\ faults' \in Nat
    BY <1>7, TaskOfRun DEF TimeoutFires, RunInv, TypeOK
  <2>1. RunEffect(r, "expired", run[r].handler, run[r].copy, run[r].earned)
    BY <1>7, WatchEffect DEF TimeoutFires, WatchState, HandlerState, Status
  <2>2. row' = row
    BY <1>7 DEF TimeoutFires
  <2>3. TypeOK'
    BY <2>0, <2>1, <2>2 DEF TypeOK, RunEffect
  <2>4. RunInv'
    BY <1>7, <2>1 DEF RunInv, RunEffect, TimeoutFires
  <2>5. TicketInv'
    BY <1>7, <2>0, <2>1, <2>2
       DEF RunInv, TicketInv, OneRunPerRelease, RunEffect, TimeoutFires
  <2>6. EarnedInv'
    BY <1>7, <2>0, <2>1, <2>2
       DEF RunInv, EarnedInv, CompletedIsEarned, RunEffect, TimeoutFires
  <2>7. RunningIsBacked'
    BY <1>7, <2>0, <2>1, <2>2 DEF RunInv, RunningIsBacked, RunEffect, TimeoutFires
  <2>8. QED
    BY <2>3, <2>4, <2>5, <2>6, <2>7 DEF IInv
<1>8. CASE TimeoutPersists(r)
  <2>0. /\ run[r].watch # "free" /\ t \in Task
        /\ UNCHANGED <<release, retrying, asking, up>> /\ faults' \in Nat
    BY <1>8, TaskOfRun DEF TimeoutPersists, EndRun, RunInv, TypeOK
  <2>1. RunEffect(r, "ended", run[r].handler, "failed", run[r].earned)
    BY <1>8, WatchCopyEffect
       DEF TimeoutPersists, EndRun, WatchState, HandlerState, Status
  <2>2. /\ row' \in [Task -> Status \cup {"absent"}]
        /\ \A u \in Task : \/ row'[u] = row[u] /\ (u # t \/ row[u] = "absent")
                           \/ u = t /\ row'[u] = "failed"
    BY <1>8, <2>0, PersistEffect DEF TimeoutPersists, EndRun, Status
  <2>3. TypeOK'
    BY <2>0, <2>1, <2>2 DEF TypeOK, RunEffect
  <2>4. RunInv'
    BY <1>8, <2>1 DEF RunInv, RunEffect, TimeoutPersists, EndRun
  <2>5. TicketInv'
    BY <1>8, <2>0, <2>1, <2>2
       DEF RunInv, TicketInv, OneRunPerRelease, RunEffect, TimeoutPersists, EndRun
  <2>6. EarnedInv'
    BY <1>8, <2>0, <2>1, <2>2 DEF RunInv, EarnedInv, CompletedIsEarned, RunEffect, TimeoutPersists, EndRun
  <2>7. RunningIsBacked'
    BY <1>8, <2>0, <2>1, <2>2
       DEF RunInv, RunningIsBacked, RunEffect, TimeoutPersists, EndRun
  <2>8. QED
    BY <2>3, <2>4, <2>5, <2>6, <2>7 DEF IInv
<1>9. CASE FinishRaised(r)
  <2>0. /\ run[r].watch # "free" /\ t \in Task
        /\ UNCHANGED <<release, retrying, asking, up>> /\ faults' \in Nat
    BY <1>9, TaskOfRun DEF FinishRaised, EndRun, RunInv, TypeOK
  <2>1. RunEffect(r, "ended", run[r].handler, "failed", run[r].earned)
    BY <1>9, WatchCopyEffect
       DEF FinishRaised, EndRun, WatchState, HandlerState, Status
  <2>2. /\ row' \in [Task -> Status \cup {"absent"}]
        /\ \A u \in Task : \/ row'[u] = row[u] /\ (u # t \/ row[u] = "absent")
                           \/ u = t /\ row'[u] = "failed"
    BY <1>9, <2>0, PersistEffect DEF FinishRaised, EndRun, Status
  <2>3. TypeOK'
    BY <2>0, <2>1, <2>2 DEF TypeOK, RunEffect
  <2>4. RunInv'
    BY <1>9, <2>1 DEF RunInv, RunEffect, FinishRaised, EndRun
  <2>5. TicketInv'
    BY <1>9, <2>0, <2>1, <2>2
       DEF RunInv, TicketInv, OneRunPerRelease, RunEffect, FinishRaised, EndRun
  <2>6. EarnedInv'
    BY <1>9, <2>0, <2>1, <2>2
       DEF RunInv, EarnedInv, CompletedIsEarned, RunEffect, FinishRaised, EndRun
  <2>7. RunningIsBacked'
    BY <1>9, <2>0, <2>1, <2>2
       DEF RunInv, RunningIsBacked, RunEffect, FinishRaised, EndRun
  <2>8. QED
    BY <2>3, <2>4, <2>5, <2>6, <2>7 DEF IInv
<1>10. CASE FinishReturned(r)
  <2>0. /\ run[r].watch # "free" /\ t \in Task
        /\ UNCHANGED <<release, retrying, asking, up>> /\ faults' \in Nat
    BY <1>10, TaskOfRun DEF FinishReturned, EndRun, RunInv, TypeOK
  <2>1. RunEffect(r, "ended", run[r].handler, FinalStatus(run[r].copy), run[r].earned)
    BY <1>10, WatchCopyEffect
       DEF FinishReturned, EndRun, WatchState, HandlerState, Status, FinalStatus
  <2>2. /\ row' \in [Task -> Status \cup {"absent"}]
        /\ \A u \in Task : \/ row'[u] = row[u] /\ (u # t \/ row[u] = "absent")
                           \/ u = t /\ row'[u] = FinalStatus(run[r].copy)
    BY <1>10, <2>0, PersistEffect DEF FinishReturned, EndRun, Status, FinalStatus
  <2>3. TypeOK'
    BY <2>0, <2>1, <2>2 DEF TypeOK, RunEffect
  <2>4. RunInv'
    BY <1>10, <2>1 DEF RunInv, RunEffect, FinishReturned, EndRun, FinalStatus
  <2>5. TicketInv'
    BY <1>10, <2>0, <2>1, <2>2 DEF RunInv, TicketInv, OneRunPerRelease, RunEffect, FinishReturned, EndRun, FinalStatus
  <2>6. EarnedInv'
    BY <1>10, <2>0, <2>1, <2>2 DEF RunInv, EarnedInv, CompletedIsEarned, RunEffect, FinishReturned, EndRun, FinalStatus
  <2>7. RunningIsBacked'
    BY <1>10, <2>0, <2>1, <2>2
       DEF RunInv, RunningIsBacked, RunEffect, FinishReturned, EndRun, FinalStatus
  <2>8. QED
    BY <2>3, <2>4, <2>5, <2>6, <2>7 DEF IInv
<1>11. CASE FinalWriteFails(r)
  <2>0. /\ run[r].watch # "free" /\ t \in Task
        /\ UNCHANGED <<release, retrying, asking, up>> /\ faults' \in Nat
    BY <1>11, TaskOfRun DEF FinalWriteFails, RunInv, TypeOK
  <2>1. PICK c \in Status :
          /\ \/ run[r].watch = "expired" /\ c = "failed"
             \/ run[r].watch = "joining" /\ run[r].handler = "raised" /\ c = "failed"
             \/ /\ run[r].watch = "joining" /\ run[r].handler = "returned"
                /\ c = FinalStatus(run[r].copy)
          /\ SetRun(r, [run[r] EXCEPT !.watch = "lost", !.copy = c])
    BY <1>11 DEF FinalWriteFails
  <2>2. RunEffect(r, "lost", run[r].handler, c, run[r].earned)
    BY <2>1, WatchCopyEffect DEF WatchState
  <2>3. row' = row
    BY <1>11 DEF FinalWriteFails
  <2>4. c # "running" /\ c \in {"completed", "failed"}
    BY <2>0, <2>1 DEF FinalStatus, RunInv
  <2>5. TypeOK'
    BY <2>0, <2>2, <2>3 DEF TypeOK, RunEffect
  <2>6. RunInv'
    BY <2>0, <2>1, <2>2, <2>4 DEF RunInv, RunEffect
  <2>7. TicketInv'
    BY <2>0, <2>2, <2>3 DEF RunInv, TicketInv, OneRunPerRelease, RunEffect
  <2>8. c = "completed" => run[r].earned
    BY <2>0, <2>1 DEF EarnedInv, FinalStatus
  <2>9. EarnedInv'
    BY <2>0, <2>1, <2>2, <2>3, <2>8
       DEF RunInv, EarnedInv, CompletedIsEarned, RunEffect, FinalStatus
  <2>10. RunningIsBacked'
    BY <2>0, <2>1, <2>2, <2>3 DEF RunInv, RunningIsBacked, RunEffect
  <2>11. QED
    BY <2>5, <2>6, <2>7, <2>9, <2>10 DEF IInv
<1>12. QED
  BY <1>1, <1>2, <1>3, <1>4, <1>5, <1>6, <1>7, <1>8, <1>9, <1>10, <1>11 DEF RunStep

LEMMA ClaimKeepsIInv ==
  ASSUME IInv, NEW w \in Worker, NEW t \in Task, NEW r \in Run, Claim(w, t, r)
  PROVE  IInv'
<1> USE TaskQueueAssumption
<1> DEFINE s == [FreeRun EXCEPT !.task = t, !.worker = w, !.ticket = release[t],
                                !.copy = "running", !.watch = "claimed"]
<1>0. /\ TypeOK /\ RunInv /\ TicketInv /\ EarnedInv /\ RunningIsBacked
      /\ \A q \in Run : run[q].ticket \in Nat
      /\ release \in [Task -> Nat] /\ run \in [Run -> RunState]
  BY RunFields DEF IInv, TypeOK
<1>1. s \in RunState
  BY <1>0 DEF FreeRun, RunState, Status
<1>2. /\ s.task = t /\ s.ticket = release[t] /\ s.copy = "running"
      /\ s.watch = "claimed" /\ s.handler = "idle" /\ s.earned = FALSE
  BY DEF FreeRun
<1>3. SetRun(r, s)
  BY DEF Claim
<1> HIDE DEF s
<1>4. /\ run' \in [Run -> RunState] /\ run'[r] = s
      /\ \A q \in Run \ {r} : run'[q] = run[q]
  BY <1>0, <1>1, <1>3, SetRunEffect
<1>5. /\ row' \in [Task -> Status \cup {"absent"}]
      /\ row[t] = "pending" /\ row'[t] = "running"
      /\ \A u \in Task \ {t} : row'[u] = row[u]
  BY <1>0 DEF Claim, SetRow, TypeOK, Status
<1>6. /\ UNCHANGED <<release, retrying, asking, up, faults>>
      /\ run[r].watch = "free" /\ run[r].task = NoTask
  BY <1>0 DEF Claim, NextFree, RunInv
<1>7. TypeOK'
  BY <1>0, <1>4, <1>5, <1>6 DEF TypeOK
<1>8. RunInv'
  BY <1>0, <1>2, <1>4, <1>6 DEF RunInv
<1>9. TicketInv'
  BY <1>0, <1>2, <1>4, <1>5, <1>6 DEF TicketInv, OneRunPerRelease, RunsOf
<1>10. EarnedInv'
  BY <1>0, <1>2, <1>4, <1>5, <1>6 DEF EarnedInv, CompletedIsEarned, RunsOf
<1>11. RunningIsBacked'
  BY <1>0, <1>2, <1>4, <1>5, <1>6 DEF RunningIsBacked, RunsOf, Watched
<1>12. QED
  BY <1>7, <1>8, <1>9, <1>10, <1>11 DEF IInv

(* A step that only rewrites rows, to statuses no execution stands for. *)
LEMMA RowStepKeepsIInv ==
  ASSUME IInv, UNCHANGED <<release, run, faults>>,
         up' \in SUBSET Worker, retrying' \in [Task -> Nat],
         asking' \in [Worker -> Request],
         row' \in [Task -> Status \cup {"absent"}],
         \A u \in Task : row'[u] = row[u] \/ row'[u] \in {"paused", "cancelled", "absent"}
  PROVE  IInv'
<1>1. TypeOK' /\ RunInv'
  BY DEF IInv, TypeOK, RunInv
<1>2. TicketInv'
  BY DEF IInv, TicketInv, OneRunPerRelease, RunsOf
<1>3. EarnedInv' /\ RunningIsBacked'
  BY DEF IInv, EarnedInv, CompletedIsEarned, RunningIsBacked, RunsOf, Watched
<1>4. QED
  BY <1>1, <1>2, <1>3 DEF IInv

(* Making a row pending is a release nobody has consumed yet. *)
LEMMA ReleaseKeepsIInv ==
  ASSUME IInv, NEW t \in Task, SetRow(t, "pending"),
         release' = [release EXCEPT ![t] = release[t] + 1],
         retrying' \in [Task -> Nat], asking' \in [Worker -> Request],
         UNCHANGED <<up, run, faults>>
  PROVE  IInv'
<1>0. /\ TypeOK /\ RunInv /\ TicketInv /\ EarnedInv /\ RunningIsBacked
      /\ \A q \in Run : run[q].ticket \in Nat
      /\ release \in [Task -> Nat]
  BY RunFields DEF IInv, TypeOK
<1>1. /\ row' \in [Task -> Status \cup {"absent"}]
      /\ \A u \in Task : row'[u] = IF u = t THEN "pending" ELSE row[u]
  BY <1>0 DEF SetRow, TypeOK, Status
<1>2. /\ release' \in [Task -> Nat] /\ release'[t] = release[t] + 1
      /\ \A u \in Task \ {t} : release'[u] = release[u]
  BY <1>0
<1>3. TypeOK' /\ RunInv'
  BY <1>0, <1>1, <1>2 DEF TypeOK, RunInv
<1>4. TicketInv'
  BY <1>0, <1>1, <1>2 DEF TicketInv, OneRunPerRelease, RunsOf
<1>5. EarnedInv' /\ RunningIsBacked'
  BY <1>0, <1>1 DEF EarnedInv, CompletedIsEarned, RunningIsBacked, RunsOf, Watched
<1>6. QED
  BY <1>3, <1>4, <1>5 DEF IInv

LEMMA PersistPendingKeepsIInv ==
  ASSUME IInv, NEW t \in Task, PersistPending(t),
         retrying' \in [Task -> Nat], asking' \in [Worker -> Request],
         UNCHANGED <<up, run, faults>>
  PROVE  IInv'
<1>1. CASE SetRow(t, "pending") /\ release' = [release EXCEPT ![t] = release[t] + 1]
  BY <1>1, ReleaseKeepsIInv
<1>2. CASE UNCHANGED <<row, release>>
  BY <1>2, RowStepKeepsIInv DEF IInv, TypeOK
<1>3. QED
  BY <1>1, <1>2 DEF PersistPending

LEMMA RequestsTyped ==
  /\ NoRequest \in Request
  /\ \A t \in Task, s \in {"pending", "paused", "cancelled"} : Wish(t, s) \in Request
  BY DEF NoRequest, Request, Wish

LEMMA RequestStepKeepsIInv ==
  ASSUME IInv, NEW t \in Task, RequestStep(t)
  PROVE  IInv'
<1>0. TypeOK
  BY DEF IInv
<1>1. CASE Enqueue(t)
  <2>1. release' = [release EXCEPT ![t] = release[t] + 1]
    BY <1>1 DEF Enqueue
  <2>2. QED
    BY <1>0, <1>1, <2>1, ReleaseKeepsIInv DEF Enqueue, TypeOK
<1>2. CASE RetryWrite(t)
  <2>1. retrying' \in [Task -> Nat]
    BY <1>0, <1>2 DEF RetryWrite, TypeOK
  <2>2. QED
    BY <1>0, <1>2, <2>1, PersistPendingKeepsIInv DEF RetryWrite, TypeOK
<1>3. ASSUME NEW w \in Worker, NEW s \in {"pending", "paused", "cancelled"}, Ask(w, t, s)
      PROVE  IInv'
  <2>1. asking' \in [Worker -> Request]
    BY <1>0, <1>3, RequestsTyped DEF Ask, TypeOK
  <2>2. QED
    BY <1>0, <1>3, <2>1, RowStepKeepsIInv DEF Ask, TypeOK
<1>4. CASE RetryRead(t)
  BY <1>0, <1>4, RowStepKeepsIInv DEF RetryRead, TypeOK
<1>5. QED
  BY <1>1, <1>2, <1>3, <1>4 DEF RequestStep, Pause, Cancel, Resume

LEMMA AnswerKeepsIInv ==
  ASSUME IInv, NEW w \in Worker, Answer(w)
  PROVE  IInv'
<1> DEFINE t == asking[w].task
           s == asking[w].status
<1>0. TypeOK /\ asking[w] \in Request
  BY DEF IInv, TypeOK
<1>1. asking' \in [Worker -> Request]
  BY <1>0, RequestsTyped DEF Answer, TypeOK
<1>2. s \in {"pending", "paused", "cancelled"} /\ t \in Task \cup {NoTask}
  BY <1>0 DEF Request
<1>3. /\ retrying' \in [Task -> Nat] /\ up' \in SUBSET Worker
      /\ UNCHANGED <<up, run, faults>>
  BY <1>0 DEF Answer, TypeOK
<1>4. CASE s = "pending" /\ PersistPending(t) /\ t \in Task
  BY <1>1, <1>3, <1>4, PersistPendingKeepsIInv
<1>5. CASE s = "pending" /\ PersistPending(t) /\ t \notin Task
  <2>1. asking[w] = NoRequest
    BY <1>0, <1>2, <1>5 DEF Request, NoRequest
  <2>2. QED
    BY <2>1 DEF Answer, LockFree
<1>6. CASE s # "pending" /\ Persist(t, s) /\ UNCHANGED release
  <2>1. /\ row' \in [Task -> Status \cup {"absent"}]
        /\ \A u \in Task : \/ row'[u] = row[u] /\ (u # t \/ row[u] = "absent")
                           \/ u = t /\ row'[u] = s
    BY <1>0, <1>2, <1>6, PersistEffect DEF TypeOK, Status
  <2>2. QED
    BY <1>1, <1>2, <1>3, <1>6, <2>1, RowStepKeepsIInv
<1>7. QED
  BY <1>4, <1>5, <1>6 DEF Answer

LEMMA CrashKeepsIInv ==
  ASSUME IInv, NEW w \in Worker, Crash(w)
  PROVE  IInv'
<1>0. /\ TypeOK /\ RunInv /\ TicketInv /\ EarnedInv /\ RunningIsBacked
      /\ run \in [Run -> RunState]
  BY DEF IInv, TypeOK
<1>1. /\ run' \in [Run -> RunState]
      /\ \A r \in Run :
           /\ run'[r].task = run[r].task /\ run'[r].ticket = run[r].ticket
           /\ run'[r].copy = run[r].copy /\ run'[r].earned = run[r].earned
           /\ \/ run'[r] = run[r]
              \/ /\ run'[r].watch = IF Watched(r) THEN "lost" ELSE run[r].watch
                 /\ run'[r].handler = IF HandlerLive(r) THEN "dead" ELSE run[r].handler
  <2>1. ASSUME NEW r \in Run
        PROVE  LET s == [run[r] EXCEPT
                           !.watch = IF Watched(r) THEN "lost" ELSE @,
                           !.handler = IF HandlerLive(r) THEN "dead" ELSE @]
               IN  /\ s \in RunState
                   /\ s.task = run[r].task /\ s.ticket = run[r].ticket
                   /\ s.copy = run[r].copy /\ s.earned = run[r].earned
                   /\ s.watch = IF Watched(r) THEN "lost" ELSE run[r].watch
                   /\ s.handler = IF HandlerLive(r) THEN "dead" ELSE run[r].handler
    BY <1>0 DEF RunState
  <2>2. QED
    BY <1>0, <2>1 DEF Crash
<1>2. /\ UNCHANGED <<row, release, retrying>> /\ up' = up \ {w} /\ faults' = faults + 1
      /\ asking' \in [Worker -> Request]
  BY <1>0, RequestsTyped DEF Crash, TypeOK
<1>3. TypeOK'
  BY <1>0, <1>1, <1>2 DEF TypeOK
<1>4. RunInv'
  BY <1>0, <1>1 DEF RunInv, Watched, HandlerLive
<1>5. TicketInv'
  BY <1>0, <1>1, <1>2 DEF TicketInv, OneRunPerRelease, RunsOf
<1>6. EarnedInv'
  BY <1>0, <1>1, <1>2 DEF EarnedInv, CompletedIsEarned, RunsOf, Watched, HandlerLive
<1>7. RunningIsBacked'
  BY <1>0, <1>1, <1>2 DEF RunningIsBacked, RunsOf, Watched
<1>8. QED
  BY <1>3, <1>4, <1>5, <1>6, <1>7 DEF IInv

(* The inductive invariant holds of every reachable state. *)
THEOREM Invariance == Spec => []IInv
<1>1. Init => IInv
  <2> SUFFICES ASSUME Init PROVE IInv
    OBVIOUS
  <2>1. TypeOK
    BY FreeRunTyped, RequestsTyped, TaskQueueAssumption DEF Init, TypeOK
  <2>2. \A r \in Run : /\ run[r].task = NoTask /\ run[r].watch = "free"
                       /\ run[r].handler = "idle"
    BY DEF Init, FreeRun
  <2>3. RunInv
    BY <2>2 DEF RunInv
  <2>4. \A t \in Task : row[t] = "absent" /\ RunsOf(t) = {}
    BY <2>2, TaskQueueAssumption DEF Init, RunsOf
  <2>5. TicketInv /\ EarnedInv /\ RunningIsBacked
    BY <2>2, <2>4 DEF TicketInv, OneRunPerRelease, EarnedInv, CompletedIsEarned,
                      RunningIsBacked
  <2>6. QED
    BY <2>1, <2>3, <2>5 DEF IInv
<1>2. IInv /\ [Next]_vars => IInv'
  <2> SUFFICES ASSUME IInv, [Next]_vars PROVE IInv'
    OBVIOUS
  <2>0. TypeOK
    BY DEF IInv
  <2>1. CASE ClaimAny
    BY <2>1, ClaimKeepsIInv DEF ClaimAny
  <2>2. CASE \E r \in Run : RunStep(r)
    BY <2>2, RunStepKeepsIInv
  <2>3. CASE \E t \in Task : RequestStep(t)
    BY <2>3, RequestStepKeepsIInv
  <2>4. ASSUME NEW w \in Worker, ClearFinished(w) PROVE IInv'
    BY <2>0, <2>4, RowStepKeepsIInv DEF ClearFinished, TypeOK
  <2>5. ASSUME NEW w \in Worker, Restart(w) PROVE IInv'
    BY <2>0, <2>5, RowStepKeepsIInv DEF Restart, TypeOK
  <2>6. CASE UNCHANGED vars
    BY <2>0, <2>6, RowStepKeepsIInv DEF vars, TypeOK
  <2>7. QED
    BY <2>1, <2>2, <2>3, <2>4, <2>5, <2>6, CrashKeepsIInv, AnswerKeepsIInv DEF Next
<1>3. QED
  BY <1>1, <1>2, PTL DEF Spec

(* Every variable keeps its type; no path writes a status outside TaskStatus. *)
THEOREM TypeCorrect == Spec => []TypeOK
<1>1. IInv => TypeOK
  BY DEF IInv
<1>2. QED
  BY <1>1, Invariance, PTL

(* The atomic claim works for any number of workers, pollers and resumers:   *)
(* each time a task is made pending it is executed at most once.             *)
THEOREM AtMostOnePerRelease == Spec => []OneRunPerRelease
<1>1. IInv => OneRunPerRelease
  BY DEF IInv, TicketInv
<1>2. QED
  BY <1>1, Invariance, PTL

(* A running row is backed by an execution being watched, or by one that a   *)
(* crash or a failed start cut off.                                          *)
THEOREM NoPhantomRunning == Spec => []RunningIsBacked
<1>1. IInv => RunningIsBacked
  BY DEF IInv
<1>2. QED
  BY <1>1, Invariance, PTL

(* Only an execution that returned without failing, or that counted its      *)
(* items to the total, makes a row completed.                                *)
THEOREM CompletedEarned == Spec => []CompletedIsEarned
<1>1. IInv => CompletedIsEarned
  BY DEF IInv, EarnedInv
<1>2. QED
  BY <1>1, Invariance, PTL

(* A row is rewritten only by who holds a copy of it; otherwise it moves by  *)
(* its first enqueue, the claim of a pending row or the clearing of a        *)
(* finished one.                                                             *)
THEOREM QuietRows == Spec => OnlyHoldersRewrite
<1>1. TypeOK /\ [Next]_vars => [\A t \in Task : QuietRowMove(t)]_vars
  <2> SUFFICES ASSUME TypeOK, [Next]_vars, NEW t \in Task, Quiet(t), row'[t] # row[t]
               PROVE  /\ <<row[t], row'[t]>> \in QuietMoves
                      /\ row[t] = "absent" => release[t] = 0
    BY DEF QuietRowMove
  <2>0. row \in [Task -> Status \cup {"absent"}]
    BY DEF TypeOK
  <2> USE <2>0 DEF Persist, SetRow, QuietMoves, Finished
  <2>1. ASSUME NEW w \in Worker, NEW u \in Task, NEW r \in Run, Claim(w, u, r)
        PROVE  row[t] = "pending" /\ row'[t] = "running"
    BY <2>1 DEF Claim
  <2>2. ASSUME NEW r \in Run PROVE ~RunStep(r)
    <3>1. CASE run[r].task = t
      <4>1. ~Watched(r) /\ ~HandlerLive(r)
        BY <3>1 DEF Quiet, RunsOf
      <4>2. QED
        BY <4>1 DEF RunStep, Watched, HandlerLive, SyncAndSpawn, StartFails,
                    UpdateProgress, HandlerReturns, HandlerSetsFailed, HandlerRaises,
                    TimeoutFires, TimeoutPersists, FinishRaised, FinishReturned,
                    FinalWriteFails, EndRun
    <3>2. CASE run[r].task # t
      BY <3>2 DEF RunStep, SyncAndSpawn, StartFails,
                  UpdateProgress, HandlerReturns, HandlerSetsFailed, HandlerRaises,
                  TimeoutFires, TimeoutPersists, FinishRaised, FinishReturned,
                  FinalWriteFails, EndRun
    <3>3. QED
      BY <3>1, <3>2
  <2>3. ASSUME NEW u \in Task, RequestStep(u)
        PROVE  /\ <<row[t], row'[t]>> \in QuietMoves
               /\ row[t] = "absent" => release[t] = 0
    <3>1. \/ Enqueue(u)
          \/ RetryWrite(u)
      BY <2>3 DEF RequestStep, Pause, Cancel, Resume, Ask, RetryRead
    <3>2. u = t
      BY <3>1 DEF Enqueue, RetryWrite, PersistPending
    <3>3. ~RetryWrite(t)
      BY DEF RetryWrite, Quiet
    <3>4. Enqueue(t)
      BY <3>1, <3>2, <3>3
    <3>5. row[t] = "absent"
      BY <3>4 DEF Enqueue
    <3>6. QED
      BY <3>4, <3>5 DEF Enqueue
  <2>4. ASSUME NEW w \in Worker, ClearFinished(w)
        PROVE  <<row[t], row'[t]>> \in QuietMoves /\ row[t] # "absent"
    BY <2>4 DEF ClearFinished
  <2>5. ASSUME NEW w \in Worker, Crash(w) \/ Restart(w) \/ Answer(w) PROVE FALSE
    BY <2>5 DEF Crash, Restart, Answer, PersistPending, Quiet
  <2>6. row' # row
    OBVIOUS
  <2>7. QED
    BY <2>1, <2>2, <2>3, <2>4, <2>5, <2>6 DEF Next, ClaimAny, vars
<1>2. QED
  BY <1>1, TypeCorrect, PTL DEF Spec, OnlyHoldersRewrite
=============================================================================
