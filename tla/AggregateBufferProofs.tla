------------------------- MODULE AggregateBufferProofs -------------------------
(***************************************************************************)
(* For any groups, messages, windows and batch size: the state has its     *)
(* types; the buffer implements Delivery, with every message in one place; *)
(* a group that holds messages has a timer or a thread that is to take it; *)
(* the timer of an open window is due within the longest window; a summary *)
(* counts at most BatchSize of them; and where closing flushes, it saves   *)
(* what was buffered.                                                      *)
(***************************************************************************)
EXTENDS AggregateBuffer, FiniteSetTheorems, TLAPS

(* Sequences as the messages in them.                                        *)
LEMMA NoMessages == ToSet(<<>>) = {}
  BY DEF ToSet

LEMMA OneMessage == ASSUME NEW m PROVE ToSet(<<m>>) = {m}
  BY DEF ToSet

LEMMA Appended ==
    ASSUME NEW s \in Seq(Msg), NEW m \in Msg
    PROVE  /\ Append(s, m) \in Seq(Msg) /\ Append(s, m) # <<>>
           /\ ToSet(Append(s, m)) = ToSet(s) \cup {m}
           /\ Len(Append(s, m)) = Len(s) + 1
<1> DEFINE t == Append(s, m)
<1>1. t \in Seq(Msg) /\ Len(t) = Len(s) + 1 /\ t # <<>>
  <2>1. t \in Seq(Msg)
    OBVIOUS
  <2>2. Len(t) = Len(s) + 1 /\ Len(s) \in Nat
    OBVIOUS
  <2> HIDE DEF t
  <2>3. t # <<>>
    BY <2>2
  <2>4. QED
    BY <2>1, <2>2, <2>3
<1>2. DOMAIN s = 1..Len(s) /\ DOMAIN t = 1..(Len(s) + 1) /\ Len(s) \in Nat
  OBVIOUS
<1>3. (\A i \in 1..Len(s) : t[i] = s[i]) /\ t[Len(s) + 1] = m
  OBVIOUS
<1> HIDE DEF t
<1>4. ToSet(t) = ToSet(s) \cup {m}
  BY <1>2, <1>3 DEF ToSet
<1>5. QED
  BY <1>1, <1>4 DEF t

LEMMA MessagesIn == ASSUME NEW s \in Seq(Msg) PROVE ToSet(s) \subseteq Msg
  BY DEF ToSet

LEMMA EmptyIffNone == ASSUME NEW s \in Seq(Msg) PROVE s = <<>> <=> ToSet(s) = {}
<1>1. ASSUME s # <<>> PROVE s[1] \in ToSet(s)
  BY <1>1 DEF ToSet
<1>2. QED
  BY <1>1, NoMessages

-----------------------------------------------------------------------------
(* What leaves the buffers of the groups gs, whoever takes it.               *)
Take(gs, by) ==
    /\ LockFree
    /\ buffer' = [g \in Group |-> IF g \in gs THEN <<>> ELSE buffer[g]]
    /\ sending' = sending \cup {Batch(by, buffer[g]) : g \in {h \in gs : buffer[h] # <<>>}}
    /\ UNCHANGED <<locked, outcome, raised, accepted>>

(* A timer that is alive has a group, and the group's timer is one of its.   *)
TimersInv ==
    /\ \A i \in Slot : Live(i) => timer[i].group \in Group
    /\ \A g \in Group : cur[g] # None => Live(cur[g]) /\ timer[cur[g]].group = g

Types == TypeOK /\ TimersInv

LEMMA TimerTakes ==
    ASSUME Types, NEW i \in Slot, OnTimer(i)
    PROVE  /\ timer[i].group \in Group /\ Take({timer[i].group}, "timer")
           /\ timer[i].st = "fired"
           /\ UNCHANGED <<early, phase>>
<1> DEFINE g == timer[i].group
<1>1. TakeBuffer(i)
  BY DEF OnTimer, OnTimerRenews, OnTimerCannotRenew, OnTimerForces
<1>2. g \in Group /\ timer[i].st = "fired"
  BY <1>1 DEF TakeBuffer, Types, TimersInv, Live
<1>3. buffer' = [h \in Group |-> IF h \in {g} THEN <<>> ELSE buffer[h]]
  BY <1>1 DEF TakeBuffer, Types, TypeOK
<1>4. sending' = sending \cup {Batch("timer", buffer[h]) : h \in {k \in {g} : buffer[k] # <<>>}}
  BY <1>1 DEF TakeBuffer
<1>5. QED
  BY <1>1, <1>2, <1>3, <1>4 DEF TakeBuffer, Take, history

LEMMA DrainTakes ==
    ASSUME Types, NEW gs \in SUBSET Group, Drain(gs)
    PROVE  Take(gs, "caller")
  BY DEF Drain, Take

LEMMA Drains ==
    ASSUME FlushAll \/ Shutdown \/ \E gs \in SUBSET Group : Flush(gs)
    PROVE  \E gs \in SUBSET Group : Drain(gs)
  BY DEF FlushAll, Shutdown, Flush

(* The messages: where a step may put them.                                  *)
Moves ==
    \/ \E m \in Msg : Bypass(m)
    \/ \E m \in Msg, g \in Group : Enqueue(m, g) \/ EnqueueRaises(m, g) \/ EnqueueFull(m, g)
    \/ \E gs \in SUBSET Group, by \in {"timer", "caller"} : Take(gs, by)
    \/ Exit
    \/ \E b \in sending, ok \in BOOLEAN : SendEnds(b, ok)
    \/ \E ok \in BOOLEAN : LockedSendEnds(ok)
    \/ UNCHANGED <<buffer, sending, locked, outcome, raised, accepted>>

LEMMA EveryStepMoves == ASSUME Types, Next PROVE Moves
<1>1. ASSUME NEW i \in Slot, OnTimer(i)
      PROVE  \E gs \in SUBSET Group, by \in {"timer", "caller"} : Take(gs, by)
  BY <1>1, TimerTakes
<1>2. ASSUME NEW i \in Slot, TimerFires(i)
      PROVE  UNCHANGED <<buffer, sending, locked, outcome, raised, accepted>>
  BY <1>2 DEF TimerFires, history
<1>3. CASE FlushAll \/ Shutdown \/ \E gs \in SUBSET Group : Flush(gs)
  BY <1>3, Drains, DrainTakes DEF Moves
<1>4. CASE ManagerShutdown
  BY <1>4 DEF ManagerShutdown, Moves
<1>5. CASE Tick
  BY <1>5 DEF Tick, history, Moves
<1>6. CASE EnqueueAny
  BY <1>6 DEF EnqueueAny, Moves
<1>7. CASE SendEndsAny \/ LockedSendEndsAny \/ Exit
  BY <1>7 DEF SendEndsAny, LockedSendEndsAny, Moves
<1>8. QED
  BY <1>1, <1>2, <1>3, <1>4, <1>5, <1>6, <1>7 DEF Next, Moves

LEMMA MovesTypes ==
    ASSUME Types, Moves
    PROVE  /\ buffer' \in [Group -> Seq(Msg)]
           /\ sending' \subseteq Batches /\ locked' \in Seq(Msg)
           /\ {sent, lost, dropped, raised, accepted}' \subseteq SUBSET Msg
<1> USE DEF Types, TypeOK
<1> DEFINE Goal == /\ buffer' \in [Group -> Seq(Msg)]
                   /\ sending' \subseteq Batches /\ locked' \in Seq(Msg)
                   /\ {sent, lost, dropped, raised, accepted}' \subseteq SUBSET Msg
<1> SUFFICES Goal
  OBVIOUS
<1>1. ASSUME NEW m \in Msg, Bypass(m) PROVE Goal
  <2>1. Batch("caller", <<m>>) \in Batches
    BY DEF Batch, Batches
  <2>2. QED
    BY <1>1, <2>1 DEF Bypass, Accept, outcome
<1>2. ASSUME NEW m \in Msg, NEW g \in Group, Enqueue(m, g) \/ EnqueueRaises(m, g) PROVE Goal
  <2>1. buffer' \in [Group -> Seq(Msg)]
    <3>1. Append(buffer[g], m) \in Seq(Msg)
      BY Appended
    <3>2. buffer' = [buffer EXCEPT ![g] = Append(buffer[g], m)]
      BY <1>2 DEF Enqueue, EnqueueRaises
    <3>3. QED
      BY <3>1, <3>2
  <2>2. QED
    BY <1>2, <2>1 DEF Enqueue, EnqueueRaises, Accept, outcome
<1>3. ASSUME NEW m \in Msg, NEW g \in Group, EnqueueFull(m, g) PROVE Goal
  <2>1. buffer' \in [Group -> Seq(Msg)] /\ locked' \in Seq(Msg)
    BY <1>3, Appended DEF EnqueueFull
  <2>2. QED
    BY <1>3, <2>1 DEF EnqueueFull, Accept, outcome
<1>4. ASSUME NEW gs \in SUBSET Group, NEW by \in {"timer", "caller"}, Take(gs, by) PROVE Goal
  <2>1. \A g \in gs : Batch(by, buffer[g]) \in Batches
    BY DEF Batch, Batches
  <2>2. buffer' \in [Group -> Seq(Msg)] /\ sending' \subseteq Batches
    BY <1>4, <2>1 DEF Take
  <2>3. QED
    BY <1>4, <2>2 DEF Take, outcome
<1>5. CASE Exit
  BY <1>5 DEF Exit, history
<1>6. ASSUME NEW b \in sending, NEW ok \in BOOLEAN, SendEnds(b, ok) PROVE Goal
  <2>1. ToSet(b.msgs) \subseteq Msg
    BY MessagesIn DEF Batches
  <2>2. QED
    BY <1>6, <2>1 DEF SendEnds, Ends, history
<1>7. ASSUME NEW ok \in BOOLEAN, LockedSendEnds(ok) PROVE Goal
  <2>1. ToSet(locked) \subseteq Msg
    BY MessagesIn
  <2>2. QED
    BY <1>7, <2>1 DEF LockedSendEnds, Ends, history
<1>8. CASE UNCHANGED <<buffer, sending, locked, outcome, raised, accepted>>
  BY <1>8 DEF outcome
<1> HIDE DEF Goal
<1>9. QED
  <2>1. CASE \E b \in sending, ok \in BOOLEAN : SendEnds(b, ok)
    BY <1>6, <2>1
  <2>2. CASE \E ok \in BOOLEAN : LockedSendEnds(ok)
    BY <1>7, <2>2
  <2>3. CASE \E gs \in SUBSET Group, by \in {"timer", "caller"} : Take(gs, by)
    BY <1>4, <2>3
  <2>4. CASE \E m \in Msg, g \in Group :
               Enqueue(m, g) \/ EnqueueRaises(m, g) \/ EnqueueFull(m, g)
    BY <1>2, <1>3, <2>4
  <2>5. CASE \E m \in Msg : Bypass(m)
    BY <1>1, <2>5
  <2>6. QED
    BY <1>5, <1>8, <2>1, <2>2, <2>3, <2>4, <2>5 DEF Moves

-----------------------------------------------------------------------------
(* The timers.                                                               *)
LEMMA DelayInWindow ==
    ASSUME Types, NEW i \in Slot, Live(i), Remains(i)
    PROVE  /\ WindowAge(i) \in 0..Closed
           /\ NextDelay(i) \in 0..Window
           /\ WindowAge(i) + NextDelay(i) <= MaxWindow + timer[i].late
<1>1. /\ win \in [Group -> 0..Closed] /\ timer[i].group \in Group
      /\ Closed = MaxWindow + MaxWait + 1 /\ MaxWindow \in Nat /\ MaxWait \in Nat
  BY AggregateBufferAssumption DEF Types, TypeOK, TimersInv, Closed, MaxAge
<1>2. timer[i].late \in 0..MaxWait
  BY DEF Types, TypeOK, TimerState
<1>3. WindowAge(i) \in 0..Closed
  <2>1. win[timer[i].group] \in 0..Closed
    BY <1>1
  <2>2. WindowAge(i) \in {timer[i].late, win[timer[i].group]}
    BY DEF WindowAge
  <2>3. QED
    BY <1>1, <1>2, <2>1, <2>2
<1>4. WindowAge(i) < MaxWindow + timer[i].late
  BY DEF Remains
<1> HIDE DEF WindowAge
<1>5. QED
  BY <1>1, <1>2, <1>3, <1>4, AggregateBufferAssumption DEF NextDelay, Smaller

LEMMA OlderTimer ==
    ASSUME NEW t \in TimerState, t.st = "fired" => t.late < MaxWait
    PROVE  /\ Older(t) \in TimerState
           /\ Older(t).st = t.st /\ Older(t).group = t.group
           /\ t.st # "fired" => Older(t).late = t.late
           /\ t.st = "waiting" /\ t.left > 0 => Older(t).left = t.left - 1
           /\ t.left = 0 => Older(t).left = 0
<1>1. t.late \in 0..MaxWait /\ t.left \in 0..Window /\ t.st \in {"free", "waiting", "fired"}
  BY DEF TimerState
<1>2. CASE t.st = "fired"
  <2>1. Older(t) = [t EXCEPT !.late = t.late + 1]
    BY <1>2 DEF Older
  <2>2. t.late + 1 \in 0..MaxWait
    BY <1>1, <1>2, AggregateBufferAssumption
  <2>3. QED
    BY <1>2, <2>1, <2>2 DEF TimerState
<1>3. CASE t.st = "waiting" /\ t.left > 0
  <2>1. Older(t) = [t EXCEPT !.left = t.left - 1]
    BY <1>3 DEF Older
  <2>2. t.left - 1 \in 0..Window /\ t.left # 0
    BY <1>1, <1>3, AggregateBufferAssumption
  <2>3. QED
    BY <1>3, <2>1, <2>2 DEF TimerState
<1>4. CASE t.st # "fired" /\ ~(t.st = "waiting" /\ t.left > 0)
  <2>1. Older(t) = t
    BY <1>4 DEF Older
  <2>2. QED
    BY <1>4, <2>1
<1>5. QED
  BY <1>2, <1>3, <1>4

LEMMA TimingTypes ==
    ASSUME Types, Next
    PROVE  /\ cur' \in [Group -> Slot \cup {None}]
           /\ win' \in [Group -> 0..Closed]
           /\ timer' \in [Slot -> TimerState]
<1> DEFINE Goal == /\ cur' \in [Group -> Slot \cup {None}]
                   /\ win' \in [Group -> 0..Closed]
                   /\ timer' \in [Slot -> TimerState]
<1> SUFFICES Goal
  OBVIOUS
<1>0. /\ cur \in [Group -> Slot \cup {None}]
      /\ win \in [Group -> 0..Closed]
      /\ timer \in [Slot -> TimerState]
      /\ FreeTimer \in TimerState /\ 0 \in 0..Closed /\ Closed \in 0..Closed
      /\ \A g \in Group, d \in 0..Window, l \in 0..MaxWait : Started(g, d, l) \in TimerState
      /\ \A t \in TimerState : Cancelled(t) \in TimerState
      /\ Window \in 0..Window /\ 0 \in 0..MaxWait
      /\ \A l \in 0..MaxWait : l \in 0..Closed
  BY AggregateBufferAssumption
  DEF Types, TypeOK, FreeTimer, TimerState, Closed, MaxAge, Started, Cancelled
<1>a. ASSUME NEW gs, CloseWindows(gs)
      PROVE  cur' \in [Group -> Slot \cup {None}] /\ win' \in [Group -> 0..Closed]
  BY <1>0, <1>a DEF CloseWindows
<1>b. ASSUME UNCHANGED timing PROVE Goal
  BY <1>0, <1>b DEF timing
<1>1. ASSUME NEW m \in Msg, NEW g \in Group, Enqueue(m, g) PROVE Goal
  <2>1. CASE UNCHANGED timing
    BY <1>b, <2>1
  <2>2. CASE \E i \in Slot, late \in 0..MaxWait :
               /\ timer' = [timer EXCEPT ![i] = Started(g, Window, late)]
               /\ cur' = [cur EXCEPT ![g] = i]
               /\ win' = [win EXCEPT ![g] = late]
    BY <1>0, <2>2
  <2>3. QED
    BY <1>1, <2>1, <2>2 DEF Enqueue
<1>2. ASSUME NEW m \in Msg, NEW g \in Group, EnqueueRaises(m, g) PROVE Goal
  BY <1>0, <1>2 DEF EnqueueRaises
<1>3. ASSUME NEW m \in Msg, NEW g \in Group, EnqueueFull(m, g) PROVE Goal
  BY <1>0, <1>3, <1>a DEF EnqueueFull
<1>4. ASSUME NEW i \in Slot, TimerFires(i) PROVE Goal
  <2>1. /\ cur' = cur /\ win' = win
        /\ timer' = [timer EXCEPT ![i] = [timer[i] EXCEPT !.st = "fired", !.late = 0]]
    BY <1>4 DEF TimerFires
  <2>2. [timer[i] EXCEPT !.st = "fired", !.late = 0] \in TimerState
    BY <1>0 DEF TimerState
  <2>3. QED
    BY <1>0, <2>1, <2>2
<1>5. ASSUME NEW i \in Slot, OnTimerRenews(i) PROVE Goal
  <2>1. timer[i].group \in Group
    BY <1>5, TimerTakes DEF OnTimer
  <2> DEFINE g == timer[i].group
             t == Started(g, NextDelay(i), timer[i].late)
  <2>2. WindowAge(i) \in 0..Closed /\ t \in TimerState
    <3>1. Live(i) /\ Remains(i) /\ timer[i].late \in 0..MaxWait
      BY <1>0, <1>5 DEF OnTimerRenews, TakeBuffer, Live, TimerState
    <3>2. WindowAge(i) \in 0..Closed /\ NextDelay(i) \in 0..Window
      BY <3>1, DelayInWindow
    <3>3. QED
      BY <1>0, <2>1, <3>1, <3>2
  <2>3. /\ win' = [win EXCEPT ![g] = WindowAge(i)]
        /\ timer' = [timer EXCEPT ![i] = t]
        /\ cur' = [cur EXCEPT ![g] = i]
    BY <1>5 DEF OnTimerRenews
  <2>4. QED
    BY <1>0, <2>2, <2>3
<1>6. ASSUME NEW i \in Slot, OnTimerCannotRenew(i) \/ OnTimerForces(i) PROVE Goal
  BY <1>0, <1>6, <1>a DEF OnTimerCannotRenew, OnTimerForces
<1>7. ASSUME NEW gs \in SUBSET Group, Drain(gs) PROVE Goal
  BY <1>0, <1>7, <1>a DEF Drain
<1>8. CASE Exit
  BY <1>0, <1>8, <1>a DEF Exit
<1>9. CASE Tick
  <2>1. ASSUME NEW i \in Slot PROVE Older(timer[i]) \in TimerState
    BY <1>0, <1>9, OlderTimer DEF Tick
  <2>2. ASSUME NEW g \in Group
        PROVE  (IF win[g] < MaxAge THEN win[g] + 1 ELSE win[g]) \in 0..Closed
    BY <1>0, AggregateBufferAssumption DEF Closed, MaxAge
  <2>3. QED
    BY <1>0, <1>9, <2>1, <2>2 DEF Tick
<1>10. CASE ManagerShutdown \/ SendEndsAny \/ LockedSendEndsAny \/ \E m \in Msg : Bypass(m)
  BY <1>10, <1>b DEF ManagerShutdown, SendEndsAny, SendEnds, LockedSendEndsAny,
     LockedSendEnds, Bypass
<1>11. CASE FlushAll \/ Shutdown \/ \E gs \in SUBSET Group : Flush(gs)
  BY <1>7, <1>11, Drains
<1> HIDE DEF Goal
<1>12. QED
  BY <1>1, <1>2, <1>3, <1>4, <1>5, <1>6, <1>8, <1>9, <1>10, <1>11 DEF Next, EnqueueAny, OnTimer

LEMMA PhaseTypes ==
    ASSUME Types, Next
    PROVE  early' \in SUBSET Msg /\ phase' \in {"up", "closing", "gone"} /\ faults' \in Nat
<1> DEFINE Goal == /\ early' \in SUBSET Msg
                   /\ phase' \in {"up", "closing", "gone"} /\ faults' \in Nat
<1> SUFFICES Goal
  OBVIOUS
<1>0. /\ early \in SUBSET Msg /\ accepted \in SUBSET Msg
      /\ phase \in {"up", "closing", "gone"} /\ faults \in Nat
  BY DEF Types, TypeOK
<1>1. ASSUME NEW m \in Msg, NEW g \in Group, Enqueue(m, g) \/ EnqueueFull(m, g)
      PROVE  Goal
  BY <1>0, <1>1 DEF Enqueue, EnqueueFull, Bypass, Accept
<1>2. ASSUME NEW m \in Msg, NEW g \in Group, EnqueueRaises(m, g) PROVE Goal
  BY <1>0, <1>2 DEF EnqueueRaises, Accept
<1>3. ASSUME NEW m \in Msg, Bypass(m) PROVE Goal
  BY <1>0, <1>3 DEF Bypass, Accept
<1>4. ASSUME NEW i \in Slot, TimerFires(i) PROVE Goal
  BY <1>0, <1>4 DEF TimerFires, history
<1>5. ASSUME NEW i \in Slot, OnTimer(i) PROVE Goal
  <2>1. faults' \in {faults, faults + 1}
    BY <1>5 DEF OnTimer, OnTimerRenews, OnTimerCannotRenew, OnTimerForces
  <2>2. early' = early /\ phase' = phase
    BY <1>5, TimerTakes
  <2>3. QED
    BY <1>0, <2>1, <2>2
<1>6. CASE FlushAll \/ Shutdown \/ \E gs \in SUBSET Group : Flush(gs)
  BY <1>0, <1>6 DEF FlushAll, Shutdown, Flush, Drain
<1>7. CASE ManagerShutdown \/ Exit \/ Tick
  BY <1>0, <1>7 DEF ManagerShutdown, Exit, Tick, history
<1>8. CASE SendEndsAny \/ LockedSendEndsAny
  BY <1>0, <1>8 DEF SendEndsAny, SendEnds, LockedSendEndsAny, LockedSendEnds, Ends, history
<1> HIDE DEF Goal
<1>9. QED
  BY <1>1, <1>2, <1>3, <1>4, <1>5, <1>6, <1>7, <1>8 DEF Next, EnqueueAny

(* Timers that are stopped are the ones of the groups whose window closes.   *)
LEMMA TimersStep == ASSUME Types, Next PROVE TimersInv'
<1>0. /\ cur \in [Group -> Slot \cup {None}]
      /\ timer \in [Slot -> TimerState] /\ None \notin Slot
      /\ \A i \in Slot : timer[i].st # "free" => timer[i].group \in Group
      /\ \A g \in Group : cur[g] # None =>
           cur[g] \in Slot /\ timer[cur[g]].st # "free" /\ timer[cur[g]].group = g
  BY AggregateBufferAssumption DEF Types, TypeOK, TimersInv, Live
<1> USE DEF TimersInv, Live
<1>a. ASSUME NEW gs \in SUBSET Group, CloseWindows(gs), NEW S \in SUBSET Slot,
             \A i \in Slot \ S : timer'[i] = timer[i],
             \A i \in S : timer'[i] \in {timer[i], FreeTimer},
             \A i \in S : timer[i].st # "free" => timer[i].group \in gs
      PROVE  TimersInv'
  <2>1. \A i \in Slot : timer'[i].st # "free" => timer'[i] = timer[i]
    BY <1>a DEF FreeTimer
  <2>2. ASSUME NEW g \in Group, cur'[g] # None
        PROVE  timer'[cur'[g]].st # "free" /\ timer'[cur'[g]].group = g
    <3>1. g \notin gs /\ cur'[g] = cur[g]
      BY <1>a, <2>2 DEF CloseWindows
    <3>2. cur[g] \in Slot \ S
      BY <1>0, <1>a, <2>2, <3>1
    <3>3. QED
      BY <1>0, <1>a, <2>2, <3>1, <3>2
  <2>3. QED
    BY <1>0, <2>1, <2>2
<1>b. ASSUME UNCHANGED timing PROVE TimersInv'
  BY <1>0, <1>b DEF timing
<1>1. ASSUME NEW m \in Msg, NEW g \in Group, Enqueue(m, g) PROVE TimersInv'
  <2>1. CASE UNCHANGED timing
    BY <1>b, <2>1
  <2>2. CASE \E i \in Slot, late \in 0..MaxWait :
               /\ ~Live(i)
               /\ timer' = [timer EXCEPT ![i] = Started(g, Window, late)]
               /\ cur' = [cur EXCEPT ![g] = i]
    BY <1>0, <2>2 DEF Started
  <2>3. QED
    BY <1>1, <2>1, <2>2 DEF Enqueue
<1>2. ASSUME NEW m \in Msg, NEW g \in Group, EnqueueRaises(m, g) PROVE TimersInv'
  BY <1>0, <1>2 DEF EnqueueRaises
<1>3. ASSUME NEW m \in Msg, NEW g \in Group, EnqueueFull(m, g) PROVE TimersInv'
  <2>1. \A i \in Slot : timer'[i] = IF i = cur[g] THEN Cancelled(timer[i]) ELSE timer[i]
    BY <1>3 DEF EnqueueFull
  <2>2. /\ \A i \in Slot \ {cur[g]} : timer'[i] = timer[i]
        /\ \A i \in Slot \cap {cur[g]} : timer'[i] \in {timer[i], FreeTimer}
    BY <2>1 DEF Cancelled
  <2>3. CloseWindows({g})
    BY <1>3 DEF EnqueueFull
  <2>4. \A i \in Slot \cap {cur[g]} : timer[i].st # "free" => timer[i].group \in {g}
    BY <1>0
  <2>5. QED
    BY <1>a, <2>2, <2>3, <2>4
<1>4. ASSUME NEW i \in Slot, TimerFires(i) PROVE TimersInv'
  <2>1. /\ cur' = cur
        /\ timer' = [timer EXCEPT ![i] = [timer[i] EXCEPT !.st = "fired", !.late = 0]]
        /\ timer[i].st = "waiting"
    BY <1>4 DEF TimerFires
  <2> DEFINE t == [timer[i] EXCEPT !.st = "fired", !.late = 0]
  <2>2. t.st = "fired" /\ t.group = timer[i].group
    BY <1>0 DEF TimerState
  <2> HIDE DEF t
  <2>3. timer' = [timer EXCEPT ![i] = t]
    BY <2>1 DEF t
  <2>4. QED
    BY <1>0, <2>1, <2>2, <2>3
<1>5. ASSUME NEW i \in Slot, OnTimerRenews(i) PROVE TimersInv'
  <2>1. timer[i].group \in Group /\ timer[i].st = "fired"
    BY <1>5, TimerTakes DEF OnTimer
  <2> DEFINE g == timer[i].group
             t == Started(g, NextDelay(i), timer[i].late)
  <2>2. t.group = g /\ t.st = "waiting"
    BY DEF Started
  <2>3. timer' = [timer EXCEPT ![i] = t] /\ cur' = [cur EXCEPT ![g] = i]
    BY <1>5 DEF OnTimerRenews
  <2> HIDE DEF t, g
  <2>4. g \in Group /\ g = timer[i].group
    BY <2>1 DEF g
  <2>5. QED
    BY <1>0, <2>2, <2>3, <2>4
<1>6. ASSUME NEW i \in Slot, OnTimerCannotRenew(i) \/ OnTimerForces(i) PROVE TimersInv'
  <2>1. timer[i].group \in Group
    BY <1>6, TimerTakes DEF OnTimer
  <2>2. CloseWindows({timer[i].group}) /\ timer' = [timer EXCEPT ![i] = FreeTimer]
    BY <1>6 DEF OnTimerCannotRenew, OnTimerForces
  <2>3. /\ \A j \in Slot \ {i} : timer'[j] = timer[j]
        /\ \A j \in {i} : timer'[j] \in {timer[j], FreeTimer}
    BY <1>0, <2>2
  <2>4. \A j \in {i} : timer[j].st # "free" => timer[j].group \in {timer[i].group}
    OBVIOUS
  <2> DEFINE S == {i}
             gs == {timer[i].group}
  <2>5. S \in SUBSET Slot /\ gs \in SUBSET Group
    BY <2>1
  <2> HIDE DEF S
  <2>6. /\ \A j \in Slot \ S : timer'[j] = timer[j]
        /\ \A j \in S : timer'[j] \in {timer[j], FreeTimer}
        /\ \A j \in S : timer[j].st # "free" => timer[j].group \in gs
    BY <2>3, <2>4 DEF S
  <2> HIDE DEF gs
  <2>7. CloseWindows(gs)
    BY <2>2 DEF gs
  <2>8. QED
    BY <1>a, <2>5, <2>6, <2>7
<1>7. ASSUME NEW gs \in SUBSET Group, Drain(gs) PROVE TimersInv'
  <2> DEFINE S == {i \in Slot : \E g \in gs : cur[g] = i}
  <2>1. \A i \in Slot :
          timer'[i] = IF \E g \in gs : cur[g] = i THEN Cancelled(timer[i]) ELSE timer[i]
    BY <1>7 DEF Drain
  <2>2. /\ \A i \in Slot \ S : timer'[i] = timer[i]
        /\ \A i \in S : timer'[i] \in {timer[i], FreeTimer}
    BY <2>1 DEF Cancelled
  <2>3. \A i \in S : timer[i].st # "free" => timer[i].group \in gs
    BY <1>0
  <2>4. CloseWindows(gs)
    BY <1>7 DEF Drain
  <2> HIDE DEF S
  <2>5. S \in SUBSET Slot
    BY DEF S
  <2>6. QED
    BY <1>a, <2>2, <2>3, <2>4, <2>5
<1>8. CASE Exit
  <2>1. \A i \in Slot : timer'[i] = FreeTimer
    BY <1>8 DEF Exit
  <2>2. \A g \in Group : cur'[g] = None
    BY <1>8 DEF Exit, CloseWindows
  <2>3. QED
    BY <2>1, <2>2 DEF FreeTimer
<1>9. CASE Tick
  <2>1. ASSUME NEW i \in Slot
        PROVE  timer'[i].st = timer[i].st /\ timer'[i].group = timer[i].group
    <3>1. timer'[i] = Older(timer[i])
      BY <1>9 DEF Tick
    <3>2. timer[i].st = "fired" => timer[i].late < MaxWait
      BY <1>9 DEF Tick
    <3>3. QED
      BY <1>0, <3>1, <3>2, OlderTimer
  <2>2. cur' = cur
    BY <1>9 DEF Tick
  <2>3. QED
    BY <1>0, <2>1, <2>2
<1>10. CASE ManagerShutdown \/ SendEndsAny \/ LockedSendEndsAny \/ \E m \in Msg : Bypass(m)
  BY <1>10, <1>b DEF ManagerShutdown, SendEndsAny, SendEnds, LockedSendEndsAny,
     LockedSendEnds, Bypass
<1>11. CASE FlushAll \/ Shutdown \/ \E gs \in SUBSET Group : Flush(gs)
  BY <1>7, <1>11, Drains
<1> HIDE DEF TimersInv
<1>12. QED
  BY <1>1, <1>2, <1>3, <1>4, <1>5, <1>6, <1>8, <1>9, <1>10, <1>11 DEF Next, EnqueueAny, OnTimer

LEMMA TypesStep == ASSUME Types, Next PROVE Types'
<1>1. /\ buffer' \in [Group -> Seq(Msg)]
      /\ sending' \subseteq Batches /\ locked' \in Seq(Msg)
      /\ {sent, lost, dropped, raised, accepted}' \subseteq SUBSET Msg
  BY EveryStepMoves, MovesTypes
<1>2. {sent, lost, dropped, raised, accepted, early}' \subseteq SUBSET Msg
  BY <1>1, PhaseTypes
<1>3. TypeOK'
  BY <1>1, <1>2, TimingTypes, PhaseTypes DEF TypeOK, Batches
<1>4. QED
  BY <1>3, TimersStep DEF Types

LEMMA InitTypes == Init => Types
<1> SUFFICES ASSUME Init PROVE Types
  OBVIOUS
<1>1. TypeOK
  <2>1. FreeTimer \in TimerState /\ Closed \in 0..Closed /\ <<>> \in Seq(Msg)
    BY AggregateBufferAssumption DEF FreeTimer, TimerState, Closed, MaxAge
  <2>2. QED
    BY <2>1 DEF Init, TypeOK
<1>2. TimersInv
  BY DEF Init, TimersInv, Live, FreeTimer
<1>3. QED
  BY <1>1, <1>2 DEF Types

-----------------------------------------------------------------------------
(* Where a message is: in one buffer, or in one batch, or in the batch sent  *)
(* with the lock held, and only if it was handed to enqueue.                 *)
MsgAt(m) ==
    /\ \A g, h \in Group : m \in ToSet(buffer[g]) /\ m \in ToSet(buffer[h]) => g = h
    /\ \A b, c \in sending : m \in ToSet(b.msgs) /\ m \in ToSet(c.msgs) => b = c
    /\ Buffered(m) => ~InBatch(m) /\ m \notin ToSet(locked)
    /\ InBatch(m) => m \notin ToSet(locked)
    /\ Buffered(m) \/ InBatch(m) \/ m \in ToSet(locked) \cup sent \cup lost \cup dropped =>
         m \in accepted

Apart == \A m \in Msg : MsgAt(m)

LEMMA Puts ==
    ASSUME Types, NEW n \in Msg, NEW k \in Group, Enqueue(n, k) \/ EnqueueRaises(n, k)
    PROVE  /\ \A g \in Group : ToSet(buffer'[g]) = IF g = k THEN ToSet(buffer[g]) \cup {n}
                                                   ELSE ToSet(buffer[g])
           /\ n \notin accepted /\ accepted' = accepted \cup {n}
           /\ Running /\ UNCHANGED <<sending, locked, sent, lost, dropped, phase>>
<1>1. buffer' = [buffer EXCEPT ![k] = Append(buffer[k], n)]
  BY DEF Enqueue, EnqueueRaises
<1>2. ToSet(Append(buffer[k], n)) = ToSet(buffer[k]) \cup {n}
  BY Appended DEF Types, TypeOK
<1>3. \A g \in Group : buffer'[g] = IF g = k THEN Append(buffer[k], n) ELSE buffer[g]
  BY <1>1 DEF Types, TypeOK
<1>4. QED
  BY <1>2, <1>3 DEF Enqueue, EnqueueRaises, Accept, LockFree, outcome

LEMMA Fills ==
    ASSUME Types, NEW n \in Msg, NEW k \in Group, EnqueueFull(n, k)
    PROVE  /\ \A g \in Group : ToSet(buffer'[g]) = IF g = k THEN {} ELSE ToSet(buffer[g])
           /\ n \notin accepted /\ accepted' = accepted \cup {n}
           /\ ToSet(locked) = {} /\ ToSet(locked') = ToSet(buffer[k]) \cup {n}
           /\ Running /\ UNCHANGED <<sending, sent, lost, dropped, phase>>
<1>1. ToSet(Append(buffer[k], n)) = ToSet(buffer[k]) \cup {n}
  BY Appended DEF Types, TypeOK
<1>2. \A g \in Group : buffer'[g] = IF g = k THEN <<>> ELSE buffer[g]
  BY DEF Types, TypeOK, EnqueueFull
<1>3. locked' = Append(buffer[k], n) /\ locked = <<>>
  BY DEF EnqueueFull, LockFree
<1>4. ToSet(locked') = ToSet(buffer[k]) \cup {n} /\ ToSet(locked) = {}
  BY <1>1, <1>3, NoMessages
<1>5. \A g \in Group : ToSet(buffer'[g]) = IF g = k THEN {} ELSE ToSet(buffer[g])
  BY <1>2, NoMessages
<1>6. QED
  BY <1>4, <1>5 DEF EnqueueFull, Accept, LockFree, outcome

LEMMA Takes ==
    ASSUME Types, NEW gs \in SUBSET Group, NEW by, Take(gs, by)
    PROVE  /\ \A g \in Group : ToSet(buffer'[g]) = IF g \in gs THEN {} ELSE ToSet(buffer[g])
           /\ \A b : b \in sending' <=>
                b \in sending \/ \E g \in gs : buffer[g] # <<>> /\ b = Batch(by, buffer[g])
           /\ Running /\ UNCHANGED <<locked, sent, lost, dropped, accepted>>
  BY NoMessages DEF Take, LockFree, outcome

LEMMA BatchMsgs == ASSUME NEW by, NEW s PROVE Batch(by, s).msgs = s
  BY DEF Batch

LEMMA ApartStep == ASSUME Types, Apart, Moves PROVE Apart'
<1> SUFFICES ASSUME NEW m \in Msg PROVE MsgAt(m)'
  BY DEF Apart
<1>0. MsgAt(m)
  BY DEF Apart
<1> USE DEF MsgAt, Buffered, InBatch
<1>1. ASSUME NEW n \in Msg, Bypass(n) PROVE MsgAt(m)'
  <2>1. /\ n \notin accepted /\ accepted' = accepted \cup {n}
        /\ UNCHANGED <<buffer, locked, sent, lost, dropped>>
        /\ sending' = sending \cup {Batch("caller", <<n>>)}
    BY <1>1 DEF Bypass, Accept, outcome
  <2> DEFINE x == Batch("caller", <<n>>)
  <2>2. ToSet(x.msgs) = {n}
    BY BatchMsgs, OneMessage
  <2> HIDE DEF x
  <2>3. sending' = sending \cup {x}
    BY <2>1 DEF x
  <2>4. QED
    BY <1>0, <2>1, <2>2, <2>3
<1>2. ASSUME NEW n \in Msg, NEW k \in Group, Enqueue(n, k) \/ EnqueueRaises(n, k)
      PROVE  MsgAt(m)'
  <2>1. /\ \A g \in Group : ToSet(buffer'[g]) = IF g = k THEN ToSet(buffer[g]) \cup {n}
                                                ELSE ToSet(buffer[g])
        /\ n \notin accepted /\ accepted' = accepted \cup {n}
        /\ UNCHANGED <<sending, locked, sent, lost, dropped>>
    BY <1>2, Puts
  <2>2. CASE m = n
    BY <1>0, <2>1, <2>2
  <2>3. CASE m # n
    BY <1>0, <2>1, <2>3
  <2>4. QED
    BY <2>2, <2>3
<1>3. ASSUME NEW n \in Msg, NEW k \in Group, EnqueueFull(n, k) PROVE MsgAt(m)'
  <2>1. /\ \A g \in Group : ToSet(buffer'[g]) = IF g = k THEN {} ELSE ToSet(buffer[g])
        /\ n \notin accepted /\ accepted' = accepted \cup {n}
        /\ ToSet(locked) = {} /\ ToSet(locked') = ToSet(buffer[k]) \cup {n}
        /\ UNCHANGED <<sending, sent, lost, dropped>>
    BY <1>3, Fills
  <2>2. CASE m = n
    BY <1>0, <2>1, <2>2
  <2>3. CASE m # n
    BY <1>0, <2>1, <2>3
  <2>4. QED
    BY <2>2, <2>3
<1>4. ASSUME NEW gs \in SUBSET Group, NEW by \in {"timer", "caller"}, Take(gs, by)
      PROVE  MsgAt(m)'
  <2>1. /\ \A g \in Group : ToSet(buffer'[g]) = IF g \in gs THEN {} ELSE ToSet(buffer[g])
        /\ \A b : b \in sending' <=>
             b \in sending \/ \E g \in gs : buffer[g] # <<>> /\ b = Batch(by, buffer[g])
        /\ UNCHANGED <<locked, sent, lost, dropped, accepted>>
    BY <1>4, Takes
  <2>2. ASSUME NEW b \in sending', m \in ToSet(b.msgs)
        PROVE  b \in sending \/ \E g \in gs : m \in ToSet(buffer[g]) /\ b = Batch(by, buffer[g])
    BY <2>1, <2>2, BatchMsgs
  <2>3. ASSUME NEW b \in sending', NEW c \in sending', m \in ToSet(b.msgs), m \in ToSet(c.msgs)
        PROVE  b = c
    <3>1. CASE b \in sending /\ c \in sending
      BY <1>0, <2>3, <3>1
    <3>2. CASE \E g \in gs : m \in ToSet(buffer[g]) /\ b = Batch(by, buffer[g])
      BY <1>0, <2>2, <2>3, <3>2
    <3>3. CASE \E g \in gs : m \in ToSet(buffer[g]) /\ c = Batch(by, buffer[g])
      BY <1>0, <2>2, <2>3, <3>3
    <3>4. QED
      BY <2>2, <2>3, <3>1, <3>2, <3>3
  <2>4. InBatch(m)' => InBatch(m) \/ \E g \in gs : m \in ToSet(buffer[g])
    BY <2>2
  <2>5. Buffered(m)' => \E g \in Group \ gs : m \in ToSet(buffer[g])
    BY <2>1
  <2>6. QED
    BY <1>0, <2>1, <2>3, <2>4, <2>5
<1>5. CASE Exit
  <2>1. /\ \A g \in Group : ToSet(buffer'[g]) = {}
        /\ sending' = {} /\ ToSet(locked') = {}
        /\ UNCHANGED <<sent, accepted>>
        /\ lost' = lost \cup {n \in Msg : InBatch(n)}
        /\ dropped' = {n \in Msg : Buffered(n)}
    BY <1>5, NoMessages DEF Exit, history
  <2>2. QED
    BY <1>0, <2>1
<1>6. ASSUME NEW b \in sending, NEW ok \in BOOLEAN, SendEnds(b, ok) PROVE MsgAt(m)'
  <2>1. /\ UNCHANGED <<buffer, locked, dropped, accepted>>
        /\ sending' = sending \ {b}
        /\ sent' \cup lost' = sent \cup lost \cup ToSet(b.msgs)
    BY <1>6 DEF SendEnds, Ends, history
  <2>2. QED
    BY <1>0, <2>1
<1>7. ASSUME NEW ok \in BOOLEAN, LockedSendEnds(ok) PROVE MsgAt(m)'
  <2>1. /\ UNCHANGED <<buffer, sending, dropped, accepted>>
        /\ ToSet(locked') = {}
        /\ sent' \cup lost' = sent \cup lost \cup ToSet(locked)
    BY <1>7, NoMessages DEF LockedSendEnds, Ends, history
  <2>2. QED
    BY <1>0, <2>1
<1>8. CASE UNCHANGED <<buffer, sending, locked, outcome, raised, accepted>>
  BY <1>0, <1>8 DEF outcome
<1> HIDE DEF MsgAt
<1>9. QED
  <2>1. CASE \E b \in sending, ok \in BOOLEAN : SendEnds(b, ok)
    BY <1>6, <2>1
  <2>2. CASE \E ok \in BOOLEAN : LockedSendEnds(ok)
    BY <1>7, <2>2
  <2>3. CASE \E gs \in SUBSET Group, by \in {"timer", "caller"} : Take(gs, by)
    BY <1>4, <2>3
  <2>4. CASE \E n \in Msg, g \in Group :
               Enqueue(n, g) \/ EnqueueRaises(n, g) \/ EnqueueFull(n, g)
    BY <1>2, <1>3, <2>4
  <2>5. CASE \E n \in Msg : Bypass(n)
    BY <1>1, <2>5
  <2>6. QED
    BY <1>5, <1>8, <2>1, <2>2, <2>3, <2>4, <2>5 DEF Moves

-----------------------------------------------------------------------------
(* Delivery, seen through the mapping.                                       *)
Held == {m \in Msg : Buffered(m)}
Out  == {m \in Msg : InBatch(m)} \cup ToSet(locked)

LEMMA StepMaps ==
    ASSUME Types, Apart, Moves, phase' = phase \/ Exit \/ (Running /\ Running')
    PROVE  [D!Next]_(D!vars)
<1> DEFINE Goal == [D!Next]_(D!vars)
<1> SUFFICES Goal
  OBVIOUS
<1> HIDE DEF Goal
<1>0. /\ Held \subseteq accepted /\ Out \subseteq accepted
      /\ sent \cup lost \cup dropped \subseteq accepted
      /\ Held \subseteq Msg /\ Out \subseteq Msg
      /\ accepted \subseteq Msg
  <2>1. ToSet(locked) \subseteq Msg /\ sent \cup lost \cup dropped \subseteq Msg
        /\ accepted \subseteq Msg
    BY MessagesIn DEF Types, TypeOK
  <2>2. QED
    BY <2>1 DEF Apart, MsgAt, Held, Out
<1>a. ASSUME NEW n \in Msg, Running, Running', n \notin accepted,
             Held' = Held \cup {n}, Out' = Out, UNCHANGED <<sent, lost, dropped>>
      PROVE  Goal
  <2>1. D!Accept(n)
    BY <1>0, <1>a DEF D!Accept, D!Known, Held, Out
  <2>2. QED
    BY <2>1 DEF Goal, D!Next
<1>b. ASSUME NEW ms \in SUBSET Held, Running, Running',
             Held' = Held \ ms, Out' = Out \cup ms, UNCHANGED <<sent, lost, dropped>>
      PROVE  Goal
  <2>1. D!HandOver(ms)
    BY <1>b DEF D!HandOver, Held, Out
  <2>2. QED
    BY <2>1 DEF Goal, D!Next, Held
<1>c. ASSUME NEW n \in Msg, NEW ms \in SUBSET Held, Running, Running', n \notin accepted,
             Held' = Held \ ms, Out' = Out \cup ms \cup {n}, UNCHANGED <<sent, lost, dropped>>
      PROVE  Goal
  <2>1. D!AcceptAndHandOver(n, ms)
    BY <1>0, <1>c DEF D!AcceptAndHandOver, D!Known, Held, Out
  <2>2. QED
    BY <2>1 DEF Goal, D!Next, Held
<1>d. ASSUME NEW ms \in SUBSET Out, Running' = Running,
             Held' = Held, Out' = Out \ ms, UNCHANGED dropped,
             \/ sent' = sent \cup ms /\ lost' = lost
             \/ lost' = lost \cup ms /\ sent' = sent
      PROVE  Goal
  <2>1. D!Succeed(ms) \/ D!Fail(ms)
    BY <1>d DEF D!Succeed, D!Fail, Held, Out
  <2>2. QED
    BY <2>1 DEF Goal, D!Next, Out
<1>e. ASSUME Held' = Held, Out' = Out, Running' = Running, UNCHANGED <<sent, lost, dropped>>
      PROVE  Goal
  BY <1>e DEF Goal, D!vars, Held, Out
<1>1. ASSUME NEW n \in Msg, Bypass(n) PROVE Goal
  <2>1. /\ n \notin accepted /\ Running /\ Running'
        /\ UNCHANGED <<buffer, locked, sent, lost, dropped>>
        /\ sending' = sending \cup {Batch("caller", <<n>>)}
    BY <1>1 DEF Bypass, Accept, outcome, Running
  <2> DEFINE x == Batch("caller", <<n>>)
  <2>2. ToSet(x.msgs) = {n}
    BY BatchMsgs, OneMessage
  <2> HIDE DEF x
  <2>3. sending' = sending \cup {x}
    BY <2>1 DEF x
  <2>4. Held' = Held /\ Out' = Out \cup {n}
    BY <2>1, <2>2, <2>3 DEF Held, Out, Buffered, InBatch
  <2>5. QED
    BY <1>c, <2>1, <2>4
<1>2. ASSUME NEW n \in Msg, NEW k \in Group, Enqueue(n, k) \/ EnqueueRaises(n, k)
      PROVE  Goal
  <2>1. /\ \A g \in Group : ToSet(buffer'[g]) = IF g = k THEN ToSet(buffer[g]) \cup {n}
                                                ELSE ToSet(buffer[g])
        /\ n \notin accepted /\ Running /\ Running'
        /\ UNCHANGED <<sending, locked, sent, lost, dropped>>
    BY <1>2, Puts DEF Running
  <2>2. Held' = Held \cup {n} /\ Out' = Out
    BY <2>1 DEF Held, Out, Buffered, InBatch
  <2>3. QED
    BY <1>a, <2>1, <2>2
<1>3. ASSUME NEW n \in Msg, NEW k \in Group, EnqueueFull(n, k) PROVE Goal
  <2>1. /\ \A g \in Group : ToSet(buffer'[g]) = IF g = k THEN {} ELSE ToSet(buffer[g])
        /\ n \notin accepted /\ Running /\ Running'
        /\ ToSet(locked) = {} /\ ToSet(locked') = ToSet(buffer[k]) \cup {n}
        /\ UNCHANGED <<sending, sent, lost, dropped>>
    BY <1>3, Fills DEF Running
  <2> DEFINE ms == ToSet(buffer[k])
  <2>2. ms \subseteq Held
    BY MessagesIn DEF Held, Buffered, Types, TypeOK
  <2>3. Held' = Held \ ms
    <3>1. \A m \in Msg : Buffered(m)' <=> Buffered(m) /\ m \notin ms
      BY <2>1 DEF Buffered, Apart, MsgAt
    <3>2. QED
      BY <3>1 DEF Held
  <2>4. Out' = Out \cup ms \cup {n}
    BY <2>1 DEF Out, InBatch
  <2> HIDE DEF ms
  <2>5. QED
    BY <1>c, <2>1, <2>2, <2>3, <2>4
<1>4. ASSUME NEW gs \in SUBSET Group, NEW by \in {"timer", "caller"}, Take(gs, by), ~Exit
      PROVE  Goal
  <2>1. /\ \A g \in Group : ToSet(buffer'[g]) = IF g \in gs THEN {} ELSE ToSet(buffer[g])
        /\ \A b : b \in sending' <=>
             b \in sending \/ \E g \in gs : buffer[g] # <<>> /\ b = Batch(by, buffer[g])
        /\ Running /\ UNCHANGED <<locked, sent, lost, dropped, accepted>>
    BY <1>4, Takes
  <2>2. Running'
    BY <1>4, <2>1 DEF Running
  <2> DEFINE ms == {m \in Msg : \E g \in gs : m \in ToSet(buffer[g])}
  <2>3. ms \subseteq Held
    BY DEF Held, Buffered
  <2>4. Held' = Held \ ms
    <3>1. ASSUME NEW m \in Msg PROVE Buffered(m)' <=> Buffered(m) /\ m \notin ms
      BY <2>1 DEF Buffered, Apart, MsgAt
    <3>2. QED
      BY <3>1 DEF Held
  <2>5. Out' = Out \cup ms
    <3>1. ASSUME NEW m \in Msg PROVE InBatch(m)' <=> InBatch(m) \/ m \in ms
      <4>1. ASSUME InBatch(m)' PROVE InBatch(m) \/ m \in ms
        BY <2>1, <4>1, BatchMsgs DEF InBatch
      <4>2. ASSUME InBatch(m) PROVE InBatch(m)'
        BY <2>1, <4>2 DEF InBatch
      <4>3. ASSUME NEW g \in gs, m \in ToSet(buffer[g]) PROVE InBatch(m)'
        <5>1. buffer[g] # <<>>
          BY <4>3, NoMessages
        <5>2. Batch(by, buffer[g]) \in sending'
          BY <2>1, <5>1
        <5>3. QED
          BY <4>3, <5>2, BatchMsgs DEF InBatch
      <4>4. QED
        BY <4>1, <4>2, <4>3
    <3>2. QED
      BY <2>1, <3>1 DEF Out
  <2> HIDE DEF ms
  <2>6. QED
    BY <1>b, <2>1, <2>2, <2>3, <2>4, <2>5
<1>5. CASE Exit
  <2>1. /\ \A g \in Group : ToSet(buffer'[g]) = {}
        /\ sending' = {} /\ ToSet(locked') = {} /\ ToSet(locked) = {}
        /\ UNCHANGED sent /\ Running /\ ~Running'
        /\ lost' = lost \cup {n \in Msg : InBatch(n)}
        /\ dropped' = {n \in Msg : Buffered(n)}
    BY <1>5, NoMessages DEF Exit, Running
  <2>2. Held' = {} /\ Out' = {} /\ dropped' = Held /\ lost' = lost \cup Out
    BY <2>1 DEF Held, Out, Buffered, InBatch
  <2>3. D!Close
    BY <2>1, <2>2 DEF D!Close, Held, Out
  <2>4. QED
    BY <2>3 DEF Goal, D!Next
<1>6. ASSUME NEW b \in sending, NEW ok \in BOOLEAN, SendEnds(b, ok) PROVE Goal
  <2>1. /\ UNCHANGED <<buffer, locked, dropped>> /\ Running' = Running
        /\ sending' = sending \ {b}
        /\ \/ sent' = sent \cup ToSet(b.msgs) /\ lost' = lost
           \/ lost' = lost \cup ToSet(b.msgs) /\ sent' = sent
    BY <1>6 DEF SendEnds, Ends, history, Running
  <2> DEFINE ms == ToSet(b.msgs)
  <2>2. ms \subseteq Msg
    BY MessagesIn DEF Types, TypeOK, Batches
  <2>3. ms \subseteq Out
    BY <2>2 DEF Out, InBatch
  <2>4. ASSUME NEW m \in Msg
        PROVE  /\ InBatch(m)' <=> InBatch(m) /\ m \notin ms
               /\ m \in ToSet(locked) => m \notin ms
    BY <2>1 DEF InBatch, Apart, MsgAt
  <2>5. Held' = Held /\ Out' = Out \ ms
    <3>1. ToSet(locked) \subseteq Msg
      BY MessagesIn DEF Types, TypeOK
    <3>2. QED
      BY <2>1, <2>4, <3>1 DEF Held, Out, Buffered
  <2> HIDE DEF ms
  <2>6. /\ \/ sent' = sent \cup ms /\ lost' = lost
           \/ lost' = lost \cup ms /\ sent' = sent
    BY <2>1 DEF ms
  <2>7. QED
    BY <1>d, <2>1, <2>3, <2>5, <2>6
<1>7. ASSUME NEW ok \in BOOLEAN, LockedSendEnds(ok) PROVE Goal
  <2>1. /\ UNCHANGED <<buffer, sending, dropped>> /\ Running' = Running
        /\ ToSet(locked') = {}
        /\ \/ sent' = sent \cup ToSet(locked) /\ lost' = lost
           \/ lost' = lost \cup ToSet(locked) /\ sent' = sent
    BY <1>7, NoMessages DEF LockedSendEnds, Ends, history, Running
  <2> DEFINE ms == ToSet(locked)
  <2>2. ms \subseteq Out
    BY DEF Out
  <2>3. Held' = Held /\ Out' = Out \ ms
    <3>1. \A m \in ms : ~InBatch(m)
      BY MessagesIn DEF Types, TypeOK, Apart, MsgAt
    <3>2. QED
      BY <2>1, <3>1 DEF Held, Out, Buffered, InBatch
  <2> HIDE DEF ms
  <2>4. \/ sent' = sent \cup ms /\ lost' = lost
        \/ lost' = lost \cup ms /\ sent' = sent
    BY <2>1 DEF ms
  <2>5. QED
    BY <1>d, <2>1, <2>2, <2>3, <2>4
<1>8. CASE UNCHANGED <<buffer, sending, locked, outcome, raised, accepted>> /\ ~Exit
  <2>1. Running' = Running
    BY <1>8 DEF Running
  <2>2. QED
    BY <1>8, <1>e, <2>1 DEF outcome, Held, Out, Buffered, InBatch
<1>9. QED
  <2>1. CASE \E b \in sending, ok \in BOOLEAN : SendEnds(b, ok)
    BY <1>6, <2>1
  <2>2. CASE \E ok \in BOOLEAN : LockedSendEnds(ok)
    BY <1>7, <2>2
  <2>3. CASE \E gs \in SUBSET Group, by \in {"timer", "caller"} : Take(gs, by)
    BY <1>4, <1>5, <2>3
  <2>4. CASE \E n \in Msg, g \in Group :
               Enqueue(n, g) \/ EnqueueRaises(n, g) \/ EnqueueFull(n, g)
    BY <1>2, <1>3, <2>4
  <2>5. CASE \E n \in Msg : Bypass(n)
    BY <1>1, <2>5
  <2>6. QED
    BY <1>5, <1>8, <2>1, <2>2, <2>3, <2>4, <2>5 DEF Moves

(* Only the exit ends the process.                                           *)
LEMMA PhaseStep == ASSUME Types, Next PROVE phase' = phase \/ Exit \/ (Running /\ Running')
<1>1. ASSUME NEW i \in Slot, TimerFires(i) \/ OnTimer(i) PROVE phase' = phase
  BY <1>1, TimerTakes DEF TimerFires
<1>2. CASE FlushAll \/ Shutdown \/ ManagerShutdown \/ \E gs \in SUBSET Group : Flush(gs)
  BY <1>2 DEF FlushAll, Shutdown, ManagerShutdown, Flush, Running
<1>3. CASE EnqueueAny
  BY <1>3 DEF EnqueueAny, Bypass, Enqueue, EnqueueRaises, EnqueueFull
<1>4. CASE SendEndsAny \/ LockedSendEndsAny \/ Tick
  BY <1>4 DEF SendEndsAny, SendEnds, LockedSendEndsAny, LockedSendEnds, Tick
<1>5. QED
  BY <1>1, <1>2, <1>3, <1>4 DEF Next

LEMMA InitMaps == Init => Apart /\ D!Init
<1> SUFFICES ASSUME Init PROVE Apart /\ D!Init
  OBVIOUS
<1>1. /\ \A g \in Group : ToSet(buffer[g]) = {}
      /\ sending = {} /\ ToSet(locked) = {}
      /\ sent = {} /\ lost = {} /\ dropped = {} /\ phase = "up"
  BY NoMessages DEF Init
<1>2. Apart
  BY <1>1 DEF Apart, MsgAt, Buffered, InBatch
<1>3. D!Init
  BY <1>1 DEF D!Init, Buffered, InBatch, Running
<1>4. QED
  BY <1>2, <1>3

MsgInv == Types /\ Apart

LEMMA MsgInvStep == MsgInv /\ [Next]_vars => MsgInv'
<1> SUFFICES ASSUME MsgInv, [Next]_vars PROVE MsgInv'
  OBVIOUS
<1>1. CASE Next
  BY <1>1, TypesStep, EveryStepMoves, ApartStep DEF MsgInv
<1>2. CASE UNCHANGED vars
  <2>1. UNCHANGED <<buffer, cur, win, timer, sending, locked, sent, lost, dropped, raised,
                    accepted, early, phase, faults>>
    BY <1>2 DEF vars, timing, outcome, history
  <2>2. TypeOK' /\ TimersInv'
    BY <2>1 DEF MsgInv, Types, TypeOK, TimersInv, Live
  <2>3. Apart'
    BY <2>1 DEF MsgInv, Apart, MsgAt, Buffered, InBatch
  <2>4. QED
    BY <2>2, <2>3 DEF MsgInv, Types
<1>3. QED
  BY <1>1, <1>2

(* A message is with one holder of Delivery only, whatever aggregate_buffer  *)
(* step moved it last: what the theorems below rest on.                      *)
THEOREM MessagesApart == Spec => []MsgInv
<1>1. Init => MsgInv
  BY InitTypes, InitMaps DEF MsgInv
<1>2. QED
  BY <1>1, MsgInvStep, PTL DEF Spec

(* The variables have their types. *)
THEOREM TypeCorrect == Spec => []TypeOK
<1>1. MsgInv => TypeOK
  BY DEF MsgInv, Types
<1>2. QED
  BY <1>1, MessagesApart, PTL

(* The timers, callbacks, flushes and full buffers of aggregate_buffer.py do *)
(* with the messages what Delivery says.                                     *)
THEOREM Implementation == Spec => ImplementsDelivery
<1>1. Init => D!Init
  BY InitMaps
<1>2. MsgInv /\ [Next]_vars => [D!Next]_(D!vars)
  <2> SUFFICES ASSUME MsgInv, [Next]_vars PROVE [D!Next]_(D!vars)
    OBVIOUS
  <2>1. CASE Next
    BY <2>1, EveryStepMoves, PhaseStep, StepMaps DEF MsgInv
  <2>2. CASE UNCHANGED vars
    <3>1. UNCHANGED <<buffer, sending, locked, sent, lost, dropped, phase>>
      BY <2>2 DEF vars, outcome
    <3>2. QED
      BY <3>1 DEF D!vars, Buffered, InBatch, Running
  <2>3. QED
    BY <2>1, <2>2
<1>3. QED
  BY <1>1, <1>2, MessagesApart, PTL DEF Spec, D!Spec, ImplementsDelivery

(* So every message is in one place: no one goes out twice, and none that    *)
(* was sent or lost is still held.                                           *)
THEOREM InOnePlace == Spec => [](D!EachOnce /\ D!Closed)
<1>1. D!Init => D!EachOnce /\ D!Closed
  BY DEF D!Init, D!EachOnce, D!Closed
<1>2. D!EachOnce /\ D!Closed /\ [D!Next]_(D!vars) => (D!EachOnce /\ D!Closed)'
  BY DEF D!Next, D!Accept, D!HandOver, D!AcceptAndHandOver, D!Succeed, D!Fail, D!Close,
         D!Known, D!vars, D!EachOnce, D!Closed
<1>3. QED
  BY <1>1, <1>2, Implementation, PTL DEF D!Spec, ImplementsDelivery

-----------------------------------------------------------------------------
(* The timing of a group: what BufferedIsTimed and WindowContract say of it. *)
Timed(g) ==
    ToSet(buffer[g]) \subseteq raised \/ \E i \in Slot : timer[i].group = g /\ Live(i)

Contract(g) ==
    win[g] # Closed =>
        \/ Window > MaxWindow
        \/ /\ cur[g] # None
           /\ \/ Due(cur[g])
              \/ win[g] + timer[cur[g]].left <= MaxWindow + timer[cur[g]].late
        \/ cur[g] = None /\ ToSet(buffer[g]) \cap raised # {}

LEMMA TimingStep ==
    ASSUME Types, Next, NEW g \in Group, Timed(g), Contract(g)
    PROVE  Timed(g)' /\ Contract(g)'
<1> DEFINE Goal == Timed(g)' /\ Contract(g)'
<1> SUFFICES Goal
  OBVIOUS
<1>0. /\ cur[g] \in Slot \cup {None} /\ win[g] \in 0..Closed
      /\ timer \in [Slot -> TimerState] /\ None \notin Slot
      /\ \A i \in Slot : Live(i) => timer[i].group \in Group
      /\ \A h \in Group : cur[h] # None =>
           cur[h] \in Slot /\ Live(cur[h]) /\ timer[cur[h]].group = h
  BY AggregateBufferAssumption DEF Types, TypeOK, TimersInv, Closed, MaxAge
<1>1. \A h \in Group : \A m \in Msg : m \in ToSet(buffer[h]) \/ m \notin ToSet(buffer[h])
  OBVIOUS
<1>k. ASSUME cur'[g] = cur[g], win'[g] = win[g], raised \subseteq raised',
             ToSet(buffer'[g]) = ToSet(buffer[g]),
             \A i \in Slot : Live(i) /\ timer[i].group = g => timer'[i] = timer[i]
      PROVE  Goal
  <2>1. Timed(g)'
    BY <1>k DEF Timed, Live
  <2>2. CASE cur[g] = None
    BY <1>k, <2>1, <2>2 DEF Contract
  <2>3. CASE cur[g] # None
    <3>1. timer'[cur[g]] = timer[cur[g]]
      BY <1>0, <1>k, <2>3
    <3>2. Due(cur[g])' <=> Due(cur[g])
      BY <1>k, <3>1 DEF Due
    <3>3. Contract(g)'
      BY <1>k, <2>3, <3>1, <3>2 DEF Contract, Due
    <3>4. QED
      BY <2>1, <3>3
  <2>4. QED
    BY <2>2, <2>3
<1>c. ASSUME NEW gs, g \in gs, CloseWindows(gs), ToSet(buffer'[g]) = {}
      PROVE  Goal
  BY <1>c DEF CloseWindows, Timed, Contract
<1> HIDE DEF Goal
<1>o. ASSUME NEW gs, g \notin gs, CloseWindows(gs), raised' = raised,
             ToSet(buffer'[g]) = ToSet(buffer[g]),
             \A i \in Slot : timer[i].group \notin gs /\ Live(i) => timer'[i] = timer[i]
      PROVE  Goal
  BY <1>k, <1>o DEF CloseWindows
<1>u. ASSUME UNCHANGED <<buffer, timing, raised>> PROVE Goal
  BY <1>k, <1>u DEF timing
<1>2. ASSUME NEW n \in Msg, NEW k \in Group, Enqueue(n, k) PROVE Goal
  <2>1. /\ ToSet(buffer'[g]) = IF g = k THEN ToSet(buffer[g]) \cup {n} ELSE ToSet(buffer[g])
        /\ raised' = raised
    BY <1>2, Puts DEF Enqueue
  <2>2. CASE UNCHANGED timing /\ cur[k] # None
    <3>1. CASE g # k
      BY <1>k, <2>1, <2>2, <3>1 DEF timing
    <3>2. CASE g = k
      <4>1. Timed(g)'
        BY <1>0, <2>2, <3>2 DEF Timed, timing, Live
      <4>2. Contract(g)'
        BY <2>2, <3>2 DEF Contract, Due, timing
      <4>3. QED
        BY <4>1, <4>2 DEF Goal
    <3>3. QED
      BY <3>1, <3>2
  <2>3. ASSUME NEW i \in Slot, NEW late \in 0..MaxWait, ~Live(i),
               timer' = [timer EXCEPT ![i] = Started(k, Window, late)],
               cur' = [cur EXCEPT ![k] = i], win' = [win EXCEPT ![k] = late]
        PROVE  Goal
    <3>1. timer'[i] = Started(k, Window, late) /\ \A j \in Slot \ {i} : timer'[j] = timer[j]
      BY <1>0, <2>3
    <3>2. CASE g # k
      <4>1. cur'[g] = cur[g] /\ win'[g] = win[g]
        BY <2>3, <3>2 DEF Types, TypeOK
      <4>2. QED
        BY <1>k, <2>1, <2>3, <3>1, <3>2, <4>1
    <3>3. CASE g = k
      <4>1. cur'[g] = i /\ win'[g] = late
        BY <2>3, <3>3 DEF Types, TypeOK
      <4>2. Timed(g)'
        BY <3>1, <3>3 DEF Timed, Live, Started
      <4>3. timer'[i].left = Window /\ timer'[i].late = late
        BY <3>1 DEF Started
      <4>4. Window <= MaxWindow => late + Window <= MaxWindow + late
        BY AggregateBufferAssumption
      <4>5. Window > MaxWindow \/ Window <= MaxWindow
        BY AggregateBufferAssumption
      <4>6. Contract(g)'
        BY <1>0, <4>1, <4>3, <4>4, <4>5 DEF Contract
      <4>7. QED
        BY <4>2, <4>6 DEF Goal
    <3>4. QED
      BY <3>2, <3>3
  <2>4. QED
    BY <1>2, <2>2, <2>3 DEF Enqueue
<1>3. ASSUME NEW n \in Msg, NEW k \in Group, EnqueueRaises(n, k) PROVE Goal
  <2>1. /\ ToSet(buffer'[g]) = IF g = k THEN ToSet(buffer[g]) \cup {n} ELSE ToSet(buffer[g])
        /\ raised' = raised \cup {n} /\ cur' = cur /\ timer' = timer /\ cur[k] = None
        /\ \E late \in 0..MaxWait : win' = [win EXCEPT ![k] = late]
    BY <1>3, Puts DEF EnqueueRaises
  <2>2. CASE g # k
    BY <1>k, <2>1, <2>2 DEF Types, TypeOK
  <2>3. CASE g = k
    <3>1. Timed(g)'
      BY <2>1, <2>3 DEF Timed, Live
    <3>2. Contract(g)'
      BY <2>1, <2>3 DEF Contract
    <3>3. QED
      BY <3>1, <3>2 DEF Goal
  <2>4. QED
    BY <2>2, <2>3
<1>4. ASSUME NEW n \in Msg, NEW k \in Group, EnqueueFull(n, k) PROVE Goal
  <2>1. ToSet(buffer'[g]) = IF g = k THEN {} ELSE ToSet(buffer[g])
    BY <1>4, Fills
  <2>2. CloseWindows({k}) /\ raised' = raised
    BY <1>4 DEF EnqueueFull
  <2>3. \A i \in Slot : timer[i].group \notin {k} /\ Live(i) => timer'[i] = timer[i]
    BY <1>0, <1>4 DEF EnqueueFull
  <2>4. CASE g = k
    BY <1>c, <2>1, <2>2, <2>4
  <2>5. CASE g # k
    BY <1>o, <2>1, <2>2, <2>3, <2>5
  <2>6. QED
    BY <2>4, <2>5
<1>5. ASSUME NEW i \in Slot, TimerFires(i) PROVE Goal
  <2>1. /\ UNCHANGED <<buffer, cur, win, raised>>
        /\ timer[i].st = "waiting" /\ timer[i].left = 0
    BY <1>5 DEF TimerFires
  <2> DEFINE t == [timer[i] EXCEPT !.st = "fired", !.late = 0]
  <2>2. t.st = "fired" /\ t.group = timer[i].group
    BY <1>0 DEF TimerState
  <2>3. timer' = [timer EXCEPT ![i] = t]
    BY <1>5 DEF TimerFires
  <2> HIDE DEF t
  <2>4. timer'[i] = t /\ \A j \in Slot \ {i} : timer'[j] = timer[j]
    BY <1>0, <2>3
  <2>5. Timed(g)'
    BY <2>1, <2>2, <2>4 DEF Timed, Live
  <2>6. CASE cur[g] = i
    BY <1>0, <2>1, <2>2, <2>4, <2>5, <2>6 DEF Contract, Due, Goal
  <2>7. CASE cur[g] \in Slot \ {i}
    <3>1. timer'[cur[g]] = timer[cur[g]]
      BY <2>4, <2>7
    <3>2. Contract(g)'
      BY <2>1, <3>1 DEF Contract, Due
    <3>3. QED
      BY <2>5, <3>2 DEF Goal
  <2>8. CASE cur[g] = None
    BY <2>1, <2>5, <2>8 DEF Contract, Goal
  <2>9. QED
    BY <1>0, <2>6, <2>7, <2>8
<1>6. ASSUME NEW i \in Slot, OnTimerRenews(i) PROVE Goal
  <2> DEFINE h == timer[i].group
  <2>1. /\ h \in Group /\ Take({h}, "timer")
        /\ Live(i) /\ Remains(i)
        /\ win' = [win EXCEPT ![h] = WindowAge(i)]
        /\ timer' = [timer EXCEPT ![i] = Started(h, NextDelay(i), timer[i].late)]
        /\ cur' = [cur EXCEPT ![h] = i]
    BY <1>6, TimerTakes DEF OnTimer, OnTimerRenews, Live
  <2>h. \A j \in Slot : j = i => timer[j].group = h
    OBVIOUS
  <2> HIDE DEF h
  <2>2. /\ ToSet(buffer'[g]) = IF g = h THEN {} ELSE ToSet(buffer[g])
        /\ raised' = raised
    <3>1. {h} \in SUBSET Group
      BY <2>1
    <3>2. \A k \in Group : ToSet(buffer'[k]) = IF k \in {h} THEN {} ELSE ToSet(buffer[k])
      BY <2>1, <3>1, Takes
    <3>3. QED
      BY <2>1, <3>2 DEF Take
  <2>3. timer'[i] = Started(h, NextDelay(i), timer[i].late) /\ \A j \in Slot \ {i} : timer'[j] = timer[j]
    BY <1>0, <2>1
  <2>4. CASE g # h
    <3>1. cur'[g] = cur[g] /\ win'[g] = win[g]
      BY <2>1, <2>4 DEF Types, TypeOK
    <3>2. \A j \in Slot : Live(j) /\ timer[j].group = g => timer'[j] = timer[j]
      BY <2>3, <2>4, <2>h
    <3>3. QED
      BY <1>k, <2>2, <2>4, <3>1, <3>2
  <2>5. CASE g = h
    <3>1. cur'[g] = i /\ win'[g] = WindowAge(i)
      BY <2>1, <2>5 DEF Types, TypeOK
    <3>2. timer'[i].left = NextDelay(i) /\ timer'[i].late = timer[i].late
      BY <2>3 DEF Started
    <3>3. WindowAge(i) + NextDelay(i) <= MaxWindow + timer[i].late
      BY <2>1, DelayInWindow
    <3>4. Contract(g)'
      BY <1>0, <3>1, <3>2, <3>3 DEF Contract
    <3>5. Timed(g)'
      BY <2>2, <2>5 DEF Timed
    <3>6. QED
      BY <3>4, <3>5 DEF Goal
  <2>6. QED
    BY <2>4, <2>5
<1>7. ASSUME NEW i \in Slot, OnTimerCannotRenew(i) \/ OnTimerForces(i) PROVE Goal
  <2> DEFINE h == timer[i].group
  <2>1. /\ h \in Group /\ Take({h}, "timer")
        /\ timer' = [timer EXCEPT ![i] = FreeTimer] /\ CloseWindows({h})
    BY <1>7, TimerTakes DEF OnTimer, OnTimerCannotRenew, OnTimerForces
  <2>2. \A j \in Slot : timer[j].group \notin {h} /\ Live(j) => timer'[j] = timer[j]
    BY <1>0, <2>1
  <2> HIDE DEF h
  <2>3. /\ ToSet(buffer'[g]) = IF g = h THEN {} ELSE ToSet(buffer[g])
        /\ raised' = raised
    <3>1. {h} \in SUBSET Group
      BY <2>1
    <3>2. \A k \in Group : ToSet(buffer'[k]) = IF k \in {h} THEN {} ELSE ToSet(buffer[k])
      BY <2>1, <3>1, Takes
    <3>3. QED
      BY <2>1, <3>2 DEF Take
  <2>4. CASE g = h
    BY <1>c, <2>1, <2>3, <2>4
  <2>5. CASE g # h
    BY <1>o, <2>1, <2>2, <2>3, <2>5
  <2>6. QED
    BY <2>4, <2>5
<1>8. ASSUME NEW gs \in SUBSET Group, Drain(gs) PROVE Goal
  <2>1. ToSet(buffer'[g]) = IF g \in gs THEN {} ELSE ToSet(buffer[g])
    BY <1>8, DrainTakes, Takes
  <2>2. CloseWindows(gs) /\ raised' = raised
    BY <1>8 DEF Drain
  <2>3. \A i \in Slot : timer[i].group \notin gs /\ Live(i) => timer'[i] = timer[i]
    BY <1>0, <1>8 DEF Drain
  <2>4. CASE g \in gs
    BY <1>c, <2>1, <2>2, <2>4
  <2>5. CASE g \notin gs
    BY <1>o, <2>1, <2>2, <2>3, <2>5
  <2>6. QED
    BY <2>4, <2>5
<1>9. CASE Exit
  <2>1. CloseWindows(Group) /\ ToSet(buffer'[g]) = {}
    BY <1>9, NoMessages DEF Exit
  <2>2. QED
    BY <1>c, <2>1
<1>10. CASE Tick
  <2>1. /\ UNCHANGED <<buffer, cur, raised>>
        /\ win'[g] = IF win[g] < MaxAge THEN win[g] + 1 ELSE win[g]
    BY <1>10 DEF Tick, history
  <2>2. ASSUME NEW i \in Slot
        PROVE  /\ timer'[i].st = timer[i].st /\ timer'[i].group = timer[i].group
               /\ timer[i].left \in Nat /\ timer[i].late \in Nat
               /\ timer[i].st # "fired" => timer'[i].late = timer[i].late
               /\ timer[i].st = "waiting" /\ timer[i].left > 0 =>
                    timer'[i].left = timer[i].left - 1
               /\ timer[i].left = 0 => timer'[i].left = 0
    <3>1. timer'[i] = Older(timer[i]) /\ timer[i] \in TimerState
      BY <1>0, <1>10 DEF Tick
    <3>2. timer[i].st = "fired" => timer[i].late < MaxWait
      BY <1>10 DEF Tick
    <3>3. timer[i].left \in 0..Window /\ timer[i].late \in 0..MaxWait
      BY <1>0 DEF TimerState
    <3>4. QED
      BY <3>1, <3>2, <3>3, OlderTimer, AggregateBufferAssumption
  <2>3. Timed(g)'
    BY <2>1, <2>2 DEF Timed, Live
  <2>4. MaxWindow \in Nat /\ MaxAge \in Nat /\ Closed = MaxAge + 1 /\ win[g] \in Nat
    BY <1>0, AggregateBufferAssumption DEF MaxAge, Closed
  <2>5. CASE cur[g] = None
    <3>1. win'[g] # Closed => win[g] # Closed
      BY <2>1, <2>4
    <3>2. Contract(g)'
      BY <2>1, <2>5, <3>1 DEF Contract
    <3>3. QED
      BY <2>3, <3>2 DEF Goal
  <2>6. CASE cur[g] # None
    <3>0. PICK j \in Slot : j = cur[g]
      BY <1>0, <2>6
    <3>1. timer[j].st \in {"waiting", "fired"}
      BY <1>0, <2>6, <3>0 DEF Live, TimerState
    <3>2. /\ timer'[j].st = timer[j].st /\ timer[j].left \in Nat /\ timer[j].late \in Nat
          /\ timer[j].st = "waiting" => timer'[j].late = timer[j].late
          /\ timer[j].st = "waiting" /\ timer[j].left > 0 => timer'[j].left = timer[j].left - 1
          /\ timer[j].left = 0 => timer'[j].left = 0
      BY <2>2, <3>1
    <3>3. Due(j) => Due(j)'
      BY <3>1, <3>2 DEF Due
    <3>4. ASSUME ~Due(j), win[g] # Closed, win[g] + timer[j].left <= MaxWindow + timer[j].late
          PROVE  win'[g] + timer'[j].left <= MaxWindow + timer'[j].late
      <4>1. timer[j].left > 0 /\ timer[j].st = "waiting"
        BY <3>1, <3>2, <3>4 DEF Due
      <4>2. QED
        BY <2>1, <2>4, <3>2, <3>4, <4>1
    <3>5. win'[g] # Closed => win[g] # Closed
      BY <2>1, <2>4
    <3>6. cur'[g] = j /\ cur[g] = j
      BY <2>1, <3>0
    <3>7. Contract(g)'
      BY <2>6, <3>3, <3>4, <3>5, <3>6 DEF Contract
    <3>8. QED
      BY <2>3, <3>7 DEF Goal
  <2>7. QED
    BY <2>5, <2>6
<1>11. CASE ManagerShutdown \/ SendEndsAny \/ LockedSendEndsAny \/ \E m \in Msg : Bypass(m)
  BY <1>11, <1>u DEF ManagerShutdown, SendEndsAny, SendEnds, LockedSendEndsAny,
     LockedSendEnds, Bypass
<1>12. CASE FlushAll \/ Shutdown \/ \E gs \in SUBSET Group : Flush(gs)
  BY <1>8, <1>12, Drains
<1>13. QED
  BY <1>2, <1>3, <1>4, <1>5, <1>6, <1>7, <1>9, <1>10, <1>11, <1>12
  DEF Next, EnqueueAny, OnTimer

TimingInv == MsgInv /\ \A g \in Group : Timed(g) /\ Contract(g)

(* enqueue, extension and flush keep every waiting group timed and the due   *)
(* time of its timer within its window.                                      *)
THEOREM TimingInvariant == Spec => []TimingInv
<1>1. Init => TimingInv
  <2> SUFFICES ASSUME Init PROVE TimingInv
    OBVIOUS
  <2>1. MsgInv
    BY InitTypes, InitMaps DEF MsgInv
  <2>2. \A g \in Group : Timed(g) /\ Contract(g)
    BY NoMessages DEF Init, Timed, Contract
  <2>3. QED
    BY <2>1, <2>2 DEF TimingInv
<1>2. TimingInv /\ [Next]_vars => TimingInv'
  <2> SUFFICES ASSUME TimingInv, [Next]_vars PROVE TimingInv'
    OBVIOUS
  <2>1. MsgInv'
    BY MsgInvStep DEF TimingInv
  <2>2. CASE Next
    BY <2>1, <2>2, TimingStep DEF TimingInv, MsgInv
  <2>3. CASE UNCHANGED vars
    <3>1. UNCHANGED <<buffer, cur, win, timer, raised>>
      BY <2>3 DEF vars, timing
    <3>2. QED
      BY <2>1, <3>1 DEF TimingInv, Timed, Contract, Due, Live
  <2>4. QED
    BY <2>2, <2>3
<1>3. QED
  BY <1>1, <1>2, PTL DEF Spec

(* A group that holds messages has a timer under way, or every enqueue that  *)
(* put them there raised.                                                    *)
THEOREM NoGroupForgotten == Spec => []BufferedIsTimed
<1>1. TimingInv => BufferedIsTimed
  BY DEF TimingInv, Timed, BufferedIsTimed
<1>2. QED
  BY <1>1, TimingInvariant, PTL

(* The timer of an open window is due before MAX_WINDOW_SECONDS are over.    *)
THEOREM ContractKept == Spec => []WindowContract
<1>1. TimingInv => WindowContract
  BY DEF TimingInv, Contract, WindowContract
<1>2. QED
  BY <1>1, TimingInvariant, PTL

-----------------------------------------------------------------------------
(* The size of a summary.                                                    *)
LEMMA Countable ==
    ASSUME NEW s \in Seq(Msg)
    PROVE  IsFiniteSet(ToSet(s)) /\ Cardinality(ToSet(s)) <= Len(s)
           /\ Cardinality(ToSet(s)) \in Nat /\ Len(s) \in Nat
<1>1. s \in [1..Len(s) -> ToSet(s)] /\ Len(s) \in Nat /\ DOMAIN s = 1..Len(s)
  BY DEF ToSet
<1>2. s \in Surjection(1..Len(s), ToSet(s))
  BY <1>1 DEF Surjection, ToSet
<1>3. IsFiniteSet(1..Len(s)) /\ Cardinality(1..Len(s)) = Len(s)
  <2>1. PICK n \in Nat : n = Len(s)
    BY <1>1
  <2>2. IsFiniteSet(1..n) /\ Cardinality(1..n) = (IF 1 > n THEN 0 ELSE n - 1 + 1)
    BY FS_Interval
  <2>3. (IF 1 > n THEN 0 ELSE n - 1 + 1) = n
    OBVIOUS
  <2>4. QED
    BY <2>1, <2>2, <2>3
<1>4. IsFiniteSet(ToSet(s)) /\ Cardinality(ToSet(s)) <= Cardinality(1..Len(s))
  BY <1>2, <1>3, FS_Surjection
<1>5. QED
  BY <1>1, <1>3, <1>4, FS_CardinalityType

LEMMA Fewer ==
    ASSUME NEW S, IsFiniteSet(S), NEW T \in SUBSET S
    PROVE  /\ IsFiniteSet(T) /\ Cardinality(T) \in Nat /\ Cardinality(S) \in Nat
           /\ Cardinality(T) <= Cardinality(S)
  BY FS_Subset, FS_CardinalityType

Counted(s) == ToSet(s) \ raised

LEMMA CountedSize ==
    ASSUME Types, NEW s \in Seq(Msg)
    PROVE  /\ IsFiniteSet(Counted(s)) /\ Cardinality(Counted(s)) \in Nat
           /\ Cardinality(Counted(s)) <= Len(s)
<1>1. Counted(s) \in SUBSET ToSet(s)
  BY DEF Counted
<1>2. QED
  BY <1>1, Countable, Fewer

LEMMA RaisedGrows == ASSUME Types, Next PROVE raised \subseteq raised'
<1>1. ASSUME NEW m \in Msg, NEW g \in Group, EnqueueRaises(m, g) PROVE raised \subseteq raised'
  BY <1>1 DEF EnqueueRaises
<1>2. ASSUME NEW i \in Slot, OnTimer(i) PROVE raised' = raised
  BY <1>2, TimerTakes DEF Take
<1>3. CASE FlushAll \/ Shutdown \/ \E gs \in SUBSET Group : Flush(gs)
  BY <1>3, Drains, DrainTakes DEF Take
<1>4. QED
  BY <1>1, <1>2, <1>3
  DEF Next, EnqueueAny, Bypass, Enqueue, EnqueueFull, TimerFires, ManagerShutdown, Exit,
      SendEndsAny, SendEnds, LockedSendEndsAny, LockedSendEnds, Tick

BoundInv ==
    /\ \A g \in Group : Cardinality(Counted(buffer[g])) < BatchSize
    /\ \A b \in sending : Cardinality(Counted(b.msgs)) <= BatchSize
    /\ Cardinality(Counted(locked)) <= BatchSize

LEMMA BoundStep == ASSUME Types, BoundInv, Next PROVE BoundInv'
<1>0. /\ BatchSize \in Nat \ {0} /\ raised \subseteq raised'
      /\ \A g \in Group : buffer[g] \in Seq(Msg)
      /\ \A b \in sending : b.msgs \in Seq(Msg)
      /\ locked \in Seq(Msg)
  BY RaisedGrows, AggregateBufferAssumption DEF Types, TypeOK, Batches
<1>s. ASSUME NEW s \in Seq(Msg)
      PROVE  /\ IsFiniteSet(Counted(s)) /\ Cardinality(Counted(s)) \in Nat
             /\ Cardinality(Counted(s)') \in Nat
             /\ Cardinality(Counted(s)') <= Cardinality(Counted(s))
  <2>1. IsFiniteSet(Counted(s)) /\ Counted(s)' \in SUBSET Counted(s)
    BY <1>0, CountedSize DEF Counted
  <2>2. QED
    BY <2>1, Fewer
<1>e. Cardinality(Counted(<<>>)') = 0
  BY NoMessages, FS_EmptySet DEF Counted
<1>a. ASSUME NEW g \in Group, buffer'[g] \in {buffer[g], <<>>}
      PROVE  Cardinality(Counted(buffer[g])') < BatchSize
  <2>1. PICK s \in Seq(Msg) : s = buffer[g]
    BY <1>0
  <2>2. Cardinality(Counted(s)) < BatchSize
    BY <2>1 DEF BoundInv
  <2>3. CASE buffer'[g] = s
    <3>1. Counted(buffer[g])' = Counted(s)'
      BY <2>3 DEF Counted
    <3>2. QED
      BY <1>0, <1>s, <2>2, <3>1
  <2>4. CASE buffer'[g] = <<>>
    <3>1. Counted(buffer[g])' = Counted(<<>>)'
      BY <2>4 DEF Counted
    <3>2. QED
      BY <1>0, <1>e, <3>1
  <2>5. QED
    BY <1>a, <2>1, <2>3, <2>4
<1>b. ASSUME NEW b \in sending PROVE Cardinality(Counted(b.msgs)') <= BatchSize
  <2>1. Cardinality(Counted(b.msgs)) <= BatchSize
    BY DEF BoundInv
  <2>2. QED
    BY <1>0, <1>s, <2>1
<1>c. ASSUME locked' \in {locked, <<>>} PROVE Cardinality(Counted(locked)') <= BatchSize
  <2>1. PICK s \in Seq(Msg) : s = locked
    BY <1>0
  <2>2. Cardinality(Counted(s)) <= BatchSize
    BY <2>1 DEF BoundInv
  <2>3. CASE locked' = s
    <3>1. Counted(locked)' = Counted(s)'
      BY <2>3 DEF Counted
    <3>2. QED
      BY <1>0, <1>s, <2>2, <3>1
  <2>4. CASE locked' = <<>>
    <3>1. Counted(locked)' = Counted(<<>>)'
      BY <2>4 DEF Counted
    <3>2. QED
      BY <1>0, <1>e, <3>1
  <2>5. QED
    BY <1>c, <2>1, <2>3, <2>4
<1>d. ASSUME \A g \in Group : buffer'[g] \in {buffer[g], <<>>}, sending' \subseteq sending,
             locked' \in {locked, <<>>}
      PROVE  BoundInv'
  BY <1>a, <1>b, <1>c, <1>d DEF BoundInv
<1>1. ASSUME NEW n \in Msg, Bypass(n) PROVE BoundInv'
  <2>1. /\ UNCHANGED <<buffer, locked>>
        /\ sending' = sending \cup {Batch("caller", <<n>>)}
    BY <1>1 DEF Bypass
  <2> DEFINE x == Batch("caller", <<n>>)
  <2>2. x.msgs = <<n>> /\ <<n>> \in Seq(Msg) /\ Len(<<n>>) = 1
    BY BatchMsgs
  <2>3. Cardinality(Counted(<<n>>)') <= BatchSize
    <3>1. PICK s \in Seq(Msg) : s = <<n>>
      BY <2>2
    <3>2. Cardinality(Counted(s)) <= 1
      BY <2>2, <3>1, CountedSize
    <3>3. Cardinality(Counted(s)') <= BatchSize
      BY <1>0, <1>s, <3>2
    <3>4. Counted(<<n>>)' = Counted(s)'
      BY <3>1 DEF Counted
    <3>5. QED
      BY <3>3, <3>4
  <2>4. Cardinality(Counted(x.msgs)') <= BatchSize
    BY <2>2, <2>3 DEF Counted
  <2>5. \A b \in sending' : b \in sending \/ b = x
    BY <2>1
  <2> HIDE DEF x
  <2>6. QED
    BY <1>a, <1>b, <1>c, <2>1, <2>4, <2>5 DEF BoundInv
<1>2. ASSUME NEW n \in Msg, NEW k \in Group, Enqueue(n, k) PROVE BoundInv'
  <2>1. /\ buffer' = [buffer EXCEPT ![k] = Append(buffer[k], n)]
        /\ UNCHANGED <<sending, locked>> /\ Len(buffer[k]) + 1 < BatchSize
    BY <1>2 DEF Enqueue
  <2>2. PICK s \in Seq(Msg) : s = Append(buffer[k], n)
    BY <1>0, Appended
  <2>3. Cardinality(Counted(s)') < BatchSize
    <3>1. Len(s) < BatchSize
      BY <1>0, <2>1, <2>2, Appended
    <3>2. Cardinality(Counted(s)) <= Len(s) /\ Len(s) \in Nat
      BY CountedSize
    <3>3. QED
      BY <1>0, <1>s, <3>1, <3>2
  <2>4. \A g \in Group : buffer'[g] = IF g = k THEN s ELSE buffer[g]
    BY <2>1, <2>2 DEF Types, TypeOK
  <2>5. Cardinality(Counted(buffer[k])') < BatchSize
    <3>1. Counted(buffer[k])' = Counted(s)'
      BY <2>4 DEF Counted
    <3>2. QED
      BY <2>3, <3>1
  <2>6. \A g \in Group : Cardinality(Counted(buffer[g])') < BatchSize
    BY <1>a, <2>4, <2>5
  <2>7. QED
    BY <1>b, <1>c, <2>1, <2>6 DEF BoundInv
<1>3. ASSUME NEW n \in Msg, NEW k \in Group, EnqueueRaises(n, k) PROVE BoundInv'
  <2>1. /\ buffer' = [buffer EXCEPT ![k] = Append(buffer[k], n)]
        /\ UNCHANGED <<sending, locked>> /\ raised' = raised \cup {n}
    BY <1>3 DEF EnqueueRaises
  <2>2. \A g \in Group : buffer'[g] = IF g = k THEN Append(buffer[k], n) ELSE buffer[g]
    BY <2>1 DEF Types, TypeOK
  <2>3. Cardinality(Counted(buffer[k])') < BatchSize
    <3>1. ToSet(buffer'[k]) = ToSet(buffer[k]) \cup {n}
      BY <1>0, <2>2, Appended
    <3>2. Counted(buffer[k])' \in SUBSET Counted(buffer[k])
      BY <2>1, <3>1 DEF Counted
    <3>3. IsFiniteSet(Counted(buffer[k])) /\ Cardinality(Counted(buffer[k])) < BatchSize
      BY <1>0, <1>s DEF BoundInv
    <3>4. QED
      BY <1>0, <3>2, <3>3, Fewer
  <2>4. \A g \in Group : Cardinality(Counted(buffer[g])') < BatchSize
    BY <1>a, <2>2, <2>3
  <2>5. QED
    BY <1>b, <1>c, <2>1, <2>4 DEF BoundInv
<1>4. ASSUME NEW n \in Msg, NEW k \in Group, EnqueueFull(n, k) PROVE BoundInv'
  <2>1. /\ \A g \in Group : buffer'[g] \in {buffer[g], <<>>}
        /\ UNCHANGED sending /\ raised' = raised
        /\ locked' = Append(buffer[k], n)
    BY <1>4 DEF EnqueueFull, Types, TypeOK
  <2>2. Cardinality(Counted(locked)') <= BatchSize
    <3>1. Counted(locked)' \in SUBSET (Counted(buffer[k]) \cup {n})
      <4>1. ToSet(locked') = ToSet(buffer[k]) \cup {n}
        BY <1>0, <2>1, Appended
      <4>2. QED
        BY <2>1, <4>1 DEF Counted
    <3>2. /\ IsFiniteSet(Counted(buffer[k])) /\ Cardinality(Counted(buffer[k])) \in Nat
          /\ Cardinality(Counted(buffer[k])) < BatchSize
      BY <1>0, <1>s DEF BoundInv
    <3>3. /\ IsFiniteSet(Counted(buffer[k]) \cup {n})
          /\ Cardinality(Counted(buffer[k]) \cup {n}) <= BatchSize
      <4>1. /\ IsFiniteSet(Counted(buffer[k]) \cup {n})
            /\ Cardinality(Counted(buffer[k]) \cup {n}) =
                 IF n \in Counted(buffer[k]) THEN Cardinality(Counted(buffer[k]))
                 ELSE Cardinality(Counted(buffer[k])) + 1
        BY <3>2, FS_AddElement
      <4>2. PICK c \in Nat : c = Cardinality(Counted(buffer[k]))
        BY <3>2
      <4>3. c < BatchSize /\ BatchSize \in Nat
        BY <1>0, <3>2, <4>2
      <4>4. Cardinality(Counted(buffer[k]) \cup {n}) \in {c, c + 1}
        BY <4>1, <4>2
      <4>5. QED
        BY <4>1, <4>3, <4>4
    <3>4. QED
      BY <1>0, <3>1, <3>3, Fewer
  <2>3. QED
    BY <1>a, <1>b, <2>1, <2>2 DEF BoundInv
<1>5. ASSUME NEW gs \in SUBSET Group, NEW by, Take(gs, by) PROVE BoundInv'
  <2>1. /\ \A g \in Group : buffer'[g] \in {buffer[g], <<>>}
        /\ UNCHANGED <<locked, raised>>
        /\ \A b \in sending' : b \in sending \/ \E g \in gs : b = Batch(by, buffer[g])
    BY <1>5 DEF Take
  <2>2. ASSUME NEW b \in sending' PROVE Cardinality(Counted(b.msgs)') <= BatchSize
    <3>1. CASE b \in sending
      BY <1>b, <3>1
    <3>2. CASE \E g \in gs : b = Batch(by, buffer[g])
      <4>1. PICK g \in gs : b = Batch(by, buffer[g])
        BY <3>2
      <4>2. b.msgs = buffer[g]
        BY <4>1, BatchMsgs
      <4>3. PICK s \in Seq(Msg) : s = buffer[g]
        BY <1>0
      <4>4. Cardinality(Counted(s)) < BatchSize
        BY <4>3 DEF BoundInv
      <4>5. Cardinality(Counted(s)') <= BatchSize
        BY <1>0, <1>s, <4>4
      <4>6. QED
        BY <4>2, <4>3, <4>5
    <3>3. QED
      BY <2>1, <3>1, <3>2
  <2>3. QED
    BY <1>a, <1>c, <2>1, <2>2 DEF BoundInv
<1>6. CASE Exit
  BY <1>6, <1>d DEF Exit
<1>7. CASE SendEndsAny \/ LockedSendEndsAny
  BY <1>7, <1>d DEF SendEndsAny, SendEnds, LockedSendEndsAny, LockedSendEnds
<1>8. CASE ManagerShutdown \/ Tick \/ \E i \in Slot : TimerFires(i)
  BY <1>8, <1>d DEF ManagerShutdown, Tick, TimerFires
<1>9. ASSUME NEW i \in Slot, OnTimer(i) PROVE BoundInv'
  <2>1. {timer[i].group} \in SUBSET Group /\ Take({timer[i].group}, "timer")
    BY <1>9, TimerTakes
  <2>2. QED
    BY <1>5, <2>1
<1>10. CASE FlushAll \/ Shutdown \/ \E gs \in SUBSET Group : Flush(gs)
  BY <1>5, <1>10, Drains, DrainTakes
<1>11. QED
  BY <1>1, <1>2, <1>3, <1>4, <1>6, <1>7, <1>8, <1>9, <1>10 DEF Next, EnqueueAny

(* No summary has more than aggregate_max_events messages, nor does a buffer *)
(* wait at the limit, but for the messages whose enqueue raised.             *)
THEOREM BatchesBounded == Spec => []BatchBounded
<1>1. Init => Types /\ BoundInv
  <2> SUFFICES ASSUME Init PROVE Types /\ BoundInv
    OBVIOUS
  <2>1. \A g \in Group : buffer[g] = <<>>
    BY DEF Init
  <2>2. Cardinality(Counted(<<>>)) = 0
    BY NoMessages, FS_EmptySet DEF Counted
  <2>3. BoundInv
    BY <2>1, <2>2, AggregateBufferAssumption DEF Init, BoundInv
  <2>4. QED
    BY <2>3, InitTypes
<1>2. MsgInv /\ BoundInv /\ [Next]_vars => BoundInv'
  <2> SUFFICES ASSUME MsgInv, BoundInv, [Next]_vars PROVE BoundInv'
    OBVIOUS
  <2>1. CASE Next
    BY <2>1, BoundStep DEF MsgInv
  <2>2. CASE UNCHANGED vars
    <3>1. UNCHANGED <<buffer, sending, locked, raised>>
      BY <2>2 DEF vars
    <3>2. QED
      BY <3>1 DEF BoundInv, Counted
  <2>3. QED
    BY <2>1, <2>2
<1>3. BoundInv => BatchBounded
  BY DEF BoundInv, Counted, BatchBounded
<1>4. QED
  BY <1>1, <1>2, <1>3, MessagesApart, PTL DEF Spec

-----------------------------------------------------------------------------
(* The exit.                                                                 *)
CloseInv ==
    /\ early \subseteq accepted
    /\ phase = "up" => early = {}
    /\ phase = "closing" => Held \cap early = {}
    /\ phase = "gone" => dropped \cap early = {}
    /\ phase # "gone" => dropped = {}

LEMMA CloseStep == ASSUME Flushing, Types, Next, CloseInv PROVE CloseInv'
<1> USE DEF CloseInv
<1>0. phase \in {"up", "closing", "gone"}
  BY DEF Types, TypeOK
<1>a. ASSUME UNCHANGED <<early, phase, dropped>>, accepted \subseteq accepted',
             Held' \cap early \subseteq Held
      PROVE  CloseInv'
  BY <1>a
<1>1. ASSUME NEW n \in Msg, NEW k \in Group, Enqueue(n, k) \/ EnqueueRaises(n, k)
      PROVE  CloseInv'
  <2>1. /\ n \notin accepted /\ accepted' = accepted \cup {n}
        /\ UNCHANGED <<phase, dropped>>
        /\ \A g \in Group : ToSet(buffer'[g]) = IF g = k THEN ToSet(buffer[g]) \cup {n}
                                                ELSE ToSet(buffer[g])
    BY <1>1, Puts
  <2>2. early' = early
    BY <1>1 DEF Enqueue, EnqueueRaises, Accept
  <2>3. Held' \cap early \subseteq Held
    BY <2>1 DEF Held, Buffered
  <2>4. QED
    BY <1>a, <2>1, <2>2, <2>3
<1>2. ASSUME NEW n \in Msg, NEW k \in Group, EnqueueFull(n, k) PROVE CloseInv'
  <2>1. /\ accepted' = accepted \cup {n} /\ UNCHANGED <<phase, dropped>>
        /\ \A g \in Group : ToSet(buffer'[g]) = IF g = k THEN {} ELSE ToSet(buffer[g])
    BY <1>2, Fills
  <2>2. early' = early
    BY <1>2 DEF EnqueueFull, Accept
  <2>3. Held' \cap early \subseteq Held
    BY <2>1 DEF Held, Buffered
  <2>4. QED
    BY <1>a, <2>1, <2>2, <2>3
<1>3. ASSUME NEW n \in Msg, Bypass(n) PROVE CloseInv'
  <2>1. accepted' = accepted \cup {n} /\ UNCHANGED <<early, phase, dropped, buffer>>
    BY <1>3 DEF Bypass, Accept, outcome
  <2>2. QED
    BY <1>a, <2>1 DEF Held, Buffered
<1>4. ASSUME NEW gs \in SUBSET Group, NEW by, Take(gs, by), UNCHANGED <<early, phase>>
      PROVE  CloseInv'
  <2>1. /\ UNCHANGED <<dropped, accepted>>
        /\ \A g \in Group : ToSet(buffer'[g]) = IF g \in gs THEN {} ELSE ToSet(buffer[g])
    BY <1>4, Takes
  <2>2. Held' \cap early \subseteq Held
    BY <2>1 DEF Held, Buffered
  <2>3. QED
    BY <1>4, <1>a, <2>1, <2>2
<1>5. ASSUME NEW i \in Slot, OnTimer(i) PROVE CloseInv'
  <2>1. /\ {timer[i].group} \in SUBSET Group /\ Take({timer[i].group}, "timer")
        /\ UNCHANGED <<early, phase>>
    BY <1>5, TimerTakes
  <2>2. QED
    BY <1>4, <2>1
<1>6. CASE FlushAll \/ \E gs \in SUBSET Group : Flush(gs)
  <2>1. PICK gs \in SUBSET Group : Drain(gs) /\ UNCHANGED <<early, phase>>
    BY <1>6 DEF FlushAll, Flush
  <2>2. QED
    BY <1>4, <2>1, DrainTakes
<1>7. CASE Shutdown
  <2>1. Drain(Group) /\ phase = "up" /\ phase' = "closing" /\ early' = accepted
    BY <1>7 DEF Shutdown
  <2>2. /\ UNCHANGED <<dropped, accepted>>
        /\ \A g \in Group : ToSet(buffer'[g]) = {}
    BY <2>1, DrainTakes, Takes
  <2>3. Held' = {}
    BY <2>2 DEF Held, Buffered
  <2>4. QED
    BY <2>1, <2>2, <2>3
<1>8. CASE Exit
  <2>1. /\ phase = "closing" /\ phase' = "gone" /\ UNCHANGED <<accepted, early>>
        /\ dropped' = Held
    BY <1>8 DEF Exit, history, Held
  <2>2. QED
    BY <2>1
<1>9. ~ManagerShutdown
  BY DEF ManagerShutdown
<1>10. CASE SendEndsAny \/ LockedSendEndsAny \/ Tick \/ \E i \in Slot : TimerFires(i)
  <2>1. UNCHANGED <<buffer, dropped, accepted, early, phase>>
    BY <1>10 DEF SendEndsAny, SendEnds, LockedSendEndsAny, LockedSendEnds, Tick, TimerFires,
       history, outcome
  <2>2. QED
    BY <1>a, <2>1 DEF Held, Buffered
<1> HIDE DEF CloseInv
<1>11. QED
  BY <1>1, <1>2, <1>3, <1>5, <1>6, <1>7, <1>8, <1>9, <1>10 DEF Next, EnqueueAny

(* When the exit of the process calls shutdown(), everything enqueued before *)
(* was handed to a sender by then.                                           *)
THEOREM ShutdownSaves == ASSUME Flushing PROVE Spec => []ClosingSavesBuffered
<1>1. Init => CloseInv
  BY DEF Init, CloseInv, Held, Buffered, ToSet
<1>2. MsgInv /\ CloseInv /\ [Next]_vars => CloseInv'
  <2> SUFFICES ASSUME MsgInv, CloseInv, [Next]_vars PROVE CloseInv'
    OBVIOUS
  <2>1. CASE Next
    BY <2>1, CloseStep DEF MsgInv
  <2>2. CASE UNCHANGED vars
    <3>1. UNCHANGED <<buffer, dropped, accepted, early, phase>>
      BY <2>2 DEF vars, outcome, history
    <3>2. QED
      BY <3>1 DEF CloseInv, Held, Buffered
  <2>3. QED
    BY <2>1, <2>2
<1>3. MsgInv /\ CloseInv => ClosingSavesBuffered
  BY DEF MsgInv, Types, TypeOK, CloseInv, ClosingSavesBuffered
<1>4. QED
  BY <1>1, <1>2, <1>3, MessagesApart, PTL DEF Spec

=============================================================================
