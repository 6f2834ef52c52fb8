--------------------------- MODULE AggregateBuffer ---------------------------
(***************************************************************************)
(* The notification aggregator: pilotstd/core/notification/                *)
(* aggregate_buffer.py, NotificationAggregator.                            *)
(*                                                                         *)
(* Messages collect in one buffer per group; a threading.Timer per group   *)
(* empties it every Window, and after MaxWindow the window ends.  All      *)
(* bookkeeping is done under one lock, so each method is one action up to  *)
(* the point where it calls the sender; but enqueue and _on_timer read the *)
(* clock before they have the lock.  _on_timer, flush and shutdown send    *)
(* after they let the lock go; a full buffer is sent by enqueue with the   *)
(* lock held.  A timer whose wait has ended can not be cancelled any more, *)
(* and its callback finds whatever the buffer is by then.                  *)
(***************************************************************************)
EXTENDS Naturals, Sequences, FiniteSets, SequencesExt

CONSTANTS
    Group,      \* values of _group_key
    Msg,        \* notifications ever enqueued
    Slot,       \* timer objects alive at a time: enough to never run out
    None,       \* no timer, no group
    Window,     \* _window in ticks
    MaxWindow,  \* MAX_WINDOW_SECONDS in ticks
    MaxWait,    \* bound: ticks between reading the clock and having the lock
    BatchSize,  \* _max
    MaxFaults,  \* bound: timers that do not start and sends that raise
    Flushing    \* whether the process calls shutdown() before it exits

ASSUME AggregateBufferAssumption ==
    /\ None \notin Slot \cup Group
    /\ Window \in Nat \ {0} /\ MaxWindow \in Nat \ {0} /\ BatchSize \in Nat \ {0}
    /\ MaxWait \in Nat /\ MaxFaults \in Nat
    /\ Flushing \in BOOLEAN

VARIABLES
    buffer,   \* _buffers: the messages of each group, <<>> when it has no key
    cur,      \* _timers: the timer of each group, or None
    win,      \* _window_start: ticks since, or Closed when there is none
    timer,    \* timer[i]: one Timer object, see TimerState
    sending,  \* batches being sent without the lock
    locked,   \* the batch enqueue sends with the lock held, <<>> otherwise
    sent,     \* messages whose send returned
    lost,     \* messages whose send raised or was cut off by the exit
    dropped,  \* messages still buffered when the process was gone
    raised,   \* messages whose enqueue raised after buffering them
    accepted, \* messages handed to enqueue
    early,    \* those handed over before the process began to close
    phase,    \* "up", "closing", "gone"
    faults

timing  == <<cur, win, timer>>
outcome == <<sent, lost, dropped>>
history == <<accepted, early>>
vars == <<buffer, timing, sending, locked, outcome, raised, history, phase, faults>>

(* Beyond MaxAge a window is over for every callback. *)
MaxAge == MaxWindow + MaxWait
Closed == MaxAge + 1

(* A timer is waiting, or its wait is over and its callback wants the lock.  *)
(* late: how long ago that callback read the clock; of a waiting timer, how  *)
(* long those who started it had waited for the lock.                        *)
TimerState ==
    [group : Group \cup {None}, left : 0..Window, late : 0..MaxWait,
     st : {"free", "waiting", "fired"}]

FreeTimer == [group |-> None, left |-> 0, late |-> 0, st |-> "free"]

(* by: "timer" for a daemon timer thread, "caller" for a thread the exit of *)
(* the process waits for.                                                   *)
Batch(by, msgs) == [by |-> by, msgs |-> msgs]

Buffered(m) == \E g \in Group : m \in ToSet(buffer[g])
InBatch(m)  == \E b \in sending : m \in ToSet(b.msgs)
Live(i)     == timer[i].st # "free"
Running     == phase # "gone"
LockFree    == Running /\ locked = <<>>

Init ==
    /\ buffer = [g \in Group |-> <<>>]
    /\ cur = [g \in Group |-> None]
    /\ win = [g \in Group |-> Closed]
    /\ timer = [i \in Slot |-> FreeTimer]
    /\ sending = {} /\ locked = <<>>
    /\ sent = {} /\ lost = {} /\ dropped = {} /\ raised = {}
    /\ accepted = {} /\ early = {}
    /\ phase = "up"
    /\ faults = 0

-----------------------------------------------------------------------------
Smaller(a, b) == IF a < b THEN a ELSE b

Started(g, delay, late) == [group |-> g, left |-> delay, late |-> late, st |-> "waiting"]

(* Timer.cancel(): without effect once the wait is over. *)
Cancelled(t) == IF t.st = "waiting" THEN FreeTimer ELSE t

(* Forget the timers and the windows of the groups gs. *)
CloseWindows(gs) ==
    /\ cur' = [g \in Group |-> IF g \in gs THEN None ELSE cur[g]]
    /\ win' = [g \in Group |-> IF g \in gs THEN Closed ELSE win[g]]

Accept(m) ==
    /\ m \notin accepted
    /\ accepted' = accepted \cup {m}
    /\ UNCHANGED early

(* An event of the bypass list is sent at once, by the caller. *)
Bypass(m) ==
    /\ Running
    /\ Accept(m)
    /\ sending' = sending \cup {Batch("caller", <<m>>)}
    /\ UNCHANGED <<buffer, timing, locked, outcome, raised, phase, faults>>

(* Definitions marked "faulty" are used by no action: they are faults one    *)
(* could make in the code, and show that the properties would notice.        *)

(* faulty: off by one in the count *)
EnqueueOverLimit(m, g) ==
    /\ LockFree
    /\ Accept(m)
    /\ Len(buffer[g]) < BatchSize
    /\ IF cur[g] # None THEN UNCHANGED timing
       ELSE \E i \in {j \in Slot : ~Live(j)} :
              /\ timer' = [timer EXCEPT ![i] = Started(g, Window, 0)]
              /\ cur' = [cur EXCEPT ![g] = i]
              /\ win' = [win EXCEPT ![g] = 0]
    /\ buffer' = [buffer EXCEPT ![g] = Append(@, m)]
    /\ UNCHANGED <<sending, locked, outcome, raised, phase, faults>>

(* enqueue below the limit: the first message of a window starts the timer.  *)
(* The window began when the caller read the clock.                          *)
Enqueue(m, g) ==
    /\ LockFree
    /\ Accept(m)
    /\ Len(buffer[g]) + 1 < BatchSize
    /\ buffer' = [buffer EXCEPT ![g] = Append(@, m)]
    /\ \/ /\ cur[g] # None
          /\ UNCHANGED timing
       \/ /\ cur[g] = None
          /\ \E i \in Slot, late \in 0..MaxWait :
               /\ ~Live(i)
               /\ timer' = [timer EXCEPT ![i] = Started(g, Window, late)]
               /\ cur' = [cur EXCEPT ![g] = i]
               /\ win' = [win EXCEPT ![g] = late]
    /\ UNCHANGED <<sending, locked, outcome, raised, phase, faults>>

(* enqueue whose timer does not start: the exception leaves the message in  *)
(* the buffer and the window open, without a timer.                         *)
EnqueueRaises(m, g) ==
    /\ LockFree
    /\ Accept(m)
    /\ cur[g] = None
    /\ faults < MaxFaults
    /\ faults' = faults + 1
    /\ buffer' = [buffer EXCEPT ![g] = Append(@, m)]
    /\ \E late \in 0..MaxWait : win' = [win EXCEPT ![g] = late]
    /\ raised' = raised \cup {m}
    /\ UNCHANGED <<cur, timer, sending, locked, outcome, phase>>

(* enqueue that fills the buffer: everything is sent with the lock held.  A *)
(* timer it has to start first is cancelled again.                          *)
EnqueueFull(m, g) ==
    /\ LockFree
    /\ Accept(m)
    /\ Len(buffer[g]) + 1 >= BatchSize
    /\ buffer' = [buffer EXCEPT ![g] = <<>>]
    /\ locked' = Append(buffer[g], m)
    /\ timer' = [i \in Slot |-> IF i = cur[g] THEN Cancelled(timer[i]) ELSE timer[i]]
    /\ CloseWindows({g})
    /\ UNCHANGED <<sending, outcome, raised, phase, faults>>

-----------------------------------------------------------------------------
(* The callback begins, and reads the clock. *)
TimerFires(i) ==
    /\ Running
    /\ timer[i].st = "waiting" /\ timer[i].left = 0
    /\ timer' = [timer EXCEPT ![i].st = "fired", ![i].late = 0]
    /\ UNCHANGED <<buffer, cur, win, sending, locked, outcome, raised, history,
                   phase, faults>>

(* faulty: every renewal opens a window of its own *)
WindowAgeForgotten(i) == timer[i].late

(* The age of the window when the callback of i has the lock: a missing      *)
(* start is replaced by the instant at which it read the clock.              *)
WindowAge(i) ==
    LET g == timer[i].group IN IF win[g] = Closed THEN timer[i].late ELSE win[g]

(* What it takes to remain of the window, by the clock it read before. *)
Remains(i) == WindowAge(i) < MaxWindow + timer[i].late

(* faulty: the last renewal before the bound sleeps a full window *)
NextDelayFull(i) == IF Remains(i) THEN Window ELSE 0
(* faulty: sleep to the end of the window *)
NextDelayRest(i) == MaxWindow + timer[i].late - WindowAge(i)

(* The delay of the next timer: never beyond what it takes for that end. *)
NextDelay(i) == Smaller(Window, MaxWindow + timer[i].late - WindowAge(i))

(* faulty: the buffer is read, not taken *)
TakeBufferCopy(i) ==
    LET g == timer[i].group IN
    /\ LockFree
    /\ timer[i].st = "fired"
    /\ sending' = IF buffer[g] = <<>> THEN sending
                  ELSE sending \cup {Batch("timer", buffer[g])}
    /\ UNCHANGED <<buffer, locked, outcome, raised, history, phase>>

(* What every branch of _on_timer does: take the buffer, send it later.     *)
TakeBuffer(i) ==
    LET g == timer[i].group IN
    /\ LockFree
    /\ timer[i].st = "fired"
    /\ buffer' = [buffer EXCEPT ![g] = <<>>]
    /\ sending' = IF buffer[g] = <<>> THEN sending
                  ELSE sending \cup {Batch("timer", buffer[g])}
    /\ UNCHANGED <<locked, outcome, raised, history, phase>>

OnTimerRenews(i) ==
    LET g == timer[i].group IN
    /\ TakeBuffer(i)
    /\ Remains(i)
    /\ win' = [win EXCEPT ![g] = WindowAge(i)]
    /\ timer' = [timer EXCEPT ![i] = Started(g, NextDelay(i), timer[i].late)]
    /\ cur' = [cur EXCEPT ![g] = i]
    /\ UNCHANGED faults

(* faulty: the timer that could not be replaced stays in _timers *)
OnTimerCannotRenewStuck(i) ==
    /\ TakeBuffer(i)
    /\ Remains(i)
    /\ faults < MaxFaults
    /\ faults' = faults + 1
    /\ timer' = [timer EXCEPT ![i] = FreeTimer]
    /\ UNCHANGED <<cur, win>>

(* _schedule_next caught an exception: the next enqueue opens a window.     *)
OnTimerCannotRenew(i) ==
    /\ TakeBuffer(i)
    /\ Remains(i)
    /\ faults < MaxFaults
    /\ faults' = faults + 1
    /\ timer' = [timer EXCEPT ![i] = FreeTimer]
    /\ CloseWindows({timer[i].group})

(* The window is over.  The group's timer is forgotten, not cancelled. *)
OnTimerForces(i) ==
    /\ TakeBuffer(i)
    /\ ~Remains(i)
    /\ timer' = [timer EXCEPT ![i] = FreeTimer]
    /\ CloseWindows({timer[i].group})
    /\ UNCHANGED faults

-----------------------------------------------------------------------------
(* flush drains the groups it selects among those that hold messages,       *)
(* flush_all and shutdown all of them, with every timer.                    *)
Drain(gs) ==
    /\ LockFree
    /\ buffer' = [g \in Group |-> IF g \in gs THEN <<>> ELSE buffer[g]]
    /\ sending' = sending \cup
                    {Batch("caller", buffer[g]) : g \in {h \in gs : buffer[h] # <<>>}}
    /\ timer' = [i \in Slot |->
                   IF \E g \in gs : cur[g] = i THEN Cancelled(timer[i]) ELSE timer[i]]
    /\ CloseWindows(gs)
    /\ UNCHANGED <<locked, outcome, raised, accepted, faults>>

Flush(gs) ==
    /\ gs # {} /\ \A g \in gs : buffer[g] # <<>>
    /\ Drain(gs)
    /\ UNCHANGED <<early, phase>>

FlushAll == Drain(Group) /\ UNCHANGED <<early, phase>>

(* faulty: shutdown stops the timers and leaves the messages *)
ShutdownKeepsBuffers ==
    /\ Flushing
    /\ phase = "up"
    /\ LockFree
    /\ timer' = [i \in Slot |-> Cancelled(timer[i])]
    /\ CloseWindows(Group)
    /\ phase' = "closing" /\ early' = accepted
    /\ UNCHANGED <<buffer, sending, locked, outcome, raised, accepted, faults>>

(* The desktop window closes: shutdown() of the aggregator. *)
Shutdown ==
    /\ Flushing
    /\ phase = "up"
    /\ Drain(Group)
    /\ phase' = "closing" /\ early' = accepted

(* The server ends: NotificationManager.shutdown stops the Telegram receiver *)
(* and never reaches the aggregator.                                         *)
ManagerShutdown ==
    /\ ~Flushing
    /\ phase = "up"
    /\ phase' = "closing" /\ early' = accepted
    /\ UNCHANGED <<buffer, timing, sending, locked, outcome, raised, accepted, faults>>

(* The interpreter ends: non-daemon work is waited for, timer threads die.  *)
Exit ==
    /\ phase = "closing"
    /\ locked = <<>>
    /\ \A b \in sending : b.by = "timer"
    /\ phase' = "gone"
    /\ lost' = lost \cup {m \in Msg : InBatch(m)}
    /\ dropped' = {m \in Msg : Buffered(m)}
    /\ buffer' = [g \in Group |-> <<>>]
    /\ timer' = [i \in Slot |-> FreeTimer]
    /\ CloseWindows(Group)
    /\ sending' = {}
    /\ UNCHANGED <<locked, sent, raised, history, faults>>

-----------------------------------------------------------------------------
Ends(b, ok) ==
    IF ok THEN sent' = sent \cup ToSet(b) /\ UNCHANGED <<lost, faults>>
    ELSE /\ faults < MaxFaults /\ faults' = faults + 1
         /\ lost' = lost \cup ToSet(b) /\ UNCHANGED sent

(* A send outside the lock returns, or raises in its thread. *)
SendEnds(b, ok) ==
    /\ b \in sending
    /\ Ends(b.msgs, ok)
    /\ sending' = sending \ {b}
    /\ UNCHANGED <<buffer, timing, locked, dropped, raised, history, phase>>

(* The send inside enqueue ends; either way the lock is released. *)
LockedSendEnds(ok) ==
    /\ locked # <<>>
    /\ Ends(locked, ok)
    /\ locked' = <<>>
    /\ UNCHANGED <<buffer, timing, sending, dropped, raised, history, phase>>

Due(i) == timer[i].st = "fired" \/ (timer[i].st = "waiting" /\ timer[i].left = 0)

(* One tick less to wait, or one more since the callback read the clock. *)
Older(t) ==
    CASE t.st = "fired"                  -> [t EXCEPT !.late = @ + 1]
      [] t.st = "waiting" /\ t.left > 0 -> [t EXCEPT !.left = @ - 1]
      [] OTHER                           -> t

Tick ==
    /\ Running
    /\ \A i \in Slot : timer[i].st = "fired" => timer[i].late < MaxWait
    /\ timer' = [i \in Slot |-> Older(timer[i])]
    /\ win' = [g \in Group |-> IF win[g] < MaxAge THEN win[g] + 1 ELSE win[g]]
    /\ UNCHANGED <<buffer, cur, sending, locked, outcome, raised, history, phase, faults>>

-----------------------------------------------------------------------------
OnTimer(i) == OnTimerRenews(i) \/ OnTimerCannotRenew(i) \/ OnTimerForces(i)

EnqueueAny ==
    \E m \in Msg :
        \/ Bypass(m)
        \/ \E g \in Group : Enqueue(m, g) \/ EnqueueRaises(m, g) \/ EnqueueFull(m, g)

SendEndsAny == \E b \in sending, ok \in BOOLEAN : SendEnds(b, ok)

LockedSendEndsAny == \E ok \in BOOLEAN : LockedSendEnds(ok)

Next ==
    \/ EnqueueAny
    \/ \E i \in Slot : TimerFires(i) \/ OnTimer(i)
    \/ \E gs \in SUBSET Group : Flush(gs)
    \/ FlushAll \/ Shutdown \/ ManagerShutdown \/ Exit
    \/ SendEndsAny \/ LockedSendEndsAny
    \/ Tick

Spec == Init /\ [][Next]_vars

(* Time passes, timer threads run, senders answer (their requests have a    *)
(* timeout).  Nobody is obliged to enqueue, flush or close.                 *)
Fairness ==
    /\ WF_vars(Tick)
    /\ \A i \in Slot : WF_vars(TimerFires(i)) /\ WF_vars(OnTimer(i))
    /\ WF_vars(SendEndsAny) /\ WF_vars(LockedSendEndsAny)

FairSpec == Spec /\ Fairness

-----------------------------------------------------------------------------
Batches == [by : {"timer", "caller"}, msgs : Seq(Msg)]

TypeOK ==
    /\ buffer \in [Group -> Seq(Msg)]
    /\ cur \in [Group -> Slot \cup {None}]
    /\ win \in [Group -> 0..Closed]
    /\ timer \in [Slot -> TimerState]
    /\ sending \subseteq Batches /\ locked \in Seq(Msg)
    /\ {sent, lost, dropped, raised, accepted, early} \subseteq SUBSET Msg
    /\ phase \in {"up", "closing", "gone"}
    /\ faults \in Nat

(* Whatever races with whatever (timer callback, full buffer, flush,         *)
(* shutdown), a message that was enqueued neither disappears between buffer  *)
(* and sender nor goes out twice: the aggregator does what Delivery says.    *)
D == INSTANCE Delivery WITH
        held <- {m \in Msg : Buffered(m)},
        underway <- {m \in Msg : InBatch(m)} \cup ToSet(locked),
        open <- Running

ImplementsDelivery == D!Spec

(* No group is left behind: as long as it holds messages a timer of its own  *)
(* is under way, unless the enqueue of every one of them raised to tell.     *)
(* (Timers that fired but did not get the lock yet may be superseded and     *)
(* still run; timers that could not be renewed must not block new ones.)     *)
BufferedIsTimed ==
    \A g \in Group :
        \/ ToSet(buffer[g]) \subseteq raised
        \/ \E i \in Slot : timer[i].group = g /\ Live(i)

(* "Reaching the count sends at once": no summary has more messages than     *)
(* aggregate_max_events, not counting those whose enqueue raised, and no     *)
(* buffer waits at the limit.                                                *)
BatchBounded ==
    /\ \A g \in Group : Cardinality(ToSet(buffer[g]) \ raised) < BatchSize
    /\ \A b \in sending : Cardinality(ToSet(b.msgs) \ raised) <= BatchSize
    /\ Cardinality(ToSet(locked) \ raised) <= BatchSize

(* The timing contract of the class comment: "from the start of a window to  *)
(* its forced send never more than MAX_WINDOW_SECONDS", up to the delay of   *)
(* the callback itself, and up to the time those who started the timer had   *)
(* waited for the lock.  An open window has a timer that is due at its end   *)
(* at the latest, however many renewals, early flushes and superseded timers *)
(* came before: the waits do not add up.  But for a window whose timer did   *)
(* not start.                                                                *)
WindowContract ==
    \A g \in Group : win[g] # Closed =>
        \/ Window > MaxWindow
        \/ /\ cur[g] # None
           /\ \/ Due(cur[g])
              \/ win[g] + timer[cur[g]].left <= MaxWindow + timer[cur[g]].late
        \/ cur[g] = None /\ ToSet(buffer[g]) \cap raised # {}

(* Every notification leaves: it is sent, or its send raised, or the process *)
(* ended, or its enqueue raised.                                             *)
EverySent == \A m \in Msg : m \in accepted ~> m \in sent \cup lost \cup dropped \cup raised

(* When no more notifications arrive the timers stop, superseded ones that   *)
(* open a window nobody asked for included (unless flush_all, which closes   *)
(* windows under timers that fired, is called for ever).                     *)
TimersStop == <>[][~FlushAll]_vars => <>[](\A i \in Slot : ~Live(i))

(* "Graceful shutdown: send everything left in the buffer, to prevent loss": *)
(* nothing enqueued before the process began to close is still buffered when *)
(* it is gone.                                                               *)
ClosingSavesBuffered == dropped \cap early = {}

=============================================================================
