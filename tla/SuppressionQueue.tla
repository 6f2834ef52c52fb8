--------------------------- MODULE SuppressionQueue ---------------------------
(***************************************************************************)
(* Notifications held back during quiet hours:                             *)
(* pilotstd/core/notification/_suppression_queue.py (is_quiet_hours,       *)
(* enqueue, expire, release), called by _dispatcher.py (do_send) and by    *)
(* manager.py (release_suppressed_notifications), the latter from the job  *)
(* of every five minutes in docker/scheduler.py.                           *)
(*                                                                         *)
(* A row goes from suppressed through sending to sent or failed, or it     *)
(* expires.  Every SQL statement commits on its own and updates by id, so  *)
(* that what the job selected may be out of date when it writes.  A        *)
(* process runs the job once at a time; two processes run it when their    *)
(* schedulers overlap (SchedulerLock).                                     *)
(*                                                                         *)
(* Time is counted in moments of a day of DayLength.                       *)
(***************************************************************************)
EXTENDS Integers, FiniteSets

CONSTANTS
    Message,     \* notifications that are not warnings: those pass
    Proc,        \* processes that run a scheduler
    None,        \* no message
    DayLength,
    QuietStart,  \* notification.quiet_hours_start
    QuietEnd,    \* notification.quiet_hours_end
    UserEnds,    \* ends of quiet hours that a user's preference may give
    ExpireAge,   \* notification.queue_expire_hours
    Limit,       \* notification.release_max_per_tick
    Horizon,     \* bound: the last moment
    MaxFaults    \* bound: crashes and failed statements

ASSUME SuppressionQueueAssumption ==
    /\ None \notin Message
    /\ DayLength \in Nat \ {0}
    /\ UserEnds \cup {QuietStart, QuietEnd} \subseteq 0..(DayLength - 1)
    /\ ExpireAge \in Nat /\ Limit \in Nat \ {0}
    /\ Horizon \in Nat /\ MaxFaults \in Nat

VARIABLES
    now,
    row,        \* row[m]: its row of notification_queue: [st, born, due]
    sends,      \* sends[m]: how often it was handed to the channels
    on,         \* on[p]: notification.enabled, as the process read it
    scheduled,  \* processes whose scheduler was started and has the job
    job,        \* job[p]: the run of the job, see Idle
    overlapped, \* whether two processes ever ran the job at once
    faults

vars == <<now, row, sends, on, scheduled, job, overlapped, faults>>
process == <<on, scheduled>>

(* first: the expiry before the switch is looked at, and not the one within *)
(* release; began: the moment release took as now.                          *)
Idle == [pc |-> "idle", first |-> TRUE, began |-> 0, todo |-> {}, cur |-> None]

NoRow == [st |-> "none", born |-> 0, due |-> 0]

Init ==
    /\ now = 0
    /\ row = [m \in Message |-> NoRow]
    /\ sends = [m \in Message |-> 0]
    /\ on \in [Proc -> BOOLEAN]
    /\ scheduled = {}
    /\ job = [p \in Proc |-> Idle]
    /\ overlapped = FALSE
    /\ faults = 0

With(st) == {m \in Message : row[m].st = st}

SetStatus(m, st) == row' = [row EXCEPT ![m].st = st]

Fault == faults < MaxFaults /\ faults' = faults + 1

Tick ==
    /\ now < Horizon
    /\ now' = now + 1
    /\ UNCHANGED <<row, sends, process, job, overlapped, faults>>

-----------------------------------------------------------------------------
(* Definitions marked "faulty" are used by no action: they are faults one    *)
(* could make in the code, and show that the properties would notice.        *)

(* Both ends belong to the quiet hours, which may run over midnight. *)
IsQuietHours(end) ==
    LET time == now % DayLength
    IN  IF QuietStart <= end THEN time \in QuietStart..end
        ELSE time >= QuietStart \/ time <= end

(* faulty: the end of today, even when it is over *)
ScheduledToday == now - (now % DayLength) + QuietEnd

(* The next end of the quiet hours, of the configuration and not the user's. *)
Scheduled ==
    LET today == now - (now % DayLength) + QuietEnd
    IN  IF now >= today THEN today + DayLength ELSE today

(* do_send finds quiet hours for its user; Horizon leaves time to expire.    *)
Enqueue(p, m) ==
    /\ on[p]
    /\ row[m].st = "none"
    /\ \E end \in UserEnds \cup {QuietEnd} : IsQuietHours(end)
    /\ now + ExpireAge < Horizon
    /\ row' = [row EXCEPT ![m] = [st |-> "suppressed", born |-> now, due |-> Scheduled]]
    /\ UNCHANGED <<now, sends, process, job, overlapped, faults>>

-----------------------------------------------------------------------------
TooOld == {m \in With("suppressed") : row[m].born < now - ExpireAge}

(* faulty: a system that is switched off does not expire either *)
BeginIfOn(p) ==
    /\ p \in scheduled /\ job[p].pc = "idle" /\ on[p]
    /\ job' = [job EXCEPT ![p] = [Idle EXCEPT !.pc = "expiring", !.todo = TooOld]]
    /\ overlapped' = (overlapped \/ \E q \in Proc \ {p} : job[q].pc # "idle")
    /\ UNCHANGED <<now, row, sends, process, faults>>

(* The job begins with expire: it selects the rows that are too old. *)
Begin(p) ==
    /\ p \in scheduled /\ job[p].pc = "idle"
    /\ job' = [job EXCEPT ![p] = [Idle EXCEPT !.pc = "expiring", !.todo = TooOld]]
    /\ overlapped' = (overlapped \/ \E q \in Proc \ {p} : job[q].pc # "idle")
    /\ UNCHANGED <<now, row, sends, process, faults>>

ExpireRow(p, m) ==
    /\ job[p].pc = "expiring" /\ m \in job[p].todo
    /\ SetStatus(m, "expired")
    /\ job' = [job EXCEPT ![p].todo = @ \ {m}]
    /\ UNCHANGED <<now, sends, process, overlapped, faults>>

Expired(p) == job[p].pc = "expiring" /\ job[p].todo = {}

(* release takes the time, and expires once more. *)
StartRelease(p) ==
    /\ Expired(p) /\ job[p].first
    /\ on[p]
    /\ job' = [job EXCEPT ![p].first = FALSE, ![p].began = now, ![p].todo = TooOld]
    /\ UNCHANGED <<now, row, sends, process, overlapped, faults>>

(* The system is off: only expiry. *)
SwitchedOff(p) ==
    /\ Expired(p) /\ job[p].first
    /\ ~on[p]
    /\ job' = [job EXCEPT ![p] = Idle]
    /\ UNCHANGED <<now, row, sends, process, overlapped, faults>>

(* faulty: rows that a crash left in sending are taken as well *)
DueOrSending(p) ==
    With("sending") \cup {m \in With("suppressed") : row[m].due <= job[p].began}

(* faulty: what expired a moment ago is taken as well *)
DueOrExpired(p) ==
    {m \in With("suppressed") \cup With("expired") : row[m].due <= job[p].began}

Due(p) == {m \in With("suppressed") : row[m].due <= job[p].began}

(* SELECT ... LIMIT, in no order. *)
Select(p) ==
    /\ Expired(p) /\ ~job[p].first
    /\ \E S \in SUBSET Due(p) :
         /\ Cardinality(S) = Limit \/ (Cardinality(S) < Limit /\ S = Due(p))
         /\ job' = [job EXCEPT ![p].pc = "releasing", ![p].todo = S]
    /\ UNCHANGED <<now, row, sends, process, overlapped, faults>>

MarkSending(p, m) ==
    /\ job[p].pc = "releasing" /\ m \in job[p].todo
    /\ SetStatus(m, "sending")
    /\ job' = [job EXCEPT ![p].pc = "sending", ![p].cur = m, ![p].todo = @ \ {m}]
    /\ UNCHANGED <<now, sends, process, overlapped, faults>>

(* send_now returns, also when no channel took the message. *)
SendReturns(p) ==
    /\ job[p].pc = "sending"
    /\ sends' = [sends EXCEPT ![job[p].cur] = @ + 1]
    /\ job' = [job EXCEPT ![p].pc = "returned"]
    /\ UNCHANGED <<now, row, process, overlapped, faults>>

(* Rebuilding the message raises, or the log of the sending does, after some *)
(* channel has it.                                                           *)
SendRaises(p) ==
    /\ job[p].pc = "sending"
    /\ \E n \in {0, 1} : sends' = [sends EXCEPT ![job[p].cur] = @ + n]
    /\ job' = [job EXCEPT ![p].pc = "raised"]
    /\ UNCHANGED <<now, row, process, overlapped, faults>>

(* Writing sent fails: the same except clause. *)
WriteSentFails(p) ==
    /\ job[p].pc = "returned"
    /\ Fault
    /\ job' = [job EXCEPT ![p].pc = "raised"]
    /\ UNCHANGED <<now, row, sends, process, overlapped>>

WriteOutcome(p, pc, st) ==
    /\ job[p].pc = pc
    /\ SetStatus(job[p].cur, st)
    /\ job' = [job EXCEPT ![p].pc = "releasing", ![p].cur = None]
    /\ UNCHANGED <<now, sends, process, overlapped, faults>>

WriteSent(p) == WriteOutcome(p, "returned", "sent")
WriteFailed(p) == WriteOutcome(p, "raised", "failed")

AllReleased(p) ==
    /\ job[p].pc = "releasing" /\ job[p].todo = {}
    /\ job' = [job EXCEPT ![p] = Idle]
    /\ UNCHANGED <<now, row, sends, process, overlapped, faults>>

(* A statement fails that no except clause of the run catches: it is over.   *)
Abort(p) ==
    /\ job[p].pc # "idle"
    /\ Fault
    /\ job' = [job EXCEPT ![p] = Idle]
    /\ UNCHANGED <<now, row, sends, process, overlapped>>

-----------------------------------------------------------------------------
(* start_scheduler adds the job in a process that got the lock.  One that    *)
(* found a fresh row of the lock, were it its own from before a restart,     *)
(* never tries again.                                                        *)
Schedule(p) ==
    /\ p \notin scheduled
    /\ scheduled' = scheduled \cup {p}
    /\ UNCHANGED <<now, row, sends, on, job, overlapped, faults>>

(* stop_scheduler waits for a run, or the process dies between two. *)
Unschedule(p) ==
    /\ p \in scheduled /\ job[p].pc = "idle"
    /\ scheduled' = scheduled \ {p}
    /\ UNCHANGED <<now, row, sends, on, job, overlapped, faults>>

(* The process dies and takes the run with it. *)
Perish(p) ==
    /\ job[p].pc # "idle"
    /\ Fault
    /\ job' = [job EXCEPT ![p] = Idle]
    /\ scheduled' = scheduled \ {p}
    /\ UNCHANGED <<now, row, sends, on, overlapped>>

(* The process starts again, perhaps with another setting. *)
Restart(p) ==
    /\ p \notin scheduled /\ job[p].pc = "idle"
    /\ on' = [on EXCEPT ![p] = ~@]
    /\ UNCHANGED <<now, row, sends, scheduled, job, overlapped, faults>>

-----------------------------------------------------------------------------
JobStep(p) ==
    \/ \E m \in Message : ExpireRow(p, m) \/ MarkSending(p, m)
    \/ StartRelease(p) \/ SwitchedOff(p) \/ Select(p)
    \/ SendReturns(p) \/ SendRaises(p) \/ WriteSent(p) \/ WriteFailed(p)
    \/ AllReleased(p)

Next ==
    \/ Tick
    \/ \E p \in Proc :
         \/ \E m \in Message : Enqueue(p, m)
         \/ Begin(p) \/ JobStep(p)
         \/ WriteSentFails(p) \/ Abort(p)
         \/ Schedule(p) \/ Unschedule(p) \/ Perish(p) \/ Restart(p)

Spec == Init /\ [][Next]_vars

(* Time passes, a scheduler that was started runs the job every five         *)
(* minutes, and sending ends: the channels have timeouts.  That a scheduler  *)
(* is started (again) is nobody's duty.                                      *)
Fairness ==
    /\ WF_vars(Tick)
    /\ \A p \in Proc : WF_vars(Begin(p)) /\ WF_vars(JobStep(p))

FairSpec == Spec /\ Fairness

-----------------------------------------------------------------------------
RowState ==
    [st : {"none", "suppressed", "sending", "sent", "failed", "expired"},
     born : Nat, due : Nat]

JobState ==
    [pc : {"idle", "expiring", "releasing", "sending", "returned", "raised"},
     first : BOOLEAN, began : Nat, todo : SUBSET Message, cur : Message \cup {None}]

(* A message is scheduled within a day, and after its arrival. *)
TypeOK ==
    /\ now \in 0..Horizon
    /\ row \in [Message -> RowState]
    /\ \A m \in Message :
         row[m].st # "none" => row[m].due \in (row[m].born + 1)..(row[m].born + DayLength)
    /\ sends \in [Message -> Nat]
    /\ on \in [Proc -> BOOLEAN]
    /\ scheduled \subseteq Proc
    /\ job \in [Proc -> JobState]
    /\ \A p \in Proc :
         job[p].cur # None <=> job[p].pc \in {"sending", "returned", "raised"}
    /\ overlapped \in BOOLEAN
    /\ faults \in Nat

AtRow(m) == \E p \in Proc : job[p].cur = m

(* A message that was held back reaches the channels once at most, and one   *)
(* that is still held or has expired never did, through crashes, failed      *)
(* writes and backlogs, until two processes release at once: a crash after   *)
(* the sending is not followed by a second one.                              *)
SentOnceOrDropped ==
    ~overlapped =>
        \A m \in Message :
            /\ sends[m] <= 1
            /\ row[m].st \in {"none", "suppressed", "expired"} => sends[m] = 0
            /\ row[m].st = "sent" => sends[m] = 1

(* The fate of a message, once written, is final: an expired one is not sent *)
(* and a sent one does not expire, and only a message marked as being sent   *)
(* gets an outcome.  (Two releases at once write over each other.)           *)
Moves ==
    {<<"none", "suppressed">>, <<"suppressed", "expired">>, <<"suppressed", "sending">>,
     <<"sending", "sent">>, <<"sending", "failed">>}

OutcomeIsFinal ==
    [][\A m \in Message :
          row'[m].st = row[m].st \/ <<row[m].st, row'[m].st>> \in Moves \/ overlapped']_vars

Stranded(m) == row[m].st = "sending" /\ ~AtRow(m)

(* While some process keeps the job, no message is held for ever: it is      *)
(* sent, or fails, or expires, also when the system is switched off, the job *)
(* is interrupted or rows are more than one run takes; only a fault during   *)
(* its sending strands it.                                                   *)
EveryMessageLeaves ==
    (\E p \in Proc : <>[](p \in scheduled)) =>
        \A m \in Message :
            row[m].st = "suppressed"
                ~> row[m].st \in {"sent", "failed", "expired"} \/ (Stranded(m) /\ faults > 0)

=============================================================================
