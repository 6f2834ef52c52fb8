-------------------------- MODULE LeaderReleaseProofs --------------------------
(***************************************************************************)
(* For any processes, messages, day, quiet hours, limits, timeout and      *)
(* faults.  The queue: as long as one process at a time runs the job, a    *)
(* message is handed to the channels once at most, and what became of it   *)
(* does not change.  The lock: as long as acquisitions do not overlap and  *)
(* no working process is late, it excludes.  The two together: the lock    *)
(* gives the queue what it needs.                                          *)
(***************************************************************************)
EXTENDS LeaderRelease, TLAPS

-----------------------------------------------------------------------------
(* The queue. *)
Active(p) == job[p].pc # "idle"

OneReleaser == \A p, q \in Proc : Active(p) /\ Active(q) => p = q

(* A run that was not overtaken knows what its rows are: those it has yet to *)
(* write are suppressed, ...                                                 *)
HoldsSuppressed(p) == Active(p) => job[p].todo \subseteq With("suppressed")

SentBy(pc, n) == n = 0 \/ (n = 1 /\ pc \in {"returned", "raised"})

(* ... and that it sends, its own: it has been sent no sooner than this run  *)
(* did it.                                                                   *)
HasCurrent(p) ==
    job[p].cur # None =>
        /\ row[job[p].cur].st = "sending"
        /\ SentBy(job[p].pc, sends[job[p].cur])
        /\ job[p].pc = "returned" => sends[job[p].cur] = 1

SentSoFar(m) ==
    /\ sends[m] \in {0, 1}
    /\ row[m].st \in {"none", "suppressed", "expired"} => sends[m] = 0
    /\ row[m].st = "sent" => sends[m] = 1

Clean ==
    /\ OneReleaser
    /\ \A p \in Proc : HoldsSuppressed(p) /\ HasCurrent(p)
    /\ \A m \in Message : SentSoFar(m)

(* Whatever else writes them, the rows of a run exist: none is deleted.      *)
RowsExist ==
    \A p \in Proc :
        /\ \A m \in job[p].todo : row[m].st # "none"
        /\ job[p].cur # None => row[job[p].cur].st # "none"

Types == TypeOK /\ RowsExist

IInv == Types /\ (~overlapped => Clean)

-----------------------------------------------------------------------------
(* What an action does with the run of a process and with a row.             *)
Becomes(p, pc, todo, cur) ==
    /\ job' \in [Proc -> JobState]
    /\ \A q \in Proc \ {p} : job'[q] = job[q]
    /\ job'[p].pc = pc /\ job'[p].todo = todo /\ job'[p].cur = cur

Sets(m, st) ==
    /\ row' \in [Message -> RowState]
    /\ \A n \in Message \ {m} : row'[n] = row[n]
    /\ row'[m].st = st /\ row'[m].born = row[m].born /\ row'[m].due = row[m].due

Sending(pc) == pc \in {"sending", "returned", "raised"}

LEMMA Becoming ==
    ASSUME TypeOK, NEW p \in Proc, NEW r \in JobState, job' = [job EXCEPT ![p] = r]
    PROVE  Becomes(p, r.pc, r.todo, r.cur)
  BY DEF TypeOK, Becomes

LEMMA StatusSet ==
    ASSUME TypeOK, NEW m \in Message, SetStatus(m, "expired") \/ SetStatus(m, "sending")
                       \/ SetStatus(m, "sent") \/ SetStatus(m, "failed")
    PROVE  row'[m].st \in {"expired", "sending", "sent", "failed"} /\ Sets(m, row'[m].st)
<1>1. PICK st \in {"expired", "sending", "sent", "failed"} : SetStatus(m, st)
  OBVIOUS
<1> DEFINE r == [row[m] EXCEPT !.st = st]
<1>2. row' = [row EXCEPT ![m] = r]
  BY <1>1 DEF SetStatus
<1>3. row \in [Message -> RowState] /\ row[m] \in RowState
  BY DEF TypeOK
<1>4. r \in RowState /\ r.st = st /\ r.born = row[m].born /\ r.due = row[m].due
  BY <1>3 DEF RowState
<1> HIDE DEF r
<1>5. QED
  BY <1>2, <1>3, <1>4 DEF Sets

LEMMA IdleRun ==
    Idle \in JobState /\ Idle.pc = "idle" /\ Idle.todo = {} /\ Idle.cur = None
  BY DEF Idle, JobState

(* The effects of the actions of the job.                                    *)
LEMMA BeginEffect ==
    ASSUME TypeOK, NEW p \in Proc, Begin(p)
    PROVE  Becomes(p, "expiring", TooOld, None)
<1> DEFINE r == [Idle EXCEPT !.pc = "expiring", !.todo = TooOld]
<1>1. TooOld \in SUBSET Message
  BY DEF TooOld, With
<1>2. r \in JobState /\ r.pc = "expiring" /\ r.todo = TooOld /\ r.cur = None
  BY <1>1 DEF Idle, JobState
<1>3. job' = [job EXCEPT ![p] = r]
  BY DEF Begin
<1> HIDE DEF r
<1>4. QED
  BY <1>2, <1>3, Becoming

LEMMA StartReleaseEffect ==
    ASSUME TypeOK, NEW p \in Proc, StartRelease(p)
    PROVE  Becomes(p, "expiring", TooOld, job[p].cur)
<1> DEFINE r == [job[p] EXCEPT !.first = FALSE, !.began = now, !.todo = TooOld]
<1>1. TooOld \in SUBSET Message /\ now \in Nat /\ job[p] \in JobState
  BY SuppressionQueueAssumption DEF TooOld, With, TypeOK
<1>2. r \in JobState /\ r.pc = "expiring" /\ r.todo = TooOld /\ r.cur = job[p].cur
  BY <1>1 DEF JobState, StartRelease, Expired
<1>3. job' = [job EXCEPT ![p] = r]
  BY DEF StartRelease, TypeOK
<1> HIDE DEF r
<1>4. QED
  BY <1>2, <1>3, Becoming

LEMMA SelectEffect ==
    ASSUME TypeOK, NEW p \in Proc, Select(p)
    PROVE  \E S \in SUBSET With("suppressed") : Becomes(p, "releasing", S, job[p].cur)
<1>1. PICK S \in SUBSET Due(p) : job' = [job EXCEPT ![p].pc = "releasing", ![p].todo = S]
  BY DEF Select
<1> DEFINE r == [job[p] EXCEPT !.pc = "releasing", !.todo = S]
<1>2. S \in SUBSET With("suppressed") /\ S \in SUBSET Message /\ job[p] \in JobState
  BY DEF Due, With, TypeOK
<1>3. r \in JobState /\ r.pc = "releasing" /\ r.todo = S /\ r.cur = job[p].cur
  BY <1>2 DEF JobState
<1>4. job' = [job EXCEPT ![p] = r]
  BY <1>1 DEF TypeOK
<1> HIDE DEF r
<1>5. QED
  BY <1>2, <1>3, <1>4, Becoming

LEMMA ExpireRowEffect ==
    ASSUME TypeOK, NEW p \in Proc, NEW m \in Message, ExpireRow(p, m)
    PROVE  Becomes(p, "expiring", job[p].todo \ {m}, job[p].cur) /\ Sets(m, "expired")
<1> DEFINE r == [job[p] EXCEPT !.todo = @ \ {m}]
<1>1. job[p] \in JobState /\ job[p].pc = "expiring"
  BY DEF TypeOK, ExpireRow
<1>2. r \in JobState /\ r.pc = "expiring" /\ r.todo = job[p].todo \ {m} /\ r.cur = job[p].cur
  BY <1>1 DEF JobState
<1>3. job' = [job EXCEPT ![p] = r]
  BY DEF ExpireRow, TypeOK
<1>4. SetStatus(m, "expired")
  BY DEF ExpireRow
<1>5. row'[m].st = "expired"
  BY <1>4 DEF SetStatus, TypeOK, RowState
<1> HIDE DEF r
<1>6. QED
  BY <1>2, <1>3, <1>4, <1>5, Becoming, StatusSet

LEMMA MarkSendingEffect ==
    ASSUME TypeOK, NEW p \in Proc, NEW m \in Message, MarkSending(p, m)
    PROVE  Becomes(p, "sending", job[p].todo \ {m}, m) /\ Sets(m, "sending")
<1> DEFINE r == [job[p] EXCEPT !.pc = "sending", !.cur = m, !.todo = @ \ {m}]
<1>1. job[p] \in JobState
  BY DEF TypeOK
<1>2. r \in JobState /\ r.pc = "sending" /\ r.todo = job[p].todo \ {m} /\ r.cur = m
  BY <1>1 DEF JobState
<1>3. job' = [job EXCEPT ![p] = r]
  BY DEF MarkSending, TypeOK
<1>4. SetStatus(m, "sending")
  BY DEF MarkSending
<1>5. row'[m].st = "sending"
  BY <1>4 DEF SetStatus, TypeOK, RowState
<1> HIDE DEF r
<1>6. QED
  BY <1>2, <1>3, <1>4, <1>5, Becoming, StatusSet

LEMMA ToPc ==
    ASSUME TypeOK, NEW p \in Proc, NEW pc \in {"returned", "raised"},
           job' = [job EXCEPT ![p].pc = pc]
    PROVE  Becomes(p, pc, job[p].todo, job[p].cur)
<1> DEFINE r == [job[p] EXCEPT !.pc = pc]
<1>1. job[p] \in JobState
  BY DEF TypeOK
<1>2. r \in JobState /\ r.pc = pc /\ r.todo = job[p].todo /\ r.cur = job[p].cur
  BY <1>1 DEF JobState
<1>3. job' = [job EXCEPT ![p] = r]
  BY DEF TypeOK
<1> HIDE DEF r
<1>4. QED
  BY <1>2, <1>3, Becoming

LEMMA OutcomeEffect ==
    ASSUME TypeOK, NEW p \in Proc, NEW pc \in {"returned", "raised"},
           NEW st \in {"sent", "failed"}, WriteOutcome(p, pc, st)
    PROVE  /\ job[p].cur \in Message
           /\ Becomes(p, "releasing", job[p].todo, None) /\ Sets(job[p].cur, st)
<1> DEFINE r == [job[p] EXCEPT !.pc = "releasing", !.cur = None]
<1>1. job[p] \in JobState
  BY DEF TypeOK
<1>2. r \in JobState /\ r.pc = "releasing" /\ r.todo = job[p].todo /\ r.cur = None
  BY <1>1 DEF JobState
<1>3. job' = [job EXCEPT ![p] = r]
  BY DEF WriteOutcome, TypeOK
<1>4. SetStatus(job[p].cur, st)
  BY DEF WriteOutcome
<1>5. job[p].cur \in Message
  BY <1>1 DEF WriteOutcome, TypeOK, JobState
<1>6. row'[job[p].cur].st = st
  BY <1>4, <1>5 DEF SetStatus, TypeOK, RowState
<1> HIDE DEF r
<1>7. QED
  BY <1>2, <1>3, <1>4, <1>5, <1>6, Becoming, StatusSet

LEMMA EndEffect ==
    ASSUME TypeOK, NEW p \in Proc, job' = [job EXCEPT ![p] = Idle]
    PROVE  Becomes(p, "idle", {}, None)
  BY IdleRun, Becoming

-----------------------------------------------------------------------------
RowsOK ==
    /\ row \in [Message -> RowState]
    /\ \A m \in Message :
         row[m].st # "none" => row[m].due \in (row[m].born + 1)..(row[m].born + DayLength)

JobsOK ==
    /\ job \in [Proc -> JobState]
    /\ \A p \in Proc : job[p].cur # None <=> Sending(job[p].pc)

RestOK ==
    /\ now \in 0..Horizon
    /\ sends \in [Message -> Nat]
    /\ on \in [Proc -> BOOLEAN] /\ scheduled \subseteq Proc
    /\ overlapped \in BOOLEAN
    /\ faults \in Nat

LEMMA TypeParts == TypeOK <=> RowsOK /\ JobsOK /\ RestOK
  BY DEF TypeOK, RowsOK, JobsOK, RestOK, Sending

LEMMA RowsStep ==
    ASSUME TypeOK, NEW m \in Message, NEW st, Sets(m, st), row[m].st # "none"
    PROVE  RowsOK'
  BY DEF TypeOK, RowsOK, Sets

LEMMA JobsStep ==
    ASSUME TypeOK, NEW p \in Proc, NEW pc, NEW todo, NEW cur,
           Becomes(p, pc, todo, cur), cur # None <=> Sending(pc)
    PROVE  JobsOK'
  BY DEF TypeOK, JobsOK, Becomes, Sending

LEMMA ExistStep ==
    ASSUME RowsExist, NEW p \in Proc, NEW pc, NEW todo, NEW cur, Becomes(p, pc, todo, cur),
           TypeOK, \A m \in Message : row[m].st # "none" => row'[m].st # "none",
           \A m \in todo : row'[m].st # "none",
           cur # None => row'[cur].st # "none"
    PROVE  RowsExist'
<1>1. \A q \in Proc : job[q].todo \in SUBSET Message /\ job[q].cur \in Message \cup {None}
  BY DEF TypeOK, JobState
<1>2. QED
  BY <1>1 DEF RowsExist, Becomes

(* The next end of the quiet hours is within a day. *)
LEMMA NextEnd ==
    ASSUME now \in Nat
    PROVE  Scheduled \in Nat /\ Scheduled \in (now + 1)..(now + DayLength)
<1>1. DayLength \in Nat \ {0} /\ QuietEnd \in 0..(DayLength - 1)
  BY SuppressionQueueAssumption
<1>2. now % DayLength \in 0..(DayLength - 1)
  BY <1>1
<1> DEFINE t == now % DayLength
<1>3. t \in 0..(DayLength - 1) /\ now - t \in Int
  BY <1>1, <1>2
<1>4. Scheduled = IF now >= now - t + QuietEnd THEN now - t + QuietEnd + DayLength
                  ELSE now - t + QuietEnd
  BY DEF Scheduled
<1> HIDE DEF t
<1>5. QED
  BY <1>1, <1>3, <1>4

LEMMA EnqueueTypes ==
    ASSUME Types, NEW p \in Proc, NEW m \in Message, Enqueue(p, m)
    PROVE  /\ RowsOK' /\ \A n \in Message \ {m} : row'[n] = row[n]
           /\ row'[m].st = "suppressed"
<1>1. now \in Nat
  BY SuppressionQueueAssumption DEF Types, TypeOK
<1> DEFINE r == [st |-> "suppressed", born |-> now, due |-> Scheduled]
<1>2. r \in RowState /\ r.st = "suppressed" /\ r.due \in (r.born + 1)..(r.born + DayLength)
  BY <1>1, NextEnd DEF RowState
<1>3. row' = [row EXCEPT ![m] = r]
  BY DEF Enqueue
<1> HIDE DEF r
<1>4. QED
  BY <1>2, <1>3 DEF Types, TypeOK, RowsOK

(* A message is handed to the channels, or not. *)
LEMMA Sent ==
    ASSUME TypeOK, NEW p \in Proc, SendReturns(p) \/ SendRaises(p)
    PROVE  \E n \in {0, 1} :
             /\ SendReturns(p) => n = 1
             /\ job[p].cur \in Message
             /\ sends' \in [Message -> Nat]
             /\ sends'[job[p].cur] = sends[job[p].cur] + n
             /\ \A m \in Message \ {job[p].cur} : sends'[m] = sends[m]
<1>1. PICK n \in {0, 1} : /\ SendReturns(p) => n = 1
                         /\ sends' = [sends EXCEPT ![job[p].cur] = sends[job[p].cur] + n]
  BY DEF SendReturns, SendRaises
<1>2. job[p].cur \in Message
  BY DEF SendReturns, SendRaises, TypeOK, JobState
<1>3. PICK m \in Message : m = job[p].cur
  BY <1>2
<1>4. sends \in [Message -> Nat] /\ sends[m] + n \in Nat
  BY DEF TypeOK
<1>5. sends' = [sends EXCEPT ![m] = sends[m] + n]
  BY <1>1, <1>3
<1>6. /\ sends' \in [Message -> Nat] /\ sends'[m] = sends[m] + n
      /\ \A k \in Message \ {m} : sends'[k] = sends[k]
  BY <1>4, <1>5
<1>7. QED
  BY <1>1, <1>3, <1>6

LEMMA TypesStep == ASSUME Types, Next PROVE Types'
<1>0. TypeOK /\ RowsOK /\ JobsOK /\ RestOK /\ RowsExist
  BY TypeParts DEF Types
<1> DEFINE Goal == RowsOK' /\ JobsOK' /\ RestOK' /\ RowsExist'
<1> SUFFICES Goal
  BY DEF Types, TypeOK, RowsOK, JobsOK, RestOK, Sending
<1>s. ASSUME UNCHANGED row PROVE RowsOK'
  BY <1>0, <1>s DEF RowsOK
<1>j. ASSUME UNCHANGED job PROVE JobsOK'
  BY <1>0, <1>j DEF JobsOK
<1>r. ASSUME UNCHANGED <<now, sends, process>>, overlapped' \in BOOLEAN, faults' \in Nat
      PROVE  RestOK'
  BY <1>0, <1>r DEF RestOK, process
<1>b. overlapped \in BOOLEAN /\ faults \in Nat
  BY <1>0 DEF RestOK
<1>e. ASSUME UNCHANGED row, UNCHANGED job PROVE RowsExist'
  BY <1>0, <1>e DEF RowsExist
<1>x. ASSUME NEW p \in Proc, NEW pc, NEW todo, NEW cur, Becomes(p, pc, todo, cur),
             UNCHANGED row, cur # None <=> Sending(pc),
             \A m \in todo : row[m].st # "none", cur \in {None, job[p].cur}
      PROVE  RowsOK' /\ JobsOK' /\ RowsExist'
  <2>1. cur # None => row[cur].st # "none"
    BY <1>0, <1>x DEF RowsExist
  <2>2. RowsExist'
    BY <1>0, <1>x, <2>1, ExistStep
  <2>3. QED
    BY <1>0, <1>s, <1>x, <2>2, JobsStep
<1>w. ASSUME NEW p \in Proc, NEW m \in Message, NEW pc, NEW todo, NEW cur, NEW st,
             Becomes(p, pc, todo, cur), Sets(m, st), st # "none", row[m].st # "none",
             cur # None <=> Sending(pc), todo \subseteq job[p].todo,
             cur \in {None, job[p].cur, m}
      PROVE  RowsOK' /\ JobsOK' /\ RowsExist'
  <2>1. \A n \in Message : row[n].st # "none" => row'[n].st # "none"
    BY <1>w DEF Sets
  <2>2. todo \subseteq Message /\ \A n \in todo : row[n].st # "none"
    BY <1>0, <1>w DEF RowsExist, TypeOK, JobState
  <2>3. cur # None => cur \in Message /\ row[cur].st # "none"
    BY <1>0, <1>w DEF RowsExist, TypeOK, JobState
  <2>4. RowsExist'
    BY <1>0, <1>w, <2>1, <2>2, <2>3, ExistStep
  <2>5. QED
    BY <1>0, <1>w, <2>4, RowsStep, JobsStep
<1>p. \A p \in Proc : /\ job[p].cur # None <=> Sending(job[p].pc)
                      /\ \A m \in job[p].todo : row[m].st # "none"
  BY <1>0 DEF JobsOK, RowsExist
<1>o. \A m \in With("suppressed") : row[m].st # "none"
  BY DEF With
<1>t. \A m \in TooOld : row[m].st # "none"
  BY DEF With, TooOld
<1>f. ASSUME Fault PROVE faults' \in Nat
  BY <1>b, <1>f DEF Fault
<1> HIDE DEF Goal
<1>1. CASE Tick
  <2>1. RestOK'
    BY <1>0, <1>1, SuppressionQueueAssumption DEF RestOK, Tick, process
  <2>2. QED
    BY <1>1, <1>s, <1>j, <1>e, <2>1 DEF Goal, Tick
<1>2. ASSUME NEW p \in Proc, NEW m \in Message, Enqueue(p, m) PROVE Goal
  <2>1. RowsOK' /\ \A n \in Message : row[n].st # "none" => row'[n] = row[n]
    BY <1>0, <1>2, EnqueueTypes DEF Types, Enqueue
  <2>2. RowsExist'
    BY <1>0, <1>2, <2>1 DEF RowsExist, Enqueue, TypeOK, JobState
  <2>3. QED
    BY <1>2, <1>b, <1>j, <1>r, <2>1, <2>2 DEF Goal, Enqueue
<1>3. ASSUME NEW p \in Proc, Begin(p) PROVE Goal
  <2>1. Becomes(p, "expiring", TooOld, None) /\ UNCHANGED row
    BY <1>0, <1>3, BeginEffect DEF Begin
  <2>2. RestOK'
    BY <1>3, <1>b, <1>r DEF Begin
  <2>3. QED
    BY <1>x, <1>t, <2>1, <2>2 DEF Goal, Sending
<1>4. ASSUME NEW p \in Proc, StartRelease(p) PROVE Goal
  <2>1. Becomes(p, "expiring", TooOld, job[p].cur) /\ UNCHANGED row
    BY <1>0, <1>4, StartReleaseEffect DEF StartRelease
  <2>2. job[p].pc = "expiring" /\ RestOK'
    BY <1>4, <1>b, <1>r DEF StartRelease, Expired
  <2>3. QED
    BY <1>x, <1>t, <1>p, <2>1, <2>2 DEF Goal
<1>5. ASSUME NEW p \in Proc, SwitchedOff(p) \/ AllReleased(p) \/ Abort(p) PROVE Goal
  <2>1. Becomes(p, "idle", {}, None) /\ UNCHANGED row
    BY <1>0, <1>5, EndEffect DEF SwitchedOff, AllReleased, Abort
  <2>2. RestOK'
    BY <1>5, <1>b, <1>f, <1>r DEF SwitchedOff, AllReleased, Abort
  <2>3. QED
    BY <1>x, <2>1, <2>2 DEF Goal, Sending
<1>6. ASSUME NEW p \in Proc, Select(p) PROVE Goal
  <2>1. PICK S \in SUBSET With("suppressed") : Becomes(p, "releasing", S, job[p].cur)
    BY <1>0, <1>6, SelectEffect
  <2>2. UNCHANGED row /\ job[p].pc = "expiring" /\ RestOK'
    BY <1>6, <1>b, <1>r DEF Select, Expired
  <2>3. QED
    BY <1>x, <1>o, <1>p, <2>1, <2>2 DEF Goal, Sending
<1>7. ASSUME NEW p \in Proc, NEW m \in Message, ExpireRow(p, m) PROVE Goal
  <2>1. Becomes(p, "expiring", job[p].todo \ {m}, job[p].cur) /\ Sets(m, "expired")
    BY <1>0, <1>7, ExpireRowEffect
  <2>2. job[p].pc = "expiring" /\ m \in job[p].todo /\ RestOK'
    BY <1>7, <1>b, <1>r DEF ExpireRow
  <2>3. QED
    BY <1>w, <1>p, <2>1, <2>2 DEF Goal
<1>8. ASSUME NEW p \in Proc, NEW m \in Message, MarkSending(p, m) PROVE Goal
  <2>1. Becomes(p, "sending", job[p].todo \ {m}, m) /\ Sets(m, "sending")
    BY <1>0, <1>8, MarkSendingEffect
  <2>2. m \in job[p].todo /\ m # None /\ RestOK'
    BY <1>8, <1>b, <1>r, SuppressionQueueAssumption DEF MarkSending
  <2>3. QED
    BY <1>w, <1>p, <2>1, <2>2 DEF Goal, Sending
<1>9. ASSUME NEW p \in Proc, SendReturns(p) \/ SendRaises(p) \/ WriteSentFails(p) PROVE Goal
  <2>1. PICK pc \in {"returned", "raised"} : job' = [job EXCEPT ![p].pc = pc]
    BY <1>9 DEF SendReturns, SendRaises, WriteSentFails
  <2>2. Becomes(p, pc, job[p].todo, job[p].cur) /\ Sending(pc) /\ Sending(job[p].pc)
    BY <1>0, <1>9, <2>1, ToPc DEF SendReturns, SendRaises, WriteSentFails, Sending
  <2>3. UNCHANGED row /\ RestOK'
    <3>1. CASE SendReturns(p) \/ SendRaises(p)
      <4>1. sends' \in [Message -> Nat]
        BY <1>0, <3>1, Sent
      <4>2. QED
        BY <1>0, <3>1, <4>1 DEF RestOK, SendReturns, SendRaises, process
    <3>2. CASE WriteSentFails(p)
      BY <1>b, <1>f, <1>r, <3>2 DEF WriteSentFails
    <3>3. QED
      BY <1>9, <3>1, <3>2
  <2>4. QED
    BY <1>x, <1>p, <2>2, <2>3 DEF Goal
<1>10. ASSUME NEW p \in Proc, WriteSent(p) \/ WriteFailed(p) PROVE Goal
  <2>1. PICK pc \in {"returned", "raised"}, st \in {"sent", "failed"} : WriteOutcome(p, pc, st)
    BY <1>10 DEF WriteSent, WriteFailed
  <2>2. /\ job[p].cur \in Message
        /\ Becomes(p, "releasing", job[p].todo, None) /\ Sets(job[p].cur, st)
    BY <1>0, <2>1, OutcomeEffect
  <2>3. row[job[p].cur].st # "none" /\ RestOK'
    BY <1>0, <1>b, <1>r, <2>1, <2>2, SuppressionQueueAssumption DEF RowsExist, WriteOutcome
  <2>4. QED
    BY <1>w, <2>2, <2>3 DEF Goal, Sending
<1>11. ASSUME NEW p \in Proc, Restart(p) \/ Schedule(p) \/ Unschedule(p) PROVE Goal
  <2>1. RestOK'
    BY <1>0, <1>11 DEF RestOK, Restart, Schedule, Unschedule
  <2>2. QED
    BY <1>11, <1>s, <1>j, <1>e, <2>1 DEF Goal, Restart, Schedule, Unschedule
<1>12. ASSUME NEW p \in Proc, Perish(p) PROVE Goal
  <2>1. Becomes(p, "idle", {}, None) /\ UNCHANGED row
    BY <1>0, <1>12, EndEffect DEF Perish
  <2>2. RestOK'
    BY <1>0, <1>12, <1>f DEF RestOK, Perish
  <2>3. QED
    BY <1>x, <2>1, <2>2 DEF Goal, Sending
<1>13. QED
  BY <1>1, <1>2, <1>3, <1>4, <1>5, <1>6, <1>7, <1>8, <1>9, <1>10, <1>11, <1>12 DEF Next, JobStep

-----------------------------------------------------------------------------
(* A step of the one process that is active keeps the agreement between what *)
(* it does and the rows.                                                     *)
LEMMA OneStep ==
    ASSUME Types, Clean, NEW p \in Proc, NEW pc, NEW todo, NEW cur,
           Becomes(p, pc, todo, cur),
           \A q \in Proc \ {p} : ~Active(q),
           pc # "idle" => todo \subseteq With("suppressed")',
           cur # None => /\ row'[cur].st = "sending" /\ SentBy(pc, sends'[cur])
                         /\ pc = "returned" => sends'[cur] = 1,
           \A m \in Message : SentSoFar(m)'
    PROVE  Clean'
<1>1. \A q \in Proc \ {p} : job'[q].pc = "idle" /\ job'[q].cur = None
  BY DEF Becomes, Active, Types, TypeOK
<1>2. OneReleaser'
  BY <1>1 DEF OneReleaser, Active
<1>3. ASSUME NEW q \in Proc PROVE HoldsSuppressed(q)' /\ HasCurrent(q)'
  <2>1. CASE q = p
    BY <2>1 DEF Becomes, HoldsSuppressed, HasCurrent, Active
  <2>2. CASE q # p
    BY <1>1, <2>2 DEF HoldsSuppressed, HasCurrent, Active
  <2>3. QED
    BY <2>1, <2>2
<1>4. QED
  BY <1>2, <1>3 DEF Clean

LEMMA CleanStep == ASSUME Types, ~overlapped => Clean, Next, ~overlapped' PROVE Clean'
<1>0. TypeOK /\ job \in [Proc -> JobState] /\ sends \in [Message -> Nat] /\ row \in [Message -> RowState]
  BY DEF Types, TypeOK
<1>c. Clean
  BY DEF Next, Tick, Enqueue, Begin, JobStep, ExpireRow, MarkSending, StartRelease, SwitchedOff,
     Select, SendReturns, SendRaises, WriteSent, WriteFailed, WriteOutcome, AllReleased,
     WriteSentFails, Abort, Restart, Schedule, Unschedule, Perish
<1>a. ASSUME NEW p \in Proc, Active(p) PROVE \A q \in Proc \ {p} : ~Active(q)
  BY <1>a, <1>c DEF Clean, OneReleaser
<1>s. \A m \in Message : SentSoFar(m)
  BY <1>c DEF Clean
<1>h. \A p \in Proc : HoldsSuppressed(p) /\ HasCurrent(p)
  BY <1>c DEF Clean
<1>u. ASSUME UNCHANGED <<row, sends>> PROVE \A m \in Message : SentSoFar(m)'
  BY <1>s, <1>u DEF SentSoFar
<1>w. ASSUME UNCHANGED row PROVE With("suppressed")' = With("suppressed")
  BY <1>w DEF With
<1>k. ASSUME UNCHANGED <<row, sends, job>> PROVE Clean'
  BY <1>c, <1>k, <1>u DEF Clean, OneReleaser, HoldsSuppressed, HasCurrent, SentSoFar, Active, With
<1>1. CASE Tick \/ \E p \in Proc : Restart(p) \/ Schedule(p) \/ Unschedule(p)
  BY <1>1, <1>k DEF Tick, Restart, Schedule, Unschedule
<1>2. ASSUME NEW p \in Proc, NEW m \in Message, Enqueue(p, m) PROVE Clean'
  <2>1. row'[m].st = "suppressed" /\ \A n \in Message \ {m} : row'[n] = row[n]
    BY <1>2, EnqueueTypes
  <2>2. UNCHANGED <<sends, job>> /\ row[m].st = "none"
    BY <1>2 DEF Enqueue
  <2>3. \A n \in Message : SentSoFar(n)'
    BY <1>s, <2>1, <2>2 DEF SentSoFar
  <2>4. With("suppressed") \subseteq With("suppressed")'
    BY <2>1, <2>2 DEF With
  <2>5. ASSUME NEW q \in Proc PROVE HoldsSuppressed(q)' /\ HasCurrent(q)'
    <3>1. HoldsSuppressed(q)'
      BY <1>h, <2>2, <2>4 DEF HoldsSuppressed, Active
    <3>2. job[q].cur # None => job[q].cur \in Message /\ row[job[q].cur].st = "sending"
      BY <1>0, <1>h DEF HasCurrent, JobState
    <3>3. HasCurrent(q)'
      BY <1>h, <2>1, <2>2, <3>2 DEF HasCurrent
    <3>4. QED
      BY <3>1, <3>3
  <2>6. QED
    BY <1>c, <2>2, <2>3, <2>5 DEF Clean, OneReleaser, Active
<1>3. ASSUME NEW p \in Proc, Begin(p) PROVE Clean'
  <2>1. Becomes(p, "expiring", TooOld, None) /\ UNCHANGED <<row, sends>>
    BY <1>0, <1>3, BeginEffect DEF Begin
  <2>2. \A q \in Proc \ {p} : ~Active(q)
    BY <1>3 DEF Begin, Active
  <2>3. TooOld \subseteq With("suppressed")'
    BY <1>w, <2>1 DEF TooOld
  <2>4. QED
    BY <1>c, <1>u, <2>1, <2>2, <2>3, OneStep
<1>4. ASSUME NEW p \in Proc, StartRelease(p) PROVE Clean'
  <2>1. Becomes(p, "expiring", TooOld, job[p].cur) /\ UNCHANGED <<row, sends>>
    BY <1>0, <1>4, StartReleaseEffect DEF StartRelease
  <2>2. job[p].pc = "expiring" /\ job[p].cur = None
    BY <1>0, <1>4 DEF StartRelease, Expired, TypeOK
  <2>3. \A q \in Proc \ {p} : ~Active(q)
    BY <1>a, <2>2 DEF Active
  <2>4. TooOld \subseteq With("suppressed")'
    BY <1>w, <2>1 DEF TooOld
  <2>5. QED
    BY <1>c, <1>u, <2>1, <2>2, <2>3, <2>4, OneStep
<1>5. ASSUME NEW p \in Proc, SwitchedOff(p) \/ AllReleased(p) \/ Abort(p) \/ Perish(p)
      PROVE  Clean'
  <2>1. Becomes(p, "idle", {}, None) /\ UNCHANGED <<row, sends>>
    BY <1>0, <1>5, EndEffect DEF SwitchedOff, AllReleased, Abort, Perish
  <2>2. Active(p)
    BY <1>5 DEF SwitchedOff, AllReleased, Abort, Perish, Expired, Active
  <2>3. QED
    BY <1>a, <1>c, <1>u, <2>1, <2>2, OneStep
<1>6. ASSUME NEW p \in Proc, Select(p) PROVE Clean'
  <2>1. PICK S \in SUBSET With("suppressed") : Becomes(p, "releasing", S, job[p].cur)
    BY <1>0, <1>6, SelectEffect
  <2>2. UNCHANGED <<row, sends>> /\ Active(p) /\ job[p].cur = None
    BY <1>0, <1>6 DEF Select, Expired, Active, TypeOK
  <2>3. S \subseteq With("suppressed")'
    BY <1>w, <2>2
  <2>4. QED
    BY <1>a, <1>c, <1>u, <2>1, <2>2, <2>3, OneStep
<1>7. ASSUME NEW p \in Proc, NEW m \in Message, ExpireRow(p, m) PROVE Clean'
  <2>1. Becomes(p, "expiring", job[p].todo \ {m}, job[p].cur) /\ Sets(m, "expired")
    BY <1>0, <1>7, ExpireRowEffect
  <2>2. /\ m \in job[p].todo /\ Active(p) /\ job[p].cur = None
        /\ job[p].todo \subseteq With("suppressed") /\ sends' = sends
    BY <1>0, <1>7, <1>h DEF ExpireRow, Active, HoldsSuppressed, TypeOK
  <2>3. job[p].todo \ {m} \subseteq With("suppressed")'
    BY <2>1, <2>2 DEF With, Sets
  <2>4. \A n \in Message : SentSoFar(n)'
    BY <1>s, <2>1, <2>2 DEF SentSoFar, Sets, With
  <2>5. QED
    BY <1>a, <1>c, <2>1, <2>2, <2>3, <2>4, OneStep
<1>8. ASSUME NEW p \in Proc, NEW m \in Message, MarkSending(p, m) PROVE Clean'
  <2>1. Becomes(p, "sending", job[p].todo \ {m}, m) /\ Sets(m, "sending")
    BY <1>0, <1>8, MarkSendingEffect
  <2>2. /\ m \in job[p].todo /\ Active(p)
        /\ job[p].todo \subseteq With("suppressed") /\ sends' = sends
    BY <1>0, <1>8, <1>h DEF MarkSending, Active, HoldsSuppressed
  <2>3. job[p].todo \ {m} \subseteq With("suppressed")'
    BY <2>1, <2>2 DEF With, Sets
  <2>4. \A n \in Message : SentSoFar(n)'
    BY <1>s, <2>1, <2>2 DEF SentSoFar, Sets, With
  <2>5. row'[m].st = "sending" /\ sends'[m] = 0
    BY <1>s, <2>1, <2>2 DEF SentSoFar, Sets, With
  <2>6. QED
    BY <1>a, <1>c, <2>1, <2>2, <2>3, <2>4, <2>5, OneStep DEF SentBy
<1>9. ASSUME NEW p \in Proc, SendReturns(p) \/ SendRaises(p) PROVE Clean'
  <2>1. PICK n \in {0, 1} :
             /\ SendReturns(p) => n = 1
             /\ job[p].cur \in Message
             /\ sends'[job[p].cur] = sends[job[p].cur] + n
             /\ \A m \in Message \ {job[p].cur} : sends'[m] = sends[m]
    BY <1>0, <1>9, Sent
  <2>2. PICK pc \in {"returned", "raised"} :
             job' = [job EXCEPT ![p].pc = pc] /\ (pc = "returned" => n = 1)
    BY <1>9, <2>1 DEF SendReturns, SendRaises
  <2>3. Becomes(p, pc, job[p].todo, job[p].cur)
    BY <1>0, <2>2, ToPc
  <2>4. job[p].pc = "sending" /\ Active(p) /\ row' = row /\ job[p].cur # None
    BY <1>0, <1>9 DEF SendReturns, SendRaises, Active, TypeOK
  <2>5. row[job[p].cur].st = "sending" /\ sends[job[p].cur] = 0
    BY <1>h, <2>4 DEF HasCurrent, SentBy
  <2>6. \A m \in Message : SentSoFar(m)'
    BY <1>s, <2>1, <2>4, <2>5 DEF SentSoFar
  <2>7. job[p].todo \subseteq With("suppressed")'
    BY <1>h, <1>w, <2>4 DEF HoldsSuppressed
  <2>8. sends'[job[p].cur] = n
    BY <2>1, <2>5
  <2>9. QED
    BY <1>a, <1>c, <2>2, <2>3, <2>4, <2>5, <2>6, <2>7, <2>8, OneStep DEF SentBy
<1>10. ASSUME NEW p \in Proc, WriteSentFails(p) PROVE Clean'
  <2>1. Becomes(p, "raised", job[p].todo, job[p].cur) /\ UNCHANGED <<row, sends>>
    BY <1>0, <1>10, ToPc DEF WriteSentFails
  <2>2. job[p].pc = "returned" /\ Active(p) /\ job[p].cur # None
    BY <1>0, <1>10 DEF WriteSentFails, Active, TypeOK
  <2>3. row[job[p].cur].st = "sending" /\ SentBy("raised", sends[job[p].cur])
    BY <1>h, <2>2 DEF HasCurrent, SentBy
  <2>4. job[p].todo \subseteq With("suppressed")'
    BY <1>h, <1>w, <2>1, <2>2 DEF HoldsSuppressed
  <2>5. QED
    BY <1>a, <1>c, <1>u, <2>1, <2>2, <2>3, <2>4, OneStep
<1>11. ASSUME NEW p \in Proc, WriteSent(p) \/ WriteFailed(p) PROVE Clean'
  <2>1. PICK pc \in {"returned", "raised"}, st \in {"sent", "failed"} :
             WriteOutcome(p, pc, st) /\ (st = "sent" => pc = "returned")
    BY <1>11 DEF WriteSent, WriteFailed
  <2>2. /\ job[p].cur \in Message
        /\ Becomes(p, "releasing", job[p].todo, None) /\ Sets(job[p].cur, st)
    BY <1>0, <2>1, OutcomeEffect
  <2>3. job[p].pc = pc /\ Active(p) /\ job[p].cur # None /\ sends' = sends
    BY <2>1, <2>2, SuppressionQueueAssumption DEF WriteOutcome, Active
  <2>4. /\ row[job[p].cur].st = "sending" /\ sends[job[p].cur] \in {0, 1}
        /\ pc = "returned" => sends[job[p].cur] = 1
    BY <1>h, <1>s, <2>2, <2>3 DEF HasCurrent, SentSoFar
  <2>5. \A m \in Message : SentSoFar(m)'
    BY <1>s, <2>1, <2>2, <2>3, <2>4 DEF SentSoFar, Sets
  <2>6. job[p].todo \subseteq With("suppressed")'
    BY <1>h, <2>2, <2>3, <2>4 DEF HoldsSuppressed, With, Sets
  <2>7. QED
    BY <1>a, <1>c, <2>2, <2>3, <2>5, <2>6, OneStep
<1>12. QED
  BY <1>1, <1>2, <1>3, <1>4, <1>5, <1>6, <1>7, <1>8, <1>9, <1>10, <1>11 DEF Next, JobStep

-----------------------------------------------------------------------------
LEMMA InitIInv == Init => IInv
<1> SUFFICES ASSUME Init PROVE IInv
  OBVIOUS
<1>1. row \in [Message -> RowState] /\ \A m \in Message : row[m].st = "none"
  BY DEF Init, NoRow, RowState
<1>2. job \in [Proc -> JobState]
      /\ \A p \in Proc : job[p].pc = "idle" /\ job[p].cur = None /\ job[p].todo = {}
  BY IdleRun DEF Init
<1>3. TypeOK
  <2>1. RowsOK
    BY <1>1 DEF RowsOK
  <2>2. JobsOK
    BY <1>2 DEF JobsOK, Sending
  <2>3. now \in 0..Horizon /\ sends \in [Message -> Nat]
    BY SuppressionQueueAssumption DEF Init
  <2>4. RestOK
    BY <2>3 DEF Init, RestOK
  <2>5. QED
    BY <2>1, <2>2, <2>4, TypeParts
<1>4. RowsExist
  BY <1>2 DEF RowsExist
<1>5. Clean
  BY <1>1, <1>2 DEF Init, Clean, OneReleaser, HoldsSuppressed, HasCurrent, SentSoFar, Active
<1>6. QED
  BY <1>3, <1>4, <1>5 DEF IInv, Types

LEMMA Stutter == ASSUME IInv, UNCHANGED vars PROVE IInv'
  BY DEF vars, process, IInv, Types, TypeOK, RowsExist, Clean, OneReleaser, HoldsSuppressed, HasCurrent,
     SentSoFar, SentBy, Active, With

LEMMA IInvStep == IInv /\ [Next]_vars => IInv'
<1>1. ASSUME IInv, Next PROVE IInv'
  BY <1>1, TypesStep, CleanStep DEF IInv
<1>2. ASSUME IInv, UNCHANGED vars PROVE IInv'
  BY <1>2, Stutter
<1>3. QED
  BY <1>1, <1>2

(* What the job holds of the rows agrees with them as long as no second      *)
(* process runs it.                                                          *)
THEOREM Invariance == Spec => []IInv
<1>1. QED
  BY InitIInv, IInvStep, PTL DEF Spec

(* The variables have their types, and a message held back is scheduled      *)
(* after now and within a day, for quiet hours over midnight or not.         *)
THEOREM TypeCorrect == Spec => []TypeOK
<1>1. IInv => TypeOK
  BY DEF IInv, Types
<1>2. QED
  BY <1>1, Invariance, PTL

(* release and expire hand a message to the channels once at most, whatever  *)
(* crashes or fails, while one process runs them.                            *)
THEOREM SentOnce == Spec => []SentOnceOrDropped
<1>1. IInv => SentOnceOrDropped
  BY DEF IInv, Clean, SentSoFar, SentOnceOrDropped
<1>2. QED
  BY <1>1, Invariance, PTL

LEMMA StepIsMove ==
    ASSUME IInv, Next, ~overlapped', NEW m \in Message
    PROVE  row'[m].st = row[m].st \/ <<row[m].st, row'[m].st>> \in Moves
<1>0. TypeOK /\ row \in [Message -> RowState] /\ Types
  BY DEF IInv, Types, TypeOK
<1>c. Clean
  BY DEF IInv, Next, Tick, Enqueue, Begin, JobStep, ExpireRow, MarkSending, StartRelease, SwitchedOff,
     Select, SendReturns, SendRaises, WriteSent, WriteFailed, WriteOutcome, AllReleased,
     WriteSentFails, Abort, Restart, Schedule, Unschedule, Perish
<1> DEFINE Goal == row'[m].st = row[m].st \/ <<row[m].st, row'[m].st>> \in Moves
<1> SUFFICES Goal
  OBVIOUS
<1>w. ASSUME NEW n \in Message, NEW st, Sets(n, st), <<row[n].st, st>> \in Moves PROVE Goal
  BY <1>w DEF Sets
<1>u. ASSUME row' = row PROVE Goal
  BY <1>u
<1> HIDE DEF Goal
<1>1. ASSUME NEW p \in Proc, NEW n \in Message, Enqueue(p, n) PROVE Goal
  <2>1. row[n].st = "none" /\ row'[n].st = "suppressed" /\ \A k \in Message \ {n} : row'[k] = row[k]
    BY <1>0, <1>1, EnqueueTypes DEF Enqueue
  <2>2. QED
    BY <2>1 DEF Goal, Moves
<1>2. ASSUME NEW p \in Proc, NEW n \in Message, ExpireRow(p, n) PROVE Goal
  <2>1. row[n].st = "suppressed"
    BY <1>2, <1>c DEF ExpireRow, Clean, HoldsSuppressed, Active, With
  <2>2. Sets(n, "expired")
    BY <1>0, <1>2, ExpireRowEffect
  <2>3. QED
    BY <1>w, <2>1, <2>2 DEF Moves
<1>3. ASSUME NEW p \in Proc, NEW n \in Message, MarkSending(p, n) PROVE Goal
  <2>1. row[n].st = "suppressed"
    BY <1>3, <1>c DEF MarkSending, Clean, HoldsSuppressed, Active, With
  <2>2. Sets(n, "sending")
    BY <1>0, <1>3, MarkSendingEffect
  <2>3. QED
    BY <1>w, <2>1, <2>2 DEF Moves
<1>4. ASSUME NEW p \in Proc, WriteSent(p) \/ WriteFailed(p) PROVE Goal
  <2>1. PICK pc \in {"returned", "raised"}, st \in {"sent", "failed"} : WriteOutcome(p, pc, st)
    BY <1>4 DEF WriteSent, WriteFailed
  <2>2. job[p].cur \in Message /\ Sets(job[p].cur, st)
    BY <1>0, <2>1, OutcomeEffect
  <2>3. row[job[p].cur].st = "sending"
    BY <1>c, <2>2, SuppressionQueueAssumption DEF Clean, HasCurrent
  <2>4. QED
    BY <1>w, <2>2, <2>3 DEF Moves
<1>5. CASE \/ Tick
           \/ \E p \in Proc : \/ Begin(p) \/ StartRelease(p) \/ SwitchedOff(p) \/ Select(p)
                              \/ SendReturns(p) \/ SendRaises(p) \/ AllReleased(p)
                              \/ WriteSentFails(p) \/ Abort(p) \/ Restart(p)
                              \/ Schedule(p) \/ Unschedule(p) \/ Perish(p)
  BY <1>5, <1>u DEF Tick, Begin, StartRelease, SwitchedOff, Select, SendReturns, SendRaises,
     AllReleased, WriteSentFails, Abort, Restart, Schedule, Unschedule, Perish
<1>6. QED
  BY <1>1, <1>2, <1>3, <1>4, <1>5 DEF Next, JobStep

(* What became of a message does not change: expire does not undo a sending, *)
(* nor release an expiry, while one process runs them.                       *)
THEOREM FinalOutcome == Spec => OutcomeIsFinal
<1> DEFINE A == \A m \in Message :
             row'[m].st = row[m].st \/ <<row[m].st, row'[m].st>> \in Moves \/ overlapped'
<1>1. IInv /\ [Next]_vars => [A]_vars
  <2>1. ASSUME IInv, Next PROVE A
    BY <2>1, StepIsMove
  <2>2. QED
    BY <2>1
<1>2. QED
  BY <1>1, Invariance, PTL DEF Spec, OutcomeIsFinal
-----------------------------------------------------------------------------
(* The lock. *)
(* The row of a scheduler is there and no older than the scheduler's last    *)
(* time stamp, which is never late.                                          *)
RowInv ==
    /\ \A w \in Scheduling : present /\ age <= late[w]
    /\ \A w \in Acquiring \cup Scheduling : late[w] <= StaleTicks

(* One worker acquires at a time; while it is about to take over, the row it *)
(* saw is there and no scheduler is.                                         *)
AcquireInv ==
    /\ \A w1, w2 \in Acquiring : w1 = w2
    /\ \A w \in Worker : state[w] = "updating" => present /\ Scheduling = {}

Regular == serial /\ timely

LockInv == RowInv /\ AcquireInv /\ AtMostOneScheduler

LInv == LockTypeOK /\ (Regular => LockInv)

-----------------------------------------------------------------------------
LEMMA InitLInv == ASSUME LockInit PROVE LInv
<1>0. 0 \in 0..MaxAge /\ 0 \in Nat
  BY SchedulerLockAssumption
<1>1. LockTypeOK
  BY <1>0 DEF LockInit, LockTypeOK, WorkerState
<1>2. \A w \in Worker : state[w] = "down"
  BY DEF LockInit
<1>3. Acquiring = {} /\ Scheduling = {}
  BY <1>2 DEF Acquiring, Scheduling
<1>4. QED
  BY <1>1, <1>2, <1>3 DEF LInv, LockInv, RowInv, AcquireInv, AtMostOneScheduler

(* Every variable keeps its type, whatever overlaps and however late it is.   *)
LEMMA LockTypeStep ==
    ASSUME LockTypeOK, [LockNext]_lockVars PROVE LockTypeOK'
<1> USE SchedulerLockAssumption DEF LockTypeOK, WorkerState, Goto, history
<1>1. CASE LockTick
  BY <1>1 DEF LockTick, Older
<1>2. ASSUME NEW w \in Worker, WorkerStep(w) PROVE LockTypeOK'
  <2>1. CASE Boot(w)
    BY <2>1 DEF Boot
  <2>2. CASE Insert(w)
    BY <2>2 DEF Insert
  <2>3. CASE SelectRow(w)
    BY <2>3 DEF SelectRow
  <2>4. CASE TakeOver(w)
    BY <2>4 DEF TakeOver
  <2>5. CASE StartJobs(w)
    BY <2>5 DEF StartJobs
  <2>6. CASE HeartbeatWakes(w)
    BY <2>6 DEF HeartbeatWakes
  <2>7. CASE HeartbeatWrites(w)
    BY <2>7 DEF HeartbeatWrites
  <2>8. CASE Stop(w)
    BY <2>8 DEF Stop
  <2>9. CASE Release(w)
    BY <2>9 DEF Release
  <2>10. CASE StopIdle(w)
    BY <2>10 DEF StopIdle
  <2>11. CASE Exit(w)
    BY <2>11 DEF Exit
  <2>12. CASE Crash(w)
    BY <2>12 DEF Crash, LockFault
  <2>13. CASE InsertFails(w)
    BY <2>13 DEF InsertFails, LockFault
  <2>14. CASE HeartbeatFails(w)
    BY <2>14 DEF HeartbeatFails, LockFault
  <2>15. CASE ReleaseFails(w)
    BY <2>15 DEF ReleaseFails, LockFault
  <2>16. QED
    BY <1>2, <2>1, <2>2, <2>3, <2>4, <2>5, <2>6, <2>7, <2>8, <2>9, <2>10, <2>11, <2>12,
       <2>13, <2>14, <2>15
    DEF WorkerStep
<1>3. CASE UNCHANGED lockVars
  BY <1>3 DEF lockVars, history
<1>4. QED
  BY <1>1, <1>2, <1>3 DEF LockNext

-----------------------------------------------------------------------------
LEMMA LockInvStep ==
    ASSUME LInv, [LockNext]_lockVars PROVE LInv'
<1> SUFFICES ASSUME Regular' PROVE LockInv'
  BY LockTypeStep DEF LInv
<1> USE SchedulerLockAssumption DEF history
<1>00. Regular
  BY DEF Regular, LockNext, WorkerStep, lockVars, LockTick, Boot, Insert,
         InsertFails, SelectRow, TakeOver, StartJobs, HeartbeatWakes, HeartbeatWrites, HeartbeatFails, Stop,
         Release, ReleaseFails, StopIdle, Exit, Crash
<1>0. /\ LockTypeOK /\ RowInv /\ AcquireInv /\ AtMostOneScheduler
      /\ present \in BOOLEAN /\ age \in Nat /\ late \in [Worker -> Nat]
      /\ state \in [Worker -> WorkerState]
  BY <1>00 DEF LInv, LockInv, LockTypeOK
<1> USE <1>0 DEF Regular, LockInv, Acquiring, Scheduling, RowInv, AcquireInv,
                 AtMostOneScheduler
<1>1. CASE LockTick
  <2>1. \A w \in Acquiring \cup Scheduling : late[w] < StaleTicks
    BY <1>1, Zenon DEF LockTick
  <2>2. QED
    BY <1>1, <2>1 DEF LockTick, Older
<1>2. ASSUME NEW w \in Worker, WorkerStep(w) PROVE LockInv'
  <2>1. CASE Boot(w)
    <3>1. Acquiring = {}
      BY <2>1, Zenon DEF Boot
    <3>2. QED
      BY <2>1, <3>1 DEF Boot, Goto
  <2>2. CASE Insert(w)
    BY <2>2 DEF Insert, Goto
  <2>3. CASE SelectRow(w)
    BY <2>3 DEF SelectRow, Goto
  <2>4. CASE TakeOver(w)
    BY <2>4 DEF TakeOver, Goto
  <2>5. CASE StartJobs(w)
    BY <2>5 DEF StartJobs, Goto
  <2>6. CASE HeartbeatWakes(w)
    BY <2>6 DEF HeartbeatWakes, Goto
  <2>7. CASE HeartbeatWrites(w)
    BY <2>7 DEF HeartbeatWrites, Goto
  <2>8. CASE Stop(w)
    BY <2>8 DEF Stop, Goto
  <2>9. CASE Release(w)
    BY <2>9 DEF Release, Goto
  <2>10. CASE StopIdle(w)
    BY <2>10 DEF StopIdle, Goto
  <2>11. CASE Exit(w)
    BY <2>11 DEF Exit, Goto
  <2>12. CASE Crash(w)
    BY <2>12 DEF Crash, Goto
  <2>13. CASE InsertFails(w)
    BY <2>13 DEF InsertFails, Goto
  <2>14. CASE HeartbeatFails(w)
    BY <2>14 DEF HeartbeatFails
  <2>15. CASE ReleaseFails(w)
    BY <2>15 DEF ReleaseFails, Goto
  <2>16. QED
    BY <1>2, <2>1, <2>2, <2>3, <2>4, <2>5, <2>6, <2>7, <2>8, <2>9, <2>10, <2>11, <2>12,
       <2>13, <2>14, <2>15
    DEF WorkerStep
<1>3. CASE UNCHANGED lockVars
  BY <1>3 DEF LInv, lockVars
<1>4. QED
  BY <1>1, <1>2, <1>3 DEF LockNext

LEMMA LockInvariance == LockSpec => []LInv
<1>1. LockInit => LInv
  BY InitLInv
<1>2. LInv /\ [LockNext]_lockVars => LInv'
  BY LockInvStep
<1>3. QED
  BY <1>1, <1>2, PTL DEF LockSpec

(* The process table, the row and the clock keep their types. *)
THEOREM LockTypeCorrect == LockSpec => []LockTypeOK
<1>1. LInv => LockTypeOK
  BY DEF LInv
<1>2. LockSpec => []LInv
  BY LockInvariance
<1>3. QED
  BY <1>1, <1>2, PTL

(* The lock excludes: at most one process has scheduler jobs.                *)
THEOREM MutualExclusion == LockSpec => []RegularLockExcludes
<1>1. LInv => RegularLockExcludes
  BY DEF LInv, LockInv, Regular, RegularLockExcludes
<1>2. LockSpec => []LInv
  BY LockInvariance
<1>3. QED
  BY <1>1, <1>2, PTL

(* The row of a running scheduler is never one that a worker booting now     *)
(* would take over.                                                          *)
THEOREM RowStaysFresh == LockSpec => []SchedulerKeepsRowFresh
<1>1. LInv => SchedulerKeepsRowFresh
  <2> SUFFICES ASSUME LInv, Regular, NEW w \in Scheduling
               PROVE  present /\ age <= StaleTicks
    BY DEF SchedulerKeepsRowFresh, Regular
  <2>1. present /\ age <= late[w] /\ late[w] <= StaleTicks
    BY DEF LInv, LockInv, RowInv
  <2>2. age \in Nat /\ late[w] \in Nat
    BY DEF LInv, LockTypeOK, Scheduling
  <2>3. QED
    BY <2>1, <2>2, SchedulerLockAssumption
<1>2. LockSpec => []LInv
  BY LockInvariance
<1>3. QED
  BY <1>1, <1>2, PTL

-----------------------------------------------------------------------------
(* The composition: a step of it is a step, or none, of each component.      *)
LEMMA QueueStepKept == [LeaderNext]_leaderVars => [Next]_vars
<1> SUFFICES ASSUME [LeaderNext]_leaderVars PROVE [Next]_vars
  OBVIOUS
<1>1. CASE UNCHANGED leaderVars
  BY <1>1 DEF leaderVars
<1>2. CASE LeaderNext
  <2>1. ASSUME NEW p \in Proc, QueueStep(p) PROVE Next
    BY <2>1 DEF QueueStep, Next
  <2>2. ASSUME NEW p \in Proc, Dies(p) PROVE Next
    BY <2>2 DEF Dies, Next
  <2>3. ASSUME NEW p \in Proc, LockStep(p) PROVE [Next]_vars
    BY <2>3 DEF LockStep, Follows, Next
  <2>4. QED
    BY <1>2, <2>1, <2>2, <2>3 DEF LeaderNext, Next
<1>3. QED
  BY <1>1, <1>2

LEMMA LockStepKept == [LeaderNext]_leaderVars => [LockNext]_lockVars
<1> SUFFICES ASSUME [LeaderNext]_leaderVars PROVE [LockNext]_lockVars
  OBVIOUS
<1>1. CASE UNCHANGED leaderVars
  BY <1>1 DEF leaderVars
<1>2. CASE LeaderNext
  <2>1. ASSUME NEW p \in Proc, Dies(p) \/ LockStep(p) PROVE LockNext
    BY <2>1, LeaderReleaseAssumption DEF Dies, LockStep, LockNext, WorkerStep
  <2>2. QED
    BY <1>2, <2>1 DEF LeaderNext, QueueStep, LockNext
<1>3. QED
  BY <1>1, <1>2

(* What holds of the queue whatever processes release holds of the queue     *)
(* that a leader releases.                                                   *)
THEOREM LeaderImplementsQueue == LeaderSpec => Spec
<1>1. LeaderInit => Init
  BY DEF LeaderInit
<1>2. QED
  BY <1>1, QueueStepKept, PTL DEF LeaderSpec, Spec

(* The job does not get in the way of the lock: waiting for it only delays   *)
(* the release of the row.                                                   *)
THEOREM LeaderImplementsLock == LeaderSpec => LockSpec
<1>1. LeaderInit => LockInit
  BY DEF LeaderInit
<1>2. QED
  BY <1>1, LockStepKept, PTL DEF LeaderSpec, LockSpec

-----------------------------------------------------------------------------
(* The processes that have the job, or run it, are processes that the lock   *)
(* counts among the schedulers, and so one at a time.                        *)
ApartInv ==
    /\ \A p \in Proc : Releasing(p) \/ p \in scheduled => Serves(p)
    /\ Regular => ~overlapped

LEMMA RegularBefore == ASSUME LInv, [LockNext]_lockVars, Regular' PROVE Regular
  BY DEF LInv, LockTypeOK, Regular, LockNext, WorkerStep, lockVars, history,
         LockTick, Boot, Insert, InsertFails, SelectRow, TakeOver,
         StartJobs, HeartbeatWakes, HeartbeatWrites, HeartbeatFails,
         Stop, Release, ReleaseFails, StopIdle, Exit, Crash

(* A step of the lock moves one process at most. *)
LEMMA OthersStay ==
    ASSUME LInv, NEW p \in Proc, WorkerStep(p)
    PROVE  \A q \in Proc \ {p} : state'[q] = state[q]
<1>1. state \in [Worker -> WorkerState]
  BY DEF LInv, LockTypeOK
<1>2. state' = state \/ \E s : state' = [state EXCEPT ![p] = s]
  BY DEF WorkerStep, Goto, Boot, Insert, InsertFails, SelectRow,
         TakeOver, StartJobs, HeartbeatWakes, HeartbeatWrites,
         HeartbeatFails, Stop, Release, ReleaseFails, StopIdle,
         Exit, Crash
<1>3. QED
  BY <1>1, <1>2, LeaderReleaseAssumption

(* A step of the queue leaves all runs but one, and begins one or none.      *)
LEMMA RunsKept ==
    ASSUME Types, NEW p \in Proc,
           \/ \E m \in Message : Enqueue(p, m)
           \/ JobStep(p) \/ WriteSentFails(p) \/ Abort(p) \/ Restart(p) \/ Perish(p)
    PROVE  /\ \A q \in Proc : Releasing(q)' => Releasing(q)
           /\ UNCHANGED overlapped
<1>1. job \in [Proc -> JobState] /\ Idle.pc = "idle"
  BY DEF Types, TypeOK, Idle
<1>2. QED
  BY <1>1 DEF Releasing, Enqueue, JobStep, ExpireRow, MarkSending, StartRelease, SwitchedOff,
     Select, SendReturns, SendRaises, WriteSent, WriteFailed, WriteOutcome, AllReleased,
     WriteSentFails, Abort, Restart, Perish, Expired

LEMMA ApartStep ==
    ASSUME IInv, LInv, ApartInv, [LeaderNext]_leaderVars
    PROVE  ApartInv'
<1>1. Regular' => Regular
  BY LockStepKept, RegularBefore
<1>2. /\ state \in [Worker -> WorkerState] /\ job \in [Proc -> JobState] /\ Types
  BY DEF LInv, LockTypeOK, IInv, Types, TypeOK
<1>3. CASE UNCHANGED leaderVars
  BY <1>1, <1>3 DEF leaderVars, vars, lockVars, ApartInv, Releasing, Serves
<1>4. CASE (Tick /\ UNCHANGED lockVars) \/ (LockTick /\ UNCHANGED vars)
  BY <1>1, <1>4 DEF Tick, LockTick, vars, process, lockVars, ApartInv, Releasing, Serves
<1>5. ASSUME NEW p \in Proc, QueueStep(p) PROVE ApartInv'
  <2>1. UNCHANGED <<state, serial, timely>>
    BY <1>5 DEF QueueStep, lockVars, history
  <2>2. CASE Begin(p)
    <3>1. /\ \A q \in Proc \ {p} : job'[q] = job[q]
          /\ scheduled' = scheduled /\ Serves(p)
      BY <1>2, <2>2 DEF Begin, process, ApartInv
    <3>2. Regular => \A q \in Proc \ {p} : ~Releasing(q)
      <4>1. SUFFICES ASSUME Regular, NEW q \in Proc \ {p}, Releasing(q) PROVE FALSE
        OBVIOUS
      <4>2. p \in Scheduling /\ q \in Scheduling
        BY <3>1, <4>1, LeaderReleaseAssumption DEF ApartInv, Scheduling, Serves
      <4>3. QED
        BY <4>1, <4>2 DEF LInv, LockInv, AtMostOneScheduler
    <3>3. Regular => ~overlapped'
      BY <2>2, <3>2 DEF ApartInv, Begin, Releasing
    <3>4. QED
      BY <1>1, <2>1, <2>2, <3>1, <3>3 DEF ApartInv, Releasing, Regular, Serves
  <2>3. CASE \/ \E m \in Message : Enqueue(p, m)
             \/ JobStep(p) \/ WriteSentFails(p) \/ Abort(p) \/ Restart(p)
    <3>1. /\ \A q \in Proc : Releasing(q)' => Releasing(q)
          /\ UNCHANGED overlapped
      BY <1>2, <2>3, RunsKept
    <3>2. scheduled' = scheduled
      BY <2>3 DEF process, Enqueue, JobStep, ExpireRow, MarkSending, StartRelease,
         SwitchedOff, Select, SendReturns, SendRaises, WriteSent, WriteFailed, WriteOutcome,
         AllReleased, WriteSentFails, Abort, Restart
    <3>3. QED
      BY <1>1, <2>1, <3>1, <3>2 DEF ApartInv, Serves, Regular
  <2>4. QED
    BY <1>5, <2>2, <2>3 DEF QueueStep
<1>6. ASSUME NEW p \in Proc, LockStep(p) PROVE ApartInv'
  <2>1. /\ UNCHANGED <<job, overlapped>>
        /\ \A q \in Proc \ {p} : q \in scheduled' => q \in scheduled
        /\ p \in scheduled' => Serves(p)'
    <3>1. CASE Serves(p)' = (p \in scheduled)
      BY <1>6, <3>1 DEF LockStep, Follows, vars
    <3>2. CASE Serves(p)' # (p \in scheduled)
      BY <1>6, <3>2 DEF LockStep, Follows, Schedule, Unschedule, Serves
    <3>3. QED
      BY <3>1, <3>2
  <2>2. \A q \in Proc \ {p} : state'[q] = state[q]
    BY <1>6, OthersStay DEF LockStep
  <2>3. Releasing(p) => Serves(p)'
    BY <1>6 DEF LockStep
  <2>4. QED
    BY <1>1, <2>1, <2>2, <2>3 DEF ApartInv, Releasing, Serves
<1>7. ASSUME NEW p \in Proc, Dies(p) PROVE ApartInv'
  <2>1. WorkerStep(p) /\ Perish(p)
    BY <1>7 DEF Dies, WorkerStep
  <2>2. /\ \A q \in Proc : Releasing(q)' => Releasing(q)
        /\ UNCHANGED overlapped
    BY <1>2, <2>1, RunsKept
  <2>3. ~Releasing(p)' /\ scheduled' = scheduled \ {p}
    BY <1>2, <2>1 DEF Perish, Idle, Releasing
  <2>4. QED
    BY <1>1, <2>1, <2>2, <2>3, OthersStay DEF ApartInv, Serves
<1>8. QED
  BY <1>3, <1>4, <1>5, <1>6, <1>7 DEF LeaderNext

(* While the lock is regular, releases stay apart: ReleasesStayApart for any *)
(* processes, timeout and faults of both components.                         *)
THEOREM ReleasesApart == LeaderSpec => []ReleasesStayApart
<1>1. LeaderInit => ApartInv
  BY DEF LeaderInit, Init, Idle, ApartInv, Releasing
<1>2. IInv /\ LInv /\ ApartInv /\ [LeaderNext]_leaderVars => ApartInv'
  BY ApartStep
<1>3. LeaderSpec => []IInv
  BY LeaderImplementsQueue, Invariance, PTL
<1>4. LockSpec => []LInv
  BY LockInvariance
<1>5. LeaderSpec => []LInv
  BY <1>4, LeaderImplementsLock, PTL
<1>6. ApartInv => ReleasesStayApart
  BY DEF ApartInv, Regular, ReleasesStayApart
<1>7. QED
  BY <1>1, <1>2, <1>3, <1>5, <1>6, PTL DEF LeaderSpec

(* So a message that was held back is sent once at most, with no condition   *)
(* left but that the lock was regular.                                       *)
THEOREM LeaderSendsOnce == LeaderSpec => []OnceWhileRegular
<1>1. ReleasesStayApart /\ SentOnceOrDropped => OnceWhileRegular
  BY DEF ReleasesStayApart, SentOnceOrDropped, OnceWhileRegular
<1>2. LeaderSpec => []ReleasesStayApart
  BY ReleasesApart
<1>3. LeaderSpec => []SentOnceOrDropped
  BY LeaderImplementsQueue, SentOnce, PTL
<1>4. QED
  BY <1>1, <1>2, <1>3, PTL

=============================================================================
