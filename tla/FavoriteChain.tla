---------------------------- MODULE FavoriteChain ----------------------------
(***************************************************************************)
(* The download chain of a favourite: the row of favorite_downloads that   *)
(* docker/api/favorites.py creates and deletes with the favourite, and     *)
(* that the daily job carries from pending to done or abandoned:           *)
(* pilotstd/services/favorite_chain_processor.py (_process_one_record)     *)
(* around pilotstd/tasks/favorite_download.py (download_to_inbox).         *)
(*                                                                         *)
(* One user and one record, a national standard past its cooldown; the     *)
(* user may remove the favourite and add it again, which makes a new row.  *)
(* The job takes its rows at the beginning of a run and comes to each of   *)
(* them later.  It writes its row by id, except for the failure count,     *)
(* which it writes by user and record.  A run has one processor; two       *)
(* processors are two schedulers that overlap (SchedulerLock).             *)
(***************************************************************************)
EXTENDS Naturals, FiniteSets

CONSTANTS
    Proc,        \* processes that may run the job
    MaxRetries,  \* MAX_RETRIES
    MaxRows,     \* bound: times the favourite is added
    MaxFaults    \* bound: crashes and database errors

ASSUME FavoriteChainAssumption ==
    /\ MaxRetries \in Nat \ {0, 1}
    /\ MaxRows \in Nat /\ MaxFaults \in Nat

VARIABLES
    scheduled,   \* processes whose scheduler has the daily job
    row,         \* row[i]: a row of favorite_downloads: [st, count]
    cur,         \* the row of the present favourite, 0 when there is none
    added,       \* rows made so far
    indexed,     \* whether file_index has the standard's file
    proc,        \* proc[p]: what a processor does: [pc, id, count]
    overlapped,  \* whether two processors ever worked at once
    faults

vars == <<scheduled, row, cur, added, indexed, proc, overlapped, faults>>

Id == 1..MaxRows

RowStatus ==
    {"none", "pending", "downloading", "archiving", "done", "failed", "abandoned"}

NoRow == [st |-> "none", count |-> 0]
Resting == [pc |-> "idle", id |-> 0, count |-> 0]

Init ==
    /\ scheduled = {}
    /\ row = [i \in Id |-> NoRow]
    /\ cur = 0 /\ added = 0
    /\ indexed = FALSE
    /\ proc = [p \in Proc |-> Resting]
    /\ overlapped = FALSE
    /\ faults = 0

Fault == faults < MaxFaults /\ faults' = faults + 1

-----------------------------------------------------------------------------
(* Definitions marked "faulty" are used by no action: they are faults one    *)
(* could make in the code, and show that the properties would notice.        *)

(* The favourite, and its row in the queue. *)
AddFavorite ==
    /\ cur = 0 /\ added < MaxRows
    /\ cur' = added + 1 /\ added' = added + 1
    /\ row' = [row EXCEPT ![added + 1] = [st |-> "pending", count |-> 0]]
    /\ UNCHANGED <<scheduled, indexed, proc, overlapped, faults>>

(* The second insert fails and is logged: a favourite without a row. *)
AddFavoriteUnqueued ==
    /\ cur = 0 /\ added < MaxRows
    /\ Fault
    /\ cur' = added + 1 /\ added' = added + 1
    /\ UNCHANGED <<scheduled, row, indexed, proc, overlapped>>

(* The status that remove_favorite looks at stays pending for good: the      *)
(* favourite is deleted in every state, and its row with it.                 *)
RemoveFavorite ==
    /\ cur # 0
    /\ row' = [row EXCEPT ![cur] = NoRow]
    /\ cur' = 0
    /\ UNCHANGED <<scheduled, added, indexed, proc, overlapped, faults>>

-----------------------------------------------------------------------------
(* UPDATE ... WHERE id: nothing happens to a row that is gone. *)
Mark(i, st) ==
    row' = IF row[i].st = "none" THEN row ELSE [row EXCEPT ![i].st = st]

(* faulty: the count is lost *)
ChargeNothing == row' = IF cur = 0 \/ row[cur].st = "none" THEN row
                        ELSE [row EXCEPT ![cur].st = "failed"]

(* update_status(failed, retry_increment) by user and record: whatever row   *)
(* the favourite has by now.                                                 *)
Charge ==
    row' = IF cur = 0 \/ row[cur].st = "none" THEN row
           ELSE [row EXCEPT ![cur] = [st |-> "failed", count |-> @.count + 1]]

Step(p, from, to) ==
    /\ proc[p].pc = from
    /\ proc' = [proc EXCEPT ![p].pc = to]
    /\ UNCHANGED <<scheduled, cur, added, overlapped, faults>>

Rest(p) == proc' = [proc EXCEPT ![p] = Resting]

Retryable(i) == row[i].st \in {"pending", "failed"} /\ row[i].count < MaxRetries

(* get_records_by_status *)
Select(p) ==
    /\ p \in scheduled /\ proc[p].pc = "idle"
    /\ cur # 0 /\ Retryable(cur)
    /\ proc' = [proc EXCEPT ![p] = [pc |-> "selected", id |-> cur, count |-> 0]]
    /\ overlapped' = (overlapped \/ \E q \in Proc \ {p} : proc[q].pc # "idle")
    /\ UNCHANGED <<scheduled, row, cur, added, indexed, faults>>

(* The file is indexed already: done without a download. *)
ReuseExistingFile(p) ==
    /\ indexed
    /\ Step(p, "selected", "judging")
    /\ Mark(proc[p].id, "done")
    /\ UNCHANGED indexed

(* The record is gone or the query finds nothing. *)
TargetFails(p) ==
    /\ Step(p, "selected", "judging")
    /\ Mark(proc[p].id, "failed")
    /\ UNCHANGED indexed

StartDownload(p) ==
    /\ ~indexed
    /\ Step(p, "selected", "downloading")
    /\ Mark(proc[p].id, "downloading")
    /\ UNCHANGED indexed

(* Protected by copyright, found out before or by the download. *)
FavoriteSkip(p) ==
    /\ ~indexed
    /\ Step(p, "selected", "skipping") \/ Step(p, "downloading", "skipping")
    /\ UNCHANGED <<row, indexed>>

(* The file is in the inbox, from now or from an attempt before. *)
FetchIntoInbox(p) ==
    /\ Step(p, "downloading", "archiving")
    /\ Mark(proc[p].id, "archiving")
    /\ UNCHANGED indexed

FetchFails(p) ==
    /\ Step(p, "downloading", "judging")
    /\ Mark(proc[p].id, "failed")
    /\ UNCHANGED indexed

(* The archiver has put the file into the index within a minute. *)
Registered(p) ==
    /\ Step(p, "archiving", "judging")
    /\ Mark(proc[p].id, "done")
    /\ indexed' = TRUE

NotRegistered(p) ==
    /\ Step(p, "archiving", "judging")
    /\ Mark(proc[p].id, "failed")
    /\ UNCHANGED indexed

-----------------------------------------------------------------------------
(* Back in _process_one_record: the row tells how it went. *)
JudgeDone(p) ==
    /\ proc[p].pc = "judging"
    /\ row[proc[p].id].st = "done"
    /\ row' = [row EXCEPT ![proc[p].id].count = 0]
    /\ Rest(p)
    /\ UNCHANGED <<scheduled, cur, added, indexed, overlapped, faults>>

JudgeFailed(p) ==
    /\ proc[p].pc = "judging"
    /\ row[proc[p].id].st # "done"
    /\ proc' = [proc EXCEPT ![p].pc = "counting", ![p].count = row[proc[p].id].count + 1]
    /\ UNCHANGED <<scheduled, row, cur, added, indexed, overlapped, faults>>

CountFailure(p) ==
    /\ proc[p].pc = "counting"
    /\ Charge
    /\ IF proc[p].count >= MaxRetries
       THEN proc' = [proc EXCEPT ![p].pc = "abandoning"]
       ELSE Rest(p)
    /\ UNCHANGED <<scheduled, cur, added, indexed, overlapped, faults>>

(* faulty: the status is left to the next run *)
AbandonNot(p) ==
    /\ proc[p].pc = "abandoning"
    /\ Rest(p)
    /\ UNCHANGED <<scheduled, row, cur, added, indexed, overlapped, faults>>

Abandon(p) ==
    /\ proc[p].pc = "abandoning"
    /\ row' = IF row[proc[p].id].st = "none" THEN row
              ELSE [row EXCEPT ![proc[p].id] = [st |-> "abandoned", count |-> proc[p].count]]
    /\ Rest(p)
    /\ UNCHANGED <<scheduled, cur, added, indexed, overlapped, faults>>

(* _abandon_terminal: no more attempts. *)
AbandonTerminal(p) ==
    /\ proc[p].pc = "skipping"
    /\ row' = IF row[proc[p].id].st = "none" THEN row
              ELSE [row EXCEPT ![proc[p].id] = [st |-> "abandoned", count |-> MaxRetries]]
    /\ Rest(p)
    /\ UNCHANGED <<scheduled, cur, added, indexed, overlapped, faults>>

(* A database error on the way leaves download_to_inbox, or comes after it. *)
RecordRaises(p) ==
    /\ proc[p].pc \notin {"idle", "skipping", "raised"}
    /\ Fault
    /\ proc' = [proc EXCEPT ![p].pc = "raised"]
    /\ UNCHANGED <<scheduled, row, cur, added, indexed, overlapped>>

(* The last except clause: counted, but never compared with the limit. *)
CountException(p) ==
    /\ proc[p].pc = "raised"
    /\ Charge
    /\ Rest(p)
    /\ UNCHANGED <<scheduled, cur, added, indexed, overlapped, faults>>

(* A database error in an except clause is caught by nobody. *)
Abort(p) ==
    /\ proc[p].pc \in {"skipping", "raised"}
    /\ Fault
    /\ Rest(p)
    /\ UNCHANGED <<scheduled, row, cur, added, indexed, overlapped>>

(* The process dies: its work and its scheduler are gone with it. *)
Crash(p) ==
    /\ proc[p].pc # "idle"
    /\ Fault
    /\ Rest(p)
    /\ scheduled' = scheduled \ {p}
    /\ UNCHANGED <<row, cur, added, indexed, overlapped>>

(* start_scheduler got the lock, or update_job enables the job.  A process   *)
(* that finds a fresh row of the lock, were it its own from before a         *)
(* restart, never tries again.                                               *)
Schedule(p) ==
    /\ p \notin scheduled
    /\ scheduled' = scheduled \cup {p}
    /\ UNCHANGED <<row, cur, added, indexed, proc, overlapped, faults>>

(* The scheduler stops or update_job removes the job, a run of which goes on *)
(* to its end; or an idle process dies.                                      *)
Unschedule(p) ==
    /\ p \in scheduled
    /\ scheduled' = scheduled \ {p}
    /\ UNCHANGED <<row, cur, added, indexed, proc, overlapped, faults>>

-----------------------------------------------------------------------------
DownloadToInbox(p) ==
    \/ ReuseExistingFile(p) \/ TargetFails(p) \/ StartDownload(p) \/ FavoriteSkip(p)
    \/ FetchIntoInbox(p) \/ FetchFails(p) \/ Registered(p) \/ NotRegistered(p)

ProcessOneRecord(p) ==
    \/ DownloadToInbox(p)
    \/ JudgeDone(p) \/ JudgeFailed(p) \/ CountFailure(p) \/ Abandon(p)
    \/ AbandonTerminal(p) \/ CountException(p)

Next ==
    \/ AddFavorite \/ AddFavoriteUnqueued \/ RemoveFavorite
    \/ \E p \in Proc :
         \/ Select(p) \/ ProcessOneRecord(p) \/ RecordRaises(p) \/ Abort(p) \/ Crash(p)
         \/ Schedule(p) \/ Unschedule(p)

Spec == Init /\ [][Next]_vars

(* A job that is scheduled runs every day, and a record is done with:        *)
(* requests have timeouts and the wait for the index ends.  That the job is  *)
(* scheduled (again) is nobody's duty.                                       *)
Fairness == \A p \in Proc : WF_vars(Select(p)) /\ WF_vars(ProcessOneRecord(p))

FairSpec == Spec /\ Fairness

-----------------------------------------------------------------------------
TypeOK ==
    /\ scheduled \subseteq Proc
    /\ row \in [Id -> [st : RowStatus, count : Nat]]
    /\ cur \in 0..added /\ added \in 0..MaxRows
    /\ \A i \in Id : i # cur => row[i] = NoRow
    /\ indexed \in BOOLEAN
    /\ proc \in [Proc -> [pc : {"idle", "selected", "downloading", "archiving", "judging",
                                "counting", "abandoning", "skipping", "raised"},
                          id : 0..MaxRows, count : Nat]]
    /\ \A p \in Proc : proc[p].pc # "idle" => proc[p].id \in 1..added
    /\ overlapped \in BOOLEAN
    /\ faults \in Nat

Busy(i) == \E p \in Proc : proc[p].pc # "idle" /\ proc[p].id = i

(* The job selects it no more, although it is neither done nor given up.     *)
Stranded(i) ==
    ~Retryable(i) /\ row[i].st \in {"pending", "failed", "downloading", "archiving", "none"}

(* A favourite leaves the queue only as done or abandoned: no row is left    *)
(* half way, or with its attempts used up and nobody told, as long as no     *)
(* process dies, no statement fails and no schedulers overlap, whatever the  *)
(* user removes and adds again meanwhile.                                    *)
OnlyFaultsStrand ==
    faults = 0 /\ ~overlapped => (cur # 0 /\ Stranded(cur) => Busy(cur))

Settled(i) == cur # i \/ row[i].st \in {"done", "abandoned"}

(* While some process keeps the job, every favourite is done or given up in  *)
(* the end, or removed, or stranded by a fault: the daily attempts do not go *)
(* on for ever.                                                              *)
EveryFavoriteSettles ==
    (\E p \in Proc : <>[](p \in scheduled)) =>
        \A i \in Id : cur = i ~> Settled(i) \/ (Stranded(i) /\ ~Busy(i))

=============================================================================
