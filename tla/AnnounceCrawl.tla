---------------------------- MODULE AnnounceCrawl ----------------------------
(***************************************************************************)
(* The incremental crawl of one announcement site:                         *)
(* pilotstd/announce/crawler_service.py (check_all), announcement/base.py  *)
(* and engine.py, the checkpoint in announce/persistence.py, the rows in   *)
(* announcement/matcher.py, the breaker in _circuit_breaker.py.            *)
(*                                                                         *)
(* A crawl lists the announcements since a checkpoint, newest first,       *)
(* fetches the details of those that have no rows yet, writes their rows   *)
(* and moves the checkpoint: to the newest date it read, or before the     *)
(* earliest detail it failed to fetch.  The daily job looks back some days *)
(* behind the checkpoint, a crawl requested by hand does not.  Both use    *)
(* the one adapter of the server, with its list of failed dates.  Whether  *)
(* the server has the daily job depends on its lock at the start and on    *)
(* its settings (docker/scheduler.py).                                     *)
(***************************************************************************)
EXTENDS Integers, FiniteSetsExt

CONSTANTS
    Ann,        \* announcements of the site
    Blank,      \* those from which no standard can be parsed
    Attached,   \* those that have all or more of their standards in a file
    Crawler,    \* "job" and "manual": at most one crawl of each at a time
    LookBack,   \* days the job looks back
    MaxLate,    \* an announcement may appear so many days after its date
    Threshold,  \* failing crawls in a row that freeze the adapter
    Days,       \* bound: days
    MaxFaults,  \* bound: failed requests, statements, restarts
    MaxClicks   \* bound: crawls requested by hand

ASSUME AnnounceCrawlAssumption ==
    /\ Blank \subseteq Ann /\ Attached \subseteq Ann \ Blank
    /\ Crawler \subseteq {"job", "manual"}
    /\ {LookBack, MaxLate, MaxFaults, MaxClicks} \subseteq Nat /\ MaxLate <= LookBack
    /\ {Threshold, Days} \subseteq Nat \ {0}

VARIABLES
    today,
    date,       \* NOTICE_DATE of an announcement, 0: not on the site
    rows,       \* its rows in announcement_record: "none", "part", "all"
    checkpoint, \* fetch_checkpoint.last_notice_date, 0: none, or before all
    failed,     \* _failed_notice_dates of the adapter
    streak,     \* fail_streak of its breaker
    frozen,     \* whether frozen_until lies ahead
    scheduled,  \* whether the server's scheduler has the daily job
    crawl,      \* crawl[c]: the crawl of c, see Idle
    late,       \* announcements that appeared after their date
    narrow,     \* whether a crawl that does not look back moved the checkpoint
    overlapped, \* whether two crawls ever ran at once
    missed,     \* announcements hit by a failure that left no record
    faults,
    clicks

vars == <<today, date, rows, checkpoint, failed, streak, frozen, scheduled, crawl,
          late, narrow, overlapped, missed, faults, clicks>>

history == <<late, narrow, overlapped, missed>>
breaker == <<streak, frozen>>
around == <<today, date, scheduled>>
bounds == <<faults, clicks>>

NoDate == -1

(* since and skip: what the crawl read at its beginning; todo: details to    *)
(* fetch; got: announcements it has items of, some of them in part; left:    *)
(* those whose rows are yet to be written; result: last_notice_date and      *)
(* checkpoint_force.                                                         *)
Idle == [pc |-> "idle", since |-> NoDate, skip |-> {}, todo |-> {}, got |-> {},
         part |-> {}, left |-> {}, result |-> [date |-> NoDate, force |-> FALSE]]

Init ==
    /\ today = 1
    /\ date = [a \in Ann |-> 0]
    /\ rows = [a \in Ann |-> "none"]
    /\ checkpoint = 0
    /\ failed = {}
    /\ streak = 0 /\ frozen = FALSE /\ scheduled = FALSE
    /\ crawl = [c \in Crawler |-> Idle]
    /\ late = {} /\ narrow = FALSE /\ overlapped = FALSE /\ missed = {}
    /\ faults = 0 /\ clicks = 0

OnSite == {a \in Ann : date[a] # 0}

Fault == faults < MaxFaults /\ faults' = faults + 1 /\ UNCHANGED clicks

At(c, pc) == crawl[c].pc = pc

Ends(c) == crawl' = [crawl EXCEPT ![c] = Idle]

Misses(lost) ==
    missed' = missed \cup (lost \ Blank) /\ UNCHANGED <<late, narrow, overlapped>>

-----------------------------------------------------------------------------
(* Definitions marked "faulty" are used by no action: they are faults one    *)
(* could make in the code, and show that the properties would notice.        *)

(* The site: not part of the program. *)
Publish(a) ==
    /\ date[a] = 0
    /\ \E d \in (today - MaxLate)..today :
         /\ d > 0
         /\ date' = [date EXCEPT ![a] = d]
         /\ late' = IF d < today THEN late \cup {a} ELSE late
    /\ UNCHANGED <<today, scheduled, rows, checkpoint, failed, breaker, crawl, narrow,
                   overlapped, missed, bounds>>

DayPasses ==
    /\ today < Days
    /\ today' = today + 1
    /\ UNCHANGED <<date, scheduled, rows, checkpoint, failed, breaker, crawl, history,
                   bounds>>

(* start_scheduler adds the daily job if it got the lock and the settings    *)
(* enable the job, which they do not by themselves; update_job adds and      *)
(* removes it as they change.  A start that finds a fresh row of the lock,   *)
(* were it the row of this very server, adds nothing and never tries again.  *)
Schedule ==
    /\ ~scheduled
    /\ scheduled' = TRUE
    /\ UNCHANGED <<today, date, rows, checkpoint, failed, breaker, crawl, history, bounds>>

Unschedule ==
    /\ scheduled
    /\ scheduled' = FALSE
    /\ UNCHANGED <<today, date, rows, checkpoint, failed, breaker, crawl, history, bounds>>

(* The freeze is over; the next crawl finds it so. *)
FreezeEnds ==
    /\ frozen
    /\ frozen' = FALSE
    /\ UNCHANGED <<around, rows, checkpoint, failed, streak, crawl, history, bounds>>

(* How long a freeze lasts (by the number of freezes of a day) is left out.  *)
BreakerFailure ==
    /\ streak' = IF streak + 1 < Threshold THEN streak + 1 ELSE 0
    /\ frozen' = (frozen \/ streak + 1 >= Threshold)

BreakerSuccess == streak' = 0 /\ UNCHANGED frozen

LookBackOf(c) == IF c = "job" THEN LookBack ELSE 0

(* check_all reads the checkpoint, the engine the announcements that have    *)
(* rows; fetch_announcements asks the breaker and clears the failed dates.   *)
(* An adapter that is frozen is reported as an error and left as it is.      *)
Begin(c) ==
    /\ At(c, "idle")
    /\ ~frozen
    /\ crawl' = [crawl EXCEPT ![c] =
                   [Idle EXCEPT !.pc = "list",
                                !.since = checkpoint - LookBackOf(c),
                                !.skip = {a \in Ann : rows[a] # "none"}]]
    /\ failed' = {}
    /\ overlapped' = (overlapped \/ \E d \in Crawler \ {c} : ~At(d, "idle"))
    /\ IF c = "manual" THEN clicks < MaxClicks ELSE scheduled
    /\ clicks' = IF c = "manual" THEN clicks + 1 ELSE clicks
    /\ UNCHANGED <<around, rows, checkpoint, breaker, late, narrow, missed, faults>>

(* faulty: what is as old as the checkpoint is taken for known *)
ListedAfter(c) == {a \in OnSite : date[a] > crawl[c].since}

Listed(c) == {a \in OnSite : date[a] >= crawl[c].since}

(* What to do with a list.  An empty one is a success, and the end.          *)
Proceed(c, list) ==
    LET todo == list \ crawl[c].skip
    IN  IF todo = {}
        THEN Ends(c) /\ BreakerSuccess
        ELSE /\ crawl' = [crawl EXCEPT ![c].pc = "details", ![c].todo = todo]
             /\ UNCHANGED breaker

List(c) ==
    /\ At(c, "list")
    /\ Proceed(c, Listed(c))
    /\ UNCHANGED <<around, rows, checkpoint, failed, history, bounds>>

(* A request for a page fails: the crawl goes on with the pages before it,   *)
(* which hold the newest announcements, as if they were all.                 *)
ListFails(c, list) ==
    /\ At(c, "list")
    /\ list \subseteq Listed(c)
    /\ \A a \in list, b \in Listed(c) \ list : date[a] >= date[b]
    /\ Fault
    /\ Proceed(c, list)
    /\ Misses(IF list = {} THEN {} ELSE Listed(c) \ list)
    /\ UNCHANGED <<around, rows, checkpoint, failed>>

(* An answer that is no list of rows raises. *)
ListRaises(c) ==
    /\ At(c, "list")
    /\ Fault
    /\ BreakerFailure
    /\ Ends(c)
    /\ UNCHANGED <<around, rows, checkpoint, failed, history>>

-----------------------------------------------------------------------------
(* Three workers fetch details, in any order. *)
FetchDetail(c, a) ==
    /\ At(c, "details") /\ a \in crawl[c].todo
    /\ crawl' = [crawl EXCEPT ![c].todo = @ \ {a}, ![c].got = @ \cup ({a} \ Blank)]
    /\ UNCHANGED <<around, rows, checkpoint, failed, breaker, history, bounds>>

(* faulty: a detail that could not be fetched is only logged *)
DetailFailsUnrecorded(c, a) ==
    /\ At(c, "details") /\ a \in crawl[c].todo
    /\ Fault
    /\ crawl' = [crawl EXCEPT ![c].todo = @ \ {a}]
    /\ UNCHANGED <<around, rows, checkpoint, failed, breaker, history>>

DetailFails(c, a) ==
    /\ At(c, "details") /\ a \in crawl[c].todo
    /\ Fault
    /\ failed' = failed \cup {date[a]}
    /\ crawl' = [crawl EXCEPT ![c].todo = @ \ {a}]
    /\ UNCHANGED <<around, rows, checkpoint, breaker, history>>

(* Parsing raises: that is logged, and no failure of the announcement.       *)
DetailRaises(c, a) ==
    /\ At(c, "details") /\ a \in crawl[c].todo
    /\ Fault
    /\ crawl' = [crawl EXCEPT ![c].todo = @ \ {a}]
    /\ Misses({a})
    /\ UNCHANGED <<around, rows, checkpoint, failed, breaker>>

(* The second request of _parse_items, for the attachment, fails: what the   *)
(* page itself holds, part of the announcement or nothing, is then taken for *)
(* the whole of it, and no date is recorded.                                 *)
AttachmentFails(c, a) ==
    /\ At(c, "details") /\ a \in crawl[c].todo \cap Attached
    /\ Fault
    /\ \E page \in SUBSET {a} :
         crawl' = [crawl EXCEPT ![c].todo = @ \ {a}, ![c].got = @ \cup page,
                                ![c].part = @ \cup page]
    /\ Misses({a})
    /\ UNCHANGED <<around, rows, checkpoint, failed, breaker>>

(* All details are done.  Without any item the crawl counts as failed.       *)
DetailsDone(c) ==
    /\ At(c, "details") /\ crawl[c].todo = {}
    /\ IF crawl[c].got = {}
       THEN Ends(c) /\ BreakerFailure
       ELSE /\ crawl' = [crawl EXCEPT ![c].pc = "rows", ![c].left = crawl[c].got]
            /\ BreakerSuccess
    /\ UNCHANGED <<around, rows, checkpoint, failed, history, bounds>>

(* match_and_update inserts rows in batches, each a transaction.  A batch    *)
(* may end in the middle of an announcement; rows that are there stay.       *)
InsertSome(c, a) ==
    /\ At(c, "rows") /\ a \in crawl[c].left
    /\ rows[a] = "none"
    /\ rows' = [rows EXCEPT ![a] = "part"]
    /\ UNCHANGED <<around, checkpoint, failed, breaker, crawl, history, bounds>>

InsertRows(c, a) ==
    /\ At(c, "rows") /\ a \in crawl[c].left
    /\ rows' = [rows EXCEPT ![a] = IF a \in crawl[c].part /\ @ # "all" THEN "part" ELSE "all"]
    /\ crawl' = [crawl EXCEPT ![c].left = @ \ {a}]
    /\ UNCHANGED <<around, checkpoint, failed, breaker, history, bounds>>

(* Rows that are there make later crawls skip the announcement: one cut off  *)
(* between two batches keeps but a part of them, and nobody notes it.        *)
CutOff(c) == IF At(c, "rows") THEN {a \in crawl[c].left : rows[a] = "part"} ELSE {}

(* A statement fails: the exception ends the crawl. *)
InsertRaises(c) ==
    /\ At(c, "rows")
    /\ Fault
    /\ Ends(c)
    /\ Misses(CutOff(c))
    /\ UNCHANGED <<around, rows, checkpoint, failed, breaker>>

(* The engine reads the failed dates of the adapter. *)
Conclude(c) ==
    /\ At(c, "rows") /\ crawl[c].left = {}
    /\ crawl' = [crawl EXCEPT
         ![c].pc = "compare",
         ![c].result = IF failed # {}
                       THEN [date |-> Min(failed) - 1, force |-> TRUE]
                       ELSE [date |-> Max({date[a] : a \in crawl[c].got}),
                             force |-> FALSE]]
    /\ UNCHANGED <<around, rows, checkpoint, failed, breaker, history, bounds>>

(* write_checkpoint: never backward, unless forced ... *)
Compare(c) ==
    /\ At(c, "compare")
    /\ IF crawl[c].result.force \/ checkpoint < crawl[c].result.date
       THEN crawl' = [crawl EXCEPT ![c].pc = "write"]
       ELSE Ends(c)
    /\ UNCHANGED <<around, rows, checkpoint, failed, breaker, history, bounds>>

(* ... in a statement of its own. *)
WriteCheckpoint(c) ==
    /\ At(c, "write")
    /\ checkpoint' = crawl[c].result.date
    /\ narrow' = (narrow \/ LookBackOf(c) < LookBack)
    /\ Ends(c)
    /\ UNCHANGED <<around, rows, failed, breaker, late, overlapped, missed, bounds>>

(* The server is started again: crawls are gone, adapters are new, the       *)
(* breaker reads what it saved; the job waits for Schedule.                  *)
Restart ==
    /\ Fault
    /\ crawl' = [c \in Crawler |-> Idle]
    /\ failed' = {}
    /\ scheduled' = FALSE
    /\ Misses(UNION {CutOff(c) : c \in Crawler})
    /\ UNCHANGED <<today, date, rows, checkpoint, breaker>>

Proceeds(c) ==
    \/ List(c) \/ DetailsDone(c) \/ Conclude(c) \/ Compare(c) \/ WriteCheckpoint(c)
    \/ \E a \in Ann : FetchDetail(c, a) \/ InsertRows(c, a)

Next ==
    \/ \E a \in Ann : Publish(a)
    \/ DayPasses \/ FreezeEnds \/ Schedule \/ Unschedule \/ Restart
    \/ \E c \in Crawler :
         \/ Begin(c) \/ Proceeds(c)
         \/ \E list \in SUBSET Ann : ListFails(c, list)
         \/ ListRaises(c) \/ InsertRaises(c)
         \/ \E a \in Ann :
              \/ DetailFails(c, a) \/ DetailRaises(c, a) \/ AttachmentFails(c, a)
              \/ InsertSome(c, a)

Spec == Init /\ [][Next]_vars

(* A scheduled job runs every day, requests end by their timeouts, a freeze  *)
(* ends by the clock.  That the job is scheduled is nobody's duty.           *)
Fairness ==
    /\ WF_vars(FreezeEnds)
    /\ \A c \in Crawler : WF_vars(c = "job" /\ Begin(c)) /\ WF_vars(Proceeds(c))

FairSpec == Spec /\ Fairness

-----------------------------------------------------------------------------
CrawlState ==
    [pc : {"idle", "list", "details", "rows", "compare", "write"},
     since : Int, skip : SUBSET Ann, todo : SUBSET Ann, got : SUBSET (Ann \ Blank),
     part : SUBSET (Ann \ Blank), left : SUBSET (Ann \ Blank),
     result : [date : Int, force : BOOLEAN]]

TypeOK ==
    /\ today \in 1..Days
    /\ date \in [Ann -> 0..Days]
    /\ rows \in [Ann -> {"none", "part", "all"}]
    /\ checkpoint \in 0..Days
    /\ failed \subseteq 1..Days
    /\ streak \in 0..(Threshold - 1) /\ frozen \in BOOLEAN
    /\ crawl \in [Crawler -> CrawlState]
    /\ late \subseteq Ann
    /\ missed \subseteq Ann \ Blank
    /\ {scheduled, narrow, overlapped} \subseteq BOOLEAN
    /\ faults \in 0..MaxFaults /\ clicks \in 0..MaxClicks

(* Announcements that have something to read and lack rows of it. *)
Unread == {a \in OnSite \ Blank : rows[a] # "all"}

(* "A failed announcement must not be passed by the checkpoint" (engine.py): *)
(* every announcement that is still unread is at or after the checkpoint, or *)
(* in the days the job looks back if it appeared late: whatever details      *)
(* failed, whatever crawls were cut short, and however the two kinds of      *)
(* crawls followed each other.  Not so once two overlapped, not of those     *)
(* that a failure hit which left no record, and not of late ones when a      *)
(* manual crawl, which does not look back, moved the checkpoint.             *)
NonePassed ==
    ~overlapped =>
        \A a \in Unread \ missed :
            IF a \in late THEN narrow \/ date[a] >= checkpoint - LookBack
                          ELSE date[a] >= checkpoint

(* While the server keeps the job, each announcement of the site gets all    *)
(* its rows one day: failed details and lists, crawls cut short, freezes,    *)
(* announcements without content and manual crawls in between only delay it, *)
(* under the same conditions.                                                *)
EveryAnnouncementIsRead ==
    <>[]scheduled =>
        \A a \in Ann \ Blank :
            date[a] # 0 ~>
                rows[a] = "all" \/ overlapped \/ a \in missed \/ (a \in late /\ narrow)

=============================================================================
