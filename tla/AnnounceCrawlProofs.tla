-------------------------- MODULE AnnounceCrawlProofs --------------------------
(***************************************************************************)
(* For any announcements, look-back, threshold and faults: as long as      *)
(* crawls do not overlap, the checkpoint never passes an announcement that *)
(* is still unread, unless a failure of it went without a record.          *)
(***************************************************************************)
EXTENDS AnnounceCrawl, WellFoundedInduction, TLAPS

Active(c) == crawl[c].pc # "idle"

OneCrawl == \A c, d \in Crawler : Active(c) /\ Active(d) => c = d

(* What is still to be read, and can be known to be.                         *)
Owed == Unread \ missed

(* Nothing lies ahead of the clock. *)
PastInv ==
    /\ \A a \in Ann : date[a] <= today
    /\ checkpoint <= today
    /\ \A d \in failed : d <= today

(* What a crawl works on is on the site, and what it concludes from is       *)
(* something.                                                                *)
ShapeInv ==
    \A c \in Crawler :
        /\ crawl[c].todo \cup crawl[c].got \subseteq OnSite
        /\ crawl[c].left \subseteq crawl[c].got
        /\ At(c, "rows") => crawl[c].got # {} /\ crawl[c].todo = {}
        /\ crawl[c].pc \in {"compare", "write"} => crawl[c].result.date \in 0..today

(* Whether c looks back as far as the job. *)
Wide(c) == LookBackOf(c) >= LookBack

(* An announcement that a checkpoint at x leaves to the next crawls; of one  *)
(* that appeared late only crawls are asked that look back, and nothing once *)
(* another kind has moved the checkpoint.                                    *)
NotPassedBy(a, x) == IF a \in late THEN narrow \/ date[a] >= x - LookBack
                                   ELSE date[a] >= x

Keeps(c, a, x) == (a \in late /\ ~Wide(c)) \/ NotPassedBy(a, x)

(* The dates a crawl may yet conclude from. *)
Reached(c) == {date[b] : b \in crawl[c].todo \cup crawl[c].got} \cup failed

(* What c did not list is not passed by any date it reached; what it listed  *)
(* it has, or has to do, or recorded as failed.                              *)
Covers(c) ==
    \A a \in Owed :
        \/ a \in crawl[c].todo \cup crawl[c].got
        \/ date[a] \in failed
        \/ \A x \in Reached(c) : Keeps(c, a, x)

CrawlInv(c) ==
    /\ crawl[c].since = checkpoint - LookBackOf(c)
    /\ crawl[c].part \subseteq missed
    /\ \A a \in crawl[c].skip : rows[a] = "all" \/ a \in missed
    /\ At(c, "list") => failed = {}
    /\ crawl[c].pc \in {"details", "rows"} => Covers(c)
    /\ At(c, "rows") =>
         \A a \in crawl[c].got \ crawl[c].left : rows[a] = "all" \/ a \in missed
    /\ crawl[c].pc \in {"compare", "write"} =>
         \A a \in Owed : Keeps(c, a, crawl[c].result.date)

(* Rows of a part of an announcement are being completed. *)
PartsInHand ==
    \A a \in Ann \ missed : rows[a] = "part" =>
        \E c \in Crawler : At(c, "rows") /\ a \in crawl[c].left

Clean ==
    /\ OneCrawl
    /\ PartsInHand
    /\ \A c \in Crawler : Active(c) => CrawlInv(c)
    /\ \A a \in Owed : NotPassedBy(a, checkpoint)

IInv == TypeOK /\ PastInv /\ ShapeInv /\ (~overlapped => Clean)
-----------------------------------------------------------------------------
(* Lemmas about the operators of the model: a set of dates has a least and a *)
(* greatest one.                                                             *)
LEMMA Least ==
    ASSUME NEW S \in SUBSET Nat, S # {}
    PROVE  \E x \in S : \A y \in S : x <= y
<1> DEFINE R == OpToRel(<, Nat)
<1>1. IsWellFoundedOn(R, Nat)
  BY NatLessThanWellFounded
<1>2. \A x, y \in Nat : x < y => <<x, y>> \in R
  BY DEF OpToRel
<1> HIDE DEF R
<1>3. PICK x \in S : \A y \in S : ~(<<y, x>> \in R)
  BY <1>1, WFMin, Zenon
<1>4. \A y \in S : x \in Nat /\ y \in Nat /\ ~(y < x)
  BY <1>2, <1>3
<1>5. QED
  BY <1>4

LEMMA Greatest ==
    ASSUME NEW n \in Nat, NEW S \in SUBSET (0..n), S # {}
    PROVE  \E x \in S : \A y \in S : y <= x
<1> DEFINE T == {n - x : x \in S}
<1>1. T \in SUBSET Nat
  <2>1. \A x \in S : n - x \in Nat
    OBVIOUS
  <2>2. QED
    BY <2>1
<1>2. PICK t \in T : \A u \in T : t <= u
  <2>1. T # {}
    OBVIOUS
  <2> HIDE DEF T
  <2>2. QED
    BY <1>1, <2>1, Least
<1>3. PICK x \in S : t = n - x
  BY <1>2
<1>4. \A y \in S : n - x <= n - y
  BY <1>2, <1>3
<1>5. QED
  BY <1>4

LEMMA MinOfDates ==
    ASSUME NEW S \in SUBSET Nat, S # {}
    PROVE  Min(S) \in S /\ \A y \in S : Min(S) <= y
  BY Least DEF Min

LEMMA MaxOfDates ==
    ASSUME NEW n \in Nat, NEW S \in SUBSET (0..n), S # {}
    PROVE  Max(S) \in S /\ \A y \in S : y <= Max(S)
<1>1. PICK x \in S : \A y \in S : y <= x
  BY Greatest
<1>2. \A y \in S : x \in Int /\ y \in Int
  OBVIOUS
<1>3. \A y \in S : x >= y
  BY <1>1, <1>2
<1>4. Max(S) \in S /\ \A y \in S : Max(S) >= y
  BY <1>3 DEF Max
<1>5. QED
  BY <1>2, <1>4

LEMMA Constants ==
    /\ LookBack \in Nat /\ MaxLate \in Nat /\ MaxLate <= LookBack
    /\ MaxFaults \in Nat /\ MaxClicks \in Nat
    /\ Threshold \in Nat \ {0} /\ Days \in Nat \ {0}
    /\ Blank \subseteq Ann /\ Attached \subseteq Ann \ Blank
    /\ \A c \in Crawler : c \in {"job", "manual"}
  BY AnnounceCrawlAssumption

-----------------------------------------------------------------------------
(* crawl[c] becomes r, and no other crawl is touched. *)
Becomes(c, r) ==
    /\ crawl' \in [Crawler -> CrawlState]
    /\ crawl'[c] = r
    /\ \A d \in Crawler \ {c} : crawl'[d] = crawl[d]

LEMMA Becoming ==
    ASSUME TypeOK, NEW c \in Crawler, NEW r \in CrawlState, crawl' = [crawl EXCEPT ![c] = r]
    PROVE  Becomes(c, r)
  BY DEF TypeOK, Becomes

LEMMA IdleCrawl == Idle \in CrawlState /\ Idle.pc = "idle" /\ Idle.todo = {} /\ Idle.got = {}
                   /\ Idle.left = {} /\ Idle.part = {}
  BY DEF Idle, CrawlState, NoDate

LEMMA EndEffect ==
    ASSUME TypeOK, NEW c \in Crawler, Ends(c)
    PROVE  Becomes(c, Idle)
  BY IdleCrawl, Becoming DEF Ends

LEMMA BeginEffect ==
    ASSUME TypeOK, NEW c \in Crawler, Begin(c)
    PROVE  \E r \in CrawlState :
             /\ Becomes(c, r)
             /\ r.pc = "list" /\ r.since = checkpoint - LookBackOf(c)
             /\ r.skip = {a \in Ann : rows[a] # "none"}
             /\ r.todo = {} /\ r.got = {} /\ r.left = {} /\ r.part = {}
<1> DEFINE r == [Idle EXCEPT !.pc = "list", !.since = checkpoint - LookBackOf(c),
                             !.skip = {a \in Ann : rows[a] # "none"}]
<1>1. checkpoint - LookBackOf(c) \in Int
  BY Constants DEF TypeOK, LookBackOf
<1>2. /\ r \in CrawlState /\ r.pc = "list" /\ r.since = checkpoint - LookBackOf(c)
      /\ r.skip = {a \in Ann : rows[a] # "none"}
      /\ r.todo = {} /\ r.got = {} /\ r.left = {} /\ r.part = {}
  <2>1. Idle \in CrawlState /\ Idle.todo = {} /\ Idle.got = {} /\ Idle.left = {} /\ Idle.part = {}
    BY IdleCrawl
  <2>2. {a \in Ann : rows[a] # "none"} \in SUBSET Ann
    OBVIOUS
  <2>3. QED
    BY <1>1, <2>1, <2>2 DEF CrawlState
<1>3. crawl' = [crawl EXCEPT ![c] = r]
  BY DEF Begin
<1> HIDE DEF r
<1>4. QED
  BY <1>2, <1>3, Becoming

LEMMA ProceedEffect ==
    ASSUME TypeOK, NEW c \in Crawler, NEW list \in SUBSET Ann, Proceed(c, list),
           list \ crawl[c].skip # {}
    PROVE  /\ UNCHANGED breaker
           /\ \E r \in CrawlState :
                /\ Becomes(c, r)
                /\ r.pc = "details" /\ r.since = crawl[c].since /\ r.skip = crawl[c].skip
                /\ r.part = crawl[c].part
                /\ r.todo = list \ crawl[c].skip /\ r.got = crawl[c].got
                /\ r.left = crawl[c].left
<1> DEFINE todo == list \ crawl[c].skip
           r == [crawl[c] EXCEPT !.pc = "details", !.todo = todo]
<1>1. crawl[c] \in CrawlState /\ todo \in SUBSET Ann
  BY DEF TypeOK
<1>2. /\ r \in CrawlState /\ r.pc = "details" /\ r.since = crawl[c].since
      /\ r.part = crawl[c].part /\ r.skip = crawl[c].skip /\ r.todo = todo /\ r.got = crawl[c].got
      /\ r.left = crawl[c].left
  BY <1>1 DEF CrawlState
<1>3. crawl' = [crawl EXCEPT ![c] = r] /\ UNCHANGED breaker
  BY DEF Proceed, TypeOK
<1> HIDE DEF r
<1>4. QED
  BY <1>2, <1>3, Becoming

LEMMA FetchEffect ==
    ASSUME TypeOK, NEW c \in Crawler, NEW a \in Ann, FetchDetail(c, a)
    PROVE  \E r \in CrawlState :
             /\ Becomes(c, r)
             /\ r.pc = "details" /\ r.since = crawl[c].since /\ r.skip = crawl[c].skip
             /\ r.part = crawl[c].part
             /\ r.todo = crawl[c].todo \ {a} /\ r.got = crawl[c].got \cup ({a} \ Blank)
             /\ r.left = crawl[c].left
<1> DEFINE r == [crawl[c] EXCEPT !.todo = @ \ {a}, !.got = @ \cup ({a} \ Blank)]
<1>1. crawl[c] \in CrawlState
  BY DEF TypeOK
<1>2. /\ r \in CrawlState /\ r.pc = "details" /\ r.since = crawl[c].since
      /\ r.part = crawl[c].part /\ r.skip = crawl[c].skip /\ r.todo = crawl[c].todo \ {a}
      /\ r.got = crawl[c].got \cup ({a} \ Blank) /\ r.left = crawl[c].left
  BY <1>1 DEF CrawlState, FetchDetail, At
<1>3. crawl' = [crawl EXCEPT ![c] = r]
  BY DEF FetchDetail, TypeOK
<1> HIDE DEF r
<1>4. QED
  BY <1>2, <1>3, Becoming

LEMMA DropEffect ==
    ASSUME TypeOK, NEW c \in Crawler, NEW a \in Ann,
           crawl' = [crawl EXCEPT ![c].todo = @ \ {a}]
    PROVE  \E r \in CrawlState :
             /\ Becomes(c, r)
             /\ r.pc = crawl[c].pc /\ r.since = crawl[c].since /\ r.skip = crawl[c].skip
             /\ r.part = crawl[c].part
             /\ r.todo = crawl[c].todo \ {a} /\ r.got = crawl[c].got
             /\ r.left = crawl[c].left /\ r.result = crawl[c].result
<1> DEFINE r == [crawl[c] EXCEPT !.todo = @ \ {a}]
<1>1. crawl[c] \in CrawlState
  BY DEF TypeOK
<1>2. /\ r \in CrawlState /\ r.pc = crawl[c].pc /\ r.since = crawl[c].since
      /\ r.part = crawl[c].part /\ r.skip = crawl[c].skip /\ r.todo = crawl[c].todo \ {a}
      /\ r.got = crawl[c].got
      /\ r.left = crawl[c].left /\ r.result = crawl[c].result
  BY <1>1 DEF CrawlState
<1>3. crawl' = [crawl EXCEPT ![c] = r]
  BY DEF TypeOK
<1> HIDE DEF r
<1>4. QED
  BY <1>2, <1>3, Becoming

LEMMA AttachmentEffect ==
    ASSUME TypeOK, NEW c \in Crawler, NEW a \in Ann, AttachmentFails(c, a)
    PROVE  \E r \in CrawlState :
             /\ Becomes(c, r)
             /\ r.pc = "details" /\ r.since = crawl[c].since /\ r.skip = crawl[c].skip
             /\ r.todo = crawl[c].todo \ {a} /\ r.got \in {crawl[c].got, crawl[c].got \cup {a}}
             /\ r.part \subseteq crawl[c].part \cup {a} /\ r.left = crawl[c].left
<1>1. PICK page \in SUBSET {a} :
        crawl' = [crawl EXCEPT ![c].todo = @ \ {a}, ![c].got = @ \cup page,
                               ![c].part = @ \cup page]
  BY DEF AttachmentFails
<1> DEFINE r == [crawl[c] EXCEPT !.todo = @ \ {a}, !.got = @ \cup page, !.part = @ \cup page]
<1>2. crawl[c] \in CrawlState /\ crawl[c].pc = "details"
  BY DEF TypeOK, AttachmentFails, At
<1>3. page = {} \/ page = {a}
  OBVIOUS
<1>4. a \in Ann \ Blank
  BY AnnounceCrawlAssumption DEF AttachmentFails
<1>5. page \in SUBSET (Ann \ Blank)
  BY <1>4
<1>6. r \in CrawlState
  BY <1>2, <1>5 DEF CrawlState
<1>7. /\ r.pc = "details" /\ r.since = crawl[c].since /\ r.skip = crawl[c].skip
      /\ r.todo = crawl[c].todo \ {a} /\ r.got = crawl[c].got \cup page
      /\ r.part = crawl[c].part \cup page /\ r.left = crawl[c].left
  BY <1>2 DEF CrawlState
<1>8. crawl' = [crawl EXCEPT ![c] = r]
  BY <1>1 DEF TypeOK
<1> HIDE DEF r
<1>9. Becomes(c, r)
  BY <1>6, <1>8, Becoming
<1>10. QED
  BY <1>3, <1>6, <1>7, <1>9

(* Of a detail that is done: it was read, recorded as failed, or missed.     *)
LEMMA DetailEffect ==
    ASSUME TypeOK, NEW c \in Crawler, NEW a \in Ann,
           \/ FetchDetail(c, a) \/ DetailFails(c, a) \/ DetailRaises(c, a)
           \/ AttachmentFails(c, a)
    PROVE  \E r \in CrawlState :
             /\ Becomes(c, r)
             /\ r.pc = "details" /\ r.since = crawl[c].since /\ r.skip = crawl[c].skip
             /\ r.todo = crawl[c].todo \ {a} /\ r.left = crawl[c].left
             /\ crawl[c].got \subseteq r.got /\ r.got \subseteq crawl[c].got \cup {a}
             /\ r.part \subseteq crawl[c].part \cup missed'
             /\ a \in r.got \cup Blank \cup missed' \/ date[a] \in failed'
<1>1. CASE FetchDetail(c, a)
  <2>1. PICK r \in CrawlState :
          /\ Becomes(c, r)
          /\ r.pc = "details" /\ r.since = crawl[c].since /\ r.skip = crawl[c].skip
          /\ r.part = crawl[c].part
          /\ r.todo = crawl[c].todo \ {a} /\ r.got = crawl[c].got \cup ({a} \ Blank)
          /\ r.left = crawl[c].left
    BY <1>1, FetchEffect
  <2>2. QED
    BY <2>1
<1>2. CASE DetailFails(c, a) \/ DetailRaises(c, a)
  <2>1. crawl' = [crawl EXCEPT ![c].todo = @ \ {a}] /\ crawl[c].pc = "details"
    BY <1>2 DEF DetailFails, DetailRaises, At
  <2>2. PICK r \in CrawlState :
          /\ Becomes(c, r)
          /\ r.pc = crawl[c].pc /\ r.since = crawl[c].since /\ r.skip = crawl[c].skip
          /\ r.part = crawl[c].part
          /\ r.todo = crawl[c].todo \ {a} /\ r.got = crawl[c].got
          /\ r.left = crawl[c].left /\ r.result = crawl[c].result
    BY <2>1, DropEffect
  <2>3. a \in Blank \cup missed' \/ date[a] \in failed'
    BY <1>2 DEF DetailFails, DetailRaises, Misses
  <2>4. QED
    BY <2>1, <2>2, <2>3
<1>3. CASE AttachmentFails(c, a)
  <2>1. PICK r \in CrawlState :
          /\ Becomes(c, r)
          /\ r.pc = "details" /\ r.since = crawl[c].since /\ r.skip = crawl[c].skip
          /\ r.todo = crawl[c].todo \ {a} /\ r.got \in {crawl[c].got, crawl[c].got \cup {a}}
          /\ r.part \subseteq crawl[c].part \cup {a} /\ r.left = crawl[c].left
    BY <1>3, AttachmentEffect
  <2>2. a \in missed'
    BY <1>3, Constants DEF AttachmentFails, Misses
  <2>3. QED
    BY <2>1, <2>2
<1>4. QED
  BY <1>1, <1>2, <1>3

LEMMA DoneEffect ==
    ASSUME TypeOK, NEW c \in Crawler, DetailsDone(c), crawl[c].got # {}
    PROVE  /\ BreakerSuccess
           /\ \E r \in CrawlState :
                /\ Becomes(c, r)
                /\ r.pc = "rows" /\ r.since = crawl[c].since /\ r.skip = crawl[c].skip
                /\ r.part = crawl[c].part
                /\ r.todo = {} /\ r.got = crawl[c].got /\ r.left = crawl[c].got
<1> DEFINE r == [crawl[c] EXCEPT !.pc = "rows", !.left = crawl[c].got]
<1>1. crawl[c] \in CrawlState /\ crawl[c].todo = {}
  BY DEF TypeOK, DetailsDone
<1>2. /\ r \in CrawlState /\ r.pc = "rows" /\ r.since = crawl[c].since
      /\ r.part = crawl[c].part /\ r.skip = crawl[c].skip /\ r.todo = {} /\ r.got = crawl[c].got
      /\ r.left = crawl[c].got
  BY <1>1 DEF CrawlState
<1>3. crawl' = [crawl EXCEPT ![c] = r] /\ BreakerSuccess
  BY DEF DetailsDone, TypeOK
<1> HIDE DEF r
<1>4. QED
  BY <1>2, <1>3, Becoming

LEMMA InsertEffect ==
    ASSUME TypeOK, NEW c \in Crawler, NEW a \in Ann, InsertRows(c, a)
    PROVE  \E r \in CrawlState :
             /\ Becomes(c, r)
             /\ r.pc = "rows" /\ r.since = crawl[c].since /\ r.skip = crawl[c].skip
             /\ r.part = crawl[c].part
             /\ r.todo = crawl[c].todo /\ r.got = crawl[c].got
             /\ r.left = crawl[c].left \ {a}
<1> DEFINE r == [crawl[c] EXCEPT !.left = @ \ {a}]
<1>1. crawl[c] \in CrawlState
  BY DEF TypeOK
<1>2. /\ r \in CrawlState /\ r.pc = "rows" /\ r.since = crawl[c].since
      /\ r.part = crawl[c].part /\ r.skip = crawl[c].skip /\ r.todo = crawl[c].todo
      /\ r.got = crawl[c].got
      /\ r.left = crawl[c].left \ {a}
  BY <1>1 DEF CrawlState, InsertRows, At
<1>3. crawl' = [crawl EXCEPT ![c] = r]
  BY DEF InsertRows, TypeOK
<1> HIDE DEF r
<1>4. QED
  BY <1>2, <1>3, Becoming

(* What is concluded is in the past: the newest date that was read, or the   *)
(* day before the earliest failure.                                          *)
LEMMA ConcludeEffect ==
    ASSUME TypeOK, PastInv, ShapeInv, NEW c \in Crawler, Conclude(c)
    PROVE  \E r \in CrawlState :
             /\ Becomes(c, r)
             /\ r.pc = "compare" /\ r.since = crawl[c].since /\ r.skip = crawl[c].skip
             /\ r.part = crawl[c].part
             /\ r.todo = crawl[c].todo /\ r.got = crawl[c].got /\ r.left = crawl[c].left
             /\ r.result.date \in 0..today
             /\ failed # {} => r.result.date = Min(failed) - 1
             /\ failed = {} => \E a \in crawl[c].got : r.result.date = date[a]
<1> DEFINE dates == {date[a] : a \in crawl[c].got}
           res == IF failed # {} THEN [date |-> Min(failed) - 1, force |-> TRUE]
                  ELSE [date |-> Max(dates), force |-> FALSE]
           r == [crawl[c] EXCEPT !.pc = "compare", !.result = res]
<1>1. crawl[c] \in CrawlState /\ today \in Nat
  BY Constants DEF TypeOK
<1>2. CASE failed # {}
  <2>1. failed \in SUBSET Nat /\ \A d \in failed : d \in 1..today
    BY <1>1, Constants DEF TypeOK, PastInv
  <2>2. Min(failed) \in 1..today
    BY <1>2, <2>1, MinOfDates
  <2> DEFINE m == Min(failed)
  <2>3. m - 1 \in 0..today /\ m - 1 \in Int
    BY <1>1, <2>2
  <2> HIDE DEF m
  <2>4. res = [date |-> m - 1, force |-> TRUE]
    BY <1>2 DEF m
  <2>5. res \in [date : Int, force : BOOLEAN] /\ res.date = m - 1
    BY <2>3, <2>4
  <2> HIDE DEF res
  <2>6. /\ r \in CrawlState /\ r.pc = "compare" /\ r.since = crawl[c].since
        /\ r.part = crawl[c].part /\ r.skip = crawl[c].skip /\ r.todo = crawl[c].todo
        /\ r.got = crawl[c].got
        /\ r.left = crawl[c].left /\ r.result = res
    BY <1>1, <2>5 DEF CrawlState
  <2>7. crawl' = [crawl EXCEPT ![c] = r]
    BY DEF Conclude, TypeOK, res
  <2> HIDE DEF r
  <2>8. Becomes(c, r)
    BY <2>6, <2>7, Becoming
  <2>9. QED
    BY <1>2, <2>3, <2>5, <2>6, <2>8 DEF m
<1>3. CASE failed = {}
  <2>1. crawl[c].got # {} /\ \A a \in crawl[c].got : a \in Ann /\ date[a] \in 0..today
    BY <1>1 DEF TypeOK, PastInv, ShapeInv, Conclude, CrawlState
  <2>2. dates \in SUBSET (0..today) /\ dates # {}
    BY <2>1
  <2>3. Max(dates) \in dates
    <3> HIDE DEF dates
    <3>1. QED
      BY <1>1, <2>2, MaxOfDates
  <2> DEFINE m == Max(dates)
  <2>4. m \in 0..today /\ m \in Int /\ \E a \in crawl[c].got : m = date[a]
    BY <1>1, <2>2, <2>3
  <2>5. res = [date |-> m, force |-> FALSE]
    BY <1>3
  <2> HIDE DEF m
  <2>6. res \in [date : Int, force : BOOLEAN] /\ res.date = m
    BY <2>4, <2>5
  <2> HIDE DEF res
  <2>7. /\ r \in CrawlState /\ r.pc = "compare" /\ r.since = crawl[c].since
        /\ r.part = crawl[c].part /\ r.skip = crawl[c].skip /\ r.todo = crawl[c].todo
        /\ r.got = crawl[c].got
        /\ r.left = crawl[c].left /\ r.result = res
    BY <1>1, <2>6 DEF CrawlState
  <2>8. crawl' = [crawl EXCEPT ![c] = r]
    BY DEF Conclude, TypeOK, res
  <2> HIDE DEF r
  <2>9. Becomes(c, r)
    BY <2>7, <2>8, Becoming
  <2>10. QED
    BY <1>3, <2>4, <2>6, <2>7, <2>9
<1>4. QED
  BY <1>2, <1>3

-----------------------------------------------------------------------------
(* What holds of every history: types, dates in the past, and the shape of   *)
(* crawls.                                                                   *)
Plain == TypeOK /\ PastInv /\ ShapeInv

LEMMA ShapeStep ==
    ASSUME TypeOK, ShapeInv, NEW c \in Crawler, NEW r \in CrawlState, Becomes(c, r),
           UNCHANGED around, r.todo \cup r.got \subseteq OnSite, r.left \subseteq r.got,
           r.pc = "rows" => r.got # {} /\ r.todo = {},
           r.pc \in {"compare", "write"} => r.result.date \in 0..today
    PROVE  ShapeInv'
<1>1. OnSite' = OnSite /\ today' = today
  BY DEF OnSite, around
<1>2. ASSUME NEW d \in Crawler
      PROVE  /\ crawl'[d].todo \cup crawl'[d].got \subseteq OnSite
             /\ crawl'[d].left \subseteq crawl'[d].got
             /\ crawl'[d].pc = "rows" => crawl'[d].got # {} /\ crawl'[d].todo = {}
             /\ crawl'[d].pc \in {"compare", "write"} => crawl'[d].result.date \in 0..today
  <2>1. CASE d = c
    BY <2>1 DEF Becomes
  <2>2. CASE d # c
    BY <2>2, crawl'[d] = crawl[d] DEF Becomes, ShapeInv, At
  <2>3. QED
    BY <2>1, <2>2
<1>3. QED
  BY <1>1, <1>2 DEF ShapeInv, At

(* The crawl of c ends. *)
LEMMA ShapeEnds ==
    ASSUME TypeOK, ShapeInv, NEW c \in Crawler, Ends(c), UNCHANGED around
    PROVE  ShapeInv' /\ crawl' \in [Crawler -> CrawlState]
  BY EndEffect, IdleCrawl, ShapeStep DEF Becomes

(* The fields that actions change beside the crawls. *)
RowsOK == rows \in [Ann -> {"none", "part", "all"}]
BreakerOK == streak \in 0..(Threshold - 1) /\ frozen \in BOOLEAN
SiteOK ==
    /\ today \in 1..Days /\ date \in [Ann -> 0..Days] /\ \A a \in Ann : date[a] <= today
    /\ scheduled \in BOOLEAN
CheckpointOK == checkpoint \in 0..Days /\ checkpoint <= today
FailedOK == failed \subseteq 1..Days /\ \A d \in failed : d <= today
HistoryOK ==
    /\ late \subseteq Ann /\ missed \subseteq Ann \ Blank
    /\ {narrow, overlapped} \subseteq BOOLEAN
BoundsOK == faults \in 0..MaxFaults /\ clicks \in 0..MaxClicks
CrawlsOK == crawl \in [Crawler -> CrawlState]

LEMMA PlainParts ==
    Plain <=> /\ RowsOK /\ BreakerOK /\ SiteOK /\ CheckpointOK /\ FailedOK
              /\ HistoryOK /\ BoundsOK /\ CrawlsOK /\ ShapeInv
  BY DEF Plain, TypeOK, PastInv, RowsOK, BreakerOK, SiteOK, CheckpointOK, FailedOK,
         HistoryOK, BoundsOK, CrawlsOK

LEMMA PlainFromParts ==
    ASSUME RowsOK', BreakerOK', SiteOK', CheckpointOK', FailedOK', HistoryOK', BoundsOK',
           CrawlsOK', ShapeInv'
    PROVE  Plain'
  BY DEF Plain, TypeOK, PastInv, RowsOK, BreakerOK, SiteOK, CheckpointOK, FailedOK,
         HistoryOK, BoundsOK, CrawlsOK

LEMMA BreakerStep ==
    ASSUME BreakerOK, BreakerFailure \/ BreakerSuccess \/ UNCHANGED breaker
    PROVE  BreakerOK'
<1>1. Threshold \in Nat \ {0}
  BY Constants
<1>2. CASE BreakerFailure
  BY <1>1, <1>2 DEF BreakerOK, BreakerFailure
<1>3. CASE BreakerSuccess
  BY <1>1, <1>3 DEF BreakerOK, BreakerSuccess
<1>4. CASE UNCHANGED breaker
  BY <1>4 DEF BreakerOK, breaker
<1>5. QED
  BY <1>2, <1>3, <1>4

LEMMA FaultStep == ASSUME BoundsOK, Fault PROVE BoundsOK'
  BY Constants DEF BoundsOK, Fault

(* A crawl goes on with what is left of a list, or ends. *)
LEMMA ProceedStep ==
    ASSUME Plain, NEW c \in Crawler, At(c, "list"), NEW list \in SUBSET OnSite,
           Proceed(c, list), UNCHANGED around
    PROVE  CrawlsOK' /\ ShapeInv' /\ BreakerOK'
<1>0. TypeOK /\ ShapeInv /\ BreakerOK
  BY PlainParts DEF Plain
<1>1. CASE list \ crawl[c].skip = {}
  <2>1. Ends(c) /\ BreakerSuccess
    BY <1>1 DEF Proceed
  <2>2. QED
    BY <1>0, <2>1, ShapeEnds, BreakerStep DEF CrawlsOK
<1>2. CASE list \ crawl[c].skip # {}
  <2>1. list \in SUBSET Ann
    BY DEF OnSite
  <2>2. PICK r \in CrawlState :
          /\ Becomes(c, r)
          /\ r.pc = "details" /\ r.todo = list \ crawl[c].skip /\ r.got = crawl[c].got
          /\ r.left = crawl[c].left
    BY <1>0, <1>2, <2>1, ProceedEffect
  <2>3. UNCHANGED breaker
    BY <1>0, <1>2, <2>1, ProceedEffect
  <2>4. crawl[c].got \subseteq OnSite /\ crawl[c].left \subseteq crawl[c].got
    BY <1>0 DEF ShapeInv
  <2>5. ShapeInv'
    BY <1>0, <2>2, <2>4, ShapeStep
  <2>6. QED
    BY <1>0, <2>2, <2>3, <2>5, BreakerStep DEF CrawlsOK, Becomes
<1>3. QED
  BY <1>1, <1>2

LEMMA PublishPlain == ASSUME Plain, NEW a \in Ann, Publish(a) PROVE Plain'
<1>0. /\ RowsOK /\ BreakerOK /\ SiteOK /\ CheckpointOK /\ FailedOK
      /\ HistoryOK /\ BoundsOK /\ CrawlsOK /\ ShapeInv
  BY PlainParts
<1>1. PICK d \in (today - MaxLate)..today :
        /\ d > 0
        /\ date' = [date EXCEPT ![a] = d]
        /\ late' = IF d < today THEN late \cup {a} ELSE late
  BY DEF Publish
<1>2. /\ UNCHANGED <<today, scheduled, rows, checkpoint, failed, streak, frozen, crawl, narrow,
                     overlapped, missed, faults, clicks>>
      /\ date[a] = 0
  BY DEF Publish, breaker, bounds
<1>3. today \in 1..Days /\ Days \in Nat /\ MaxLate \in Nat
  BY <1>0, Constants DEF SiteOK
<1>4. d \in 1..Days /\ d <= today /\ d # 0
  BY <1>1, <1>3
<1>5. SiteOK'
  BY <1>0, <1>1, <1>2, <1>4 DEF SiteOK
<1>6. HistoryOK'
  BY <1>0, <1>1, <1>2 DEF HistoryOK
<1>7. OnSite \subseteq OnSite'
  BY <1>0, <1>1, <1>4 DEF OnSite, SiteOK
<1>8. ShapeInv'
  BY <1>0, <1>2, <1>7 DEF ShapeInv, At
<1>9. QED
  BY <1>0, <1>2, <1>5, <1>6, <1>8, PlainFromParts
  DEF RowsOK, BreakerOK, CheckpointOK, FailedOK, BoundsOK, CrawlsOK

LEMMA DayPlain == ASSUME Plain, DayPasses PROVE Plain'
<1>0. /\ RowsOK /\ BreakerOK /\ SiteOK /\ CheckpointOK /\ FailedOK
      /\ HistoryOK /\ BoundsOK /\ CrawlsOK /\ ShapeInv
  BY PlainParts
<1>1. /\ UNCHANGED <<date, scheduled, rows, checkpoint, failed, streak, frozen, crawl, late, narrow,
                     overlapped, missed, faults, clicks>>
      /\ today < Days /\ today' = today + 1
  BY DEF DayPasses, breaker, history, bounds
<1>2. today \in 1..Days /\ Days \in Nat
  BY <1>0, Constants DEF SiteOK
<1>3. today' \in 1..Days /\ \A n \in Int : n <= today => n <= today'
  BY <1>1, <1>2
<1>4. SiteOK' /\ CheckpointOK' /\ FailedOK'
  BY <1>0, <1>1, <1>2, <1>3 DEF SiteOK, CheckpointOK, FailedOK
<1>5. OnSite' = OnSite
  BY <1>1 DEF OnSite
<1>6. 0..today \subseteq 0..today'
  BY <1>1, <1>2
<1>7. ShapeInv'
  BY <1>0, <1>1, <1>5, <1>6 DEF ShapeInv, At
<1>8. QED
  BY <1>0, <1>1, <1>4, <1>7, PlainFromParts
  DEF RowsOK, BreakerOK, HistoryOK, BoundsOK, CrawlsOK

LEMMA FreezeEndsPlain == ASSUME Plain, FreezeEnds PROVE Plain'
  BY DEF FreezeEnds, around, history, bounds, Plain, TypeOK, PastInv, ShapeInv, At, OnSite

(* What can be missed is of the site. *)
LEMMA MissedOnes ==
    ASSUME Plain
    PROVE  /\ \A lost \in SUBSET Ann :
                Misses(lost) => missed' \in SUBSET (Ann \ Blank) /\ missed \subseteq missed'
           /\ \A c \in Crawler : CutOff(c) \in SUBSET (Ann \ Blank)
           /\ UNION {CutOff(c) : c \in Crawler} \in SUBSET (Ann \ Blank)
<1>1. \A c \in Crawler : crawl[c].left \subseteq Ann \ Blank
  BY DEF Plain, TypeOK, CrawlState
<1>2. \A c \in Crawler : CutOff(c) \in SUBSET (Ann \ Blank)
  BY <1>1 DEF CutOff
<1>3. \A lost \in SUBSET Ann :
        Misses(lost) => missed' \in SUBSET (Ann \ Blank) /\ missed \subseteq missed'
  BY DEF Misses, Plain, TypeOK
<1>4. QED
  BY <1>2, <1>3

LEMMA RestartPlain == ASSUME Plain, Restart PROVE Plain'
<1>0. /\ RowsOK /\ BreakerOK /\ SiteOK /\ CheckpointOK /\ FailedOK
      /\ HistoryOK /\ BoundsOK /\ CrawlsOK /\ ShapeInv
  BY PlainParts
<1>1. /\ UNCHANGED <<today, date, rows, checkpoint, streak, frozen, late, narrow, overlapped>>
      /\ failed' = {} /\ crawl' = [c \in Crawler |-> Idle] /\ scheduled' = FALSE
  BY <1>0 DEF Restart, Misses, breaker
<1>5. missed' \in SUBSET (Ann \ Blank)
  BY <1>0, MissedOnes DEF Restart, HistoryOK
<1>2. CrawlsOK' /\ ShapeInv'
  BY <1>1, IdleCrawl DEF CrawlsOK, ShapeInv, At
<1>3. BoundsOK'
  BY <1>0, FaultStep DEF Restart
<1>4. QED
  BY <1>0, <1>1, <1>2, <1>3, <1>5, PlainFromParts
  DEF RowsOK, BreakerOK, SiteOK, CheckpointOK, FailedOK, HistoryOK

LEMMA SchedulePlain == ASSUME Plain, Schedule \/ Unschedule PROVE Plain'
  BY DEF Schedule, Unschedule, breaker, history, bounds, Plain, TypeOK, PastInv, ShapeInv, At,
         OnSite

LEMMA BeginPlain == ASSUME Plain, NEW c \in Crawler, Begin(c) PROVE Plain'
<1>0. /\ RowsOK /\ BreakerOK /\ SiteOK /\ CheckpointOK /\ FailedOK
      /\ HistoryOK /\ BoundsOK /\ CrawlsOK /\ ShapeInv /\ TypeOK
  BY PlainParts DEF Plain
<1>1. /\ UNCHANGED <<today, date, scheduled, rows, checkpoint, streak, frozen, late, narrow, missed,
                     faults>>
      /\ failed' = {} /\ overlapped' \in BOOLEAN
      /\ clicks' = clicks \/ (clicks < MaxClicks /\ clicks' = clicks + 1)
  BY <1>0 DEF Begin, around, breaker, HistoryOK
<1>2. PICK r \in CrawlState :
        /\ Becomes(c, r)
        /\ r.pc = "list" /\ r.todo = {} /\ r.got = {} /\ r.left = {} /\ r.part = {}
  BY <1>0, BeginEffect
<1>3. CrawlsOK' /\ ShapeInv'
  BY <1>0, <1>1, <1>2, ShapeStep DEF CrawlsOK, Becomes, around
<1>4. BoundsOK'
  BY <1>0, <1>1, Constants DEF BoundsOK
<1>5. QED
  BY <1>0, <1>1, <1>3, <1>4, PlainFromParts
  DEF RowsOK, BreakerOK, SiteOK, CheckpointOK, FailedOK, HistoryOK

(* The list: whole, cut off, or none. *)
LEMMA ListPlain ==
    ASSUME Plain, NEW c \in Crawler,
           List(c) \/ (\E list \in SUBSET Ann : ListFails(c, list)) \/ ListRaises(c)
    PROVE  Plain'
<1>0. /\ RowsOK /\ BreakerOK /\ SiteOK /\ CheckpointOK /\ FailedOK
      /\ HistoryOK /\ BoundsOK /\ CrawlsOK /\ ShapeInv /\ TypeOK
  BY PlainParts DEF Plain
<1>1. /\ UNCHANGED <<today, date, scheduled, rows, checkpoint, failed, late, narrow, overlapped>>
      /\ UNCHANGED around
  BY <1>0 DEF List, ListFails, ListRaises, Misses, around, history
<1>4. missed' \in SUBSET (Ann \ Blank)
  <2>1. CASE UNCHANGED missed
    BY <1>0, <2>1 DEF HistoryOK
  <2>2. ASSUME NEW list \in SUBSET Ann, ListFails(c, list)
        PROVE  missed' \in SUBSET (Ann \ Blank)
    <3>1. (IF list = {} THEN {} ELSE Listed(c) \ list) \in SUBSET Ann
      BY DEF Listed, OnSite
    <3>2. QED
      BY <2>2, <3>1, MissedOnes DEF ListFails
  <2>3. QED
    BY <2>1, <2>2 DEF List, ListRaises, history
<1>2. CrawlsOK' /\ ShapeInv' /\ BreakerOK' /\ BoundsOK'
  <2>1. CASE List(c)
    <3>1. Listed(c) \in SUBSET OnSite
      BY DEF Listed
    <3>2. QED
      BY <1>0, <1>1, <2>1, <3>1, ProceedStep DEF List, bounds, BoundsOK
  <2>2. ASSUME NEW list \in SUBSET Ann, ListFails(c, list)
        PROVE  CrawlsOK' /\ ShapeInv' /\ BreakerOK' /\ BoundsOK'
    <3>1. list \in SUBSET OnSite
      BY <2>2 DEF Listed, ListFails
    <3>2. QED
      BY <1>0, <1>1, <2>2, <3>1, ProceedStep, FaultStep DEF ListFails
  <2>3. CASE ListRaises(c)
    BY <1>0, <1>1, <2>3, ShapeEnds, BreakerStep, FaultStep DEF ListRaises, CrawlsOK
  <2>4. QED
    BY <2>1, <2>2, <2>3
<1>3. QED
  BY <1>0, <1>1, <1>2, <1>4, PlainFromParts
  DEF RowsOK, SiteOK, CheckpointOK, FailedOK, HistoryOK

(* A detail: fetched, not fetched, or of no use. *)
LEMMA DetailPlain ==
    ASSUME Plain, NEW c \in Crawler, NEW a \in Ann,
           \/ FetchDetail(c, a) \/ DetailFails(c, a) \/ DetailRaises(c, a)
           \/ AttachmentFails(c, a)
    PROVE  Plain'
<1>0. /\ RowsOK /\ BreakerOK /\ SiteOK /\ CheckpointOK /\ FailedOK
      /\ HistoryOK /\ BoundsOK /\ CrawlsOK /\ ShapeInv /\ TypeOK
  BY PlainParts DEF Plain
<1>1. /\ UNCHANGED <<today, date, scheduled, rows, checkpoint, streak, frozen, late, narrow,
                     overlapped>>
      /\ UNCHANGED around
      /\ failed' \in {failed, failed \cup {date[a]}}
      /\ a \in crawl[c].todo /\ crawl[c].pc = "details"
  BY DEF FetchDetail, DetailFails, DetailRaises, AttachmentFails, Misses, around, history,
         breaker, At
<1>7. missed' \in SUBSET (Ann \ Blank)
  BY <1>0, MissedOnes
  DEF FetchDetail, DetailFails, DetailRaises, AttachmentFails, history, HistoryOK
<1>2. BoundsOK'
  BY <1>0, FaultStep
  DEF FetchDetail, DetailFails, DetailRaises, AttachmentFails, bounds, BoundsOK
<1>3. /\ crawl[c].todo \cup crawl[c].got \subseteq OnSite
      /\ crawl[c].left \subseteq crawl[c].got
  BY <1>0 DEF ShapeInv
<1>4. CrawlsOK' /\ ShapeInv'
  <2>1. PICK r \in CrawlState :
          /\ Becomes(c, r)
          /\ r.pc = "details" /\ r.todo = crawl[c].todo \ {a}
          /\ crawl[c].got \subseteq r.got /\ r.got \subseteq crawl[c].got \cup {a}
          /\ r.left = crawl[c].left
    BY <1>0, <1>1, DetailEffect
  <2>2. r.todo \cup r.got \subseteq OnSite /\ r.left \subseteq r.got
    BY <1>1, <1>3, <2>1
  <2>3. QED
    BY <1>0, <1>1, <2>1, <2>2, ShapeStep DEF CrawlsOK, Becomes
<1>5. FailedOK'
  <2>1. date[a] \in 1..Days /\ date[a] <= today
    BY <1>0, <1>1, <1>3, Constants DEF SiteOK, OnSite
  <2>2. QED
    BY <1>0, <1>1, <2>1 DEF FailedOK
<1>6. QED
  BY <1>0, <1>1, <1>2, <1>4, <1>5, <1>7, PlainFromParts
  DEF RowsOK, BreakerOK, SiteOK, CheckpointOK, HistoryOK

LEMMA DetailsDonePlain == ASSUME Plain, NEW c \in Crawler, DetailsDone(c) PROVE Plain'
<1>0. /\ RowsOK /\ BreakerOK /\ SiteOK /\ CheckpointOK /\ FailedOK
      /\ HistoryOK /\ BoundsOK /\ CrawlsOK /\ ShapeInv /\ TypeOK
  BY PlainParts DEF Plain
<1>1. /\ UNCHANGED <<today, date, scheduled, rows, checkpoint, failed, late, narrow, overlapped,
                     missed, faults, clicks>>
      /\ UNCHANGED around
  BY DEF DetailsDone, around, history, bounds
<1>2. CrawlsOK' /\ ShapeInv' /\ BreakerOK'
  <2>1. CASE crawl[c].got = {}
    BY <1>0, <1>1, <2>1, ShapeEnds, BreakerStep DEF DetailsDone, CrawlsOK
  <2>2. CASE crawl[c].got # {}
    <3>1. PICK r \in CrawlState :
            /\ Becomes(c, r)
            /\ r.pc = "rows" /\ r.todo = {} /\ r.got = crawl[c].got /\ r.left = crawl[c].got
      BY <1>0, <2>2, DoneEffect
    <3>2. crawl[c].got \subseteq OnSite
      BY <1>0 DEF ShapeInv
    <3>3. QED
      BY <1>0, <1>1, <2>2, <3>1, <3>2, DoneEffect, ShapeStep, BreakerStep DEF CrawlsOK, Becomes
  <2>3. QED
    BY <2>1, <2>2
<1>3. QED
  BY <1>0, <1>1, <1>2, PlainFromParts
  DEF RowsOK, SiteOK, CheckpointOK, FailedOK, HistoryOK, BoundsOK

LEMMA InsertPlain ==
    ASSUME Plain, NEW c \in Crawler,
           \/ \E a \in Ann : InsertSome(c, a) \/ InsertRows(c, a)
           \/ InsertRaises(c)
    PROVE  Plain'
<1>0. /\ RowsOK /\ BreakerOK /\ SiteOK /\ CheckpointOK /\ FailedOK
      /\ HistoryOK /\ BoundsOK /\ CrawlsOK /\ ShapeInv /\ TypeOK
  BY PlainParts DEF Plain
<1>1. /\ UNCHANGED <<today, date, scheduled, checkpoint, failed, streak, frozen, late, narrow,
                     overlapped>>
      /\ UNCHANGED around
  BY DEF InsertSome, InsertRows, InsertRaises, Misses, around, history, breaker
<1>6. missed' \in SUBSET (Ann \ Blank)
  BY <1>0, MissedOnes DEF InsertSome, InsertRows, InsertRaises, history, HistoryOK
<1>2. RowsOK'
  BY <1>0 DEF InsertSome, InsertRows, InsertRaises, RowsOK
<1>3. BoundsOK'
  BY <1>0, FaultStep DEF InsertSome, InsertRows, InsertRaises, bounds, BoundsOK
<1>4. CrawlsOK' /\ ShapeInv'
  <2>1. CASE UNCHANGED crawl
    BY <1>0, <1>1, <2>1 DEF CrawlsOK, ShapeInv, At, OnSite
  <2>2. ASSUME NEW a \in Ann, InsertRows(c, a) PROVE CrawlsOK' /\ ShapeInv'
    <3>1. PICK r \in CrawlState :
            /\ Becomes(c, r)
            /\ r.pc = "rows" /\ r.todo = crawl[c].todo /\ r.got = crawl[c].got
            /\ r.left = crawl[c].left \ {a}
      BY <1>0, <2>2, InsertEffect
    <3>2. /\ crawl[c].todo \cup crawl[c].got \subseteq OnSite
          /\ crawl[c].left \subseteq crawl[c].got
          /\ crawl[c].got # {} /\ crawl[c].todo = {}
      BY <1>0, <2>2 DEF ShapeInv, InsertRows
    <3>3. QED
      BY <1>0, <1>1, <3>1, <3>2, ShapeStep DEF CrawlsOK, Becomes
  <2>3. CASE InsertRaises(c)
    BY <1>0, <1>1, <2>3, ShapeEnds DEF InsertRaises, CrawlsOK
  <2>4. QED
    BY <2>1, <2>2, <2>3 DEF InsertSome
<1>5. QED
  BY <1>0, <1>1, <1>2, <1>3, <1>4, <1>6, PlainFromParts
  DEF BreakerOK, SiteOK, CheckpointOK, FailedOK, HistoryOK

(* From the end of the rows to the checkpoint. *)
LEMMA CheckpointPlain ==
    ASSUME Plain, NEW c \in Crawler, Conclude(c) \/ Compare(c) \/ WriteCheckpoint(c)
    PROVE  Plain'
<1>0. /\ RowsOK /\ BreakerOK /\ SiteOK /\ CheckpointOK /\ FailedOK
      /\ HistoryOK /\ BoundsOK /\ CrawlsOK /\ ShapeInv /\ TypeOK /\ PastInv
  BY PlainParts DEF Plain
<1>1. /\ UNCHANGED <<today, date, scheduled, rows, failed, streak, frozen, late, overlapped, missed,
                     faults, clicks>>
      /\ UNCHANGED around /\ narrow' \in BOOLEAN
  BY <1>0 DEF Conclude, Compare, WriteCheckpoint, around, history, breaker, bounds, HistoryOK
<1>2. /\ crawl[c].todo \cup crawl[c].got \subseteq OnSite
      /\ crawl[c].left \subseteq crawl[c].got
      /\ crawl[c].pc \in {"compare", "write"} => crawl[c].result.date \in 0..today
  BY <1>0 DEF ShapeInv
<1>3. CheckpointOK'
  <2>1. CASE UNCHANGED checkpoint
    BY <1>0, <1>1, <2>1 DEF CheckpointOK
  <2>2. CASE WriteCheckpoint(c)
    BY <1>0, <1>1, <1>2, <2>2, Constants DEF WriteCheckpoint, At, CheckpointOK, SiteOK
  <2>3. QED
    BY <2>1, <2>2 DEF Conclude, Compare
<1>4. CrawlsOK' /\ ShapeInv'
  <2>1. CASE Ends(c)
    BY <1>0, <1>1, <2>1, ShapeEnds DEF CrawlsOK
  <2>2. CASE Conclude(c)
    <3>1. PICK r \in CrawlState :
            /\ Becomes(c, r)
            /\ r.pc = "compare" /\ r.todo = crawl[c].todo /\ r.got = crawl[c].got
            /\ r.left = crawl[c].left /\ r.result.date \in 0..today
      BY <1>0, <2>2, ConcludeEffect
    <3>2. QED
      BY <1>0, <1>1, <1>2, <3>1, ShapeStep DEF CrawlsOK, Becomes
  <2>3. CASE Compare(c) /\ ~Ends(c)
    <3> DEFINE r == [crawl[c] EXCEPT !.pc = "write"]
    <3>1. crawl[c] \in CrawlState
      BY <1>0 DEF CrawlsOK
    <3>2. /\ r \in CrawlState /\ r.pc = "write" /\ r.todo = crawl[c].todo
          /\ r.got = crawl[c].got /\ r.left = crawl[c].left /\ r.result = crawl[c].result
      BY <3>1 DEF CrawlState
    <3>3. crawl' = [crawl EXCEPT ![c] = r]
      BY <1>0, <2>3 DEF Compare, TypeOK
    <3> HIDE DEF r
    <3>4. Becomes(c, r)
      BY <1>0, <3>2, <3>3, Becoming
    <3>5. crawl[c].result.date \in 0..today
      BY <1>2, <2>3 DEF Compare, At
    <3>6. QED
      BY <1>0, <1>1, <1>2, <3>2, <3>4, <3>5, ShapeStep DEF CrawlsOK, Becomes
  <2>4. QED
    BY <2>1, <2>2, <2>3 DEF WriteCheckpoint
<1>5. QED
  BY <1>0, <1>1, <1>3, <1>4, PlainFromParts
  DEF RowsOK, BreakerOK, SiteOK, FailedOK, HistoryOK, BoundsOK

LEMMA PlainStep == Plain /\ [Next]_vars => Plain'
<1> SUFFICES ASSUME Plain, [Next]_vars PROVE Plain'
  OBVIOUS
<1>1. CASE UNCHANGED vars
  BY <1>1 DEF vars, history, breaker, around, bounds, Plain, TypeOK, PastInv, ShapeInv, At,
              OnSite
<1>2. ASSUME NEW c \in Crawler, Proceeds(c) PROVE Plain'
  BY <1>2, ListPlain, DetailsDonePlain, CheckpointPlain, DetailPlain, InsertPlain
  DEF Proceeds
<1>3. QED
  BY <1>1, <1>2, PublishPlain, DayPlain, FreezeEndsPlain, SchedulePlain, RestartPlain, BeginPlain,
     ListPlain, InsertPlain, DetailPlain
  DEF Next

-----------------------------------------------------------------------------
(* While crawls do not overlap. *)
LEMMA CleanUnchanged ==
    ASSUME Clean, UNCHANGED <<date, rows, checkpoint, failed, crawl, late, narrow, missed>>
    PROVE  Clean'
  BY DEF Clean, OneCrawl, PartsInHand, Active, CrawlInv, Covers, Reached, Keeps, NotPassedBy,
         Owed, Unread, OnSite, At

(* At most one crawl runs, so that a step of c is all that happens. *)
Alone(c) == \A d \in Crawler \ {c} : crawl[d].pc = "idle"

LEMMA ActiveIsAlone ==
    ASSUME Clean, NEW c \in Crawler, Active(c)
    PROVE  Alone(c) /\ CrawlInv(c)
  BY DEF Clean, OneCrawl, Active, Alone

LEMMA CleanAfter ==
    ASSUME NEW c \in Crawler, NEW r \in CrawlState, Becomes(c, r), Alone(c),
           PartsInHand', r.pc = "idle" \/ CrawlInv(c)',
           \A a \in Owed' : NotPassedBy(a, checkpoint)'
    PROVE  Clean'
<1>1. crawl'[c].pc = r.pc /\ \A d \in Crawler \ {c} : crawl'[d].pc = "idle"
  BY DEF Becomes, Alone
<1>2. OneCrawl'
  BY <1>1 DEF OneCrawl, Active
<1>3. \A d \in Crawler : Active(d)' => CrawlInv(d)'
  BY <1>1 DEF Active
<1>4. QED
  BY <1>2, <1>3 DEF Clean

(* Nobody else has parts in hand. *)
LEMMA PartsOfOne ==
    ASSUME Clean, NEW c \in Crawler, Alone(c), NEW a \in Ann \ missed, rows[a] = "part"
    PROVE  crawl[c].pc = "rows" /\ a \in crawl[c].left
  BY DEF Clean, PartsInHand, Alone, At

(* A crawl that ends without touching rows or the checkpoint. *)
LEMMA CleanEnds ==
    ASSUME Plain, Clean, NEW c \in Crawler, Active(c), Ends(c),
           missed \cup CutOff(c) \subseteq missed',
           UNCHANGED <<date, rows, checkpoint, late, narrow>>
    PROVE  Clean'
<1>1. Becomes(c, Idle) /\ Idle \in CrawlState /\ Idle.pc = "idle"
  BY EndEffect, IdleCrawl DEF Plain
<1>2. Alone(c)
  BY ActiveIsAlone
<1>3. \A a \in Ann \ missed' : rows[a] # "part"
  BY <1>2, PartsOfOne DEF CutOff, At
<1>4. PartsInHand'
  BY <1>3 DEF PartsInHand
<1>5. \A a \in Owed' : NotPassedBy(a, checkpoint)'
  BY DEF Clean, Owed, Unread, OnSite, NotPassedBy
<1>6. QED
  BY <1>1, <1>2, <1>4, <1>5, CleanAfter

(* What appears now is not passed by any date that lies in the past.         *)
LEMMA NewIsAhead ==
    ASSUME Plain, NEW a \in Ann, Publish(a), NEW x \in Int, x <= today
    PROVE  NotPassedBy(a, x)' /\ \A c \in Crawler : Keeps(c, a, x)'
<1>1. PICK d \in (today - MaxLate)..today :
        /\ date' = [date EXCEPT ![a] = d]
        /\ late' = IF d < today THEN late \cup {a} ELSE late
  BY DEF Publish
<1>2. date'[a] = d /\ today \in Int
  BY <1>1 DEF Plain, TypeOK
<1>3. LookBack \in Nat /\ MaxLate \in Nat /\ MaxLate <= LookBack
  BY Constants
<1>4. d >= x - LookBack
  BY <1>2, <1>3
<1>5. a \notin late' => d >= x
  BY <1>1, <1>2, <1>3
<1>6. NotPassedBy(a, x)'
  BY <1>2, <1>4, <1>5 DEF NotPassedBy
<1>7. QED
  BY <1>6 DEF Keeps

LEMMA PublishClean == ASSUME Plain, Clean, NEW a \in Ann, Publish(a) PROVE Clean'
<1>1. /\ UNCHANGED <<today, rows, checkpoint, failed, crawl, narrow, missed>>
      /\ date[a] = 0
      /\ \A b \in Ann \ {a} : date'[b] = date[b] /\ (b \in late' <=> b \in late)
  BY DEF Publish, Plain, TypeOK
<1>2. \A b \in Owed' : b \in Ann /\ (b = a \/ b \in Owed)
  BY <1>1 DEF Owed, Unread, OnSite
<1>3. \A b \in Ann \ {a} : \A x :
        /\ NotPassedBy(b, x)' <=> NotPassedBy(b, x)
        /\ \A c \in Crawler : Keeps(c, b, x)' <=> Keeps(c, b, x)
  BY <1>1 DEF NotPassedBy, Keeps, Wide, LookBackOf
<1>4. checkpoint \in Int /\ checkpoint <= today /\ today \in Nat
  BY Constants DEF Plain, TypeOK, PastInv
<1>5. \A b \in Owed' : NotPassedBy(b, checkpoint)'
  BY <1>1, <1>2, <1>3, <1>4, NewIsAhead DEF Clean
<1>6. ASSUME NEW c \in Crawler, Active(c) PROVE CrawlInv(c)'
  <2>1. CrawlInv(c)
    BY <1>6 DEF Clean
  <2>2. crawl[c].todo \cup crawl[c].got \subseteq OnSite /\ a \notin OnSite
    BY <1>1 DEF Plain, ShapeInv, OnSite
  <2>3. \A b \in crawl[c].todo \cup crawl[c].got : b \in Ann \ {a} /\ date'[b] = date[b]
    BY <1>1, <2>2 DEF OnSite
  <2>4. Reached(c)' = Reached(c)
    BY <1>1, <2>3 DEF Reached
  <2>5. \A x \in Reached(c) : x \in Int /\ x <= today
    <3>1. \A b \in crawl[c].todo \cup crawl[c].got : date[b] \in Int /\ date[b] <= today
      BY <2>2, Constants DEF Plain, TypeOK, PastInv, OnSite
    <3>2. \A d \in failed : d \in Int /\ d <= today
      BY Constants DEF Plain, TypeOK, PastInv
    <3>3. QED
      BY <3>1, <3>2 DEF Reached
  <2>6. Covers(c) => Covers(c)'
    <3>1. SUFFICES ASSUME Covers(c), NEW b \in Owed'
                   PROVE  \/ b \in crawl[c].todo \cup crawl[c].got
                          \/ date'[b] \in failed
                          \/ \A x \in Reached(c) : Keeps(c, b, x)'
      BY <1>1, <2>4 DEF Covers
    <3>2. CASE b = a
      BY <2>5, <3>2, NewIsAhead
    <3>3. CASE b # a
      BY <1>1, <1>2, <1>3, <3>1, <3>3 DEF Covers
    <3>4. QED
      BY <3>2, <3>3
  <2>7. crawl[c].pc \in {"compare", "write"} =>
          \A b \in Owed' : Keeps(c, b, crawl[c].result.date)'
    <3>1. SUFFICES ASSUME crawl[c].pc \in {"compare", "write"}, NEW b \in Owed'
                   PROVE  Keeps(c, b, crawl[c].result.date)'
      OBVIOUS
    <3>2. crawl[c].result.date \in Int /\ crawl[c].result.date <= today
      BY <1>4, <3>1 DEF Plain, ShapeInv
    <3>3. crawl'[c].result.date = crawl[c].result.date
      BY <1>1
    <3>4. CASE b = a
      BY <3>2, <3>3, <3>4, NewIsAhead DEF Keeps, NotPassedBy
    <3>5. CASE b # a
      <4>1. b \in Owed /\ b \in Ann \ {a}
        BY <1>2, <3>5
      <4>2. Keeps(c, b, crawl[c].result.date)
        BY <2>1, <3>1, <4>1 DEF CrawlInv
      <4>3. QED
        BY <1>1, <4>1, <4>2 DEF Keeps, NotPassedBy, Wide, LookBackOf
    <3>6. QED
      BY <3>4, <3>5
  <2>8. QED
    BY <1>1, <2>1, <2>6, <2>7 DEF CrawlInv, At
<1>7. QED
  BY <1>1, <1>5, <1>6 DEF Clean, OneCrawl, PartsInHand, Active, At

LEMMA RestartClean == ASSUME Plain, Clean, Restart PROVE Clean'
<1>1. /\ UNCHANGED <<date, rows, checkpoint, late, narrow>>
      /\ \A c \in Crawler : crawl'[c].pc = "idle"
      /\ missed \subseteq missed'
  BY IdleCrawl DEF Restart, Misses
<1>4. \A c \in Crawler : CutOff(c) \subseteq missed'
  BY MissedOnes DEF Restart, Misses
<1>2. \A a \in Ann \ missed' : rows[a] # "part"
  BY <1>1, <1>4 DEF Clean, PartsInHand, CutOff
<1>3. QED
  BY <1>1, <1>2 DEF Clean, OneCrawl, PartsInHand, Active, Owed, Unread, OnSite, NotPassedBy

LEMMA BeginClean ==
    ASSUME Plain, Clean, NEW c \in Crawler, Begin(c), ~overlapped' PROVE Clean'
<1>1. /\ UNCHANGED <<date, rows, checkpoint, late, narrow, missed>>
      /\ failed' = {} /\ crawl[c].pc = "idle" /\ Alone(c)
  BY DEF Begin, around, At, Alone
<1>2. PICK r \in CrawlState :
        /\ Becomes(c, r)
        /\ r.pc = "list" /\ r.since = checkpoint - LookBackOf(c)
        /\ r.skip = {a \in Ann : rows[a] # "none"} /\ r.part = {}
  BY BeginEffect DEF Plain
<1>3. \A a \in Ann \ missed : rows[a] # "part"
  BY <1>1, PartsOfOne
<1>4. \A a \in r.skip : rows[a] = "all" \/ a \in missed
  BY <1>2, <1>3 DEF Plain, TypeOK
<1>5. PartsInHand' /\ \A a \in Owed' : NotPassedBy(a, checkpoint)'
  BY <1>1, <1>3 DEF Clean, PartsInHand, Owed, Unread, OnSite, NotPassedBy
<1>6. CrawlInv(c)'
  BY <1>1, <1>2, <1>4 DEF CrawlInv, Becomes, At, LookBackOf
<1>7. QED
  BY <1>1, <1>2, <1>5, <1>6, CleanAfter

(* An announcement that a list reaches behind the checkpoint is on it.       *)
LEMMA NotListed ==
    ASSUME Plain, Clean, NEW c \in Crawler, At(c, "list"), NEW a \in Owed, a \notin Listed(c),
           NEW x
    PROVE  Keeps(c, a, x)
<1>1. crawl[c].since = checkpoint - LookBackOf(c)
  BY DEF Clean, Active, At, CrawlInv
<1>2. /\ a \in OnSite /\ date[a] \in Int /\ checkpoint \in Int
      /\ ~(date[a] >= checkpoint - LookBackOf(c))
  BY <1>1, Constants DEF Owed, Unread, Listed, OnSite, Plain, TypeOK
<1>3. LookBack \in Nat /\ LookBackOf(c) \in {LookBack, 0}
  BY Constants DEF LookBackOf
<1>4. NotPassedBy(a, checkpoint)
  BY DEF Clean
<1>5. CASE a \in late
  <2>1. CASE narrow
    BY <1>5, <2>1 DEF Keeps, NotPassedBy
  <2>2. CASE ~narrow
    <3>1. date[a] >= checkpoint - LookBack
      BY <1>4, <1>5, <2>2 DEF NotPassedBy
    <3>2. LookBackOf(c) # LookBack
      BY <1>2, <3>1
    <3>3. ~Wide(c)
      BY <1>3, <3>2 DEF Wide
    <3>4. QED
      BY <1>5, <3>3 DEF Keeps
  <2>3. QED
    BY <2>1, <2>2
<1>6. CASE a \notin late
  BY <1>2, <1>3, <1>4, <1>6 DEF NotPassedBy
<1>7. QED
  BY <1>5, <1>6

LEMMA ListClean ==
    ASSUME Plain, Clean, NEW c \in Crawler,
           List(c) \/ (\E list \in SUBSET Ann : ListFails(c, list)) \/ ListRaises(c)
    PROVE  Clean'
<1>1. /\ UNCHANGED <<date, rows, checkpoint, failed, late, narrow>>
      /\ crawl[c].pc = "list" /\ Active(c) /\ CutOff(c) = {}
      /\ missed \subseteq missed'
  BY DEF List, ListFails, ListRaises, Misses, around, history, At, Active, CutOff
<1>2. Alone(c) /\ CrawlInv(c)
  BY <1>1, ActiveIsAlone
<1>3. CASE Ends(c)
  BY <1>1, <1>3, CleanEnds
<1>4. CASE ~Ends(c)
  <2>1. PICK list \in SUBSET Ann :
          /\ Proceed(c, list) /\ list # {}
          /\ (Listed(c) \ list) \ Blank \subseteq missed'
    <3>1. CASE List(c)
      <4>1. Listed(c) \in SUBSET Ann /\ Proceed(c, Listed(c))
        BY <3>1 DEF Listed, OnSite, List
      <4>2. QED
        BY <1>4, <4>1 DEF Proceed
    <3>2. ASSUME NEW list \in SUBSET Ann, ListFails(c, list)
          PROVE  /\ Proceed(c, list) /\ list # {}
                 /\ (Listed(c) \ list) \ Blank \subseteq missed'
      BY <1>4, <3>2 DEF ListFails, Proceed, Misses
    <3>3. QED
      BY <1>4, <3>1, <3>2 DEF ListRaises
  <2>2. PICK r \in CrawlState :
          /\ Becomes(c, r)
          /\ r.pc = "details" /\ r.since = crawl[c].since /\ r.skip = crawl[c].skip
          /\ r.part = crawl[c].part
          /\ r.todo = list \ crawl[c].skip
    <3>1. list \ crawl[c].skip # {}
      BY <1>4, <2>1 DEF Proceed
    <3>2. QED
      BY <2>1, <3>1, ProceedEffect DEF Plain
  <2>3. Owed' \subseteq Owed /\ Owed' \cap missed' = {} /\ Owed \cap Blank = {}
    BY <1>1 DEF Owed, Unread, OnSite
  <2>4. \A a \in Owed : \A x : Keeps(c, a, x)' <=> Keeps(c, a, x)
    BY <1>1 DEF Keeps, NotPassedBy, Wide, LookBackOf
  <2>5. \A a \in Owed : a \notin crawl[c].skip
    BY <1>2 DEF CrawlInv, Owed, Unread
  <2>6. \A a \in Owed' : a \in r.todo \/ \A x : Keeps(c, a, x)
    <3>1. SUFFICES ASSUME NEW a \in Owed', a \notin r.todo
                   PROVE  \A x : Keeps(c, a, x)
      OBVIOUS
    <3>2. a \in Owed /\ a \notin list
      BY <2>2, <2>3, <2>5, <3>1
    <3>3. a \notin Listed(c)
      BY <2>1, <2>3, <3>1, <3>2
    <3>4. QED
      BY <1>1, <3>2, <3>3, NotListed DEF At
  <2>7. Covers(c)'
    BY <2>2, <2>3, <2>4, <2>6 DEF Covers, Becomes
  <2>8. CrawlInv(c)'
    BY <1>1, <1>2, <2>2, <2>7 DEF CrawlInv, Becomes, At, LookBackOf
  <2>9. PartsInHand'
    BY <1>1, <1>2, PartsOfOne DEF PartsInHand
  <2>10. \A a \in Owed' : NotPassedBy(a, checkpoint)'
    BY <1>1, <2>3 DEF Clean, NotPassedBy
  <2>11. QED
    BY <1>2, <2>2, <2>8, <2>9, <2>10, CleanAfter
<1>5. QED
  BY <1>3, <1>4

(* What concerns announcements is as before. *)
LEMMA KeepsUnchanged ==
    ASSUME UNCHANGED <<date, late, narrow>>
    PROVE  \A a \in Ann : \A x : /\ NotPassedBy(a, x)' <=> NotPassedBy(a, x)
                                 /\ \A c \in Crawler : Keeps(c, a, x)' <=> Keeps(c, a, x)
  BY DEF Keeps, NotPassedBy, Wide, LookBackOf

LEMMA DetailClean ==
    ASSUME Plain, Clean, NEW c \in Crawler, NEW a \in Ann,
           \/ FetchDetail(c, a) \/ DetailFails(c, a) \/ DetailRaises(c, a)
           \/ AttachmentFails(c, a)
    PROVE  Clean'
<1>1. /\ UNCHANGED <<date, rows, checkpoint, late, narrow>>
      /\ crawl[c].pc = "details" /\ Active(c) /\ a \in crawl[c].todo
      /\ missed \subseteq missed'
  BY DEF FetchDetail, DetailFails, DetailRaises, AttachmentFails, Misses, around, history, At,
         Active
<1>2. Alone(c) /\ CrawlInv(c) /\ Covers(c)
  BY <1>1, ActiveIsAlone DEF CrawlInv
<1>3. PICK r \in CrawlState :
        /\ Becomes(c, r)
        /\ r.pc = "details" /\ r.since = crawl[c].since /\ r.skip = crawl[c].skip
        /\ r.todo = crawl[c].todo \ {a}
        /\ crawl[c].got \subseteq r.got /\ r.got \subseteq crawl[c].got \cup {a}
        /\ r.part \subseteq crawl[c].part \cup missed'
        /\ a \in r.got \cup Blank \cup missed' \/ date[a] \in failed'
  BY DetailEffect DEF Plain
<1>4. failed \subseteq failed' /\ failed' \subseteq failed \cup {date[a]}
  BY DEF FetchDetail, DetailFails, DetailRaises, AttachmentFails
<1>5. Reached(c)' \subseteq Reached(c)
  <2>1. crawl'[c] = r /\ date' = date
    BY <1>1, <1>3 DEF Becomes
  <2>2. r.todo \cup r.got \subseteq crawl[c].todo \cup crawl[c].got
    BY <1>1, <1>3
  <2>3. QED
    BY <1>1, <1>4, <2>1, <2>2 DEF Reached
<1>6. /\ Owed' \subseteq Owed /\ Owed' \cap missed' = {}
      /\ \A b \in Owed : b \in Ann \ Blank
  BY <1>1 DEF Owed, Unread, OnSite
<1>7. Covers(c)'
  <2>1. SUFFICES ASSUME NEW b \in Owed'
                 PROVE  \/ b \in r.todo \cup r.got
                        \/ date[b] \in failed'
                        \/ \A x \in Reached(c)' : Keeps(c, b, x)'
    BY <1>1, <1>3, <1>6 DEF Covers, Becomes
  <2>2. CASE b \in crawl[c].todo \cup crawl[c].got
    <3>1. b \notin Blank /\ b \notin missed'
      BY <1>6, <2>1
    <3>2. CASE b = a
      BY <1>3, <3>1, <3>2
    <3>3. CASE b # a
      BY <1>3, <2>2, <3>3
    <3>4. QED
      BY <3>2, <3>3
  <2>3. CASE date[b] \in failed
    BY <1>4, <2>3
  <2>4. CASE \A x \in Reached(c) : Keeps(c, b, x)
    <3>1. \A x : Keeps(c, b, x)' <=> Keeps(c, b, x)
      BY <1>1, <1>6, KeepsUnchanged
    <3>2. QED
      BY <1>5, <2>4, <3>1
  <2>5. b \in Owed
    BY <1>6
  <2>6. QED
    BY <1>2, <2>2, <2>3, <2>4, <2>5 DEF Covers
<1>8. CrawlInv(c)'
  BY <1>1, <1>2, <1>3, <1>7 DEF CrawlInv, Becomes, At, LookBackOf
<1>9. PartsInHand'
  BY <1>1, <1>2, PartsOfOne DEF PartsInHand
<1>10. \A b \in Owed' : NotPassedBy(b, checkpoint)'
  BY <1>1, <1>6, KeepsUnchanged DEF Clean
<1>11. QED
  BY <1>2, <1>3, <1>8, <1>9, <1>10, CleanAfter

LEMMA DetailsDoneClean == ASSUME Plain, Clean, NEW c \in Crawler, DetailsDone(c) PROVE Clean'
<1>1. /\ UNCHANGED <<date, rows, checkpoint, failed, late, narrow, missed>>
      /\ crawl[c].pc = "details" /\ Active(c) /\ CutOff(c) = {} /\ crawl[c].todo = {}
  BY DEF DetailsDone, around, history, At, Active, CutOff
<1>2. Alone(c) /\ CrawlInv(c)
  BY <1>1, ActiveIsAlone
<1>3. CASE crawl[c].got = {}
  <2>1. Ends(c)
    BY <1>3 DEF DetailsDone
  <2>2. QED
    BY <1>1, <2>1, CleanEnds
<1>4. CASE crawl[c].got # {}
  <2>1. PICK r \in CrawlState :
          /\ Becomes(c, r)
          /\ r.pc = "rows" /\ r.since = crawl[c].since /\ r.skip = crawl[c].skip
          /\ r.part = crawl[c].part
          /\ r.todo = {} /\ r.got = crawl[c].got /\ r.left = crawl[c].got
    BY <1>4, DoneEffect DEF Plain
  <2>2. Owed' = Owed /\ Owed \subseteq Ann
    BY <1>1 DEF Owed, Unread, OnSite
  <2>3. Reached(c)' = Reached(c)
    BY <1>1, <2>1 DEF Reached, Becomes
  <2>4. Covers(c)'
    BY <1>1, <1>2, <2>1, <2>2, <2>3, KeepsUnchanged DEF Covers, CrawlInv, Becomes
  <2>5. CrawlInv(c)'
    BY <1>1, <1>2, <2>1, <2>4 DEF CrawlInv, Becomes, At, LookBackOf
  <2>6. PartsInHand'
    BY <1>1, <1>2, PartsOfOne DEF PartsInHand
  <2>7. \A b \in Owed' : NotPassedBy(b, checkpoint)'
    BY <1>1, <2>2, KeepsUnchanged DEF Clean
  <2>8. QED
    BY <1>2, <2>1, <2>5, <2>6, <2>7, CleanAfter
<1>5. QED
  BY <1>3, <1>4

LEMMA InsertSomeClean ==
    ASSUME Plain, Clean, NEW c \in Crawler, NEW a \in Ann, InsertSome(c, a) PROVE Clean'
<1>1. /\ UNCHANGED <<date, checkpoint, failed, crawl, late, narrow, missed>>
      /\ crawl[c].pc = "rows" /\ Active(c) /\ a \in crawl[c].left /\ rows[a] = "none"
      /\ rows' = [rows EXCEPT ![a] = "part"] /\ rows \in [Ann -> {"none", "part", "all"}]
  BY DEF InsertSome, around, history, At, Active, Plain, TypeOK
<1>2. Alone(c) /\ CrawlInv(c)
  BY <1>1, ActiveIsAlone
<1>3. rows'[a] = "part" /\ \A b \in Ann \ {a} : rows'[b] = rows[b]
  BY <1>1
<1>4. Owed' = Owed /\ Owed \subseteq Ann
  BY <1>1, <1>3 DEF Owed, Unread, OnSite
<1>5. \A b \in Ann : \A x : /\ NotPassedBy(b, x)' <=> NotPassedBy(b, x)
                            /\ Keeps(c, b, x)' <=> Keeps(c, b, x)
  BY <1>1, KeepsUnchanged
<1>6. Covers(c)'
  <2>1. Reached(c)' = Reached(c)
    BY <1>1 DEF Reached
  <2>2. Covers(c)
    BY <1>1, <1>2 DEF CrawlInv
  <2>3. QED
    <3>1. SUFFICES ASSUME NEW b \in Owed
                   PROVE  \/ b \in crawl[c].todo \cup crawl[c].got
                          \/ date[b] \in failed
                          \/ \A x \in Reached(c) : Keeps(c, b, x)'
      BY <1>1, <1>4, <2>1 DEF Covers
    <3>2. \A x : Keeps(c, b, x)' <=> Keeps(c, b, x)
      BY <1>4, <1>5
    <3>3. QED
      BY <2>2, <3>2 DEF Covers
<1>7. crawl[c].skip \subseteq Ann /\ crawl[c].got \subseteq Ann
  BY DEF Plain, TypeOK, CrawlState
<1>8. \A b \in crawl[c].skip : rows'[b] = "all" \/ b \in missed
  BY <1>1, <1>2, <1>3, <1>7 DEF CrawlInv
<1>9. \A b \in crawl[c].got \ crawl[c].left : rows'[b] = "all" \/ b \in missed
  BY <1>1, <1>2, <1>3, <1>7 DEF CrawlInv, At
<1>10. CrawlInv(c)'
  BY <1>1, <1>2, <1>6, <1>8, <1>9 DEF CrawlInv, At, LookBackOf
<1>11. \A d \in Crawler : Active(d)' => CrawlInv(d)'
  BY <1>1, <1>2, <1>10 DEF Active, Alone
<1>12. PartsInHand'
  BY <1>1, <1>3 DEF Clean, PartsInHand, At
<1>13. QED
  BY <1>1, <1>4, <1>5, <1>11, <1>12 DEF Clean, OneCrawl, Active

LEMMA InsertRowsClean ==
    ASSUME Plain, Clean, NEW c \in Crawler, NEW a \in Ann, InsertRows(c, a) PROVE Clean'
<1>1. /\ UNCHANGED <<date, checkpoint, failed, late, narrow, missed>>
      /\ crawl[c].pc = "rows" /\ Active(c) /\ a \in crawl[c].left
      /\ rows \in [Ann -> {"none", "part", "all"}]
      /\ rows' = [rows EXCEPT ![a] = IF a \in crawl[c].part /\ @ # "all" THEN "part" ELSE "all"]
  BY DEF InsertRows, around, history, At, Active, Plain, TypeOK
<1>2. Alone(c) /\ CrawlInv(c)
  BY <1>1, ActiveIsAlone
<1>3. /\ \A b \in Ann \ {a} : rows'[b] = rows[b]
      /\ rows'[a] = "all" \/ (rows[a] # "all" /\ a \in crawl[c].part)
  BY <1>1
<1>14. rows'[a] = "all" \/ a \in missed
  BY <1>2, <1>3 DEF CrawlInv
<1>4. PICK r \in CrawlState :
        /\ Becomes(c, r)
        /\ r.pc = "rows" /\ r.since = crawl[c].since /\ r.skip = crawl[c].skip
        /\ r.part = crawl[c].part
        /\ r.todo = crawl[c].todo /\ r.got = crawl[c].got /\ r.left = crawl[c].left \ {a}
  BY InsertEffect DEF Plain
<1>5. Owed' \subseteq Owed /\ Owed \subseteq Ann
  BY <1>1, <1>3 DEF Owed, Unread, OnSite
<1>6. Reached(c)' = Reached(c)
  BY <1>1, <1>4 DEF Reached, Becomes
<1>7. Covers(c)'
  BY <1>1, <1>2, <1>4, <1>5, <1>6, KeepsUnchanged DEF Covers, CrawlInv, Becomes
<1>8. crawl[c].skip \subseteq Ann /\ crawl[c].got \subseteq Ann
  BY DEF Plain, TypeOK, CrawlState
<1>9. /\ \A b \in crawl[c].skip : rows'[b] = "all" \/ b \in missed
      /\ \A b \in crawl[c].got \ (crawl[c].left \ {a}) : rows'[b] = "all" \/ b \in missed
  BY <1>1, <1>2, <1>3, <1>8, <1>14 DEF CrawlInv, At
<1>10. CrawlInv(c)'
  BY <1>1, <1>2, <1>4, <1>7, <1>9 DEF CrawlInv, Becomes, At, LookBackOf
<1>11. PartsInHand'
  <2>1. SUFFICES ASSUME NEW b \in Ann \ missed, rows'[b] = "part"
                 PROVE  crawl'[c].pc = "rows" /\ b \in crawl'[c].left
    BY <1>1 DEF PartsInHand, At
  <2>2. b # a /\ rows[b] = "part"
    BY <1>3, <1>14, <2>1
  <2>3. b \in crawl[c].left
    BY <1>2, <2>2, PartsOfOne
  <2>4. QED
    BY <1>4, <2>2, <2>3 DEF Becomes
<1>12. \A b \in Owed' : NotPassedBy(b, checkpoint)'
  BY <1>1, <1>5, KeepsUnchanged DEF Clean
<1>13. QED
  BY <1>2, <1>4, <1>10, <1>11, <1>12, CleanAfter

LEMMA InsertRaisesClean ==
    ASSUME Plain, Clean, NEW c \in Crawler, InsertRaises(c) PROVE Clean'
<1>1. /\ UNCHANGED <<date, rows, checkpoint, late, narrow>>
      /\ Active(c) /\ Ends(c)
  BY DEF InsertRaises, Misses, around, At, Active
<1>2. missed \cup CutOff(c) \subseteq missed'
  BY MissedOnes DEF InsertRaises, Misses
<1>3. QED
  BY <1>1, <1>2, CleanEnds

(* What is concluded passes nothing: all that is read has its rows, and what *)
(* failed lies after the day before the earliest failure.                    *)
LEMMA ConcludeKeeps ==
    ASSUME Plain, NEW c \in Crawler, CrawlInv(c), Conclude(c), NEW a \in Owed, NEW x \in Int,
           failed # {} => x = Min(failed) - 1,
           failed = {} => \E b \in crawl[c].got : x = date[b]
    PROVE  Keeps(c, a, x)
<1>1. /\ crawl[c].pc = "rows" /\ crawl[c].todo = {} /\ crawl[c].left = {} /\ Covers(c)
      /\ \A b \in crawl[c].got : rows[b] = "all" \/ b \in missed
  BY DEF Conclude, At, CrawlInv, Plain, ShapeInv
<1>2. a \notin crawl[c].todo \cup crawl[c].got
  BY <1>1 DEF Owed, Unread
<1>3. date[a] \in Int /\ LookBack \in Nat
  BY Constants DEF Owed, Unread, OnSite, Plain, TypeOK
<1>4. CASE failed = {}
  <2>1. x \in Reached(c)
    BY <1>4 DEF Reached
  <2>2. QED
    BY <1>1, <1>2, <1>4, <2>1 DEF Covers
<1>5. CASE failed # {}
  <2>1. failed \in SUBSET Nat
    BY Constants DEF Plain, TypeOK
  <2>2. Min(failed) \in failed /\ \A d \in failed : Min(failed) <= d
    BY <1>5, <2>1, MinOfDates
  <2>3. PICK m \in failed : m \in Nat /\ x = m - 1 /\ \A d \in failed : m <= d
    BY <1>5, <2>1, <2>2
  <2>4. CASE date[a] \in failed
    <3>1. date[a] >= x /\ date[a] >= x - LookBack
      BY <1>3, <2>3, <2>4
    <3>2. QED
      BY <3>1 DEF Keeps, NotPassedBy
  <2>5. CASE date[a] \notin failed
    <3>1. Keeps(c, a, m)
      BY <1>1, <1>2, <2>3, <2>5 DEF Covers, Reached
    <3>2. /\ date[a] >= m => date[a] >= x
          /\ date[a] >= m - LookBack => date[a] >= x - LookBack
      BY <1>3, <2>3
    <3>3. QED
      BY <3>1, <3>2 DEF Keeps, NotPassedBy
  <2>6. QED
    BY <2>4, <2>5
<1>6. QED
  BY <1>4, <1>5

LEMMA ConcludeClean == ASSUME Plain, Clean, NEW c \in Crawler, Conclude(c) PROVE Clean'
<1>1. /\ UNCHANGED <<date, rows, checkpoint, failed, late, narrow, missed>>
      /\ crawl[c].pc = "rows" /\ Active(c) /\ crawl[c].left = {}
  BY DEF Conclude, around, history, At, Active
<1>2. Alone(c) /\ CrawlInv(c)
  BY <1>1, ActiveIsAlone
<1>3. PICK r \in CrawlState :
        /\ Becomes(c, r)
        /\ r.pc = "compare" /\ r.since = crawl[c].since /\ r.skip = crawl[c].skip
        /\ r.part = crawl[c].part
        /\ r.result.date \in 0..today
        /\ failed # {} => r.result.date = Min(failed) - 1
        /\ failed = {} => \E a \in crawl[c].got : r.result.date = date[a]
  BY ConcludeEffect DEF Plain
<1>4. r.result.date \in Int
  BY <1>3
<1>5. Owed' = Owed /\ Owed \subseteq Ann
  BY <1>1 DEF Owed, Unread, OnSite
<1>6. \A a \in Owed : Keeps(c, a, r.result.date)
  BY <1>2, <1>3, <1>4, ConcludeKeeps
<1>7. \A a \in Owed' : Keeps(c, a, r.result.date)'
  BY <1>1, <1>3, <1>5, <1>6 DEF Keeps, NotPassedBy, Wide, LookBackOf, Becomes
<1>8. CrawlInv(c)'
  BY <1>1, <1>2, <1>3, <1>7 DEF CrawlInv, Becomes, At, LookBackOf, Keeps, NotPassedBy
<1>9. PartsInHand'
  BY <1>1, <1>2, PartsOfOne DEF PartsInHand
<1>10. \A b \in Owed' : NotPassedBy(b, checkpoint)'
  BY <1>1, <1>5, KeepsUnchanged DEF Clean
<1>11. QED
  BY <1>2, <1>3, <1>8, <1>9, <1>10, CleanAfter

LEMMA CompareClean == ASSUME Plain, Clean, NEW c \in Crawler, Compare(c) PROVE Clean'
<1>1. /\ UNCHANGED <<date, rows, checkpoint, failed, late, narrow, missed>>
      /\ crawl[c].pc = "compare" /\ Active(c) /\ CutOff(c) = {}
  BY DEF Compare, around, history, At, Active, CutOff
<1>2. Alone(c) /\ CrawlInv(c)
  BY <1>1, ActiveIsAlone
<1>3. CASE Ends(c)
  BY <1>1, <1>3, CleanEnds
<1>4. CASE ~Ends(c)
  <2> DEFINE r == [crawl[c] EXCEPT !.pc = "write"]
  <2>1. crawl[c] \in CrawlState
    BY DEF Plain, TypeOK
  <2>2. /\ r \in CrawlState /\ r.pc = "write" /\ r.since = crawl[c].since
        /\ r.skip = crawl[c].skip /\ r.part = crawl[c].part /\ r.result = crawl[c].result
    BY <2>1 DEF CrawlState
  <2>3. crawl' = [crawl EXCEPT ![c] = r]
    BY <1>4 DEF Compare, Plain, TypeOK
  <2> HIDE DEF r
  <2>4. Becomes(c, r)
    BY <2>2, <2>3, Becoming DEF Plain
  <2>5. Owed' = Owed /\ Owed \subseteq Ann
    BY <1>1 DEF Owed, Unread, OnSite
  <2>6. \A a \in Owed' : Keeps(c, a, crawl[c].result.date)'
    <3>1. SUFFICES ASSUME NEW a \in Owed
                   PROVE  Keeps(c, a, crawl[c].result.date)'
      BY <2>5
    <3>2. Keeps(c, a, crawl[c].result.date) /\ crawl'[c].result = crawl[c].result
      BY <1>1, <1>2, <2>2, <2>4 DEF CrawlInv, Becomes
    <3>3. QED
      BY <1>1, <3>2 DEF Keeps, NotPassedBy, Wide, LookBackOf
  <2>7. CrawlInv(c)'
    BY <1>1, <1>2, <2>2, <2>4, <2>6 DEF CrawlInv, Becomes, At, LookBackOf
  <2>8. PartsInHand'
    BY <1>1, <1>2, PartsOfOne DEF PartsInHand
  <2>9. \A b \in Owed' : NotPassedBy(b, checkpoint)'
    BY <1>1, <2>5, KeepsUnchanged DEF Clean
  <2>10. QED
    BY <1>2, <2>2, <2>4, <2>7, <2>8, <2>9, CleanAfter
<1>5. QED
  BY <1>3, <1>4

LEMMA WriteCheckpointClean ==
    ASSUME Plain, Clean, NEW c \in Crawler, WriteCheckpoint(c) PROVE Clean'
<1>1. /\ UNCHANGED <<date, rows, late, missed>>
      /\ crawl[c].pc = "write" /\ Active(c) /\ Ends(c)
      /\ checkpoint' = crawl[c].result.date
      /\ narrow' = (narrow \/ LookBackOf(c) < LookBack)
  BY DEF WriteCheckpoint, around, At, Active
<1>2. Alone(c) /\ CrawlInv(c)
  BY <1>1, ActiveIsAlone
<1>3. Becomes(c, Idle) /\ Idle \in CrawlState /\ Idle.pc = "idle"
  BY <1>1, EndEffect, IdleCrawl DEF Plain
<1>4. PartsInHand'
  BY <1>1, <1>2, PartsOfOne DEF PartsInHand
<1>5. ~Wide(c) => narrow'
  <2>1. LookBack \in Int /\ LookBackOf(c) \in Int
    BY Constants DEF LookBackOf
  <2>2. ~Wide(c) => LookBackOf(c) < LookBack
    BY <2>1 DEF Wide
  <2>3. QED
    BY <1>1, <2>2
<1>6. \A a \in Owed' : NotPassedBy(a, checkpoint)'
  <2>1. SUFFICES ASSUME NEW a \in Owed' PROVE NotPassedBy(a, checkpoint)'
    OBVIOUS
  <2>2. a \in Owed /\ Keeps(c, a, crawl[c].result.date)
    BY <1>1, <1>2, <2>1 DEF Owed, Unread, OnSite, CrawlInv
  <2>3. QED
    BY <1>1, <1>5, <2>2 DEF Keeps, NotPassedBy
<1>7. QED
  BY <1>2, <1>3, <1>4, <1>6, CleanAfter

-----------------------------------------------------------------------------
LEMMA OverlapLasts == ASSUME Plain, Next, ~overlapped' PROVE ~overlapped
<1>1. CASE \E c \in Crawler : Begin(c)
  BY <1>1 DEF Begin, Plain, TypeOK
<1>2. CASE UNCHANGED overlapped
  BY <1>2
<1>3. CASE \/ \E a \in Ann : Publish(a)
           \/ DayPasses \/ FreezeEnds \/ Schedule \/ Unschedule \/ Restart
  BY <1>2, <1>3
  DEF Publish, DayPasses, FreezeEnds, Schedule, Unschedule, Restart, Misses, history
<1>4. ASSUME NEW c \in Crawler, Proceeds(c)
      PROVE  UNCHANGED overlapped
  BY <1>4
  DEF Proceeds, List, DetailsDone, Conclude, Compare, WriteCheckpoint, FetchDetail, InsertRows,
      history
<1>5. ASSUME NEW c \in Crawler,
             \/ \E list \in SUBSET Ann : ListFails(c, list)
             \/ ListRaises(c) \/ InsertRaises(c)
             \/ \E a \in Ann :
                  \/ DetailFails(c, a) \/ DetailRaises(c, a) \/ AttachmentFails(c, a)
                  \/ InsertSome(c, a)
      PROVE  UNCHANGED overlapped
  BY <1>5
  DEF ListFails, ListRaises, InsertRaises, DetailFails, DetailRaises, AttachmentFails,
      InsertSome, Misses, history
<1>6. QED
  BY <1>1, <1>2, <1>3, <1>4, <1>5 DEF Next

LEMMA CleanStep == IInv /\ [Next]_vars /\ ~overlapped' => Clean'
<1> SUFFICES ASSUME IInv, [Next]_vars, ~overlapped' PROVE Clean'
  OBVIOUS
<1>1. Plain
  BY DEF IInv, Plain
<1>2. CASE UNCHANGED vars
  BY <1>2, CleanUnchanged DEF vars, IInv
<1>3. CASE Next
  <2>1. Clean
    BY <1>1, <1>3, OverlapLasts DEF IInv
  <2>2. CASE DayPasses \/ FreezeEnds \/ Schedule \/ Unschedule
    BY <2>1, <2>2, CleanUnchanged DEF DayPasses, FreezeEnds, Schedule, Unschedule, around, history
  <2>3. ASSUME NEW a \in Ann, Publish(a) PROVE Clean'
    BY <1>1, <2>1, <2>3, PublishClean
  <2>4. CASE Restart
    BY <1>1, <2>1, <2>4, RestartClean
  <2>5. ASSUME NEW c \in Crawler, Begin(c) PROVE Clean'
    BY <1>1, <2>1, <2>5, BeginClean
  <2>6. ASSUME NEW c \in Crawler, Proceeds(c) PROVE Clean'
    BY <1>1, <2>1, <2>6, ListClean, DetailsDoneClean, ConcludeClean, CompareClean,
       WriteCheckpointClean, DetailClean, InsertRowsClean DEF Proceeds
  <2>7. ASSUME NEW c \in Crawler,
               (\E list \in SUBSET Ann : ListFails(c, list)) \/ ListRaises(c)
        PROVE  Clean'
    BY <1>1, <2>1, <2>7, ListClean
  <2>8. ASSUME NEW c \in Crawler, InsertRaises(c) PROVE Clean'
    BY <1>1, <2>1, <2>8, InsertRaisesClean
  <2>9. ASSUME NEW c \in Crawler, NEW a \in Ann,
               \/ DetailFails(c, a) \/ DetailRaises(c, a) \/ AttachmentFails(c, a)
               \/ InsertSome(c, a)
        PROVE  Clean'
    BY <1>1, <2>1, <2>9, DetailClean, InsertSomeClean
  <2>10. QED
    BY <1>3, <2>1, <2>2, <2>3, <2>4, <2>5, <2>6, <2>7, <2>8, <2>9 DEF Next
<1>4. QED
  BY <1>2, <1>3

LEMMA InitIInv == Init => IInv
<1> SUFFICES ASSUME Init PROVE IInv
  OBVIOUS
<1>1. \A c \in Crawler : crawl[c] = Idle
  BY DEF Init
<1>2. TypeOK
  <2>1. today = 1 /\ 1 \in 1..Days /\ 0 \in 0..Days /\ 0 \in 0..(Threshold - 1)
    BY Constants DEF Init
  <2>2. date \in [Ann -> 0..Days] /\ rows \in [Ann -> {"none", "part", "all"}]
    BY <2>1 DEF Init
  <2>3. crawl \in [Crawler -> CrawlState]
    BY IdleCrawl DEF Init
  <2>4. faults \in 0..MaxFaults /\ clicks \in 0..MaxClicks
    BY Constants DEF Init
  <2>5. QED
    BY <2>1, <2>2, <2>3, <2>4 DEF Init, TypeOK
<1>3. PastInv
  BY Constants DEF Init, PastInv
<1>4. ShapeInv
  BY <1>1, IdleCrawl DEF ShapeInv, At
<1>5. OnSite = {}
  BY DEF Init, OnSite
<1>6. Clean
  BY <1>1, <1>5, IdleCrawl DEF Init, Clean, OneCrawl, PartsInHand, Active, Owed, Unread
<1>7. QED
  BY <1>2, <1>3, <1>4, <1>6 DEF IInv

LEMMA NextIInv == IInv /\ [Next]_vars => IInv'
  BY PlainStep, CleanStep DEF IInv, Plain

-----------------------------------------------------------------------------
(* For any announcements and bounds, all state stays what the code declares. *)
THEOREM TypeCorrect == Spec => []TypeOK
<1>1. IInv => TypeOK
  BY DEF IInv
<1>2. QED
  BY InitIInv, NextIInv, <1>1, PTL DEF Spec

(* NonePassed for any announcements and days, any look-back that covers how  *)
(* late an announcement may appear, any number of failures, restarts, freezes *)
(* and crawls by hand, with attachments or without: unless crawls overlapped, *)
(* the checkpoint of engine.py and persistence.py passes nothing that is     *)
(* unread but what a failure hit that left no record.                        *)
THEOREM NothingPassed == Spec => []NonePassed
<1>1. IInv => NonePassed
  BY DEF IInv, Clean, NotPassedBy, NonePassed, Owed
<1>2. QED
  BY InitIInv, NextIInv, <1>1, PTL DEF Spec

=============================================================================
