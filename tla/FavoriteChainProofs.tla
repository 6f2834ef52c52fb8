-------------------------- MODULE FavoriteChainProofs --------------------------
(***************************************************************************)
(* Without faults and overlapping schedulers a favourite leaves the queue  *)
(* only as done or abandoned, for any limit of retries, however often the  *)
(* user removes it and adds it again and at whatever moment.               *)
(***************************************************************************)
EXTENDS FavoriteChain, TLAPS

Active(p) == proc[p].pc # "idle"

OneActive == \A p, q \in Proc : Active(p) /\ Active(q) => p = q

(* A processor that works on a row that was removed may charge its failure   *)
(* to the row made since, once and then only to abandon a row that is gone.  *)
NewRowIsFresh(p) ==
    Active(p) /\ proc[p].id # cur /\ cur # 0 =>
        /\ row[cur].st \in {"pending", "failed"}
        /\ row[cur].count <= 1
        /\ proc[p].pc # "abandoning" => row[cur].count = 0

(* The count a processor read is the one it is about to write.               *)
CountIsCurrent(p) ==
    proc[p].pc = "counting" /\ proc[p].id = cur => proc[p].count = row[cur].count + 1

Clean ==
    /\ OneActive
    /\ cur # 0 => row[cur].st # "none"
    /\ \A p \in Proc : proc[p].pc # "raised" /\ NewRowIsFresh(p) /\ CountIsCurrent(p)
    /\ cur # 0 /\ Stranded(cur) => Busy(cur)

Undisturbed == faults = 0 /\ ~overlapped

IInv == TypeOK /\ (Undisturbed => Clean)

-----------------------------------------------------------------------------
LEMMA InitIInv == Init => IInv
<1> SUFFICES ASSUME Init PROVE IInv
  OBVIOUS
<1>1. TypeOK
  <2>1. row \in [Id -> [st : RowStatus, count : Nat]] /\ \A i \in Id : row[i] = NoRow
    BY DEF Init, NoRow, RowStatus
  <2>2. cur = 0 /\ added = 0 /\ 0 \in 0..MaxRows
    BY FavoriteChainAssumption DEF Init
  <2>3. \A p \in Proc : proc[p].pc = "idle"
    BY DEF Init, Resting
  <2>4. proc \in [Proc -> [pc : {"idle", "selected", "downloading", "archiving",
                                "judging", "counting", "abandoning", "skipping", "raised"},
                          id : 0..MaxRows, count : Nat]]
    BY <2>2 DEF Init, Resting
  <2>5. indexed \in BOOLEAN /\ overlapped \in BOOLEAN /\ faults \in Nat
    BY DEF Init
  <2>6. scheduled \subseteq Proc
    BY DEF Init
  <2>7. QED
    BY <2>1, <2>2, <2>3, <2>4, <2>5, <2>6 DEF TypeOK
<1>2. Clean
  BY DEF Init, Clean, OneActive, Active, NewRowIsFresh, CountIsCurrent, Resting
<1>3. QED
  BY <1>1, <1>2 DEF IInv

(* What the statements on rows change.  A row that is gone stays gone.       *)
LEMMA MarkRow ==
    ASSUME TypeOK, NEW i \in 1..added, NEW st \in RowStatus \ {"none"}, Mark(i, st)
    PROVE  /\ row' \in [Id -> [st : RowStatus, count : Nat]]
           /\ \A j \in Id : /\ row'[j].count = row[j].count
                            /\ row'[j].st = "none" <=> row[j].st = "none"
                            /\ j # cur => row'[j] = NoRow
           /\ i # cur => row' = row
<1>1. i \in Id
  BY FavoriteChainAssumption DEF TypeOK, Id
<1>2. CASE i # cur
  BY <1>1, <1>2 DEF TypeOK, Mark, NoRow, RowStatus
<1>3. CASE i = cur
  BY <1>1, <1>3 DEF TypeOK, Mark, NoRow, RowStatus
<1>4. QED
  BY <1>2, <1>3

LEMMA ChargeRow ==
    ASSUME TypeOK, Charge
    PROVE  /\ row' \in [Id -> [st : RowStatus, count : Nat]]
           /\ \A j \in Id : /\ row'[j].st = "none" <=> row[j].st = "none"
                            /\ j # cur => row'[j] = NoRow
           /\ cur # 0 /\ row[cur].st # "none" =>
                row'[cur] = [st |-> "failed", count |-> row[cur].count + 1]
<1>1. CASE cur = 0 \/ row[cur].st = "none"
  BY <1>1 DEF TypeOK, Charge, NoRow, Id
<1>2. CASE cur # 0 /\ row[cur].st # "none"
  <2>1. cur \in Id
    BY <1>2, FavoriteChainAssumption DEF TypeOK, Id
  <2>2. row[cur].count + 1 \in Nat
    BY <2>1 DEF TypeOK
  <2>3. row' = [row EXCEPT ![cur] = [st |-> "failed", count |-> row[cur].count + 1]]
    BY <1>2 DEF Charge
  <2>4. QED
    BY <1>2, <2>1, <2>2, <2>3 DEF TypeOK, RowStatus
<1>3. QED
  BY <1>1, <1>2

LEMMA GiveUpRow ==
    ASSUME TypeOK, NEW i \in 1..added, NEW n \in Nat,
           row' = IF row[i].st = "none" THEN row
                  ELSE [row EXCEPT ![i] = [st |-> "abandoned", count |-> n]]
    PROVE  /\ row' \in [Id -> [st : RowStatus, count : Nat]]
           /\ \A j \in Id : /\ row'[j].st = "none" <=> row[j].st = "none"
                            /\ j # cur => row'[j] = NoRow
           /\ i # cur => row' = row
           /\ i = cur /\ row[cur].st # "none" => row'[cur].st = "abandoned"
<1>1. i \in Id
  BY FavoriteChainAssumption DEF TypeOK, Id
<1>2. CASE i # cur
  BY <1>1, <1>2 DEF TypeOK, NoRow
<1>3. CASE i = cur
  BY <1>1, <1>3 DEF TypeOK, NoRow, RowStatus
<1>4. QED
  BY <1>2, <1>3

(* The moves of download_to_inbox: a statement on its row, and on it goes.   *)
Moving(p) ==
    /\ proc[p].pc \in {"selected", "downloading", "archiving"}
    /\ \E to \in {"judging", "downloading", "archiving", "skipping"} :
         proc' = [proc EXCEPT ![p].pc = to]
    /\ \/ UNCHANGED row
       \/ \E st \in RowStatus \ {"none"} : Mark(proc[p].id, st)
    /\ indexed' \in {indexed, TRUE}
    /\ UNCHANGED <<scheduled, cur, added, overlapped, faults>>

LEMMA DownloadMoves == ASSUME NEW p \in Proc, DownloadToInbox(p) PROVE Moving(p)
<1> USE DEF Moving, Step, RowStatus
<1>1. CASE ReuseExistingFile(p)
  BY <1>1 DEF ReuseExistingFile
<1>2. CASE TargetFails(p)
  BY <1>2 DEF TargetFails
<1>3. CASE StartDownload(p)
  BY <1>3 DEF StartDownload
<1>4. CASE FavoriteSkip(p)
  BY <1>4 DEF FavoriteSkip
<1>5. CASE FetchIntoInbox(p)
  BY <1>5 DEF FetchIntoInbox
<1>6. CASE FetchFails(p)
  BY <1>6 DEF FetchFails
<1>7. CASE Registered(p)
  BY <1>7 DEF Registered
<1>8. CASE NotRegistered(p)
  BY <1>8 DEF NotRegistered
<1>9. QED
  BY <1>1, <1>2, <1>3, <1>4, <1>5, <1>6, <1>7, <1>8 DEF DownloadToInbox

-----------------------------------------------------------------------------
LEMMA TypeStep == TypeOK /\ [Next]_vars => TypeOK'
<1> SUFFICES ASSUME TypeOK, [Next]_vars PROVE TypeOK'
  OBVIOUS
<1> USE FavoriteChainAssumption
<1> DEFINE States == {"idle", "selected", "downloading", "archiving", "judging",
                      "counting", "abandoning", "skipping", "raised"}
<1>1. CASE AddFavorite
  <2>1. added + 1 \in Id
    BY <1>1 DEF AddFavorite, TypeOK, Id
  <2>2. row' \in [Id -> [st : RowStatus, count : Nat]]
    BY <1>1 DEF AddFavorite, TypeOK, RowStatus
  <2>3. \A i \in Id : i # cur' => row'[i] = NoRow
    BY <1>1, <2>1 DEF AddFavorite, TypeOK, Id
  <2>4. cur' \in 0..added' /\ added' \in 0..MaxRows
    BY <1>1 DEF AddFavorite, TypeOK
  <2>5. \A p \in Proc : proc[p].pc # "idle" => proc[p].id \in 1..added'
    BY <1>1 DEF AddFavorite, TypeOK
  <2>6. UNCHANGED <<scheduled, indexed, proc, overlapped, faults>>
    BY <1>1 DEF AddFavorite
  <2>7. QED
    BY <2>2, <2>3, <2>4, <2>5, <2>6, Zenon DEF TypeOK
<1>2. CASE AddFavoriteUnqueued
  <2>1. \A i \in Id : i # cur' => row'[i] = NoRow
    BY <1>2 DEF AddFavoriteUnqueued, TypeOK, Id
  <2>2. cur' \in 0..added' /\ added' \in 0..MaxRows /\ faults' \in Nat
    BY <1>2 DEF AddFavoriteUnqueued, Fault, TypeOK
  <2>3. \A p \in Proc : proc[p].pc # "idle" => proc[p].id \in 1..added'
    BY <1>2 DEF AddFavoriteUnqueued, TypeOK
  <2>4. UNCHANGED <<scheduled, row, indexed, proc, overlapped>>
    BY <1>2 DEF AddFavoriteUnqueued
  <2>5. QED
    BY <2>1, <2>2, <2>3, <2>4, Zenon DEF TypeOK
<1>3. CASE RemoveFavorite
  <2>1. NoRow \in [st : RowStatus, count : Nat]
    BY DEF NoRow, RowStatus
  <2>2. row' \in [Id -> [st : RowStatus, count : Nat]]
    BY <1>3, <2>1 DEF RemoveFavorite, TypeOK
  <2>3. \A i \in Id : i # cur' => row'[i] = NoRow
    BY <1>3 DEF RemoveFavorite, TypeOK, Id
  <2>4. cur' \in 0..added' /\ UNCHANGED <<scheduled, added, indexed, proc, overlapped, faults>>
    BY <1>3 DEF RemoveFavorite, TypeOK
  <2>5. QED
    BY <2>2, <2>3, <2>4, Zenon DEF TypeOK
<1>4. ASSUME NEW p \in Proc, Select(p) PROVE TypeOK'
  <2>1. cur \in 1..added /\ cur \in 0..MaxRows
    BY <1>4 DEF Select, TypeOK
  <2>2. /\ proc' \in [Proc -> [pc : States, id : 0..MaxRows, count : Nat]]
        /\ \A q \in Proc : proc'[q].pc # "idle" => proc'[q].id \in 1..added
    BY <1>4, <2>1 DEF Select, TypeOK
  <2>3. overlapped' \in BOOLEAN
    BY <1>4 DEF Select, TypeOK
  <2>4. UNCHANGED <<scheduled, row, cur, added, indexed, faults>>
    BY <1>4 DEF Select
  <2>5. QED
    BY <2>2, <2>3, <2>4, Zenon DEF TypeOK
<1>5. ASSUME NEW p \in Proc, Moving(p) PROVE TypeOK'
  <2>1. proc[p].id \in 1..added
    BY <1>5 DEF Moving, TypeOK
  <2>2. /\ row' \in [Id -> [st : RowStatus, count : Nat]]
        /\ \A i \in Id : i # cur => row'[i] = NoRow
    <3>1. CASE UNCHANGED row
      BY <3>1 DEF TypeOK
    <3>2. CASE \E st \in RowStatus \ {"none"} : Mark(proc[p].id, st)
      BY <2>1, <3>2, MarkRow
    <3>3. QED
      BY <1>5, <3>1, <3>2 DEF Moving
  <2>3. /\ proc' \in [Proc -> [pc : States, id : 0..MaxRows, count : Nat]]
        /\ \A q \in Proc : proc'[q].pc # "idle" => proc'[q].id \in 1..added
    <3>1. PICK to \in {"judging", "downloading", "archiving", "skipping"} :
            proc' = [proc EXCEPT ![p].pc = to]
      BY <1>5 DEF Moving
    <3>2. QED
      BY <2>1, <3>1 DEF TypeOK
  <2>4. indexed' \in BOOLEAN /\ UNCHANGED <<scheduled, cur, added, overlapped, faults>>
    BY <1>5 DEF Moving, TypeOK
  <2>5. QED
    BY <2>2, <2>3, <2>4, Zenon DEF TypeOK
<1>6. ASSUME NEW p \in Proc, JudgeDone(p) PROVE TypeOK'
  <2>1. proc[p].id = cur /\ cur \in Id
    BY <1>6 DEF JudgeDone, TypeOK, NoRow, Id
  <2>2. QED
    BY <1>6, <2>1 DEF JudgeDone, Rest, Resting, TypeOK
<1>7. ASSUME NEW p \in Proc, JudgeFailed(p) PROVE TypeOK'
  <2>1. proc[p].id \in 1..added
    BY <1>7 DEF JudgeFailed, TypeOK
  <2>2. row[proc[p].id].count + 1 \in Nat
    BY <2>1 DEF TypeOK, Id
  <2>3. QED
    BY <1>7, <2>1, <2>2 DEF JudgeFailed, TypeOK
<1>8. ASSUME NEW p \in Proc, CountFailure(p) \/ CountException(p) PROVE TypeOK'
  <2>1. /\ row' \in [Id -> [st : RowStatus, count : Nat]]
        /\ \A i \in Id : i # cur => row'[i] = NoRow
    BY <1>8, ChargeRow DEF CountFailure, CountException
  <2>2. UNCHANGED <<scheduled, cur, added, indexed, overlapped, faults>>
    BY <1>8 DEF CountFailure, CountException
  <2>3. /\ proc' \in [Proc -> [pc : States, id : 0..MaxRows, count : Nat]]
        /\ \A q \in Proc : proc'[q].pc # "idle" => proc'[q].id \in 1..added
    BY <1>8 DEF CountFailure, CountException, Rest, Resting, TypeOK
  <2>4. QED
    BY <2>1, <2>2, <2>3 DEF TypeOK
<1>9. ASSUME NEW p \in Proc, Abandon(p) \/ AbandonTerminal(p) PROVE TypeOK'
  <2>1. proc[p].id \in 1..added /\ proc[p].count \in Nat /\ MaxRetries \in Nat
    BY <1>9 DEF Abandon, AbandonTerminal, TypeOK
  <2>2. /\ row' \in [Id -> [st : RowStatus, count : Nat]]
        /\ \A i \in Id : i # cur => row'[i] = NoRow
    BY <1>9, <2>1, GiveUpRow DEF Abandon, AbandonTerminal
  <2>3. /\ proc' \in [Proc -> [pc : States, id : 0..MaxRows, count : Nat]]
        /\ \A q \in Proc : proc'[q].pc # "idle" => proc'[q].id \in 1..added
    BY <1>9 DEF Abandon, AbandonTerminal, Rest, Resting, TypeOK
  <2>4. UNCHANGED <<scheduled, cur, added, indexed, overlapped, faults>>
    BY <1>9 DEF Abandon, AbandonTerminal
  <2>5. QED
    BY <2>2, <2>3, <2>4 DEF TypeOK
<1>10. ASSUME NEW p \in Proc, RecordRaises(p) \/ Abort(p) \/ Crash(p) PROVE TypeOK'
  <2>1. /\ scheduled' \subseteq Proc /\ faults' \in Nat
        /\ UNCHANGED <<row, cur, added, indexed, overlapped>>
    BY <1>10 DEF RecordRaises, Abort, Crash, Fault, TypeOK
  <2>2. /\ proc' \in [Proc -> [pc : States, id : 0..MaxRows, count : Nat]]
        /\ \A q \in Proc : proc'[q].pc # "idle" => proc'[q].id \in 1..added
    BY <1>10 DEF RecordRaises, Abort, Crash, Rest, Resting, TypeOK
  <2>3. QED
    BY <2>1, <2>2 DEF TypeOK
<1>11. ASSUME NEW p \in Proc, Schedule(p) \/ Unschedule(p) PROVE TypeOK'
  BY <1>11 DEF Schedule, Unschedule, TypeOK
<1>12. CASE UNCHANGED vars
  BY <1>12 DEF vars, TypeOK
<1>13. QED
  BY <1>1, <1>2, <1>3, <1>4, <1>5, <1>6, <1>7, <1>8, <1>9, <1>10, <1>11, <1>12, DownloadMoves
  DEF Next, ProcessOneRecord

-----------------------------------------------------------------------------
(* A processor that rests leaves the others, and they were resting.          *)
LEMMA RestIsQuiet ==
    ASSUME TypeOK, OneActive, NEW p \in Proc, Active(p), Rest(p)
    PROVE  \A q \in Proc : ~Active(q)' /\ proc'[q].pc \notin {"raised", "counting"}
  BY DEF TypeOK, OneActive, Active, Rest, Resting

LEMMA CleanAtRest ==
    ASSUME \A q \in Proc : ~Active(q)' /\ proc'[q].pc \notin {"raised", "counting"},
           cur' # 0 => row'[cur'].st # "none",
           cur' # 0 => ~Stranded(cur)'
    PROVE  Clean'
  BY DEF Clean, OneActive, NewRowIsFresh, CountIsCurrent

LEMMA CleanStep == IInv /\ TypeOK' /\ [Next]_vars /\ Undisturbed' => Clean'
<1> SUFFICES ASSUME IInv, TypeOK', [Next]_vars, Undisturbed' PROVE Clean'
  OBVIOUS
<1> USE FavoriteChainAssumption DEF IInv
<1>0. ASSUME Undisturbed PROVE Clean /\ OneActive
  BY <1>0 DEF Clean
<1>1. CASE AddFavorite
  <2>1. Clean
    BY <1>1, <1>0 DEF AddFavorite, Undisturbed
  <2>2. /\ cur' = added + 1 /\ cur' # 0 /\ cur' \in Id
        /\ row'[cur'] = [st |-> "pending", count |-> 0] /\ UNCHANGED proc
    BY <1>1 DEF AddFavorite, TypeOK, Id
  <2>3. \A p \in Proc : Active(p) => proc[p].id # cur'
    BY <2>2 DEF TypeOK, Active
  <2>4. ~Stranded(cur)'
    BY <2>2 DEF Stranded, Retryable
  <2>5. QED
    BY <2>1, <2>2, <2>3, <2>4
    DEF Clean, OneActive, Active, NewRowIsFresh, CountIsCurrent
<1>2. CASE AddFavoriteUnqueued
  BY <1>2 DEF AddFavoriteUnqueued, Fault, Undisturbed, TypeOK
<1>3. CASE RemoveFavorite
  <2>1. Clean /\ cur' = 0 /\ UNCHANGED proc
    BY <1>3, <1>0 DEF RemoveFavorite, Undisturbed
  <2>2. \A p \in Proc : proc[p].pc = "counting" => proc[p].id # 0
    BY DEF TypeOK
  <2>3. QED
    BY <2>1, <2>2 DEF Clean, OneActive, Active, NewRowIsFresh, CountIsCurrent
<1>4. ASSUME NEW p \in Proc, Select(p) PROVE Clean'
  <2>1. /\ Clean /\ UNCHANGED <<row, cur>> /\ cur # 0
        /\ \A q \in Proc \ {p} : proc[q].pc = "idle"
    BY <1>4, <1>0 DEF Select, Undisturbed
  <2>2. /\ proc'[p].pc = "selected" /\ proc'[p].id = cur
        /\ \A q \in Proc \ {p} : proc'[q].pc = "idle"
    BY <1>4, <2>1 DEF Select, TypeOK
  <2>3. Busy(cur)'
    BY <2>1, <2>2 DEF Busy
  <2>4. QED
    BY <2>1, <2>2, <2>3
    DEF Clean, OneActive, Active, NewRowIsFresh, CountIsCurrent
<1>5. ASSUME NEW p \in Proc, Moving(p) PROVE Clean'
  <2>1. /\ Clean /\ Active(p) /\ proc[p].id \in 1..added
        /\ UNCHANGED cur
    BY <1>5, <1>0 DEF Moving, Undisturbed, Active, TypeOK
  <2>2. \A q \in Proc \ {p} : ~Active(q) /\ proc'[q] = proc[q]
    BY <1>5, <2>1 DEF Clean, OneActive, Moving, TypeOK
  <2>3. /\ proc'[p].id = proc[p].id
        /\ proc'[p].pc \in {"judging", "downloading", "archiving", "skipping"}
    BY <1>5 DEF Moving, TypeOK
  <2>4. /\ \A j \in Id : row'[j].st = "none" <=> row[j].st = "none"
        /\ proc[p].id # cur => row' = row
    <3>1. CASE UNCHANGED row
      BY <3>1
    <3>2. CASE \E st \in RowStatus \ {"none"} : Mark(proc[p].id, st)
      BY <2>1, <3>2, MarkRow
    <3>3. QED
      BY <1>5, <3>1, <3>2 DEF Moving
  <2>5. cur # 0 => cur \in Id
    BY DEF TypeOK, Id
  <2>6. NewRowIsFresh(p)'
    BY <1>5, <2>1, <2>3, <2>4 DEF Clean, NewRowIsFresh, Active, Moving
  <2>7. Busy(cur)' \/ row' = row
    BY <2>1, <2>3, <2>4 DEF Busy
  <2>8. cur # 0 /\ Stranded(cur)' => Busy(cur)'
    <3>1. CASE proc[p].id = cur
      BY <2>1, <2>3, <3>1 DEF Busy
    <3>2. CASE proc[p].id # cur
      <4>1. cur # 0 => ~Busy(cur)
        BY <2>1, <2>2, <3>2 DEF Busy, Active
      <4>2. row' = row /\ cur' = cur
        BY <2>1, <2>4, <3>2
      <4>3. QED
        BY <2>1, <4>1, <4>2 DEF Clean, Stranded, Retryable
    <3>3. QED
      BY <3>1, <3>2
  <2>9. OneActive'
    BY <2>2 DEF OneActive, Active
  <2>10. \A q \in Proc : proc'[q].pc # "raised" /\ NewRowIsFresh(q)' /\ CountIsCurrent(q)'
    BY <2>1, <2>2, <2>3, <2>6 DEF Clean, NewRowIsFresh, CountIsCurrent, Active
  <2>11. QED
    BY <2>1, <2>4, <2>5, <2>8, <2>9, <2>10 DEF Clean
<1>6. ASSUME NEW p \in Proc, JudgeDone(p) PROVE Clean'
  <2>1. Clean /\ Active(p) /\ Rest(p) /\ UNCHANGED cur
    BY <1>6, <1>0 DEF JudgeDone, Undisturbed, Active
  <2>2. proc[p].id = cur /\ cur \in Id
    BY <1>6 DEF JudgeDone, TypeOK, NoRow, Id
  <2>3. row'[cur].st = "done"
    BY <1>6, <2>2 DEF JudgeDone, TypeOK
  <2>4. QED
    BY <2>1, <2>3, RestIsQuiet, CleanAtRest DEF Clean, Stranded
<1>7. ASSUME NEW p \in Proc, JudgeFailed(p) PROVE Clean'
  <2>1. /\ Clean /\ Active(p) /\ proc[p].id \in 1..added
        /\ UNCHANGED <<row, cur>>
    BY <1>7, <1>0 DEF JudgeFailed, Undisturbed, Active, TypeOK
  <2>2. \A q \in Proc \ {p} : ~Active(q) /\ proc'[q] = proc[q]
    BY <1>7, <2>1 DEF Clean, OneActive, JudgeFailed, TypeOK
  <2>3. /\ proc'[p].id = proc[p].id /\ proc'[p].pc = "counting"
        /\ proc'[p].count = row[proc[p].id].count + 1
    BY <1>7 DEF JudgeFailed, TypeOK
  <2>4. NewRowIsFresh(p)' /\ CountIsCurrent(p)'
    BY <1>7, <2>1, <2>3 DEF Clean, NewRowIsFresh, CountIsCurrent, Active, JudgeFailed
  <2>5. OneActive'
    BY <2>2 DEF OneActive, Active
  <2>6. cur # 0 /\ Stranded(cur)' => Busy(cur)'
    <3>1. ASSUME Busy(cur) PROVE Busy(cur)'
      BY <2>1, <2>2, <2>3, <3>1 DEF Busy, Active
    <3>2. QED
      BY <2>1, <3>1 DEF Clean, Stranded, Retryable
  <2>7. \A q \in Proc : proc'[q].pc # "raised" /\ NewRowIsFresh(q)' /\ CountIsCurrent(q)'
    BY <2>1, <2>2, <2>3, <2>4 DEF Clean, NewRowIsFresh, CountIsCurrent, Active
  <2>8. QED
    BY <2>1, <2>5, <2>6, <2>7 DEF Clean
<1>8. ASSUME NEW p \in Proc, CountFailure(p) PROVE Clean'
  <2>1. /\ Clean /\ Active(p) /\ Charge /\ UNCHANGED cur
        /\ proc[p].id \in 1..added /\ proc[p].pc = "counting"
        /\ proc[p].count \in Nat
    BY <1>8, <1>0 DEF CountFailure, Undisturbed, Active, TypeOK
  <2>2. cur # 0 => /\ cur \in Id
                   /\ row[cur].count \in Nat
                   /\ row[cur].st # "none"
                   /\ row'[cur] = [st |-> "failed", count |-> row[cur].count + 1]
    <3>1. cur # 0 => cur \in Id /\ row[cur].st # "none"
      BY <2>1 DEF Clean, TypeOK, Id
    <3>2. cur # 0 => row[cur].count \in Nat
      BY <3>1 DEF TypeOK
    <3>3. QED
      BY <2>1, <3>1, <3>2, ChargeRow
  <2>3. cur # 0 => row[cur].count = (IF proc[p].id = cur THEN proc[p].count - 1 ELSE 0)
    BY <2>1, <2>2 DEF Clean, NewRowIsFresh, CountIsCurrent, Active
  <2>4. CASE proc[p].count >= MaxRetries
    <3>1. /\ proc' = [proc EXCEPT ![p].pc = "abandoning"]
      BY <1>8, <2>4 DEF CountFailure
    <3>2. /\ proc'[p].pc = "abandoning" /\ proc'[p].id = proc[p].id
          /\ \A q \in Proc \ {p} : ~Active(q) /\ proc'[q] = proc[q]
      BY <2>1, <3>1 DEF TypeOK, Clean, OneActive
    <3>3. NewRowIsFresh(p)'
      BY <2>1, <2>2, <2>3, <3>2 DEF NewRowIsFresh
    <3>4. cur # 0 /\ Stranded(cur)' => Busy(cur)'
      <4>1. CASE proc[p].id = cur
        BY <2>1, <3>2, <4>1 DEF Busy
      <4>2. CASE proc[p].id # cur
        BY <2>1, <2>2, <2>3, <4>2 DEF Stranded, Retryable
      <4>3. QED
        BY <4>1, <4>2
    <3>5. OneActive'
      BY <3>2 DEF OneActive, Active
    <3>6. \A q \in Proc : proc'[q].pc # "raised" /\ NewRowIsFresh(q)' /\ CountIsCurrent(q)'
      BY <2>1, <3>2, <3>3 DEF Clean, NewRowIsFresh, CountIsCurrent, Active
    <3>7. QED
      BY <2>1, <2>2, <3>4, <3>5, <3>6 DEF Clean
  <2>5. CASE proc[p].count < MaxRetries
    <3>1. Rest(p)
      BY <1>8, <2>1, <2>5 DEF CountFailure
    <3>2. cur # 0 => Retryable(cur)'
      BY <2>1, <2>2, <2>3, <2>5 DEF Retryable
    <3>3. QED
      BY <2>1, <2>2, <3>1, <3>2, RestIsQuiet, CleanAtRest DEF Clean, Stranded
  <2>6. QED
    BY <2>1, <2>4, <2>5
<1>9. ASSUME NEW p \in Proc, Abandon(p) \/ AbandonTerminal(p) PROVE Clean'
  <2>1. /\ Clean /\ Active(p) /\ Rest(p) /\ UNCHANGED cur
        /\ proc[p].id \in 1..added /\ proc[p].count \in Nat /\ MaxRetries \in Nat
    BY <1>9, <1>0 DEF Abandon, AbandonTerminal, Undisturbed, Active, TypeOK
  <2>2. /\ \A j \in Id : row'[j].st = "none" <=> row[j].st = "none"
        /\ proc[p].id # cur => row' = row
        /\ proc[p].id = cur /\ row[cur].st # "none" => row'[cur].st = "abandoned"
    BY <1>9, <2>1, GiveUpRow DEF Abandon, AbandonTerminal
  <2>3. cur # 0 => cur \in Id /\ row[cur].count \in Nat
    BY DEF TypeOK, Id
  <2>4. cur # 0 => ~Stranded(cur)'
    <3>1. CASE proc[p].id = cur
      BY <2>1, <2>2, <3>1 DEF Clean, Stranded
    <3>2. CASE proc[p].id # cur
      BY <2>1, <2>2, <2>3, <3>2 DEF Clean, NewRowIsFresh, Stranded, Retryable
    <3>3. QED
      BY <3>1, <3>2
  <2>5. QED
    BY <2>1, <2>2, <2>3, <2>4, RestIsQuiet, CleanAtRest DEF Clean
<1>10. ASSUME NEW p \in Proc, RecordRaises(p) \/ Abort(p) \/ Crash(p) PROVE Clean'
  BY <1>10 DEF RecordRaises, Abort, Crash, Fault, Undisturbed, TypeOK
<1>11. ASSUME NEW p \in Proc, CountException(p) PROVE FALSE
  BY <1>11, <1>0 DEF CountException, Undisturbed, Clean
<1>12. CASE UNCHANGED vars \/ \E p \in Proc : Schedule(p) \/ Unschedule(p)
  <2>1. UNCHANGED <<row, cur, proc, overlapped, faults>>
    BY <1>12 DEF vars, Schedule, Unschedule
  <2>2. Clean
    BY <2>1, <1>0 DEF Undisturbed
  <2>3. QED
    BY <2>1, <2>2 DEF Clean, OneActive, Active, NewRowIsFresh, CountIsCurrent,
       Stranded, Retryable, Busy
<1>13. QED
  BY <1>1, <1>2, <1>3, <1>4, <1>5, <1>6, <1>7, <1>8, <1>9, <1>10, <1>11, <1>12,
     DownloadMoves
  DEF Next, ProcessOneRecord

LEMMA IInvStep == IInv /\ [Next]_vars => IInv'
  BY TypeStep, CleanStep DEF IInv

-----------------------------------------------------------------------------
(* Every variable keeps its type; in particular only the present favourite   *)
(* has a row, and a processor works on a row that was made.                  *)
THEOREM TypeCorrect == Spec => []TypeOK
<1>1. IInv => TypeOK
  BY DEF IInv
<1>2. QED
  BY <1>1, InitIInv, IInvStep, PTL DEF Spec

(* Without faults and overlapping schedulers the job strands no favourite:   *)
(* the last attempt of a row is followed by abandoning it, and an attempt    *)
(* charged to a row that replaced its own does not use that one up.          *)
THEOREM NothingStrands == Spec => []OnlyFaultsStrand
<1>1. IInv => OnlyFaultsStrand
  BY DEF IInv, Undisturbed, Clean, OnlyFaultsStrand
<1>2. QED
  BY <1>1, InitIInv, IInvStep, PTL DEF Spec
=============================================================================
