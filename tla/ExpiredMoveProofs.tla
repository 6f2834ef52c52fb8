--------------------------- MODULE ExpiredMoveProofs ---------------------------
(***************************************************************************)
(* What the moves, rollbacks and repairs of ExpiredMove keep, for any      *)
(* number of files, taken names, processes and faults: the status is never *)
(* ahead of the files, even when rounds overlap; no file is lost as long   *)
(* as they do not; and the rows name the files as long as nothing fails    *)
(* either.                                                                 *)
(***************************************************************************)
EXTENDS ExpiredMove, TLAPS

MovingStates == {"moving", "copied", "replaced", "busy"}

Working(p, f) == run[p].pc \in {"copied", "replaced", "busy"} /\ run[p].cur = f

(* A round takes its copies to other names than the old one, and comes to    *)
(* writing the status only by moving or leaving out every file.              *)
RoundInv(p) ==
    /\ run[p].slot \in {"dst"} \cup Alt
    /\ run[p].pc \in MovingStates \cup {"rollback", "indexing"} => run[p].mv
    /\ run[p].pc \in {"idle", "writing"} => run[p].moved = {}
    /\ run[p].pc \in MovingStates =>
         \/ run[p].failed
         \/ \A f \in File : index[f] = "home" =>
              f \in run[p].todo \cup run[p].moved \/ Working(p, f)
    /\ run[p].pc = "indexing" =>
         \A f \in File : index[f] = "home" => f \in run[p].moved
    /\ run[p].pc = "writing" /\ run[p].mv => \A f \in File : index[f] # "home"

RoundCovers == \A p \in Proc : RoundInv(p)

SettledCovers == settled => \A f \in File : index[f] # "home"

(* A file is moved once: by one process, from a path that is empty then, and *)
(* not again once its row says so.                                           *)
MovedOnce ==
    /\ \A p \in Proc : \A f \in run[p].moved :
         /\ disk[f]["home"] = Nothing
         /\ \A q \in Proc : f \in run[q].moved => q = p
    /\ \A f \in File : index[f] = "dst" =>
         /\ disk[f]["home"] # f
         /\ f \notin Taken => /\ disk[f]["home"] = Nothing
                              /\ \A p \in Proc : f \notin run[p].moved

(* A file whose name is taken never comes under that name, so that a         *)
(* rollback does not bring it home.                                          *)
TakenAway(f) ==
    /\ disk[f]["dst"] # f
    /\ disk[f]["home"] = f => disk[f]["dst"] # Nothing
    /\ \A p \in Proc : Working(p, f) /\ run[p].slot = "dst" =>
         run[p].data # f /\ disk[f]["home"] # f

TakenStaysAway == \A f \in Taken : TakenAway(f)

MInv == TypeOK /\ RoundCovers /\ SettledCovers /\ MovedOnce /\ TakenStaysAway

(* Alone, a mover has the copy it makes beside what it copied.               *)
OneMover == \A p, q \in Proc : Moving(p) /\ Moving(q) => p = q

CopyAt(p) ==
    LET f == run[p].cur
    IN  run[p].pc \in {"copied", "replaced", "busy"} =>
          /\ run[p].data # Nothing
          /\ disk[f]["home"] = run[p].data
          /\ disk[f][run[p].slot] = IF run[p].pc = "copied" THEN Nothing ELSE run[p].data

BinInv == \A f \in File : disk[f]["top"] # Nothing => disk[f]["bin"] = Nothing

Survives == \A f \in File : Somewhere(f, f) /\ (f \in Taken => Somewhere(Other, f))

SInv == BinInv /\ (~contended => OneMover /\ Survives /\ \A p \in Proc : CopyAt(p))

(* A file whose name is free is moved there, and found by its row.           *)
FreeName(f) ==
    /\ \A q \in Place : disk[f][q] \in {f, Nothing}
    /\ \A p \in Proc : /\ Working(p, f) => run[p].slot = "dst" /\ run[p].data = f
                       /\ f \in run[p].moved => disk[f]["dst"] = f
    /\ index[f] = "top" => disk[f]["top"] = f
    /\ \/ disk[f][index[f]] = f
       \/ disk[f]["top"] = f
       \/ \E p \in Proc : f \in run[p].moved

NInv == faults = 0 /\ ~contended => \A f \in File \ Taken : FreeName(f)

IInv == MInv /\ SInv /\ NInv

-----------------------------------------------------------------------------
LEMMA InitialPaths ==
    ASSUME NEW f \in File, NEW d \in InitialDisk(f)
    PROVE  /\ d \in [Place -> Content]
           /\ d["top"] \in {f, Nothing} /\ d["bin"] = Nothing
           /\ f \in Taken => d["home"] = f /\ d["dst"] = Other
           /\ f \notin Taken => /\ \A q \in Place : d[q] \in {f, Nothing}
                                /\ d["home"] = f \/ d["top"] = f
<1> DEFINE Paths(home, dst, top) ==
             [q \in Place |-> CASE q = "home" -> home [] q = "dst" -> dst
                                [] q = "top" -> top [] OTHER -> Nothing]
<1>1. ASSUME NEW h \in Content, NEW e \in Content, NEW t \in Content
      PROVE  /\ Paths(h, e, t) \in [Place -> Content]
             /\ Paths(h, e, t)["home"] = h /\ Paths(h, e, t)["dst"] = e
             /\ Paths(h, e, t)["top"] = t /\ Paths(h, e, t)["bin"] = Nothing
             /\ \A q \in Place : Paths(h, e, t)[q] \in {h, e, t, Nothing}
  BY DEF Place, Content
<1>2. f \in Content /\ Other \in Content /\ Nothing \in Content
  BY DEF Content
<1> HIDE DEF Paths
<1>3. CASE f \in Taken
  <2>1. d = Paths(f, Other, Nothing)
    BY <1>3 DEF InitialDisk, Paths
  <2>2. QED
    BY <1>1, <1>2, <1>3, <2>1
<1>4. CASE f \notin Taken
  <2>1. d \in {Paths(f, Nothing, Nothing), Paths(f, Nothing, f), Paths(Nothing, Nothing, f)}
    BY <1>4 DEF InitialDisk, Paths
  <2>2. CASE d = Paths(f, Nothing, Nothing)
    BY <1>1, <1>2, <1>4, <2>2
  <2>3. CASE d = Paths(f, Nothing, f)
    BY <1>1, <1>2, <1>4, <2>3
  <2>4. CASE d = Paths(Nothing, Nothing, f)
    BY <1>1, <1>2, <1>4, <2>4
  <2>5. QED
    BY <2>1, <2>2, <2>3, <2>4
<1>5. QED
  BY <1>3, <1>4

LEMMA InitDisk ==
    ASSUME Init PROVE disk \in [File -> [Place -> Content]] /\ \A f \in File : disk[f] \in InitialDisk(f)
<1>1. \A f \in File : disk[f] \in InitialDisk(f)
  BY DEF Init
<1>2. disk = [f \in File |-> disk[f]]
  BY DEF Init
<1>3. \A f \in File : disk[f] \in [Place -> Content]
  BY <1>1, InitialPaths
<1>4. QED
  BY <1>1, <1>2, <1>3

LEMMA InitTypeOK == Init => TypeOK
<1> SUFFICES ASSUME Init PROVE TypeOK
  OBVIOUS
<1>1. Idle \in RunState
  BY DEF Idle, RunState, Status, Content, Place
<1>2. run \in [Proc -> RunState] /\ \A p \in Proc : run[p].pc = "idle"
  BY <1>1 DEF Init, Idle
<1>3. index \in [File -> {"home", "dst", "top"}] /\ status \in Status
  BY DEF Init, Status
<1>4. settled \in BOOLEAN /\ contended \in BOOLEAN /\ faults \in Nat
  BY DEF Init
<1>5. QED
  BY <1>2, <1>3, <1>4, InitDisk DEF TypeOK

-----------------------------------------------------------------------------
(* What the operations on the disk change.                                   *)
LEMMA PutAt ==
    ASSUME TypeOK, NEW f \in File, NEW q \in Place, NEW c \in Content, Put(f, q, c)
    PROVE  /\ disk' \in [File -> [Place -> Content]]
           /\ disk'[f][q] = c
           /\ \A r \in Place \ {q} : disk'[f][r] = disk[f][r]
           /\ \A g \in File \ {f} : disk'[g] = disk[g]
<1> DEFINE d == [disk[f] EXCEPT ![q] = c]
<1>1. disk[f] \in [Place -> Content]
  BY DEF TypeOK
<1>2. d \in [Place -> Content] /\ d[q] = c /\ \A r \in Place \ {q} : d[r] = disk[f][r]
  BY <1>1
<1>3. disk' = [disk EXCEPT ![f] = d]
  BY DEF Put
<1> HIDE DEF d
<1>4. QED
  BY <1>2, <1>3 DEF TypeOK

LEMMA RollbackAt ==
    ASSUME TypeOK, NEW p \in Proc, NEW f \in File, RollbackMove(p, f)
    PROVE  \/ UNCHANGED disk
           \/ /\ disk' \in [File -> [Place -> Content]]
              /\ disk[f]["home"] = Nothing /\ disk[f]["dst"] # Nothing
              /\ disk'[f]["home"] = disk[f]["dst"] /\ disk'[f]["dst"] = Nothing
              /\ \A r \in Place \ {"home", "dst"} : disk'[f][r] = disk[f][r]
              /\ \A g \in File \ {f} : disk'[g] = disk[g]
<1> DEFINE d == [disk[f] EXCEPT !["home"] = disk[f]["dst"], !["dst"] = Nothing]
<1>1. disk[f] \in [Place -> Content] /\ {"home", "dst"} \subseteq Place /\ Nothing \in Content
  BY DEF TypeOK, Place, Content
<1>2. /\ d \in [Place -> Content] /\ d["home"] = disk[f]["dst"] /\ d["dst"] = Nothing
      /\ \A r \in Place \ {"home", "dst"} : d[r] = disk[f][r]
  BY <1>1
<1>3. CASE disk[f]["dst"] # Nothing /\ disk[f]["home"] = Nothing
  <2>1. disk' = [disk EXCEPT ![f] = d]
    BY <1>3 DEF RollbackMove
  <2> HIDE DEF d
  <2>2. QED
    BY <1>2, <1>3, <2>1 DEF TypeOK
<1>4. QED
  BY <1>3 DEF RollbackMove

(* The repair touches the common folder and the bin.                         *)
LEMMA ReconcileAt ==
    ASSUME TypeOK, NEW p \in Proc, Reconcile(p)
    PROVE  /\ disk' \in [File -> [Place -> Content]]
           /\ index' \in [File -> {"home", "dst", "top"}]
           /\ \A f \in File :
                /\ \A r \in Place \ {"top", "bin"} : disk'[f][r] = disk[f][r]
                /\ \/ disk'[f] = disk[f]
                   \/ /\ disk[f]["top"] # Nothing /\ index'[f] # "top"
                      /\ disk'[f]["bin"] = disk[f]["top"] /\ disk'[f]["top"] = Nothing
                /\ \/ index'[f] = index[f]
                   \/ index'[f] = "top" /\ disk[f]["top"] # Nothing
                      /\ disk[f][index[f]] = Nothing
                /\ index'[f] = "top" => disk'[f] = disk[f]
                /\ disk[f]["top"] = Nothing => disk'[f] = disk[f]
<1>1. index' \in [File -> {"home", "dst", "top"}]
  BY DEF Reconcile, TypeOK
<1>2. ASSUME NEW f \in File
      PROVE  \/ index'[f] = index[f]
             \/ index'[f] = "top" /\ disk[f]["top"] # Nothing /\ disk[f][index[f]] = Nothing
  BY DEF Reconcile, TypeOK
<1>3. ASSUME NEW f \in File
      PROVE  /\ disk'[f] \in [Place -> Content]
             /\ \A r \in Place \ {"top", "bin"} : disk'[f][r] = disk[f][r]
             /\ \/ disk'[f] = disk[f]
                \/ /\ disk[f]["top"] # Nothing /\ index'[f] # "top"
                   /\ disk'[f]["bin"] = disk[f]["top"] /\ disk'[f]["top"] = Nothing
             /\ index'[f] = "top" => disk'[f] = disk[f]
             /\ disk[f]["top"] = Nothing => disk'[f] = disk[f]
  <2> DEFINE d == [disk[f] EXCEPT !["bin"] = disk[f]["top"], !["top"] = Nothing]
  <2>1. disk[f] \in [Place -> Content] /\ {"top", "bin"} \subseteq Place /\ Nothing \in Content
    BY DEF TypeOK, Place, Content
  <2>2. /\ d \in [Place -> Content] /\ d["bin"] = disk[f]["top"] /\ d["top"] = Nothing
        /\ \A r \in Place \ {"top", "bin"} : d[r] = disk[f][r]
    BY <2>1
  <2>3. disk'[f] = IF index'[f] # "top" /\ disk[f]["top"] # Nothing THEN d ELSE disk[f]
    BY DEF Reconcile
  <2> HIDE DEF d
  <2>4. QED
    BY <2>1, <2>2, <2>3
<1>4. disk' = [f \in File |-> disk'[f]]
  BY DEF Reconcile
<1>5. QED
  BY <1>1, <1>2, <1>3, <1>4

(* What one step of a process leaves alone.                                  *)
Step(p) ==
    \/ \E new \in Status, mv \in BOOLEAN : Begin(p, new, mv)
    \/ \E f \in File : CopyFile(p, f) \/ NotMoved(p, f)
    \/ CopyFails(p) \/ Replace(p) \/ RemoveSource(p)
    \/ SourceBusy(p) \/ WithdrawCopy(p) \/ WithdrawFails(p) \/ AllVisited(p)
    \/ \E f \in File : RollbackMove(p, f) \/ RollbackFails(p, f)
    \/ GiveUp(p)
    \/ \E f \in File : UpdateIndex(p, f)
    \/ UpdateIndexRaises(p) \/ AllIndexed(p) \/ WriteStatus(p)
    \/ Crash(p) \/ Reconcile(p)

-----------------------------------------------------------------------------
(* Type correctness, one lemma for the rounds and one for everything else.   *)
LEMMA RunUpdate ==
    ASSUME TypeOK, NEW p \in Proc, NEW r \in RunState,
           r.pc \in {"copied", "replaced", "busy"} => r.cur \in File,
           run' = [run EXCEPT ![p] = r]
    PROVE  /\ run' \in [Proc -> RunState]
           /\ run'[p].pc \in {"copied", "replaced", "busy"} => run'[p].cur \in File
           /\ \A q \in Proc \ {p} : run'[q] = run[q]
  BY DEF TypeOK

LEMMA RunTypes ==
    ASSUME TypeOK, NEW p \in Proc, Step(p)
    PROVE  /\ run' \in [Proc -> RunState]
           /\ run'[p].pc \in {"copied", "replaced", "busy"} => run'[p].cur \in File
           /\ \A q \in Proc \ {p} : run'[q] = run[q]
<1> DEFINE Goal == /\ run' \in [Proc -> RunState]
                   /\ run'[p].pc \in {"copied", "replaced", "busy"} => run'[p].cur \in File
                   /\ \A q \in Proc \ {p} : run'[q] = run[q]
<1> USE DEF TypeOK, RunState
<1>0. Idle \in RunState /\ Idle.pc = "idle"
  BY DEF Idle, Status, Content, Place
<1>1. ASSUME NEW new \in Status, NEW mv \in BOOLEAN, Begin(p, new, mv) PROVE Goal
  BY <1>1 DEF Begin, Idle, Status, Content, Place
<1>2. ASSUME NEW f \in File, CopyFile(p, f) PROVE Goal
  <2>1. PICK s \in Slot(f) :
          run' = [run EXCEPT ![p].pc = "copied", ![p].cur = f, ![p].slot = s,
                             ![p].data = disk[f]["home"], ![p].todo = @ \ {f}]
    BY <1>2 DEF CopyFile
  <2>2. s \in Place /\ disk[f]["home"] \in Content
    BY DEF Slot, Place
  <2> DEFINE r == [run[p] EXCEPT !.pc = "copied", !.cur = f, !.slot = s,
                                 !.data = disk[f]["home"], !.todo = @ \ {f}]
  <2>3. run' = [run EXCEPT ![p] = r]
    BY <2>1
  <2>4. r \in RunState /\ r.cur \in File
    BY <2>2
  <2> HIDE DEF r
  <2>5. QED
    BY <2>3, <2>4, RunUpdate
<1>3. ASSUME NEW f \in File, NotMoved(p, f) PROVE Goal
  BY <1>3 DEF NotMoved
<1>4. CASE CopyFails(p) \/ WithdrawCopy(p) \/ WithdrawFails(p)
  <2> DEFINE r == [run[p] EXCEPT !.pc = "moving", !.failed = TRUE]
  <2>1. run' = [run EXCEPT ![p] = r]
    BY <1>4 DEF CopyFails, WithdrawCopy, WithdrawFails
  <2>2. r \in RunState /\ r.pc = "moving"
    OBVIOUS
  <2> HIDE DEF r
  <2>3. QED
    BY <2>1, <2>2, RunUpdate
<1>5. CASE Replace(p) \/ SourceBusy(p)
  <2>1. PICK pc \in {"replaced", "busy"} : run' = [run EXCEPT ![p].pc = pc]
    BY <1>5 DEF Replace, SourceBusy, Go
  <2>2. run[p].cur \in File
    BY <1>5 DEF Replace, SourceBusy
  <2> DEFINE r == [run[p] EXCEPT !.pc = pc]
  <2>3. run' = [run EXCEPT ![p] = r]
    BY <2>1
  <2>4. r \in RunState /\ r.cur \in File
    BY <2>2
  <2> HIDE DEF r
  <2>5. QED
    BY <2>3, <2>4, RunUpdate
<1>6. CASE RemoveSource(p)
  <2> DEFINE f == run[p].cur
             gone == disk[f]["home"] = Nothing
             r == [run[p] EXCEPT !.pc = "moving",
                                 !.moved = IF gone THEN @ ELSE @ \cup {f},
                                 !.failed = @ \/ gone]
  <2>1. f \in File /\ run' = [run EXCEPT ![p] = r]
    BY <1>6 DEF RemoveSource
  <2>2. r \in RunState /\ r.pc = "moving"
    BY <2>1
  <2> HIDE DEF r
  <2>3. QED
    BY <2>1, <2>2, RunUpdate
<1>7. CASE AllVisited(p) \/ AllIndexed(p)
  <2>1. PICK pc \in {"rollback", "indexing", "writing"} : run' = [run EXCEPT ![p].pc = pc]
    BY <1>7 DEF AllVisited, AllIndexed, Go
  <2> DEFINE r == [run[p] EXCEPT !.pc = pc]
  <2>2. run' = [run EXCEPT ![p] = r]
    BY <2>1
  <2>3. r \in RunState /\ r.pc \notin {"copied", "replaced", "busy"}
    OBVIOUS
  <2> HIDE DEF r
  <2>4. QED
    BY <2>2, <2>3, RunUpdate
<1>8. ASSUME NEW f \in File, RollbackMove(p, f) \/ RollbackFails(p, f) \/ UpdateIndex(p, f)
      PROVE  Goal
  <2>1. run' = [run EXCEPT ![p].moved = @ \ {f}]
        /\ run[p].pc \in {"rollback", "indexing"}
    BY <1>8 DEF RollbackMove, RollbackFails, UpdateIndex
  <2>2. QED
    BY <2>1
<1>9. CASE GiveUp(p) \/ UpdateIndexRaises(p) \/ WriteStatus(p) \/ Crash(p)
  BY <1>0, <1>9 DEF GiveUp, UpdateIndexRaises, WriteStatus, Crash
<1>10. CASE Reconcile(p)
  BY <1>10 DEF Reconcile
<1>11. QED
  BY <1>1, <1>2, <1>3, <1>4, <1>5, <1>6, <1>7, <1>8, <1>9, <1>10 DEF Step

LEMMA StoreTypes ==
    ASSUME TypeOK, NEW p \in Proc, Step(p)
    PROVE  /\ disk' \in [File -> [Place -> Content]]
           /\ index' \in [File -> {"home", "dst", "top"}]
           /\ status' \in Status
           /\ settled' \in BOOLEAN /\ contended' \in BOOLEAN
           /\ faults' \in Nat
<1> DEFINE Rest == /\ index' \in [File -> {"home", "dst", "top"}]
                   /\ status' \in Status
                   /\ settled' \in BOOLEAN /\ contended' \in BOOLEAN
                   /\ faults' \in Nat
<1>1. CASE Replace(p)
  <2>1. run[p].cur \in File /\ run[p].slot \in Place /\ run[p].data \in Content
    BY <1>1 DEF Replace, TypeOK, RunState
  <2>2. Rest
    BY <1>1 DEF Replace, TypeOK
  <2>3. QED
    BY <1>1, <2>1, <2>2, PutAt DEF Replace
<1>2. CASE RemoveSource(p) \/ WithdrawCopy(p)
  <2>1. /\ run[p].cur \in File /\ run[p].slot \in Place
        /\ "home" \in Place /\ Nothing \in Content
    BY <1>2 DEF RemoveSource, WithdrawCopy, TypeOK, RunState, Place, Content
  <2>2. Rest
    BY <1>2 DEF RemoveSource, WithdrawCopy, TypeOK
  <2>3. QED
    BY <1>2, <2>1, <2>2, PutAt DEF RemoveSource, WithdrawCopy
<1>3. ASSUME NEW f \in File, RollbackMove(p, f)
      PROVE  disk' \in [File -> [Place -> Content]] /\ Rest
  <2>1. Rest
    BY <1>3 DEF RollbackMove, TypeOK
  <2>2. QED
    BY <1>3, <2>1, RollbackAt DEF TypeOK
<1>4. CASE Reconcile(p)
  <2>1. UNCHANGED <<status, settled, contended, faults>>
    BY <1>4 DEF Reconcile
  <2>2. QED
    BY <1>4, <2>1, ReconcileAt DEF TypeOK
<1>5. ASSUME NEW f \in File,
             UpdateIndex(p, f) \/ CopyFile(p, f) \/ NotMoved(p, f) \/ RollbackFails(p, f)
      PROVE  disk' \in [File -> [Place -> Content]] /\ Rest
  <2>1. CASE UpdateIndex(p, f)
    BY <2>1 DEF UpdateIndex, TypeOK
  <2>2. CASE CopyFile(p, f) \/ NotMoved(p, f)
    <3>1. UNCHANGED <<disk, index, status, settled, contended, faults>>
      BY <2>2 DEF CopyFile, NotMoved
    <3>2. QED
      BY <3>1 DEF TypeOK
  <2>3. CASE RollbackFails(p, f)
    BY <2>3 DEF RollbackFails, Fault, TypeOK
  <2>4. QED
    BY <1>5, <2>1, <2>2, <2>3
<1>6. CASE WriteStatus(p)
  <2>1. UNCHANGED <<disk, index, contended, faults>>
    BY <1>6 DEF WriteStatus
  <2>2. status' \in Status
    BY <1>6 DEF WriteStatus, TypeOK, RunState
  <2>3. settled' \in BOOLEAN
    <3>1. CASE run[p].mv
      BY <1>6, <3>1 DEF WriteStatus
    <3>2. CASE ~run[p].mv
      BY <1>6, <3>2 DEF WriteStatus
    <3>3. QED
      BY <3>1, <3>2
  <2>4. QED
    BY <2>1, <2>2, <2>3 DEF TypeOK
<1>7. ASSUME NEW new \in Status, NEW mv \in BOOLEAN, Begin(p, new, mv)
      PROVE  disk' \in [File -> [Place -> Content]] /\ Rest
  BY <1>7 DEF Begin, TypeOK
<1>8. CASE CopyFails(p) \/ SourceBusy(p) \/ WithdrawFails(p) \/ UpdateIndexRaises(p)
             \/ Crash(p)
  BY <1>8 DEF CopyFails, SourceBusy, WithdrawFails, UpdateIndexRaises, Crash, Fault, TypeOK
<1>9. CASE AllVisited(p) \/ GiveUp(p) \/ AllIndexed(p)
  <2>1. UNCHANGED <<disk, index, status, settled, contended, faults>>
    BY <1>9 DEF AllVisited, GiveUp, AllIndexed
  <2>2. QED
    BY <2>1 DEF TypeOK
<1>10. QED
  BY <1>1, <1>2, <1>3, <1>4, <1>5, <1>6, <1>7, <1>8, <1>9, Zenon DEF Step

LEMMA TypeStep == ASSUME TypeOK, NEW p \in Proc, Step(p) PROVE TypeOK'
<1>1. \A q \in Proc : run'[q].pc \in {"copied", "replaced", "busy"} => run'[q].cur \in File
  BY RunTypes DEF TypeOK
<1>2. QED
  BY <1>1, RunTypes, StoreTypes, Zenon DEF TypeOK

-----------------------------------------------------------------------------
(* What a step does to the round of its process.                             *)
LEMMA AfterBegin ==
    ASSUME TypeOK, NEW p \in Proc, NEW new \in Status, NEW mv \in BOOLEAN, Begin(p, new, mv)
    PROVE  /\ run'[p].mv = mv /\ run'[p].moved = {} /\ run'[p].slot = "dst"
           /\ run'[p].pc = (IF mv THEN "moving" ELSE "writing")
           /\ mv => run'[p].todo = {f \in File : index[f] = "home"}
           /\ run[p].pc = "idle"
           /\ UNCHANGED <<disk, index, settled, faults>>
  BY DEF TypeOK, Begin, Idle

LEMMA AfterCopy ==
    ASSUME TypeOK, NEW p \in Proc, NEW f \in File, CopyFile(p, f)
    PROVE  /\ run[p].pc = "moving"
           /\ run'[p].pc = "copied" /\ run'[p].cur = f /\ run'[p].slot \in Slot(f)
           /\ run'[p].data = disk[f]["home"] /\ disk[f]["home"] \notin {Nothing, disk[f]["dst"]}
           /\ run'[p].todo = run[p].todo \ {f} /\ run'[p].moved = run[p].moved
           /\ run'[p].failed = run[p].failed /\ run'[p].mv = run[p].mv
           /\ UNCHANGED <<disk, index, settled, contended, faults>>
<1>1. PICK s \in Slot(f) :
        run' = [run EXCEPT ![p].pc = "copied", ![p].cur = f, ![p].slot = s,
                           ![p].data = disk[f]["home"], ![p].todo = @ \ {f}]
  BY DEF CopyFile
<1> DEFINE r == [run[p] EXCEPT !.pc = "copied", !.cur = f, !.slot = s,
                               !.data = disk[f]["home"], !.todo = @ \ {f}]
<1>2. run'[p] = r
  BY <1>1 DEF TypeOK
<1>3. run[p] \in RunState
  BY DEF TypeOK
<1>4. /\ r.pc = "copied" /\ r.cur = f /\ r.slot = s /\ r.data = disk[f]["home"]
      /\ r.todo = run[p].todo \ {f} /\ r.moved = run[p].moved
      /\ r.failed = run[p].failed /\ r.mv = run[p].mv
  BY <1>3 DEF RunState
<1> HIDE DEF r
<1>5. QED
  BY <1>2, <1>4 DEF CopyFile

LEMMA AfterNotMoved ==
    ASSUME TypeOK, NEW p \in Proc, NEW f \in File, NotMoved(p, f)
    PROVE  /\ run[p].pc = "moving" /\ run'[p].pc = "moving" /\ run'[p].failed
           /\ run'[p].moved = run[p].moved
           /\ run'[p].mv = run[p].mv /\ run'[p].slot = run[p].slot
           /\ UNCHANGED <<disk, index, settled, contended, faults>>
  BY DEF TypeOK, NotMoved, RunState

LEMMA AfterKept ==
    ASSUME TypeOK, NEW p \in Proc, CopyFails(p) \/ WithdrawCopy(p) \/ WithdrawFails(p)
    PROVE  /\ run[p].pc \in {"copied", "busy"} /\ run'[p].pc = "moving" /\ run'[p].failed
           /\ run'[p].moved = run[p].moved
           /\ run'[p].mv = run[p].mv /\ run'[p].slot = run[p].slot
           /\ UNCHANGED <<index, settled, contended>>
<1> DEFINE r == [run[p] EXCEPT !.pc = "moving", !.failed = TRUE]
<1>1. run'[p] = r
  BY DEF TypeOK, CopyFails, WithdrawCopy, WithdrawFails
<1>2. /\ r.pc = "moving" /\ r.failed /\ r.moved = run[p].moved
      /\ r.mv = run[p].mv /\ r.slot = run[p].slot
  BY DEF TypeOK, RunState
<1> HIDE DEF r
<1>3. QED
  BY <1>1, <1>2 DEF CopyFails, WithdrawCopy, WithdrawFails

LEMMA AfterRemove ==
    ASSUME TypeOK, NEW p \in Proc, RemoveSource(p)
    PROVE  LET f == run[p].cur
               gone == disk[f]["home"] = Nothing
           IN  /\ f \in File /\ Put(f, "home", Nothing)
               /\ run[p].pc = "replaced" /\ run'[p].pc = "moving"
               /\ run'[p].moved = IF gone THEN run[p].moved ELSE run[p].moved \cup {f}
               /\ gone => run'[p].failed
               /\ run[p].failed => run'[p].failed
               /\ run'[p].todo = run[p].todo
               /\ run'[p].mv = run[p].mv /\ run'[p].slot = run[p].slot
               /\ UNCHANGED <<index, settled, contended, faults>>
<1> DEFINE f == run[p].cur
           gone == disk[f]["home"] = Nothing
           r == [run[p] EXCEPT !.pc = "moving",
                               !.moved = IF gone THEN @ ELSE @ \cup {f},
                               !.failed = @ \/ gone]
<1>1. run' = [run EXCEPT ![p].pc = "moving",
                         ![p].moved = IF gone THEN @ ELSE @ \cup {f},
                         ![p].failed = @ \/ gone]
  BY DEF RemoveSource
<1>2. run'[p] = r
  BY <1>1 DEF TypeOK
<1>3. /\ r.pc = "moving" /\ r.todo = run[p].todo
      /\ r.moved = IF gone THEN run[p].moved ELSE run[p].moved \cup {f}
      /\ r.failed = (run[p].failed \/ gone)
      /\ r.mv = run[p].mv /\ r.slot = run[p].slot
  BY DEF TypeOK, RunState
<1> HIDE DEF r
<1>4. QED
  BY <1>2, <1>3 DEF RemoveSource, TypeOK

LEMMA AfterGo ==
    ASSUME TypeOK, NEW p \in Proc, NEW pc, Go(p, pc)
    PROVE  /\ run'[p].pc = pc
           /\ run'[p].todo = run[p].todo /\ run'[p].moved = run[p].moved
           /\ run'[p].failed = run[p].failed /\ run'[p].mv = run[p].mv
           /\ run'[p].cur = run[p].cur /\ run'[p].data = run[p].data
           /\ run'[p].slot = run[p].slot
  BY DEF TypeOK, Go, RunState

LEMMA AfterDrop ==
    ASSUME TypeOK, NEW p \in Proc, NEW f \in File,
           RollbackMove(p, f) \/ RollbackFails(p, f) \/ UpdateIndex(p, f)
    PROVE  /\ f \in run[p].moved /\ run'[p].moved = run[p].moved \ {f}
           /\ run'[p].pc = run[p].pc /\ run[p].pc \in {"rollback", "indexing"}
           /\ run'[p].mv = run[p].mv /\ run'[p].slot = run[p].slot
           /\ UNCHANGED <<settled, contended>>
<1>1. run' = [run EXCEPT ![p].moved = @ \ {f}]
  BY DEF RollbackMove, RollbackFails, UpdateIndex
<1>2. QED
  BY <1>1 DEF TypeOK, RunState, RollbackMove, RollbackFails, UpdateIndex

LEMMA AfterIdle ==
    ASSUME TypeOK, NEW p \in Proc,
           GiveUp(p) \/ UpdateIndexRaises(p) \/ WriteStatus(p) \/ Crash(p)
    PROVE  /\ run'[p].pc = "idle" /\ run'[p].moved = {} /\ run'[p].slot = "dst"
           /\ ~run'[p].mv
           /\ UNCHANGED <<disk, index, contended>>
<1>1. run'[p] = Idle
  BY DEF TypeOK, GiveUp, UpdateIndexRaises, WriteStatus, Crash
<1>2. QED
  BY <1>1 DEF Idle, GiveUp, UpdateIndexRaises, WriteStatus, Crash

(* No row ever comes to name the old path.                                   *)
LEMMA IndexLeavesHome ==
    ASSUME TypeOK, NEW p \in Proc, Step(p)
    PROVE  \A f \in File : /\ index'[f] = "home" => index[f] = "home"
                           /\ index'[f] = "dst" /\ index[f] # "dst" => UpdateIndex(p, f)
<1>1. CASE UNCHANGED index
  BY <1>1
<1>2. CASE Reconcile(p)
  BY <1>2, ReconcileAt
<1>3. ASSUME NEW g \in File, UpdateIndex(p, g)
      PROVE  \A f \in File : /\ index'[f] = "home" => index[f] = "home"
                             /\ index'[f] = "dst" /\ index[f] # "dst" => UpdateIndex(p, f)
  BY <1>3 DEF UpdateIndex, TypeOK
<1>4. QED
  BY <1>1, <1>2, <1>3
  DEF Step, Begin, CopyFile, NotMoved, CopyFails, Replace, RemoveSource, SourceBusy,
      WithdrawCopy, WithdrawFails, AllVisited, RollbackMove, RollbackFails, GiveUp,
      UpdateIndexRaises, AllIndexed, WriteStatus, Crash

-----------------------------------------------------------------------------
(* A round moves or leaves out every file before it writes the status.       *)
LEMMA RoundSelf ==
    ASSUME TypeOK, NEW p \in Proc, Step(p), RoundInv(p)
    PROVE  RoundInv(p)'
<1> USE DEF RoundInv, MovingStates
<1>0. \A f \in File : index'[f] = "home" => index[f] = "home"
  BY IndexLeavesHome
<1>1. ASSUME NEW new \in Status, NEW mv \in BOOLEAN, Begin(p, new, mv)
      PROVE  RoundInv(p)'
  BY <1>1, <1>0, AfterBegin
<1>2. ASSUME NEW f \in File, CopyFile(p, f) PROVE RoundInv(p)'
  <2>1. run'[p].slot \in {"dst"} \cup Alt
    BY <1>2, AfterCopy DEF Slot
  <2>2. \A g \in File : Working(p, g)' <=> g = f
    BY <1>2, AfterCopy DEF Working
  <2>3. \A g \in File : ~Working(p, g)
    BY <1>2 DEF CopyFile, Working
  <2>4. QED
    BY <1>2, <1>0, <2>1, <2>2, <2>3, AfterCopy
<1>3. ASSUME NEW f \in File, NotMoved(p, f) PROVE RoundInv(p)'
  BY <1>3, AfterNotMoved
<1>4. CASE CopyFails(p) \/ WithdrawCopy(p) \/ WithdrawFails(p)
  BY <1>4, AfterKept
<1>5. CASE Replace(p) \/ SourceBusy(p)
  <2>1. PICK pc \in {"replaced", "busy"} :
          Go(p, pc) /\ run[p].pc \in {"copied", "replaced"}
    BY <1>5 DEF Replace, SourceBusy
  <2>2. \A g \in File : Working(p, g)' <=> Working(p, g)
    BY <2>1, AfterGo DEF Working
  <2>3. QED
    BY <1>0, <2>1, <2>2, AfterGo
<1>6. CASE RemoveSource(p)
  <2>1. \A g \in File : Working(p, g) => g = run[p].cur
    BY DEF Working
  <2>2. QED
    BY <1>6, <1>0, <2>1, AfterRemove
<1>7. CASE AllVisited(p)
  <2>1. \A g \in File : ~Working(p, g)
    BY <1>7 DEF AllVisited, Working
  <2>2. CASE run[p].failed
    <3>1. run'[p].pc = "rollback"
      BY <1>7, <2>2, AfterGo DEF AllVisited
    <3>2. QED
      BY <1>7, <3>1, AfterGo DEF AllVisited
  <2>3. CASE ~run[p].failed
    <3>1. run'[p].pc = "indexing"
      BY <1>7, <2>3, AfterGo DEF AllVisited
    <3>2. QED
      BY <1>7, <1>0, <2>1, <2>3, <3>1, AfterGo DEF AllVisited
  <2>4. QED
    BY <2>2, <2>3
<1>8. ASSUME NEW f \in File, RollbackMove(p, f) \/ RollbackFails(p, f)
      PROVE  RoundInv(p)'
  <2>1. run[p].pc = "rollback"
    BY <1>8 DEF RollbackMove, RollbackFails
  <2>2. QED
    BY <1>8, <2>1, AfterDrop
<1>9. ASSUME NEW f \in File, UpdateIndex(p, f) PROVE RoundInv(p)'
  <2>1. run[p].pc = "indexing" /\ index'[f] # "home"
    BY <1>9 DEF UpdateIndex, TypeOK
  <2>2. QED
    BY <1>9, <1>0, <2>1, AfterDrop
<1>10. CASE AllIndexed(p)
  BY <1>10, <1>0, AfterGo DEF AllIndexed
<1>11. CASE GiveUp(p) \/ UpdateIndexRaises(p) \/ WriteStatus(p) \/ Crash(p)
  BY <1>11, AfterIdle
<1>12. CASE Reconcile(p)
  <2>1. run' = run /\ run[p].pc = "idle"
    BY <1>12 DEF Reconcile
  <2>2. QED
    BY <2>1
<1>13. QED
  BY <1>1, <1>2, <1>3, <1>4, <1>5, <1>6, <1>7, <1>8, <1>9, <1>10, <1>11, <1>12 DEF Step

LEMMA RoundStep ==
    ASSUME TypeOK, RoundCovers, NEW p \in Proc, Step(p)
    PROVE  RoundCovers'
<1> SUFFICES ASSUME NEW q \in Proc PROVE RoundInv(q)'
  BY DEF RoundCovers
<1>1. CASE q = p
  BY <1>1, RoundSelf DEF RoundCovers
<1>2. CASE q # p
  <2>1. run'[q] = run[q]
    BY <1>2, RunTypes
  <2>2. \A f \in File : Working(q, f)' <=> Working(q, f)
    BY <2>1 DEF Working
  <2>3. \A f \in File : index'[f] = "home" => index[f] = "home"
    BY IndexLeavesHome
  <2>4. QED
    BY <2>1, <2>2, <2>3 DEF RoundCovers, RoundInv
<1>3. QED
  BY <1>1, <1>2

LEMMA SettledStep ==
    ASSUME TypeOK, RoundCovers, SettledCovers, NEW p \in Proc, Step(p)
    PROVE  SettledCovers'
<1> SUFFICES ASSUME settled', NEW f \in File PROVE index'[f] # "home"
  BY DEF SettledCovers
<1>1. CASE settled
  BY <1>1, IndexLeavesHome DEF SettledCovers
<1>2. CASE WriteStatus(p)
  <2>1. settled \/ run[p].mv
    BY <1>2 DEF WriteStatus, TypeOK
  <2>2. run[p].pc = "writing"
    BY <1>2 DEF WriteStatus
  <2>3. QED
    BY <1>1, <2>1, <2>2, IndexLeavesHome DEF RoundCovers, RoundInv
<1>3. CASE ~WriteStatus(p)
  <2>1. settled' = settled
    BY <1>3 DEF Step, Begin, CopyFile, NotMoved, CopyFails, Replace, RemoveSource,
       SourceBusy, WithdrawCopy, WithdrawFails, AllVisited, RollbackMove, RollbackFails,
       GiveUp, UpdateIndex, UpdateIndexRaises, AllIndexed, Crash, Reconcile
  <2>2. QED
    BY <1>1, <2>1
<1>4. QED
  BY <1>2, <1>3

(* Steps that bring no file home and add no file to a round's moved ones.    *)
LEMMA MovedKeeps ==
    ASSUME MovedOnce,
           \A f \in File : disk'[f]["home"] = disk[f]["home"],
           \A q \in Proc : run'[q].moved \subseteq run[q].moved,
           \A q \in Proc : run[q].moved \subseteq File,
           \A f \in File : index'[f] = "dst" => index[f] = "dst"
    PROVE  MovedOnce'
<1>1. ASSUME NEW q \in Proc, NEW f \in run'[q].moved
      PROVE  disk'[f]["home"] = Nothing /\ \A r \in Proc : f \in run'[r].moved => r = q
  <2>1. f \in run[q].moved /\ f \in File
    BY <1>1
  <2>2. disk[f]["home"] = Nothing /\ \A r \in Proc : f \in run[r].moved => r = q
    BY <2>1 DEF MovedOnce
  <2>3. QED
    BY <2>1, <2>2
<1>2. ASSUME NEW f \in File, index'[f] = "dst"
      PROVE  /\ disk'[f]["home"] # f
             /\ f \notin Taken => /\ disk'[f]["home"] = Nothing
                                  /\ \A q \in Proc : f \notin run'[q].moved
  <2>1. /\ disk[f]["home"] # f
        /\ f \notin Taken => /\ disk[f]["home"] = Nothing
                             /\ \A q \in Proc : f \notin run[q].moved
    BY <1>2 DEF MovedOnce
  <2>2. QED
    BY <2>1
<1>3. QED
  BY <1>1, <1>2 DEF MovedOnce

LEMMA MovedStep ==
    ASSUME MInv, NEW p \in Proc, Step(p)
    PROVE  MovedOnce'
<1> USE DEF MInv
<1>0. /\ \A q \in Proc \ {p} : run'[q] = run[q]
      /\ \A q \in Proc : run[q].moved \subseteq File
      /\ \A q \in Proc : run[q].slot # "home"
  <2>1. \A q \in Proc : run[q].slot \in {"dst"} \cup Alt
    BY DEF RoundCovers, RoundInv
  <2>2. QED
    BY <2>1, RunTypes, ExpiredMoveAssumption DEF TypeOK, RunState
<1>a. ASSUME \A f \in File : disk'[f]["home"] = disk[f]["home"],
             run'[p].moved \subseteq run[p].moved,
             UNCHANGED index \/ Reconcile(p)
      PROVE  MovedOnce'
  <2>1. \A f \in File : index'[f] = "dst" => index[f] = "dst"
    BY <1>a, ReconcileAt
  <2>2. \A q \in Proc : run'[q].moved \subseteq run[q].moved
    BY <1>0, <1>a
  <2>3. QED
    BY <1>0, <1>a, <2>1, <2>2, MovedKeeps
<1>1. ASSUME NEW new \in Status, NEW mv \in BOOLEAN, Begin(p, new, mv)
      PROVE  MovedOnce'
  BY <1>1, <1>a, AfterBegin
<1>2. ASSUME NEW f \in File, CopyFile(p, f) PROVE MovedOnce'
  BY <1>2, <1>a, AfterCopy
<1>3. ASSUME NEW f \in File, NotMoved(p, f) PROVE MovedOnce'
  BY <1>3, <1>a, AfterNotMoved
<1>4. CASE CopyFails(p) \/ WithdrawFails(p)
  BY <1>4, <1>a, AfterKept DEF CopyFails, WithdrawFails
<1>5. CASE Replace(p) \/ WithdrawCopy(p)
  <2>1. PICK c \in Content : Put(run[p].cur, run[p].slot, c)
    BY <1>5 DEF Replace, WithdrawCopy, TypeOK, RunState, Content
  <2>2. run[p].cur \in File /\ run[p].slot \in Place
    BY <1>5 DEF Replace, WithdrawCopy, TypeOK, RunState
  <2>3. \A f \in File : disk'[f]["home"] = disk[f]["home"]
    <3>1. "home" \in Place \ {run[p].slot}
      BY <1>0 DEF Place
    <3>2. QED
      BY <2>1, <2>2, <3>1, PutAt
  <2>4. run'[p].moved = run[p].moved /\ UNCHANGED index
    BY <1>5, AfterGo, AfterKept DEF Replace
  <2>5. QED
    BY <1>a, <2>3, <2>4
<1>6. CASE RemoveSource(p)
  <2> DEFINE f == run[p].cur
  <2>1. f \in File /\ Put(f, "home", Nothing) /\ UNCHANGED index
    BY <1>6, AfterRemove
  <2>2. disk'[f]["home"] = Nothing /\ \A g \in File \ {f} : disk'[g] = disk[g]
    BY <2>1, PutAt DEF Place, Content
  <2>3. CASE disk[f]["home"] = Nothing
    <3>1. run'[p].moved = run[p].moved
      BY <1>6, <2>3, AfterRemove
    <3>2. QED
      BY <1>a, <2>1, <2>2, <2>3, <3>1
  <2>4. CASE disk[f]["home"] # Nothing
    <3>1. run'[p].moved = run[p].moved \cup {f}
      BY <1>6, <2>4, AfterRemove
    <3>2. \A q \in Proc : f \notin run[q].moved
      BY <2>4 DEF MovedOnce
    <3>3. index[f] = "dst" => f \in Taken
      BY <2>1, <2>4 DEF MovedOnce
    <3>4. f # Nothing
      BY <2>1, ExpiredMoveAssumption
    <3>5. ASSUME NEW q \in Proc, NEW g \in run'[q].moved
          PROVE  disk'[g]["home"] = Nothing /\ \A r \in Proc : g \in run'[r].moved => r = q
      <4>1. CASE g = f
        BY <1>0, <2>2, <3>2, <3>5, <4>1
      <4>2. CASE g # f
        <5>1. g \in run[q].moved /\ g \in File
          BY <1>0, <3>1, <3>5, <4>2
        <5>2. disk[g]["home"] = Nothing /\ \A r \in Proc : g \in run[r].moved => r = q
          BY <5>1 DEF MovedOnce
        <5>3. QED
          BY <1>0, <2>2, <3>1, <4>2, <5>1, <5>2
      <4>3. QED
        BY <4>1, <4>2
    <3>6. ASSUME NEW g \in File, index'[g] = "dst"
          PROVE  /\ disk'[g]["home"] # g
                 /\ g \notin Taken => /\ disk'[g]["home"] = Nothing
                                      /\ \A q \in Proc : g \notin run'[q].moved
      <4>1. CASE g = f
        BY <2>1, <2>2, <3>3, <3>4, <3>6, <4>1
      <4>2. CASE g # f
        <5>1. /\ disk[g]["home"] # g
              /\ g \notin Taken => /\ disk[g]["home"] = Nothing
                                   /\ \A q \in Proc : g \notin run[q].moved
          BY <2>1, <3>6 DEF MovedOnce
        <5>2. QED
          BY <1>0, <2>2, <3>1, <4>2, <5>1
      <4>3. QED
        BY <4>1, <4>2
    <3>7. QED
      BY <3>5, <3>6 DEF MovedOnce
  <2>5. QED
    BY <2>3, <2>4
<1>7. CASE SourceBusy(p) \/ AllVisited(p) \/ AllIndexed(p)
  <2>1. UNCHANGED <<disk, index>> /\ \E pc : Go(p, pc)
    BY <1>7 DEF SourceBusy, AllVisited, AllIndexed
  <2>2. QED
    BY <1>a, <2>1, AfterGo
<1>8. ASSUME NEW f \in File, RollbackMove(p, f) PROVE MovedOnce'
  <2>1. f \in run[p].moved /\ run'[p].moved = run[p].moved \ {f} /\ UNCHANGED index
    BY <1>8, AfterDrop DEF RollbackMove
  <2>2. CASE UNCHANGED disk
    BY <1>a, <2>1, <2>2
  <2>3. CASE /\ \A g \in File \ {f} : disk'[g] = disk[g]
             /\ disk'[f]["home"] = disk[f]["dst"]
    <3>1. \A q \in Proc : f \notin run'[q].moved
      BY <1>0, <2>1 DEF MovedOnce
    <3>2. index[f] = "dst" => f \in Taken /\ disk[f]["dst"] # f
      BY <2>1 DEF MovedOnce, TakenStaysAway, TakenAway
    <3>3. ASSUME NEW q \in Proc, NEW g \in run'[q].moved
          PROVE  disk'[g]["home"] = Nothing /\ \A r \in Proc : g \in run'[r].moved => r = q
      <4>1. g # f /\ g \in run[q].moved /\ g \in File
        BY <1>0, <2>1, <3>1, <3>3
      <4>2. disk[g]["home"] = Nothing /\ \A r \in Proc : g \in run[r].moved => r = q
        BY <4>1 DEF MovedOnce
      <4>3. QED
        BY <1>0, <2>1, <2>3, <4>1, <4>2
    <3>4. ASSUME NEW g \in File, index'[g] = "dst"
          PROVE  /\ disk'[g]["home"] # g
                 /\ g \notin Taken => /\ disk'[g]["home"] = Nothing
                                      /\ \A q \in Proc : g \notin run'[q].moved
      <4>1. CASE g = f
        BY <2>1, <2>3, <3>2, <3>4, <4>1
      <4>2. CASE g # f
        <5>1. /\ disk[g]["home"] # g
              /\ g \notin Taken => /\ disk[g]["home"] = Nothing
                                   /\ \A q \in Proc : g \notin run[q].moved
          BY <2>1, <3>4 DEF MovedOnce
        <5>2. QED
          BY <1>0, <2>1, <2>3, <4>2, <5>1
      <4>3. QED
        BY <4>1, <4>2
    <3>5. QED
      BY <3>3, <3>4 DEF MovedOnce
  <2>4. QED
    BY <1>8, <2>2, <2>3, RollbackAt
<1>9. ASSUME NEW f \in File, RollbackFails(p, f) PROVE MovedOnce'
  BY <1>9, <1>a, AfterDrop DEF RollbackFails
<1>10. ASSUME NEW f \in File, UpdateIndex(p, f) PROVE MovedOnce'
  <2>1. /\ f \in run[p].moved /\ run'[p].moved = run[p].moved \ {f} /\ UNCHANGED disk
        /\ \A g \in File \ {f} : index'[g] = index[g]
    BY <1>10, AfterDrop DEF UpdateIndex, TypeOK
  <2>2. /\ disk[f]["home"] = Nothing /\ f # Nothing
        /\ \A q \in Proc : f \notin run'[q].moved
    BY <1>0, <2>1, ExpiredMoveAssumption DEF MovedOnce
  <2>3. \A q \in Proc : run'[q].moved \subseteq run[q].moved
    BY <1>0, <2>1
  <2>4. ASSUME NEW q \in Proc, NEW g \in run'[q].moved
        PROVE  disk'[g]["home"] = Nothing /\ \A r \in Proc : g \in run'[r].moved => r = q
    <3>1. g \in run[q].moved
      BY <2>3
    <3>2. disk[g]["home"] = Nothing /\ \A r \in Proc : g \in run[r].moved => r = q
      BY <3>1 DEF MovedOnce
    <3>3. QED
      BY <2>1, <2>3, <3>2
  <2>5. ASSUME NEW g \in File, index'[g] = "dst"
        PROVE  /\ disk'[g]["home"] # g
               /\ g \notin Taken => /\ disk'[g]["home"] = Nothing
                                    /\ \A q \in Proc : g \notin run'[q].moved
    <3>1. CASE g = f
      BY <2>1, <2>2, <3>1
    <3>2. CASE g # f
      <4>1. /\ disk[g]["home"] # g
            /\ g \notin Taken => /\ disk[g]["home"] = Nothing
                                 /\ \A q \in Proc : g \notin run[q].moved
        BY <2>1, <2>5, <3>2 DEF MovedOnce
      <4>2. QED
        BY <2>1, <2>3, <4>1
    <3>3. QED
      BY <3>1, <3>2
  <2>6. QED
    BY <2>4, <2>5 DEF MovedOnce
<1>11. CASE GiveUp(p) \/ UpdateIndexRaises(p) \/ WriteStatus(p) \/ Crash(p)
  BY <1>11, <1>a, AfterIdle
<1>12. CASE Reconcile(p)
  <2>1. run' = run
    BY <1>12 DEF Reconcile
  <2>2. \A f \in File : disk'[f]["home"] = disk[f]["home"]
    BY <1>12, ReconcileAt DEF Place
  <2>3. QED
    BY <1>12, <1>a, <2>1, <2>2
<1>13. QED
  BY <1>1, <1>2, <1>3, <1>4, <1>5, <1>6, <1>7, <1>8, <1>9, <1>10, <1>11, <1>12 DEF Step

LEMMA TakenStep ==
    ASSUME MInv, NEW p \in Proc, Step(p)
    PROVE  TakenStaysAway'
<1> USE DEF MInv
<1> SUFFICES ASSUME NEW f \in Taken PROVE TakenAway(f)'
  BY DEF TakenStaysAway
<1>0. /\ f \in File /\ f # Nothing /\ {"home", "dst"} \subseteq Place
      /\ Nothing \in Content /\ "dst" \notin Alt
      /\ \A q \in Proc \ {p} : run'[q] = run[q] /\ (Working(q, f)' <=> Working(q, f))
  BY RunTypes, ExpiredMoveAssumption DEF Working, Place, Content
<1>1. /\ disk[f]["dst"] # f
      /\ disk[f]["home"] = f => disk[f]["dst"] # Nothing
      /\ \A q \in Proc : Working(q, f) /\ run[q].slot = "dst" =>
           run[q].data # f /\ disk[f]["home"] # f
  BY DEF TakenStaysAway, TakenAway
<1>a. ASSUME disk'[f]["dst"] = disk[f]["dst"], disk'[f]["home"] = disk[f]["home"],
             Working(p, f)' /\ run'[p].slot = "dst" =>
               Working(p, f) /\ run[p].slot = "dst" /\ run'[p].data = run[p].data
      PROVE  TakenAway(f)'
  <2>1. ASSUME NEW q \in Proc, Working(q, f)', run'[q].slot = "dst"
        PROVE  Working(q, f) /\ run[q].slot = "dst" /\ run'[q].data = run[q].data
    BY <1>0, <1>a, <2>1
  <2>2. QED
    BY <1>1, <1>a, <2>1 DEF TakenAway
<1>b. ASSUME UNCHANGED disk, run'[p].pc \notin {"copied", "replaced", "busy"}
      PROVE  TakenAway(f)'
  <2>1. ~Working(p, f)'
    BY <1>b DEF Working
  <2>2. QED
    BY <1>a, <1>b, <2>1
<1>c. ASSUME disk'[f]["dst"] # f, disk'[f]["home"] = f => disk'[f]["dst"] # Nothing,
             disk'[f]["home"] = f => disk[f]["home"] = f,
             Working(p, f)' /\ run'[p].slot = "dst" => run'[p].data # f /\ disk'[f]["home"] # f
      PROVE  TakenAway(f)'
  <2>1. ASSUME NEW q \in Proc, Working(q, f)', run'[q].slot = "dst"
        PROVE  run'[q].data # f /\ disk'[f]["home"] # f
    <3>1. CASE q = p
      BY <1>c, <2>1, <3>1
    <3>2. CASE q # p
      <4>1. run'[q] = run[q] /\ Working(q, f)
        BY <1>0, <2>1, <3>2
      <4>2. run[q].data # f /\ disk[f]["home"] # f
        BY <1>1, <2>1, <4>1
      <4>3. QED
        BY <1>c, <4>1, <4>2
    <3>3. QED
      BY <3>1, <3>2
  <2>2. QED
    BY <1>c, <2>1 DEF TakenAway
<1>2. ASSUME NEW new \in Status, NEW mv \in BOOLEAN, Begin(p, new, mv) PROVE TakenAway(f)'
  <2>1. QED
    BY <1>2, <1>b, AfterBegin
<1>3. ASSUME NEW g \in File, CopyFile(p, g) PROVE TakenAway(f)'
  <2>1. UNCHANGED disk /\ run'[p].cur = g
    BY <1>3, AfterCopy
  <2>2. CASE g # f
    <3>1. ~Working(p, f)'
      BY <2>1, <2>2 DEF Working
    <3>2. QED
      BY <1>a, <2>1, <3>1
  <2>3. CASE g = f /\ run'[p].slot # "dst"
    <3>1. QED
      BY <1>a, <2>1, <2>3
  <2>4. CASE g = f /\ run'[p].slot = "dst"
    <3>1. disk[f]["dst"] = Nothing
      BY <1>0, <1>3, <2>4, AfterCopy DEF Slot
    <3>2. disk[f]["home"] # f /\ run'[p].data # f
      BY <1>1, <1>3, <2>4, <3>1, AfterCopy
    <3>3. disk'[f]["dst"] = disk[f]["dst"] /\ disk'[f]["home"] = disk[f]["home"]
      BY <2>1
    <3>4. QED
      BY <1>c, <1>1, <3>2, <3>3
  <2>5. QED
    BY <2>2, <2>3, <2>4
<1>4. ASSUME NEW g \in File, NotMoved(p, g) PROVE TakenAway(f)'
  <2>1. QED
    BY <1>4, <1>b, AfterNotMoved
<1>5. CASE CopyFails(p) \/ WithdrawFails(p)
  <2>1. QED
    BY <1>5, <1>b, AfterKept DEF CopyFails, WithdrawFails
<1>6. CASE Replace(p)
  <2> DEFINE g == run[p].cur
  <2>1. /\ g \in File /\ run[p].slot \in Place /\ run[p].data \in Content
        /\ Put(g, run[p].slot, run[p].data) /\ Go(p, "replaced") /\ run[p].pc = "copied"
    BY <1>6 DEF Replace, TypeOK, RunState
  <2>2. /\ run'[p].cur = g /\ run'[p].slot = run[p].slot /\ run'[p].data = run[p].data
        /\ Working(p, f)' => Working(p, f)
    BY <2>1, AfterGo DEF Working
  <2>3. run[p].slot # "home"
    <3>1. run[p].slot \in {"dst"} \cup Alt
      BY DEF RoundCovers, RoundInv
    <3>2. QED
      BY <3>1, ExpiredMoveAssumption
  <2>4. CASE g = f /\ run[p].slot = "dst"
    <3>1. Working(p, f)
      BY <2>1, <2>4 DEF Working
    <3>2. disk'[f]["dst"] = run[p].data /\ disk'[f]["home"] = disk[f]["home"]
      <4>1. "home" \in Place \ {"dst"}
        BY DEF Place
      <4>2. /\ f \in File /\ "dst" \in Place /\ run[p].data \in Content
            /\ Put(f, "dst", run[p].data)
        BY <1>0, <2>1, <2>4
      <4> HIDE DEF g
      <4>3. QED
        BY <4>1, <4>2, PutAt
    <3>3. run[p].data # f /\ disk[f]["home"] # f
      BY <1>1, <2>4, <3>1
    <3>4. QED
      BY <1>c, <1>0, <1>1, <2>2, <3>2, <3>3
  <2>5. CASE ~(g = f /\ run[p].slot = "dst")
    <3>1. disk'[f]["dst"] = disk[f]["dst"] /\ disk'[f]["home"] = disk[f]["home"]
      <4>1. CASE g = f
        <5>1. {"dst", "home"} \subseteq Place \ {run[p].slot}
          BY <1>0, <2>3, <2>5, <4>1
        <5>2. QED
          BY <1>0, <2>1, <4>1, <5>1, PutAt
      <4>2. CASE g # f
        BY <1>0, <2>1, <4>2, PutAt
      <4>3. QED
        BY <4>1, <4>2
    <3>2. QED
      BY <1>a, <2>2, <3>1
  <2>6. QED
    BY <2>4, <2>5
<1>7. CASE RemoveSource(p)
  <2> DEFINE g == run[p].cur
  <2>1. g \in File /\ Put(g, "home", Nothing) /\ run'[p].pc = "moving"
    BY <1>7, AfterRemove
  <2>2. ~Working(p, f)'
    BY <2>1 DEF Working
  <2>3. disk'[f]["dst"] = disk[f]["dst"]
    <3>1. "dst" \in Place \ {"home"}
      BY DEF Place
    <3>2. \/ disk'[f] = disk[f]
          \/ \A r \in Place \ {"home"} : disk'[f][r] = disk[f][r]
      <4> HIDE DEF g
      <4>1. QED
        BY <1>0, <2>1, PutAt
    <3>3. QED
      BY <3>1, <3>2
  <2>4. disk'[f]["home"] \in {disk[f]["home"], Nothing}
    BY <1>0, <2>1, PutAt
  <2>5. QED
    BY <1>c, <1>0, <1>1, <2>2, <2>3, <2>4
<1>8. CASE SourceBusy(p)
  <2>1. UNCHANGED disk /\ Go(p, "busy") /\ run[p].pc = "replaced"
    BY <1>8 DEF SourceBusy
  <2>2. run'[p].cur = run[p].cur /\ run'[p].slot = run[p].slot /\ run'[p].data = run[p].data
    BY <2>1, AfterGo
  <2>3. Working(p, f)' => Working(p, f)
    BY <2>1, <2>2 DEF Working
  <2>4. QED
    BY <1>a, <2>1, <2>2, <2>3
<1>9. CASE WithdrawCopy(p)
  <2> DEFINE g == run[p].cur
  <2>1. /\ g \in File /\ run[p].slot \in Place /\ Put(g, run[p].slot, Nothing)
        /\ run[p].pc = "busy" /\ run'[p].pc = "moving"
    BY <1>9, AfterKept DEF WithdrawCopy, TypeOK, RunState
  <2>2. ~Working(p, f)'
    BY <2>1 DEF Working
  <2>3. run[p].slot # "home"
    <3>1. run[p].slot \in {"dst"} \cup Alt
      BY DEF RoundCovers, RoundInv
    <3>2. QED
      BY <3>1, ExpiredMoveAssumption
  <2>4. CASE g = f /\ run[p].slot = "dst"
    <3>1. Working(p, f)
      BY <2>1, <2>4 DEF Working
    <3>2. disk'[f]["dst"] = Nothing /\ disk'[f]["home"] = disk[f]["home"]
      BY <1>0, <2>1, <2>4, PutAt
    <3>3. disk[f]["home"] # f
      BY <1>1, <2>4, <3>1
    <3>4. QED
      BY <1>c, <1>0, <1>1, <2>2, <3>2, <3>3
  <2>5. CASE ~(g = f /\ run[p].slot = "dst")
    <3>1. disk'[f]["dst"] = disk[f]["dst"] /\ disk'[f]["home"] = disk[f]["home"]
      <4>1. CASE g = f
        <5>1. {"dst", "home"} \subseteq Place \ {run[p].slot}
          BY <1>0, <2>3, <2>5, <4>1
        <5>2. QED
          BY <1>0, <2>1, <4>1, <5>1, PutAt
      <4>2. CASE g # f
        BY <1>0, <2>1, <4>2, PutAt
      <4>3. QED
        BY <4>1, <4>2
    <3>2. QED
      BY <1>a, <2>2, <3>1
  <2>6. QED
    BY <2>4, <2>5
<1>10. CASE AllVisited(p) \/ AllIndexed(p)
  <2>1. PICK pc \in {"rollback", "indexing", "writing"} : Go(p, pc) /\ UNCHANGED disk
    BY <1>10 DEF AllVisited, AllIndexed
  <2>2. run'[p].pc = pc
    BY <2>1, AfterGo
  <2>3. QED
    BY <1>b, <2>1, <2>2
<1>11. ASSUME NEW g \in File, RollbackMove(p, g) PROVE TakenAway(f)'
  <2>1. run'[p].pc \in {"rollback", "indexing"}
    BY <1>11, AfterDrop
  <2>2. ~Working(p, f)'
    BY <2>1 DEF Working
  <2>3. CASE UNCHANGED disk
    <3>1. QED
      BY <1>b, <2>1, <2>3
  <2>4. CASE disk'[g]["home"] = disk[g]["dst"] /\ disk'[g]["dst"] = Nothing
             /\ \A h \in File \ {g} : disk'[h] = disk[h]
    <3>1. CASE g = f
      BY <1>c, <1>0, <1>1, <2>2, <2>4, <3>1
    <3>2. CASE g # f
      <4>1. disk'[f] = disk[f]
        BY <1>0, <2>4, <3>2
      <4>2. QED
        BY <1>a, <2>2, <4>1
    <3>3. QED
      BY <3>1, <3>2
  <2>5. QED
    BY <1>11, <2>3, <2>4, RollbackAt
<1>12. ASSUME NEW g \in File, RollbackFails(p, g) \/ UpdateIndex(p, g) PROVE TakenAway(f)'
  <2>1. run'[p].pc \in {"rollback", "indexing"}
    BY <1>12, AfterDrop
  <2>2. UNCHANGED disk
    BY <1>12 DEF RollbackFails, UpdateIndex
  <2>3. QED
    BY <1>b, <2>1, <2>2
<1>13. CASE GiveUp(p) \/ UpdateIndexRaises(p) \/ WriteStatus(p) \/ Crash(p)
  <2>1. QED
    BY <1>13, <1>b, AfterIdle
<1>14. CASE Reconcile(p)
  <2>1. run' = run
    BY <1>14 DEF Reconcile
  <2>2. disk'[f]["dst"] = disk[f]["dst"] /\ disk'[f]["home"] = disk[f]["home"]
    <3>1. {"dst", "home"} \subseteq Place \ {"top", "bin"}
      BY DEF Place
    <3>2. QED
      BY <1>0, <1>14, <3>1, ReconcileAt
  <2>3. Working(p, f)' <=> Working(p, f)
    BY <2>1 DEF Working
  <2>4. QED
    BY <1>a, <2>1, <2>2, <2>3
<1>15. QED
  BY <1>2, <1>3, <1>4, <1>5, <1>6, <1>7, <1>8, <1>9, <1>10, <1>11, <1>12, <1>13, <1>14
  DEF Step

LEMMA MInvStep == MInv /\ [Next]_vars => MInv'
<1> SUFFICES ASSUME MInv, [Next]_vars PROVE MInv'
  OBVIOUS
<1>1. ASSUME NEW p \in Proc, Step(p) PROVE MInv'
  BY <1>1, TypeStep, RoundStep, SettledStep, MovedStep, TakenStep DEF MInv
<1>2. CASE UNCHANGED vars
  <2>1. TypeOK'
    BY <1>2 DEF vars, MInv, TypeOK
  <2>2. RoundCovers' /\ SettledCovers'
    BY <1>2 DEF vars, MInv, RoundCovers, RoundInv, Working, SettledCovers
  <2>3. MovedOnce'
    BY <1>2 DEF vars, MInv, MovedOnce
  <2>4. TakenStaysAway'
    BY <1>2 DEF vars, MInv, TakenStaysAway, TakenAway, Working
  <2>5. QED
    BY <2>1, <2>2, <2>3, <2>4 DEF MInv
<1>3. QED
  BY <1>1, <1>2 DEF Next, Step


LEMMA InitMInv == Init => MInv
<1> SUFFICES ASSUME Init PROVE MInv
  OBVIOUS
<1>1. TypeOK
  BY InitTypeOK
<1>2. /\ \A f \in File : index[f] = "home"
      /\ \A p \in Proc : run[p] = Idle
      /\ settled = FALSE
  BY DEF Init
<1>3. RoundCovers
  BY <1>2 DEF RoundCovers, RoundInv, MovingStates, Idle
<1>4. SettledCovers /\ MovedOnce
  BY <1>2 DEF SettledCovers, MovedOnce, Idle
<1>5. TakenStaysAway
  <2>1. ASSUME NEW f \in Taken
        PROVE  disk[f]["dst"] = Other
    <3>1. f \in File
      BY ExpiredMoveAssumption
    <3>2. disk[f] \in InitialDisk(f)
      BY <3>1 DEF Init
    <3>3. QED
      BY <2>1, <3>2 DEF InitialDisk, Place
  <2>2. \A f \in Taken : Other # f /\ Other # Nothing
    BY ExpiredMoveAssumption
  <2>3. \A f \in File, p \in Proc : ~Working(p, f)
    BY <1>2 DEF Working, Idle
  <2>4. QED
    BY <2>1, <2>2, <2>3, ExpiredMoveAssumption DEF TakenStaysAway, TakenAway
<1>6. QED
  BY <1>1, <1>3, <1>4, <1>5 DEF MInv

-----------------------------------------------------------------------------
(* Who moves: a step that moves files is a step of a moving round, and there *)
(* is one such round at a time until two overlap.                            *)
LEMMA MovingRound ==
    ASSUME MInv, NEW p \in Proc, run[p].pc \in MovingStates \cup {"rollback", "indexing"}
    PROVE  Moving(p)
  BY DEF MInv, RoundCovers, RoundInv, Moving, MovingStates

LEMMA SlotPlace ==
    ASSUME MInv, NEW p \in Proc
    PROVE  run[p].slot \in Place \ {"home", "top", "bin"}
<1>1. run[p].slot \in {"dst"} \cup Alt
  BY DEF MInv, RoundCovers, RoundInv
<1>2. QED
  BY <1>1, ExpiredMoveAssumption DEF Place

LEMMA ContendedStep ==
    ASSUME MInv, NEW p \in Proc, Step(p), ~contended'
    PROVE  ~contended /\ \A new \in Status, q \in Proc \ {p} : Begin(p, new, TRUE) => ~Moving(q)
<1>1. ASSUME NEW new \in Status, NEW mv \in BOOLEAN, Begin(p, new, mv)
      PROVE  ~contended
  BY <1>1 DEF Begin
<1>2. ASSUME NEW new \in Status, Begin(p, new, TRUE), NEW q \in Proc \ {p}
      PROVE  ~Moving(q)
  BY <1>2 DEF Begin
<1>3. ~contended
  BY <1>1
  DEF Step, CopyFile, NotMoved, CopyFails, Replace, RemoveSource, SourceBusy,
      WithdrawCopy, WithdrawFails, AllVisited, RollbackMove, RollbackFails, GiveUp,
      UpdateIndex, UpdateIndexRaises, AllIndexed, WriteStatus, Crash, Reconcile
<1>4. QED
  BY <1>2, <1>3

LEMMA MoverStep ==
    ASSUME MInv, NEW p \in Proc, Step(p), Moving(p)'
    PROVE  Moving(p) \/ \E new \in Status : Begin(p, new, TRUE)
<1> USE DEF MInv, Moving
<1>1. ASSUME NEW new \in Status, NEW mv \in BOOLEAN, Begin(p, new, mv)
      PROVE  \E n \in Status : Begin(p, n, TRUE)
  <2>1. mv = TRUE
    BY <1>1, AfterBegin
  <2>2. QED
    BY <1>1, <2>1
<1>2. ASSUME NEW f \in File, CopyFile(p, f) \/ NotMoved(p, f) PROVE Moving(p)
  <2>1. run[p].pc = "moving"
    BY <1>2, AfterCopy, AfterNotMoved
  <2>2. QED
    BY <2>1, MovingRound DEF MovingStates
<1>3. CASE CopyFails(p) \/ WithdrawCopy(p) \/ WithdrawFails(p)
  <2>1. run[p].pc \in {"copied", "busy"}
    BY <1>3, AfterKept
  <2>2. QED
    BY <2>1, MovingRound DEF MovingStates
<1>4. CASE Replace(p) \/ RemoveSource(p) \/ SourceBusy(p) \/ AllVisited(p) \/ AllIndexed(p)
  <2>1. run[p].pc \in {"copied", "replaced", "moving", "indexing"}
    BY <1>4 DEF Replace, RemoveSource, SourceBusy, AllVisited, AllIndexed
  <2>2. QED
    BY <2>1, MovingRound DEF MovingStates
<1>5. ASSUME NEW f \in File, RollbackMove(p, f) \/ RollbackFails(p, f) \/ UpdateIndex(p, f)
      PROVE  Moving(p)
  <2>1. run[p].pc \in {"rollback", "indexing"}
    BY <1>5, AfterDrop
  <2>2. QED
    BY <2>1, MovingRound
<1>6. ~(GiveUp(p) \/ UpdateIndexRaises(p) \/ WriteStatus(p) \/ Crash(p))
  BY AfterIdle
<1>7. CASE Reconcile(p)
  BY <1>7 DEF Reconcile
<1>8. QED
  BY <1>1, <1>2, <1>3, <1>4, <1>5, <1>6, <1>7 DEF Step

LEMMA OneMoverStep ==
    ASSUME MInv, NEW p \in Proc, Step(p), ~contended', OneMover
    PROVE  OneMover'
<1>1. \A q \in Proc \ {p} : Moving(q)' <=> Moving(q)
  BY RunTypes DEF MInv, Moving
<1>2. ASSUME NEW q \in Proc \ {p}, Moving(p)', Moving(q)'
      PROVE  FALSE
  <2>1. Moving(q)
    BY <1>1, <1>2
  <2>2. CASE Moving(p)
    BY <2>1, <2>2 DEF OneMover
  <2>3. CASE \E new \in Status : Begin(p, new, TRUE)
    BY <2>1, <2>3, ContendedStep
  <2>4. QED
    BY <1>2, <2>2, <2>3, MoverStep
<1>3. QED
  BY <1>1, <1>2 DEF OneMover

(* A process that is not in a moving round touches no file but in the common *)
(* folder and the bin.                                                       *)
LEMMA StillDisk ==
    ASSUME MInv, NEW p \in Proc, Step(p), ~Moving(p)
    PROVE  \A f \in File : \A r \in Place \ {"top", "bin"} : disk'[f][r] = disk[f][r]
<1>1. run[p].pc \notin MovingStates \cup {"rollback", "indexing"}
  BY MovingRound
<1>2. CASE Reconcile(p)
  BY <1>2, ReconcileAt DEF MInv
<1>3. CASE ~Reconcile(p)
  <2>1. UNCHANGED disk
    BY <1>1, <1>3 DEF Step, Begin, CopyFile, NotMoved, CopyFails, Replace, RemoveSource,
       SourceBusy, WithdrawCopy, WithdrawFails, AllVisited, RollbackMove, RollbackFails,
       GiveUp, UpdateIndex, UpdateIndexRaises, AllIndexed, WriteStatus, Crash, MovingStates
  <2>2. QED
    BY <2>1
<1>4. QED
  BY <1>2, <1>3

LEMMA CopySelf ==
    ASSUME MInv, NEW p \in Proc, Step(p), CopyAt(p)
    PROVE  CopyAt(p)'
<1> USE DEF MInv
<1>a. ASSUME run'[p].pc \notin {"copied", "replaced", "busy"} PROVE CopyAt(p)'
  BY <1>a DEF CopyAt
<1>1. ASSUME NEW new \in Status, NEW mv \in BOOLEAN, Begin(p, new, mv) PROVE CopyAt(p)'
  BY <1>1, <1>a, AfterBegin
<1>2. ASSUME NEW f \in File, CopyFile(p, f) PROVE CopyAt(p)'
  <2>1. disk[f][run'[p].slot] = Nothing
    <3>1. \A s \in Slot(f) : disk[f][s] = Nothing
      BY DEF Slot
    <3>2. run'[p].slot \in Slot(f)
      BY <1>2, AfterCopy
    <3>3. QED
      BY <3>1, <3>2
  <2>2. QED
    BY <1>2, <2>1, AfterCopy DEF CopyAt
<1>3. ASSUME NEW f \in File, NotMoved(p, f) PROVE CopyAt(p)'
  BY <1>3, <1>a, AfterNotMoved
<1>4. CASE CopyFails(p) \/ WithdrawCopy(p) \/ WithdrawFails(p)
  BY <1>4, <1>a, AfterKept
<1>5. CASE Replace(p)
  <2> DEFINE f == run[p].cur
  <2>1. /\ f \in File /\ run[p].data \in Content /\ Put(f, run[p].slot, run[p].data)
        /\ Go(p, "replaced") /\ run[p].pc = "copied"
    BY <1>5 DEF Replace, TypeOK, RunState
  <2>2. /\ run'[p].pc = "replaced" /\ run'[p].cur = f
        /\ run'[p].slot = run[p].slot /\ run'[p].data = run[p].data
    BY <2>1, AfterGo
  <2>3. run[p].slot \in Place /\ "home" \in Place \ {run[p].slot}
    BY SlotPlace DEF Place
  <2>4. disk'[f][run[p].slot] = run[p].data /\ disk'[f]["home"] = disk[f]["home"]
    <3> HIDE DEF f
    <3>1. QED
      BY <2>1, <2>3, PutAt
  <2>5. run[p].data # Nothing /\ disk[f]["home"] = run[p].data
    BY <2>1 DEF CopyAt
  <2>6. QED
    BY <2>2, <2>4, <2>5 DEF CopyAt
<1>6. CASE RemoveSource(p)
  BY <1>6, <1>a, AfterRemove
<1>7. CASE SourceBusy(p)
  <2>1. UNCHANGED disk /\ Go(p, "busy") /\ run[p].pc = "replaced"
    BY <1>7 DEF SourceBusy
  <2>2. /\ run'[p].pc = "busy" /\ run'[p].cur = run[p].cur
        /\ run'[p].slot = run[p].slot /\ run'[p].data = run[p].data
    BY <2>1, AfterGo
  <2>3. QED
    BY <2>1, <2>2 DEF CopyAt
<1>8. CASE AllVisited(p) \/ AllIndexed(p)
  <2>1. PICK pc \in {"rollback", "indexing", "writing"} : Go(p, pc)
    BY <1>8 DEF AllVisited, AllIndexed
  <2>2. QED
    BY <1>a, <2>1, AfterGo
<1>9. ASSUME NEW f \in File, RollbackMove(p, f) \/ RollbackFails(p, f) \/ UpdateIndex(p, f)
      PROVE  CopyAt(p)'
  BY <1>9, <1>a, AfterDrop
<1>10. CASE GiveUp(p) \/ UpdateIndexRaises(p) \/ WriteStatus(p) \/ Crash(p)
  BY <1>10, <1>a, AfterIdle
<1>11. CASE Reconcile(p)
  BY <1>11, <1>a DEF Reconcile
<1>12. QED
  BY <1>1, <1>2, <1>3, <1>4, <1>5, <1>6, <1>7, <1>8, <1>9, <1>10, <1>11 DEF Step

LEMMA CopyStep ==
    ASSUME MInv, NEW p \in Proc, Step(p), OneMover, \A q \in Proc : CopyAt(q)
    PROVE  \A q \in Proc : CopyAt(q)'
<1> SUFFICES ASSUME NEW q \in Proc \ {p} PROVE CopyAt(q)'
  BY CopySelf
<1>1. run'[q] = run[q]
  BY RunTypes DEF MInv
<1>2. CASE run[q].pc \in {"copied", "replaced", "busy"}
  <2>1. run[q].cur \in File
    BY <1>2 DEF MInv, TypeOK
  <2>2. ~Moving(p)
    BY <1>2, MovingRound DEF OneMover, MovingStates
  <2>3. run[q].slot \in Place \ {"top", "bin"} /\ "home" \in Place \ {"top", "bin"}
    BY SlotPlace DEF Place
  <2>4. disk'[run[q].cur]["home"] = disk[run[q].cur]["home"]
        /\ disk'[run[q].cur][run[q].slot] = disk[run[q].cur][run[q].slot]
    BY <2>1, <2>2, <2>3, StillDisk
  <2>5. QED
    BY <1>1, <2>4 DEF CopyAt
<1>3. CASE run[q].pc \notin {"copied", "replaced", "busy"}
  BY <1>1, <1>3 DEF CopyAt
<1>4. QED
  BY <1>2, <1>3

(* What a step does to the paths of a file, in the words the rest needs.     *)
LEMMA DiskStep ==
    ASSUME MInv, NEW p \in Proc, Step(p), NEW f \in File
    PROVE  \/ disk'[f] = disk[f]
           \/ /\ Replace(p) /\ run[p].cur = f
              /\ disk'[f][run[p].slot] = run[p].data
              /\ \A r \in Place \ {run[p].slot} : disk'[f][r] = disk[f][r]
           \/ /\ RemoveSource(p) /\ run[p].cur = f
              /\ disk'[f]["home"] = Nothing
              /\ \A r \in Place \ {"home"} : disk'[f][r] = disk[f][r]
           \/ /\ WithdrawCopy(p) /\ run[p].cur = f
              /\ disk'[f][run[p].slot] = Nothing
              /\ \A r \in Place \ {run[p].slot} : disk'[f][r] = disk[f][r]
           \/ /\ RollbackMove(p, f)
              /\ disk[f]["home"] = Nothing /\ disk[f]["dst"] # Nothing
              /\ disk'[f]["home"] = disk[f]["dst"] /\ disk'[f]["dst"] = Nothing
              /\ \A r \in Place \ {"home", "dst"} : disk'[f][r] = disk[f][r]
           \/ /\ Reconcile(p)
              /\ disk[f]["top"] # Nothing /\ index'[f] # "top"
              /\ disk'[f]["bin"] = disk[f]["top"] /\ disk'[f]["top"] = Nothing
              /\ \A r \in Place \ {"top", "bin"} : disk'[f][r] = disk[f][r]
<1> USE DEF MInv
<1> DEFINE g == run[p].cur
           Goal == \/ disk'[f] = disk[f]
                   \/ /\ Replace(p) /\ g = f
                      /\ disk'[f][run[p].slot] = run[p].data
                      /\ \A r \in Place \ {run[p].slot} : disk'[f][r] = disk[f][r]
                   \/ /\ RemoveSource(p) /\ g = f
                      /\ disk'[f]["home"] = Nothing
                      /\ \A r \in Place \ {"home"} : disk'[f][r] = disk[f][r]
                   \/ /\ WithdrawCopy(p) /\ g = f
                      /\ disk'[f][run[p].slot] = Nothing
                      /\ \A r \in Place \ {run[p].slot} : disk'[f][r] = disk[f][r]
<1>0. run[p].slot \in Place /\ "home" \in Place /\ Nothing \in Content
  BY SlotPlace DEF Place, Content
<1>1. CASE Replace(p)
  <2>1. g \in File /\ run[p].data \in Content /\ Put(g, run[p].slot, run[p].data)
    BY <1>1 DEF Replace, TypeOK, RunState
  <2> HIDE DEF g
  <2>2. Goal
    BY <1>0, <1>1, <2>1, PutAt
  <2>3. QED
    BY <2>2 DEF g
<1>2. CASE RemoveSource(p)
  <2>1. g \in File /\ Put(g, "home", Nothing)
    BY <1>2, AfterRemove
  <2> HIDE DEF g
  <2>2. Goal
    BY <1>0, <1>2, <2>1, PutAt
  <2>3. QED
    BY <2>2 DEF g
<1>3. CASE WithdrawCopy(p)
  <2>1. g \in File /\ Put(g, run[p].slot, Nothing)
    BY <1>3 DEF WithdrawCopy, TypeOK
  <2> HIDE DEF g
  <2>2. Goal
    BY <1>0, <1>3, <2>1, PutAt
  <2>3. QED
    BY <2>2 DEF g
<1>4. ASSUME NEW h \in File, RollbackMove(p, h)
      PROVE  \/ disk'[f] = disk[f]
             \/ /\ RollbackMove(p, f)
                /\ disk[f]["home"] = Nothing /\ disk[f]["dst"] # Nothing
                /\ disk'[f]["home"] = disk[f]["dst"] /\ disk'[f]["dst"] = Nothing
                /\ \A r \in Place \ {"home", "dst"} : disk'[f][r] = disk[f][r]
  BY <1>4, RollbackAt
<1>5. CASE Reconcile(p)
  BY <1>5, ReconcileAt
<1>6. CASE UNCHANGED disk
  BY <1>6
<1>7. \/ UNCHANGED disk
      \/ Replace(p) \/ RemoveSource(p) \/ WithdrawCopy(p) \/ Reconcile(p)
      \/ \E h \in File : RollbackMove(p, h)
  BY DEF Step, Begin, CopyFile, NotMoved, CopyFails, SourceBusy, WithdrawFails, AllVisited,
     RollbackFails, GiveUp, UpdateIndex, UpdateIndexRaises, AllIndexed, WriteStatus, Crash
<1>8. QED
  BY <1>1, <1>2, <1>3, <1>4, <1>5, <1>6, <1>7

LEMMA BinStep == ASSUME MInv, BinInv, NEW p \in Proc, Step(p) PROVE BinInv'
<1> SUFFICES ASSUME NEW f \in File, disk'[f]["top"] # Nothing
             PROVE  disk'[f]["bin"] = Nothing
  BY DEF BinInv
<1>1. {"top", "bin"} \subseteq Place \ {"home", "dst", run[p].slot}
  BY SlotPlace DEF Place
<1>2. disk[f]["top"] # Nothing => disk[f]["bin"] = Nothing
  BY DEF BinInv
<1>3. QED
  BY <1>1, <1>2, DiskStep

(* No content disappears: where it was overwritten or removed, another copy  *)
(* is left.                                                                  *)
LEMMA ContentStep ==
    ASSUME MInv, BinInv, NEW p \in Proc, Step(p), CopyAt(p),
           NEW f \in File, NEW c, c # Nothing, Somewhere(c, f)
    PROVE  Somewhere(c, f)'
<1> SUFFICES \E r \in Place : disk'[f][r] = c
  BY DEF Somewhere
<1>1. PICK q \in Place : disk[f][q] = c
  BY DEF Somewhere
<1>2. {"home", "dst", "top", "bin"} \subseteq Place /\ run[p].slot \in Place \ {"home"}
  BY SlotPlace DEF Place
<1>3. CASE Replace(p) /\ run[p].cur = f
  <2>1. run[p].pc = "copied"
    BY <1>3 DEF Replace
  <2>2. q # run[p].slot
    BY <1>1, <1>3, <2>1 DEF CopyAt
  <2>3. disk'[f] = disk[f] \/ \A r \in Place \ {run[p].slot} : disk'[f][r] = disk[f][r]
    BY <1>3, <2>1, DiskStep DEF RemoveSource, WithdrawCopy, RollbackMove, Reconcile
  <2>4. QED
    BY <1>1, <2>2, <2>3
<1>4. CASE RemoveSource(p) /\ run[p].cur = f
  <2>1. run[p].pc = "replaced"
    BY <1>4 DEF RemoveSource
  <2>2. disk[f][run[p].slot] = disk[f]["home"]
    BY <1>4, <2>1 DEF CopyAt
  <2>3. disk'[f] = disk[f] \/ \A r \in Place \ {"home"} : disk'[f][r] = disk[f][r]
    BY <1>4, <2>1, DiskStep DEF Replace, WithdrawCopy, RollbackMove, Reconcile
  <2>4. QED
    BY <1>1, <1>2, <2>2, <2>3
<1>5. CASE WithdrawCopy(p) /\ run[p].cur = f
  <2>1. run[p].pc = "busy"
    BY <1>5 DEF WithdrawCopy
  <2>2. disk[f][run[p].slot] = disk[f]["home"]
    BY <1>5, <2>1 DEF CopyAt
  <2>3. disk'[f] = disk[f] \/ \A r \in Place \ {run[p].slot} : disk'[f][r] = disk[f][r]
    BY <1>5, <2>1, DiskStep DEF Replace, RemoveSource, RollbackMove, Reconcile
  <2>4. QED
    BY <1>1, <1>2, <2>2, <2>3
<1>6. CASE disk'[f] = disk[f]
  BY <1>1, <1>6
<1>7. CASE /\ disk[f]["home"] = Nothing
           /\ disk'[f]["home"] = disk[f]["dst"]
           /\ \A r \in Place \ {"home", "dst"} : disk'[f][r] = disk[f][r]
  BY <1>1, <1>2, <1>7
<1>8. CASE /\ disk[f]["top"] # Nothing
           /\ disk'[f]["bin"] = disk[f]["top"]
           /\ \A r \in Place \ {"top", "bin"} : disk'[f][r] = disk[f][r]
  <2>1. disk[f]["bin"] = Nothing
    BY <1>8 DEF BinInv
  <2>2. QED
    BY <1>1, <1>2, <1>8, <2>1
<1>9. QED
  BY <1>3, <1>4, <1>5, <1>6, <1>7, <1>8, DiskStep

LEMMA SInvStep == ASSUME MInv, SInv, NEW p \in Proc, Step(p) PROVE SInv'
<1>1. BinInv /\ BinInv'
  BY BinStep DEF SInv
<1>2. ASSUME ~contended'
      PROVE  OneMover' /\ Survives' /\ \A q \in Proc : CopyAt(q)'
  <2>1. OneMover /\ Survives /\ \A q \in Proc : CopyAt(q)
    BY <1>2, ContendedStep DEF SInv
  <2>2. OneMover' /\ \A q \in Proc : CopyAt(q)'
    BY <1>2, <2>1, OneMoverStep, CopyStep
  <2>3. ASSUME NEW f \in File
        PROVE  Somewhere(f, f)' /\ (f \in Taken => Somewhere(Other, f)')
    BY <1>1, <2>1, ContentStep, ExpiredMoveAssumption DEF Survives
  <2>4. QED
    BY <2>2, <2>3 DEF Survives
<1>3. QED
  BY <1>1, <1>2 DEF SInv

LEMMA InitSInv == Init => SInv
<1> SUFFICES ASSUME Init PROVE SInv
  OBVIOUS
<1>1. \A p \in Proc : run[p] = Idle
  BY DEF Init
<1>2. OneMover /\ \A p \in Proc : CopyAt(p)
  BY <1>1 DEF OneMover, CopyAt, Moving, Idle
<1>3. \A f \in File : disk[f] \in InitialDisk(f)
  BY InitDisk
<1>4. BinInv
  BY <1>3, InitialPaths DEF BinInv
<1>5. Survives
  BY <1>3, InitialPaths DEF Survives, Somewhere, Place
<1>6. QED
  BY <1>2, <1>4, <1>5 DEF SInv

-----------------------------------------------------------------------------
(* The rows, as long as nothing fails.                                       *)
Harmless(p) ==
    ~(\/ CopyFails(p) \/ SourceBusy(p) \/ WithdrawFails(p) \/ UpdateIndexRaises(p) \/ Crash(p)
      \/ \E f \in File : RollbackFails(p, f))

LEMMA NoFaultStep ==
    ASSUME MInv, NEW p \in Proc, Step(p), faults' = 0
    PROVE  faults = 0 /\ Harmless(p)
<1>1. faults \in Nat
  BY DEF MInv, TypeOK
<1>2. ~Fault
  BY <1>1 DEF Fault
<1>3. Harmless(p)
  BY <1>2 DEF Harmless, CopyFails, SourceBusy, WithdrawFails, UpdateIndexRaises, Crash,
     RollbackFails
<1>4. faults' = faults
  BY <1>3 DEF Harmless, Step, Begin, CopyFile, NotMoved, Replace, RemoveSource,
     WithdrawCopy, AllVisited, RollbackMove, GiveUp, UpdateIndex, AllIndexed, WriteStatus,
     Reconcile
<1>5. QED
  BY <1>3, <1>4

LEMMA IndexStep ==
    ASSUME MInv, NEW p \in Proc, Step(p), NEW f \in File
    PROVE  \/ index'[f] = index[f]
           \/ (UpdateIndex(p, f) /\ index'[f] = "dst")
           \/ /\ Reconcile(p) /\ index'[f] = "top"
              /\ disk'[f] = disk[f] /\ disk[f]["top"] # Nothing
<1>1. CASE UNCHANGED index
  BY <1>1
<1>2. CASE Reconcile(p)
  BY <1>2, ReconcileAt DEF MInv
<1>3. ASSUME NEW g \in File, UpdateIndex(p, g)
      PROVE  index'[f] = index[f] \/ (UpdateIndex(p, f) /\ index'[f] = "dst")
  BY <1>3 DEF UpdateIndex, MInv, TypeOK
<1>4. QED
  BY <1>1, <1>2, <1>3
  DEF Step, Begin, CopyFile, NotMoved, CopyFails, Replace, RemoveSource, SourceBusy,
      WithdrawCopy, WithdrawFails, AllVisited, RollbackMove, RollbackFails, GiveUp,
      UpdateIndexRaises, AllIndexed, WriteStatus, Crash

(* Which files a round has moved.                                            *)
LEMMA MovedSelf ==
    ASSUME MInv, NEW p \in Proc, Step(p), Harmless(p)
    PROVE  \/ run'[p].moved = run[p].moved
           \/ /\ RemoveSource(p) /\ disk[run[p].cur]["home"] # Nothing
              /\ run'[p].moved = run[p].moved \cup {run[p].cur}
           \/ \E f \in File : /\ RollbackMove(p, f) \/ UpdateIndex(p, f)
                              /\ run'[p].moved = run[p].moved \ {f}
<1> USE DEF MInv
<1>1. ASSUME NEW new \in Status, NEW mv \in BOOLEAN, Begin(p, new, mv)
      PROVE  run'[p].moved = run[p].moved
  BY <1>1, AfterBegin DEF RoundCovers, RoundInv
<1>2. ASSUME NEW f \in File, CopyFile(p, f) \/ NotMoved(p, f)
      PROVE  run'[p].moved = run[p].moved
  BY <1>2, AfterCopy, AfterNotMoved
<1>3. CASE WithdrawCopy(p)
  BY <1>3, AfterKept
<1>4. CASE Replace(p) \/ AllVisited(p) \/ AllIndexed(p)
  <2>1. PICK pc \in {"replaced", "rollback", "indexing", "writing"} : Go(p, pc)
    BY <1>4 DEF Replace, AllVisited, AllIndexed
  <2>2. QED
    BY <2>1, AfterGo
<1>5. CASE RemoveSource(p)
  BY <1>5, AfterRemove
<1>6. ASSUME NEW f \in File, RollbackMove(p, f) \/ UpdateIndex(p, f)
      PROVE  run'[p].moved = run[p].moved \ {f}
  BY <1>6, AfterDrop
<1>7. CASE GiveUp(p) \/ WriteStatus(p)
  <2>1. run[p].moved = {}
    BY <1>7 DEF GiveUp, WriteStatus, RoundCovers, RoundInv
  <2>2. QED
    BY <1>7, <2>1, AfterIdle
<1>8. CASE Reconcile(p)
  BY <1>8 DEF Reconcile
<1>9. QED
  BY <1>1, <1>2, <1>3, <1>4, <1>5, <1>6, <1>7, <1>8 DEF Step, Harmless

LEMMA MovedBy ==
    ASSUME MInv, NEW p \in Proc, Step(p), Harmless(p), NEW f \in File, NEW q \in Proc
    PROVE  /\ f \in run'[q].moved /\ f \notin run[q].moved =>
                q = p /\ RemoveSource(p) /\ run[p].cur = f
           /\ f \in run[q].moved /\ f \notin run'[q].moved =>
                q = p /\ (RollbackMove(p, f) \/ UpdateIndex(p, f))
           /\ RemoveSource(p) /\ run[p].cur = f /\ disk[f]["home"] # Nothing =>
                f \in run'[p].moved
<1>1. q # p => run'[q] = run[q]
  BY RunTypes DEF MInv
<1>2. RemoveSource(p) => run[p].pc = "replaced"
  BY DEF RemoveSource
<1>3. RemoveSource(p) /\ disk[run[p].cur]["home"] # Nothing =>
        run'[p].moved = run[p].moved \cup {run[p].cur}
  BY AfterRemove DEF MInv
<1>4. QED
  BY <1>1, <1>3, MovedSelf

(* A round that works on a file whose name is free copies it to that name.   *)
LEMMA FreeCopy ==
    ASSUME MInv, NEW p \in Proc, Step(p), NEW f \in File \ Taken, FreeName(f), Working(p, f)'
    PROVE  run'[p].slot = "dst" /\ run'[p].data = f
<1> USE DEF MInv
<1>1. ASSUME NEW g \in File, CopyFile(p, g)
      PROVE  run'[p].slot = "dst" /\ run'[p].data = f
  <2>1. /\ g = f /\ disk[f]["home"] \notin {Nothing, disk[f]["dst"]}
        /\ run'[p].slot \in Slot(f) /\ run'[p].data = disk[f]["home"]
    BY <1>1, AfterCopy DEF Working
  <2>2. disk[f]["home"] = f /\ disk[f]["dst"] = Nothing
    <3>1. disk[f]["home"] \in {f, Nothing} /\ disk[f]["dst"] \in {f, Nothing}
      BY DEF FreeName, Place
    <3>2. QED
      BY <2>1, <3>1
  <2>3. QED
    BY <2>1, <2>2 DEF Slot
<1>2. CASE Replace(p) \/ SourceBusy(p)
  <2>1. PICK pc \in {"replaced", "busy"} : Go(p, pc) /\ run[p].pc \in {"copied", "replaced"}
    BY <1>2 DEF Replace, SourceBusy
  <2>2. run'[p].cur = run[p].cur /\ run'[p].slot = run[p].slot /\ run'[p].data = run[p].data
    BY <2>1, AfterGo
  <2>3. Working(p, f)
    BY <2>1, <2>2 DEF Working
  <2>4. QED
    BY <2>2, <2>3 DEF FreeName
<1>a. run'[p].pc \in {"copied", "replaced", "busy"}
  BY DEF Working
<1>3. ASSUME NEW new \in Status, NEW mv \in BOOLEAN, Begin(p, new, mv) PROVE FALSE
  BY <1>3, <1>a, AfterBegin
<1>4. ASSUME NEW g \in File, NotMoved(p, g) PROVE FALSE
  BY <1>4, <1>a, AfterNotMoved
<1>5. ASSUME CopyFails(p) \/ WithdrawCopy(p) \/ WithdrawFails(p) PROVE FALSE
  BY <1>5, <1>a, AfterKept
<1>6. ASSUME RemoveSource(p) PROVE FALSE
  BY <1>6, <1>a, AfterRemove
<1>7. ASSUME AllVisited(p) \/ AllIndexed(p) PROVE FALSE
  <2>1. PICK pc \in {"rollback", "indexing", "writing"} : Go(p, pc)
    BY <1>7 DEF AllVisited, AllIndexed
  <2>2. QED
    BY <1>a, <2>1, AfterGo
<1>8. ASSUME NEW g \in File, RollbackMove(p, g) \/ RollbackFails(p, g) \/ UpdateIndex(p, g)
      PROVE  FALSE
  BY <1>8, <1>a, AfterDrop
<1>9. ASSUME GiveUp(p) \/ UpdateIndexRaises(p) \/ WriteStatus(p) \/ Crash(p) PROVE FALSE
  BY <1>9, <1>a, AfterIdle
<1>10. ASSUME Reconcile(p) PROVE FALSE
  BY <1>10, <1>a DEF Reconcile
<1>11. QED
  BY <1>1, <1>2, <1>3, <1>4, <1>5, <1>6, <1>7, <1>8, <1>9, <1>10 DEF Step

LEMMA FreeStep ==
    ASSUME MInv, NEW p \in Proc, Step(p), Harmless(p), CopyAt(p),
           NEW f \in File \ Taken, FreeName(f)
    PROVE  FreeName(f)'
<1>0. /\ f \in File /\ f # Nothing /\ {"home", "dst", "top", "bin"} \subseteq Place
      /\ run[p].slot \in Place \ {"home", "top", "bin"}
      /\ index[f] \in {"home", "dst", "top"}
  BY SlotPlace, ExpiredMoveAssumption DEF Place, MInv, TypeOK
<1>1. /\ \A q \in Place : disk[f][q] \in {f, Nothing}
      /\ \A q \in Proc : /\ Working(q, f) => run[q].slot = "dst" /\ run[q].data = f
                         /\ f \in run[q].moved => disk[f]["dst"] = f
      /\ index[f] = "top" => disk[f]["top"] = f
      /\ \/ disk[f][index[f]] = f
         \/ disk[f]["top"] = f
         \/ \E q \in Proc : f \in run[q].moved
  BY DEF FreeName
<1>2. /\ \A q \in Proc : f \in run[q].moved =>
           disk[f]["home"] = Nothing /\ \A r \in Proc : f \in run[r].moved => r = q
      /\ index[f] = "dst" =>
           disk[f]["home"] = Nothing /\ \A q \in Proc : f \notin run[q].moved
  BY DEF MInv, MovedOnce
<1>3. (Replace(p) \/ RemoveSource(p) \/ WithdrawCopy(p)) /\ run[p].cur = f =>
        /\ run[p].slot = "dst" /\ run[p].data = f /\ disk[f]["home"] = f
        /\ ~Replace(p) => disk[f]["dst"] = f
  <2>1. ASSUME Replace(p) \/ RemoveSource(p) \/ WithdrawCopy(p), run[p].cur = f
        PROVE  /\ run[p].slot = "dst" /\ run[p].data = f /\ disk[f]["home"] = f
               /\ ~Replace(p) => disk[f]["dst"] = f
    <3>1. /\ run[p].pc \in {"copied", "replaced", "busy"}
          /\ ~Replace(p) => run[p].pc # "copied"
      BY <2>1 DEF Replace, RemoveSource, WithdrawCopy
    <3>2. run[p].slot = "dst" /\ run[p].data = f
      BY <1>1, <2>1, <3>1 DEF Working
    <3>3. QED
      BY <2>1, <3>1, <3>2 DEF CopyAt
  <2>2. QED
    BY <2>1
<1>4. /\ Replace(p) => run[p].pc = "copied" /\ run'[p].moved = run[p].moved
      /\ RemoveSource(p) => run[p].pc = "replaced"
      /\ WithdrawCopy(p) => run[p].pc = "busy"
      /\ Reconcile(p) => run' = run
      /\ \A g \in File : RollbackMove(p, g) => run[p].pc = "rollback" /\ g \in run[p].moved
      /\ \A g \in File : UpdateIndex(p, g) => run[p].pc = "indexing" /\ g \in run[p].moved
  BY AfterGo DEF Replace, RemoveSource, WithdrawCopy, RollbackMove, UpdateIndex, Reconcile, MInv
<1>5. \A q \in Place : disk'[f][q] \in {f, Nothing}
  BY <1>0, <1>1, <1>3, DiskStep
<1>6. ASSUME NEW q \in Proc, Working(q, f)'
      PROVE  run'[q].slot = "dst" /\ run'[q].data = f
  <2>1. CASE q = p
    BY <1>6, <2>1, FreeCopy
  <2>2. CASE q # p
    <3>1. run'[q] = run[q]
      BY <2>2, RunTypes DEF MInv
    <3>2. Working(q, f)
      BY <1>6, <3>1 DEF Working
    <3>3. QED
      BY <1>1, <3>1, <3>2
  <2>3. QED
    BY <2>1, <2>2
<1>7. ASSUME NEW q \in Proc, f \in run'[q].moved
      PROVE  disk'[f]["dst"] = f
  <2>1. CASE f \notin run[q].moved
    <3>1. RemoveSource(p) /\ run[p].cur = f
      BY <1>0, <1>7, <2>1, MovedBy
    <3>2. disk[f]["dst"] = f
      BY <1>3, <1>4, <3>1
    <3>3. QED
      BY <1>0, <1>4, <3>1, <3>2, DiskStep
  <2>2. CASE f \in run[q].moved
    <3>1. disk[f]["dst"] = f /\ disk[f]["home"] = Nothing
      BY <1>1, <1>2, <2>2
    <3>2. ~RollbackMove(p, f)
      <4>1. ASSUME RollbackMove(p, f) PROVE FALSE
        <5>1. q = p
          BY <1>2, <1>4, <2>2, <4>1
        <5>2. f \notin run'[p].moved
          BY <1>0, <4>1, AfterDrop DEF MInv
        <5>3. QED
          BY <1>7, <5>1, <5>2
      <4>2. QED
        BY <4>1
    <3>3. QED
      BY <1>0, <1>3, <3>1, <3>2, DiskStep
  <2>3. QED
    BY <2>1, <2>2
<1>8. index'[f] = "top" => disk'[f]["top"] = f
  <2>1. ASSUME index'[f] = "top", index[f] = "top"
        PROVE  disk'[f]["top"] = f
    BY <1>0, <1>1, <2>1, DiskStep
  <2>2. ASSUME index'[f] = "top", index[f] # "top"
        PROVE  disk'[f]["top"] = f
    BY <1>0, <1>1, <2>2, IndexStep
  <2>3. QED
    BY <2>1, <2>2
<1> DEFINE Found == \/ disk'[f][index'[f]] = f
                    \/ disk'[f]["top"] = f
                    \/ \E q \in Proc : f \in run'[q].moved
<1>9. Found
  <2>1. CASE Reconcile(p)
    <3>1. run' = run /\ \A r \in Place \ {"top", "bin"} : disk'[f][r] = disk[f][r]
      BY <1>0, <1>4, <2>1, ReconcileAt DEF MInv
    <3>2. index'[f] = IF disk[f][index[f]] = Nothing /\ disk[f]["top"] # Nothing
                      THEN "top" ELSE index[f]
      BY <1>0, <2>1 DEF Reconcile
    <3>3. CASE index'[f] = "top"
      BY <1>8, <3>3
    <3>4. CASE index'[f] # "top"
      <4>1. index'[f] = index[f] /\ disk'[f][index[f]] = disk[f][index[f]]
        BY <1>0, <3>1, <3>2, <3>4
      <4>2. CASE disk[f]["top"] # Nothing
        <5>1. disk[f][index[f]] = f
          BY <1>0, <1>1, <3>2, <3>4, <4>2
        <5>2. QED
          BY <4>1, <5>1
      <4>3. CASE disk[f]["top"] = Nothing
        BY <1>0, <1>1, <3>1, <4>1, <4>3
      <4>4. QED
        BY <4>2, <4>3
    <3>5. QED
      BY <3>3, <3>4
  <2>2. CASE UpdateIndex(p, f)
    <3>1. disk' = disk /\ disk[f]["dst"] = f
      BY <1>0, <1>1, <1>4, <2>2 DEF UpdateIndex
    <3>2. index'[f] \in {"dst", "top"}
      BY <1>0, <2>2 DEF UpdateIndex, MInv, TypeOK
    <3>3. QED
      BY <1>8, <3>1, <3>2
  <2>3. CASE RollbackMove(p, f)
    <3>1. disk[f]["dst"] = f /\ disk[f]["home"] = Nothing /\ index[f] # "dst"
      BY <1>0, <1>1, <1>2, <1>4, <2>3
    <3>2. disk'[f]["home"] = f
      BY <1>0, <2>3, <3>1 DEF RollbackMove, MInv, TypeOK
    <3>3. index'[f] = index[f]
      BY <2>3 DEF RollbackMove
    <3>4. QED
      BY <1>0, <1>8, <3>1, <3>2, <3>3
  <2>4. CASE ~Reconcile(p) /\ ~UpdateIndex(p, f) /\ ~RollbackMove(p, f)
    <3>1. index'[f] = index[f]
      BY <1>0, <2>4, IndexStep
    <3>2. \A q \in Proc : f \in run[q].moved => f \in run'[q].moved
      BY <1>0, <2>4, MovedBy
    <3>3. CASE disk'[f] = disk[f]
      BY <1>1, <3>1, <3>2, <3>3
    <3>4. CASE /\ Replace(p) /\ run[p].cur = f
               /\ disk'[f][run[p].slot] = run[p].data
               /\ \A r \in Place \ {run[p].slot} : disk'[f][r] = disk[f][r]
      <4>1. run[p].slot = "dst" /\ run[p].data = f
        BY <1>3, <3>4
      <4>2. QED
        BY <1>0, <1>1, <3>1, <3>2, <3>4, <4>1
    <3>5. CASE RemoveSource(p) /\ run[p].cur = f
      BY <1>0, <1>3, <3>5, MovedBy
    <3>6. CASE /\ WithdrawCopy(p) /\ run[p].cur = f
               /\ \A r \in Place \ {run[p].slot} : disk'[f][r] = disk[f][r]
      <4>1. run[p].slot = "dst" /\ disk[f]["home"] = f
        BY <1>3, <3>6
      <4>2. index[f] # "dst"
        BY <1>0, <1>2, <4>1
      <4>3. QED
        BY <1>0, <1>8, <3>1, <3>6, <4>1, <4>2
    <3>7. QED
      BY <1>0, <2>4, <3>3, <3>4, <3>5, <3>6, DiskStep
  <2>5. QED
    BY <2>1, <2>2, <2>3, <2>4
<1>10. QED
  BY <1>5, <1>6, <1>7, <1>8, <1>9 DEF FreeName

LEMMA NInvStep == ASSUME MInv, SInv, NInv, NEW p \in Proc, Step(p) PROVE NInv'
<1> SUFFICES ASSUME faults' = 0, ~contended', NEW f \in File \ Taken
             PROVE  FreeName(f)'
  BY DEF NInv
<1>1. faults = 0 /\ Harmless(p)
  BY NoFaultStep
<1>2. ~contended
  BY ContendedStep
<1>3. FreeName(f) /\ CopyAt(p)
  BY <1>1, <1>2 DEF NInv, SInv
<1>4. QED
  BY <1>1, <1>3, FreeStep

LEMMA InitNInv == Init => NInv
<1> SUFFICES ASSUME Init, NEW f \in File \ Taken PROVE FreeName(f)
  BY DEF NInv
<1>1. \A p \in Proc : run[p] = Idle
  BY DEF Init
<1>2. disk[f] \in InitialDisk(f) /\ index[f] = "home"
  BY InitDisk DEF Init
<1>3. \A q \in Place : disk[f][q] \in {f, Nothing}
  BY <1>2, InitialPaths
<1>4. disk[f]["home"] = f \/ disk[f]["top"] = f
  BY <1>2, InitialPaths
<1>5. \A p \in Proc : ~Working(p, f) /\ run[p].moved = {}
  BY <1>1 DEF Working, Idle
<1>6. QED
  BY <1>2, <1>3, <1>4, <1>5 DEF FreeName

-----------------------------------------------------------------------------
(* Every reachable state satisfies the invariant. *)
THEOREM Invariance == Spec => []IInv
<1>1. Init => IInv
  BY InitMInv, InitSInv, InitNInv DEF IInv
<1>2. IInv /\ [Next]_vars => IInv'
  <2> SUFFICES ASSUME IInv, [Next]_vars PROVE IInv'
    OBVIOUS
  <2>1. MInv'
    BY MInvStep DEF IInv
  <2>2. ASSUME NEW p \in Proc, Step(p) PROVE SInv' /\ NInv'
    BY <2>2, SInvStep, NInvStep DEF IInv
  <2>3. CASE UNCHANGED vars
    <3>1. SInv'
      BY <2>3 DEF vars, IInv, SInv, BinInv, OneMover, Moving, CopyAt, Survives, Somewhere
    <3>2. NInv'
      BY <2>3 DEF vars, IInv, NInv, FreeName, Working
    <3>3. QED
      BY <2>1, <3>1, <3>2 DEF IInv
  <2>4. QED
    BY <2>1, <2>2, <2>3 DEF Next, Step, IInv
<1>3. QED
  BY <1>1, <1>2, PTL DEF Spec

(* The variables have their types. *)
THEOREM TypeCorrect == Spec => []TypeOK
<1>1. IInv => TypeOK
  BY DEF IInv, MInv
<1>2. QED
  BY <1>1, Invariance, PTL

(* Once a moving round wrote the status, which validity_checker.py does      *)
(* last, no file whose row was to move is at its old path.                   *)
THEOREM NeverAhead == Spec => []NeverAheadOfFiles
<1>1. IInv => NeverAheadOfFiles
  <2> SUFFICES ASSUME IInv, settled, NEW f \in File, index[f] # "top"
               PROVE  disk[f]["home"] # f
    BY DEF NeverAheadOfFiles
  <2>1. index[f] = "dst"
    BY DEF IInv, MInv, TypeOK, SettledCovers
  <2>2. QED
    BY <2>1 DEF IInv, MInv, MovedOnce
<1>2. QED
  BY <1>1, Invariance, PTL

(* The copies, renames, deletions and rollbacks of mover.py and the repair   *)
(* of archive_reconcile.py leave a copy of every file, whatever fails or     *)
(* crashes, while no two rounds overlap.                                     *)
THEOREM NoFileLost == Spec => []FilesSurvive
<1>1. IInv => FilesSurvive
  BY DEF IInv, SInv, Survives, FilesSurvive
<1>2. QED
  BY <1>1, Invariance, PTL

(* Without faults and overlaps the rows name places where the files are.     *)
THEOREM RowsNameFiles == Spec => []IndexNamesTheFile
<1>1. IInv => IndexNamesTheFile
  BY DEF IInv, NInv, FreeName, IndexNamesTheFile
<1>2. QED
  BY <1>1, Invariance, PTL
=============================================================================
