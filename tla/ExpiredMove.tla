----------------------------- MODULE ExpiredMove -----------------------------
(***************************************************************************)
(* The files of a standard that is found withdrawn:                        *)
(* pilotstd/core/validity_checker.py (update_status and what it calls),    *)
(* pilotstd/organizer/mover.py, pilotstd/core/file_utils.py (safe_move)    *)
(* and the repair at start-up, pilotstd/core/archive_reconcile.py.         *)
(*                                                                         *)
(* A round of the validity check moves the files first, then corrects      *)
(* their rows in file_index, one statement each, and writes the status     *)
(* last.  A move is a copy, a rename and a deletion.  The lock that keeps  *)
(* rounds apart is a lock of the process, and the server's workers and the *)
(* command line are processes of their own.                                *)
(*                                                                         *)
(* A file that was not to move, because its row already names the expired  *)
(* folder, stays out of a round; so does a file whose name does not parse, *)
(* which is why File holds those that parse only.                          *)
(***************************************************************************)
EXTENDS Naturals, FiniteSets

CONSTANTS
    File,       \* indexed files of one standard: both a file and its content
    Taken,      \* those whose name in the expired folder another file has
    Other,      \* the content of such another file
    Nothing,    \* no file at a path
    Alt,        \* names "<name> (n)" tried for a taken name
    Proc,       \* processes that check validity
    MaxFaults   \* bound: crashes, failed file operations, failed statements

ASSUME ExpiredMoveAssumption ==
    /\ Taken \subseteq File
    /\ Other \notin File /\ Nothing \notin File \cup {Other}
    /\ Alt \cap {"home", "dst", "top", "bin"} = {}
    /\ MaxFaults \in Nat

VARIABLES
    disk,       \* disk[f][place]: the content at a path of f, see Place
    index,      \* file_index.file_path of f: a place
    status,     \* standard_validity.status
    settled,    \* whether a round that moved the files wrote the status last
    run,        \* run[p]: the round of a process, see Idle
    contended,  \* whether two processes ever were in a moving round at once
    faults

vars == <<disk, index, status, settled, run, contended, faults>>

(* home: where the file was archived; dst: its name in the expired folder of *)
(* its code; top: <root>/<expired folder>; bin: the recycle folder.          *)
Place == {"home", "dst", "top", "bin"} \cup Alt

Status == {"active", "withdrawn"}
Abolished == {"withdrawn"}

Idle == [pc |-> "idle", old |-> "active", new |-> "active", mv |-> FALSE,
         todo |-> {}, moved |-> {}, failed |-> FALSE, cur |-> Nothing,
         data |-> Nothing, slot |-> "dst"]

(* A file may have been left in <root>/<expired folder> by an earlier move   *)
(* that was cut short, with or without its old copy.                         *)
InitialDisk(f) ==
    LET Paths(home, dst, top) ==
          [q \in Place |-> CASE q = "home" -> home [] q = "dst" -> dst
                             [] q = "top" -> top [] OTHER -> Nothing]
    IN  IF f \in Taken THEN {Paths(f, Other, Nothing)}
        ELSE {Paths(f, Nothing, Nothing), Paths(f, Nothing, f), Paths(Nothing, Nothing, f)}

Init ==
    /\ disk \in {d \in [File -> UNION {InitialDisk(f) : f \in File}] :
                   \A f \in File : d[f] \in InitialDisk(f)}
    /\ index = [f \in File |-> "home"]
    /\ status = "active"
    /\ settled = FALSE
    /\ run = [p \in Proc |-> Idle]
    /\ contended = FALSE
    /\ faults = 0

Put(f, q, c) == disk' = [disk EXCEPT ![f][q] = c]

Go(p, pc) == run' = [run EXCEPT ![p].pc = pc]

Fault == faults < MaxFaults /\ faults' = faults + 1

Moving(p) == run[p].pc # "idle" /\ run[p].mv

-----------------------------------------------------------------------------
(* Definitions marked "faulty" are used by no action: they are faults one    *)
(* could make in the code, and show that the properties would notice.        *)

(* update_status reads the row.  Files may be moved only on live evidence,   *)
(* with the option on and the parallel period over; whether they are is part *)
(* of the input.  The rows that name the expired folder are left out.        *)
Begin(p, new, mv) ==
    /\ run[p].pc = "idle"
    /\ mv => new \in Abolished
    /\ run' = [run EXCEPT ![p] =
                 [Idle EXCEPT !.pc = IF mv THEN "moving" ELSE "writing",
                              !.old = status, !.new = new, !.mv = mv,
                              !.todo = IF mv THEN {f \in File : index[f] = "home"} ELSE {}]]
    /\ contended' = (contended \/ (mv /\ \E q \in Proc \ {p} : Moving(q)))
    /\ UNCHANGED <<disk, index, status, settled, faults>>

(* faulty: a taken name is written over *)
SlotOverwrites(f) == IF f \in File THEN {"dst"} ELSE Alt

(* The name in the expired folder, or the next free one beside it.           *)
Slot(f) ==
    IF disk[f]["dst"] = Nothing THEN {"dst"} ELSE {a \in Alt : disk[f][a] = Nothing}

(* safe_move copies the file to a temporary one next to its destination.     *)
CopyFile(p, f) ==
    /\ run[p].pc = "moving" /\ f \in run[p].todo
    /\ disk[f]["home"] \notin {Nothing, disk[f]["dst"]}
    /\ \E s \in Slot(f) :
         run' = [run EXCEPT ![p].pc = "copied", ![p].cur = f, ![p].slot = s,
                            ![p].data = disk[f]["home"], ![p].todo = @ \ {f}]
    /\ UNCHANGED <<disk, index, status, settled, contended, faults>>

(* Nothing to move, the same content is there already, or all names beside   *)
(* it are taken: not moved.  The loop goes on with the other files.          *)
NotMoved(p, f) ==
    /\ run[p].pc = "moving" /\ f \in run[p].todo
    /\ disk[f]["home"] \in {Nothing, disk[f]["dst"]} \/ Slot(f) = {}
    /\ run' = [run EXCEPT ![p].failed = TRUE, ![p].todo = @ \ {f}]
    /\ UNCHANGED <<disk, index, status, settled, contended, faults>>

(* An error of the file system; the temporary file is removed. *)
CopyFails(p) ==
    /\ run[p].pc = "copied"
    /\ Fault
    /\ run' = [run EXCEPT ![p].pc = "moving", ![p].failed = TRUE]
    /\ UNCHANGED <<disk, index, status, settled, contended>>

(* os.replace: the destination is there, whatever was there before. *)
Replace(p) ==
    /\ run[p].pc = "copied"
    /\ Put(run[p].cur, run[p].slot, run[p].data)
    /\ Go(p, "replaced")
    /\ UNCHANGED <<index, status, settled, contended, faults>>

(* os.remove of the source.  Somebody else may have removed it: an error.    *)
RemoveSource(p) ==
    LET f == run[p].cur
        gone == disk[f]["home"] = Nothing
    IN  /\ run[p].pc = "replaced"
        /\ Put(f, "home", Nothing)
        /\ run' = [run EXCEPT ![p].pc = "moving",
                              ![p].moved = IF gone THEN @ ELSE @ \cup {f},
                              ![p].failed = @ \/ gone]
        /\ UNCHANGED <<index, status, settled, contended, faults>>

(* The source is in use and stays (PermissionError, after the retries). *)
SourceBusy(p) ==
    /\ run[p].pc = "replaced"
    /\ Fault
    /\ Go(p, "busy")
    /\ UNCHANGED <<disk, index, status, settled, contended>>

(* Then the copy is withdrawn, so that the file counts as not moved. *)
WithdrawCopy(p) ==
    /\ run[p].pc = "busy"
    /\ Put(run[p].cur, run[p].slot, Nothing)
    /\ run' = [run EXCEPT ![p].pc = "moving", ![p].failed = TRUE]
    /\ UNCHANGED <<index, status, settled, contended, faults>>

WithdrawFails(p) ==
    /\ run[p].pc = "busy"
    /\ Fault
    /\ run' = [run EXCEPT ![p].pc = "moving", ![p].failed = TRUE]
    /\ UNCHANGED <<disk, index, status, settled, contended>>

(* faulty: the round goes on with the files that were moved *)
AllVisitedGoOn(p) ==
    /\ run[p].pc = "moving" /\ run[p].todo = {}
    /\ Go(p, "indexing")
    /\ UNCHANGED <<disk, index, status, settled, contended, faults>>

(* One file that failed is enough to take the others back. *)
AllVisited(p) ==
    /\ run[p].pc = "moving" /\ run[p].todo = {}
    /\ Go(p, IF run[p].failed THEN "rollback" ELSE "indexing")
    /\ UNCHANGED <<disk, index, status, settled, contended, faults>>

-----------------------------------------------------------------------------
(* What lies at the destination goes back, if the old path is free.  (For a  *)
(* taken name that is the other file: archive returns the name it was asked  *)
(* for, not the one safe_move chose.)                                        *)
RollbackMove(p, f) ==
    /\ run[p].pc = "rollback" /\ f \in run[p].moved
    /\ IF disk[f]["dst"] # Nothing /\ disk[f]["home"] = Nothing
       THEN disk' = [disk EXCEPT ![f]["home"] = disk[f]["dst"], ![f]["dst"] = Nothing]
       ELSE UNCHANGED disk
    /\ run' = [run EXCEPT ![p].moved = @ \ {f}]
    /\ UNCHANGED <<index, status, settled, contended, faults>>

(* Best effort: a file that can not be moved back is logged. *)
RollbackFails(p, f) ==
    /\ run[p].pc = "rollback" /\ f \in run[p].moved
    /\ Fault
    /\ run' = [run EXCEPT ![p].moved = @ \ {f}]
    /\ UNCHANGED <<disk, index, status, settled, contended>>

(* The status stays; the next round tries again. *)
GiveUp(p) ==
    /\ run[p].pc = "rollback" /\ run[p].moved = {}
    /\ run' = [run EXCEPT ![p] = Idle]
    /\ UNCHANGED <<disk, index, status, settled, contended, faults>>

(* faulty: the index is left to the repair *)
UpdateIndexNot(p, f) ==
    /\ run[p].pc = "indexing" /\ f \in run[p].moved
    /\ run' = [run EXCEPT ![p].moved = @ \ {f}]
    /\ UNCHANGED <<disk, index, status, settled, contended, faults>>

(* UPDATE file_index ... WHERE file_path = the old path. *)
UpdateIndex(p, f) ==
    /\ run[p].pc = "indexing" /\ f \in run[p].moved
    /\ index' = [index EXCEPT ![f] = IF @ = "home" THEN "dst" ELSE @]
    /\ run' = [run EXCEPT ![p].moved = @ \ {f}]
    /\ UNCHANGED <<disk, status, settled, contended, faults>>

(* The statement fails, always so when another row has the path (it is       *)
(* unique): the exception ends the round.                                    *)
UpdateIndexRaises(p) ==
    /\ run[p].pc = "indexing"
    /\ Fault
    /\ run' = [run EXCEPT ![p] = Idle]
    /\ UNCHANGED <<disk, index, status, settled, contended>>

AllIndexed(p) ==
    /\ run[p].pc = "indexing" /\ run[p].moved = {}
    /\ Go(p, "writing")
    /\ UNCHANGED <<disk, index, status, settled, contended, faults>>

(* The status, unless it is the one that was read at the beginning. *)
WriteStatus(p) ==
    /\ run[p].pc = "writing"
    /\ status' = IF run[p].old = run[p].new THEN status ELSE run[p].new
    /\ settled' = CASE run[p].mv -> status' \in Abolished
                    [] OTHER -> settled /\ run[p].old = run[p].new
    /\ run' = [run EXCEPT ![p] = Idle]
    /\ UNCHANGED <<disk, index, contended, faults>>

Crash(p) ==
    /\ run[p].pc # "idle"
    /\ Fault
    /\ run' = [run EXCEPT ![p] = Idle]
    /\ UNCHANGED <<disk, index, status, settled, contended>>

(* A server process starts: reconcile_archive.  A row whose file is missing  *)
(* takes the file of the same name under <root>/<expired folder>; a file     *)
(* there that no row names goes to the recycle folder.  The folders of the   *)
(* codes, where the mover puts files, are not searched.                      *)
Reconcile(p) ==
    /\ run[p].pc = "idle"
    /\ index' = [f \in File |->
                   IF disk[f][index[f]] = Nothing /\ disk[f]["top"] # Nothing
                   THEN "top" ELSE index[f]]
    /\ disk' = [f \in File |->
                  IF index'[f] # "top" /\ disk[f]["top"] # Nothing
                  THEN [disk[f] EXCEPT !["bin"] = disk[f]["top"], !["top"] = Nothing]
                  ELSE disk[f]]
    /\ UNCHANGED <<status, settled, run, contended, faults>>

Next ==
    \E p \in Proc :
        \/ \E new \in Status, mv \in BOOLEAN : Begin(p, new, mv)
        \/ \E f \in File : CopyFile(p, f) \/ NotMoved(p, f)
        \/ CopyFails(p) \/ Replace(p) \/ RemoveSource(p)
        \/ SourceBusy(p) \/ WithdrawCopy(p) \/ WithdrawFails(p) \/ AllVisited(p)
        \/ \E f \in File : RollbackMove(p, f) \/ RollbackFails(p, f)
        \/ GiveUp(p)
        \/ \E f \in File : UpdateIndex(p, f)
        \/ UpdateIndexRaises(p) \/ AllIndexed(p) \/ WriteStatus(p)
        \/ Crash(p) \/ Reconcile(p)

Spec == Init /\ [][Next]_vars

-----------------------------------------------------------------------------
Content == File \cup {Other, Nothing}

RunState ==
    [pc : {"idle", "moving", "copied", "replaced", "busy", "rollback", "indexing",
           "writing"},
     old : Status, new : Status, mv : BOOLEAN, todo : SUBSET File,
     moved : SUBSET File, failed : BOOLEAN, cur : File \cup {Nothing},
     data : Content, slot : Place]

TypeOK ==
    /\ disk \in [File -> [Place -> Content]]
    /\ index \in [File -> {"home", "dst", "top"}]
    /\ status \in Status
    /\ settled \in BOOLEAN /\ contended \in BOOLEAN
    /\ run \in [Proc -> RunState]
    /\ \A p \in Proc : run[p].pc \in {"copied", "replaced", "busy"} => run[p].cur \in File
    /\ faults \in Nat

(* "Never does the library say withdrawn while the file is still in its      *)
(* place" (D3-1): after a round that moved the files has written the status, *)
(* no file is left at its old path, whatever failed, crashed, was rolled     *)
(* back or ran in another process meanwhile.  (The repair can point the row  *)
(* of a file that is being moved elsewhere; then it is left out.)            *)
NeverAheadOfFiles ==
    settled => \A f \in File : index[f] # "top" => disk[f]["home"] # f

Somewhere(c, f) == \E q \in Place : disk[f][q] = c

(* A move never loses a file: copy, rename, deletion, withdrawal, rollback   *)
(* and repair leave a copy of it somewhere at every moment, and of a file    *)
(* whose name it wanted.  Two processes that move the same file can lose it: *)
(* one takes its copy back to the old path, where the other deletes it.      *)
FilesSurvive ==
    ~contended =>
        \A f \in File : Somewhere(f, f) /\ (f \in Taken => Somewhere(Other, f))

(* "Query results do not point at an old path" (D3-3): the index names a     *)
(* place where the file is, except between its move and the update of its    *)
(* row, as long as nothing fails.  (The repair at start-up does not find the *)
(* files a crash left in between, and a taken name is indexed wrongly.)      *)
IndexNamesTheFile ==
    faults = 0 /\ ~contended =>
        \A f \in File \ Taken :
            \/ disk[f][index[f]] = f
            \/ disk[f]["top"] = f   \* left there by an earlier move
            \/ \E p \in Proc : f \in run[p].moved

=============================================================================
