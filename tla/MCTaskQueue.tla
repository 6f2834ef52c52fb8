----------------------------- MODULE MCTaskQueue -----------------------------
(* Model-checking instances of TaskQueue: the values are in the cfg files. *)
EXTENDS TaskQueue
=============================================================================
