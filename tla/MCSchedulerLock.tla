--------------------------- MODULE MCSchedulerLock ---------------------------
(* Model-checking instances of SchedulerLock. *)
EXTENDS SchedulerLock, TLC

Symmetry == Permutations(Worker)
=============================================================================
