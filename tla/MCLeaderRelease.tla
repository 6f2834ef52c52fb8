--------------------------- MODULE MCLeaderRelease ---------------------------
(* Model-checking instances of LeaderRelease. *)
EXTENDS LeaderRelease, TLC

Symmetry == Permutations(Proc) \cup Permutations(Message)

(* The properties say nothing of what follows the end of the regular part of *)
(* a behaviour: it never becomes regular again.                              *)
WhileRegular == serial /\ timely
=============================================================================
