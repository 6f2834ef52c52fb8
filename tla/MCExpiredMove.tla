---------------------------- MODULE MCExpiredMove ----------------------------
(* Model-checking instances of ExpiredMove. *)
EXTENDS ExpiredMove, TLC

=============================================================================
