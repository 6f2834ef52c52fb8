-------------------------- MODULE MCSuppressionQueue --------------------------
(* Model-checking instances of SuppressionQueue. *)
EXTENDS SuppressionQueue, TLC

=============================================================================
