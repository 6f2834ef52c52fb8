--------------------------- MODULE MCValidityQueue ---------------------------
(* Model-checking instances of ValidityQueue. *)
EXTENDS ValidityQueue, TLC

=============================================================================
