-------------------------- MODULE MCAggregateBuffer --------------------------
(* Model-checking instances of AggregateBuffer. *)
EXTENDS AggregateBuffer, TLC

Symmetry == Permutations(Group) \cup Permutations(Msg) \cup Permutations(Slot)

=============================================================================
