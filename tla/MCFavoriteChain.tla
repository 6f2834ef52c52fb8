--------------------------- MODULE MCFavoriteChain ---------------------------
(* Model-checking instances of FavoriteChain. *)
EXTENDS FavoriteChain, TLC

=============================================================================
