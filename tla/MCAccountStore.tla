--------------------------- MODULE MCAccountStore ---------------------------
(* Model-checking instance of AccountStore: symmetry only. *)
EXTENDS AccountStore, TLC

Symmetry == Permutations(Keys \ {UnknownKey}) \cup Permutations(Handlers)
=============================================================================
