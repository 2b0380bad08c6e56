--------------------------- MODULE MCDataClearing ---------------------------
(* DataClearing on small sets of model values. *)
EXTENDS DataClearing, TLC

Symmetry ==
    Permutations(Request) \cup Permutations(User) \cup Permutations(Content)

=============================================================================
