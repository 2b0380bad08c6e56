--------------------------- MODULE MCMediaService ---------------------------
(* MediaService on small sets of model values. *)
EXTENDS MediaServiceInv, DocumentedClaims, TLC

\* Requests, workers, users, ids and contents are interchangeable.
Symmetry ==
    Permutations(Request) \cup Permutations(Worker) \cup Permutations(User)
        \cup Permutations(MediaID) \cup Permutations(Content)

=============================================================================
