----------------------------- MODULE MCSessions ------------------------------
(* Bounded instances of the sessions; the identities are interchangeable. *)
EXTENDS Sessions, TLC

Symmetry == Permutations(Identities)
==============================================================================
