------------------------------ MODULE MCHandles ------------------------------
(* Bounded instances of the C handles; the identities are interchangeable. *)
EXTENDS CHandles, TLC

Symmetry == Permutations(Identities)
==============================================================================
