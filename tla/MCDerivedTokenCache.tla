------------------------ MODULE MCDerivedTokenCache ------------------------
(* Instances of DerivedTokenCache. *)
EXTENDS DerivedTokenCache, TLC

MCLifetimes == {-2, 2, 4, 6}

Symmetry == Permutations(Callers)
=============================================================================
