--------------------------- MODULE MCTaintRemoval ---------------------------
(* taints.Remove on small instances. *)
EXTENDS TaintRemoval, TLC

\* Remove passes retry.Do no options.
RemoveOperation == {[maxAttempts |-> 0, initialDelay |-> 0, maxDelay |-> 0]}

Symmetry == Permutations(OwnTaints) \cup Permutations(ForeignTaints)
=============================================================================
