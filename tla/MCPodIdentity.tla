--------------------------- MODULE MCPodIdentity ---------------------------
(* PodIdentity on small instances. *)
EXTENDS PodIdentity, TLC

\* Two pauses, the second one cut to the maximum.
MCOperations == {[maxAttempts |-> 3, initialDelay |-> 2, maxDelay |-> 3]}

\* What the handler will still read, and what the invariants do: nothing of a
\* request that is over (its last step changes nothing an invariant reads), uid,
\* found, settled and the loop only before the lookup they belong to is over.
View ==
    <<configVars, clusterVars, informerVars, crashed, kernelVars,
      IF pc \in {"idle", "done"} THEN <<>>
      ELSE <<pc, todo, email, tuple, saRef, used, fresh, IF connected \/ settled THEN client ELSE Nil,
             connected, settled /\ saRef = Nil>>,
      IF pc \in {"uid", "uidFallback"} THEN uid ELSE Nil,
      IF pc = "lookup" THEN found ELSE Nil,
      IF pc \in {"lookup", "fallback"} THEN <<loop, attempt, result, delay>> ELSE <<>>>>

Symmetry == Permutations(Pods)
=============================================================================
