----------------------------- MODULE MCLifecycle -----------------------------
(* Lifecycle on a small instance. *)
EXTENDS Lifecycle

\* Remove passes retry.Do no options.
RemoveOperation == {[maxAttempts |-> 0, initialDelay |-> 0, maxDelay |-> 0]}

\* The annotation has priority over the label; none of the two means eBPF.
MCSettings ==
    {[annotation |-> "", label |-> ""],
     [annotation |-> "Loopback", label |-> "None"],
     [annotation |-> "", label |-> "None"],
     [annotation |-> "unknown", label |-> ""]}
=============================================================================
