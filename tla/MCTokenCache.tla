---------------------------- MODULE MCTokenCache ----------------------------
(* TokenCache on small instances. *)
EXTENDS TokenCache, TLC

\* Accounts, structs and requests are interchangeable.
Symmetry == Permutations(Entries) \cup Permutations(Requests) \cup Permutations(Refs)

\* What can still be read: not the fields of garbage, not the podCount and the
\* deleted flag of a struct that has left the map, not the value of an answer
\* nobody waits for.
View ==
    <<providerVars, clusterVars, callEntry, call, returned,
      [sa \in Entries |->
         IF Free(sa) THEN Nil
         ELSE <<reference[sa], tokens[sa], externalRequests[sa], expired[sa], worker[sa],
                batch[sa], email[sa], created[sa],
                IF \E ref \in Refs : serviceAccounts[ref] = sa
                THEN <<podCount[sa], deleted[sa]>> ELSE Nil>>],
      [req \in Requests |->
         IF call[req] = "done" /\ reply[req] # Nil THEN Failure("none") ELSE reply[req]]>>
=============================================================================
