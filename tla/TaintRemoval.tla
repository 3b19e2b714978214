---------------------------- MODULE TaintRemoval ----------------------------
(***************************************************************************)
(* taints.Remove (internal/node/taints): when the server has started, the  *)
(* taints that kept pods away from the node are removed, by a read and an  *)
(* update of the Node object that race with every other controller that    *)
(* writes the node.                                                        *)
(***************************************************************************)
EXTENDS Retry

CONSTANTS
    OwnTaints,      \* taints whose key starts with api.GroupNode
    ForeignTaints,  \* all others
    MaxWrites       \* bound on the writes of other controllers

ASSUME TaintsAssumption == OwnTaints \cap ForeignTaints = {} /\ MaxWrites \in Nat

Taints == OwnTaints \cup ForeignTaints

VARIABLES
    node,     \* the Node object in the API server: its taints and its version
    got,      \* the object Get returned, until removeTaints returns
    func      \* control point of removeTaints: "get" or "update"

NoNode == [taints |-> {}, version |-> 0]

taintVars == <<node, got, func>>
vars == <<retryVars, taintVars>>

Init ==
    /\ RetryInit
    /\ node \in [taints : SUBSET Taints, version : {0}]
    /\ got = NoNode
    /\ func = "get"

\* The taints removeTaints keeps.
Kept(taints) == taints \ OwnTaints

\* Nothing to remove, decided by comparing lengths.
UnchangedTaints(taints) == Kept(taints) = taints

\* client.Get: an error, nothing to do, or on to the update.
Get ==
    /\ loop = "call" /\ func = "get"
    /\ IF UnchangedTaints(node.taints)
         THEN FuncReturned("none") /\ UNCHANGED <<got, func>>
         ELSE got' = node /\ func' = "update" /\ UNCHANGED retryVars
    /\ UNCHANGED node

GetFails ==
    /\ loop = "call" /\ func = "get"
    /\ FuncReturned("retryable")
    /\ UNCHANGED taintVars

\* client.Update in the API server: an object that is not the latest version is
\* refused, so that what other controllers wrote meanwhile is not lost.
AcceptsAnyVersion == TRUE
AcceptsUpdate == node.version = got.version

Written == [taints |-> Kept(got.taints), version |-> node.version + 1]

Update ==
    /\ loop = "call" /\ func = "update"
    /\ func' = "get" /\ got' = NoNode
    /\ \/ AcceptsUpdate /\ node' = Written /\ FuncReturned("none")
       \/ ~AcceptsUpdate /\ UNCHANGED node /\ FuncReturned("retryable")

\* client.Update fails on the way there, or on the way back after the write.
UpdateFails ==
    /\ loop = "call" /\ func = "update"
    /\ func' = "get" /\ got' = NoNode
    /\ \/ UNCHANGED node
       \/ AcceptsUpdate /\ node' = Written
    /\ FuncReturned("retryable")

Pause == (SleepEnds \/ SleepCancelled) /\ UNCHANGED taintVars

\* Another controller writes the taints of the node.
OtherWrites ==
    /\ node.version < MaxWrites
    /\ \E taints \in SUBSET Taints : node' = [taints |-> taints, version |-> node.version + 1]
    /\ UNCHANGED <<retryVars, got, func>>

Next == Get \/ GetFails \/ Update \/ UpdateFails \/ Pause \/ OtherWrites

Spec == Init /\ [][Next]_vars

-----------------------------------------------------------------------------
\* removeTaints takes its own taints off the node and nothing else: no step of it
\* adds or drops a taint of others, however the read and the update interleave with
\* writes of other controllers and with answers that get lost, and when Remove ends
\* with success the node carries none of its taints.
RemovesOwnTaints ==
    [][/\ Update \/ UpdateFails => Kept(node'.taints) = Kept(node.taints)
       /\ result' = "none" /\ result # "none" => node'.taints \cap OwnTaints = {}]_vars

\* What the comment of Remove says: it does not end before the taints are removed
\* (a cancelled context apart).
BlocksUntilRemoved == loop = "returned" => result \in {"none", "cancelled"}
=============================================================================
