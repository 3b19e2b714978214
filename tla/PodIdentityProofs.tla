-------------------------- MODULE PodIdentityProofs --------------------------
(***************************************************************************)
(* Theorems about PodIdentity.  That an attested request belongs to its    *)
(* client rests on the kernel's two tables: a connection that is open is   *)
(* recorded for the pod that made it, or for nobody.                       *)
(***************************************************************************)
EXTENDS PodIdentity, RetryProofs, FiniteSetTheorems

\* The tables and the request refer to pods and to each other's keys.
TablesOK ==
    /\ socket \in [Tuples -> Pods \cup {Nil}]
    /\ attested \in [Tuples -> Pods \cup {Nil}]
    /\ tuple \in Tuples

\* An open connection is recorded for its owner or for nobody.
RecordOfOwner ==
    mode = "eBPF" => \A t \in Tuples : socket[t] # Nil => attested[t] \in {socket[t], Nil}

\* What the request knows of its client, at each control point.
ClientKnown ==
    /\ connected => socket[tuple] = client /\ client # Nil
    /\ UseAttestation => pc \notin {"lookup", "fallback"}
    /\ UseAttestation /\ connected /\ pc \in {"uid", "uidFallback"} => uid = client

AttestInv == TablesOK /\ RecordOfOwner /\ ClientKnown /\ AttestedIsClient

LEMMA AttestInit == Init => AttestInv
BY DEF Init, AttestInv, TablesOK, RecordOfOwner, ClientKnown, AttestedIsClient, UseAttestation

\* Steps of the environment.
LEMMA AttestWorld == ASSUME AttestInv, World PROVE AttestInv'
<1>0. TablesOK /\ RecordOfOwner /\ ClientKnown /\ AttestedIsClient
  BY DEF AttestInv
<1>1. UNCHANGED <<mode, tuple, client, pc, uid, saRef>>
  BY DEF World, Environment, configVars, requestVars
<1>2. connected' => connected /\ socket'[tuple] = client
  BY DEF World, Watch
<1>3. TablesOK' /\ RecordOfOwner'
  <2>1. CASE \E p \in Pods : ObjectChanges(p) \/ PodStarts(p)
    <3>1. UNCHANGED <<socket, attested>>
      BY <2>1 DEF ObjectChanges, Change, PodStarts, kernelVars
    <3> QED BY <1>0, <1>1, <3>1 DEF TablesOK, RecordOfOwner
  <2>2. CASE \E p \in Pods : PodStops(p)
    BY <1>0, <1>1, <2>2 DEF TablesOK, RecordOfOwner, PodStops
  <2>3. CASE \E p \in Pods : Connect(p)
    <3>1. PICK p \in Pods, t \in Tuples :
            /\ socket' = [socket EXCEPT ![t] = p]
            /\ attested' = IF mode = "eBPF" THEN [attested EXCEPT ![t] = p] ELSE attested
      BY <2>3 DEF Connect, Record
    <3> QED BY <1>0, <1>1, <3>1 DEF TablesOK, RecordOfOwner
  <2>4. CASE \E t \in Tuples : Disconnect(t) \/ Evict(t)
    BY <1>0, <1>1, <2>4 DEF TablesOK, RecordOfOwner, Disconnect, Evict
  <2> QED BY <2>1, <2>2, <2>3, <2>4 DEF World
<1>4. ClientKnown' /\ AttestedIsClient'
  BY <1>0, <1>1, <1>2 DEF ClientKnown, AttestedIsClient, UseAttestation, IsHostSourceIP
<1> QED BY <1>3, <1>4 DEF AttestInv

\* Steps of the daemon other than the start of a request.
LEMMA AttestDaemon ==
    ASSUME AttestInv, Daemon,
           \/ ReferenceFromContext \/ ReferenceLookup
           \/ Attest \/ AttestFails \/ GetByUID \/ GetByUIDFallback
           \/ GetByIP \/ GetByIPFallback \/ LookupPauses \/ LookupReturns
           \/ RouteRequest \/ Validate \/ UseAccount \/ GetEmail \/ RequireTarget \/ Respond
    PROVE  AttestInv'
<1>0. TablesOK /\ RecordOfOwner /\ ClientKnown /\ AttestedIsClient
  BY DEF AttestInv
<1>1. UNCHANGED <<mode, socket, attested, tuple, client, connected>>
  BY DEF Daemon, configVars, kernelVars, historyVars
<1>2. TablesOK' /\ RecordOfOwner'
  BY <1>0, <1>1 DEF TablesOK, RecordOfOwner
<1>3. UseAttestation' = UseAttestation
  BY <1>1 DEF UseAttestation, IsHostSourceIP
<1>4. SUFFICES /\ UseAttestation => pc' \notin {"lookup", "fallback"}
               /\ UseAttestation /\ connected /\ pc' \in {"uid", "uidFallback"} => uid' = client
               /\ UseAttestation /\ connected /\ saRef' # Nil => saRef' = client
  BY <1>0, <1>1, <1>2, <1>3 DEF AttestInv, ClientKnown, AttestedIsClient
<1>5. CASE ReferenceFromContext
  BY <1>0, <1>5 DEF ReferenceFromContext, AssignPodServiceAccount, ClientKnown, AttestedIsClient
<1>6. CASE ReferenceLookup
  BY <1>0, <1>6 DEF ReferenceLookup, ClientKnown, AttestedIsClient
<1>7. CASE Attest
  <2>1. connected => Owner = client
    BY <1>0, <1>7 DEF Attest, Owner, TablesOK, RecordOfOwner, ClientKnown
  <2> QED BY <1>0, <1>7, <2>1 DEF Attest, ClientKnown, AttestedIsClient
<1>8. CASE AttestFails
  BY <1>0, <1>8 DEF AttestFails, RespondError, ClientKnown, AttestedIsClient
<1>9. CASE GetByUID \/ GetByUIDFallback
  BY <1>0, <1>9
  DEF GetByUID, GetByUIDFallback, AssignPodServiceAccount, RespondError, ClientKnown,
      AttestedIsClient
<1>10. CASE GetByIP \/ GetByIPFallback \/ LookupPauses \/ LookupReturns
  BY <1>0, <1>10 DEF GetByIP, GetByIPFallback, LookupPauses, LookupReturns, ClientKnown
<1>11. CASE RouteRequest \/ Validate \/ UseAccount \/ GetEmail \/ RequireTarget \/ Respond
  BY <1>0, <1>11
  DEF RouteRequest, Validate, UseAccount, GetEmail, RequireTarget, Respond, Proceed,
      RespondError, ClientKnown,
      AttestedIsClient
<1> QED BY <1>5, <1>6, <1>7, <1>8, <1>9, <1>10, <1>11

LEMMA AttestStep == ASSUME AttestInv, [Next]_vars PROVE AttestInv'
<1>0. TablesOK /\ RecordOfOwner /\ ClientKnown /\ AttestedIsClient
  BY DEF AttestInv
<1>1. CASE World
  BY <1>1, AttestWorld
<1>2. CASE Deliver \/ Relist
  <2>1. UNCHANGED <<mode, socket, attested, tuple, client, pc, uid, saRef>>
    BY <1>2 DEF Deliver, Relist, Environment, configVars, kernelVars, requestVars
  <2>2. connected' => connected
    BY <1>2 DEF Deliver, Relist, Watch
  <2> QED
    BY <1>0, <2>1, <2>2
    DEF AttestInv, TablesOK, RecordOfOwner, ClientKnown, AttestedIsClient, UseAttestation,
        IsHostSourceIP
<1>3. ASSUME Request PROVE AttestInv'
  BY <1>0, <1>3
  DEF Request, configVars, kernelVars, AttestInv, TablesOK, RecordOfOwner, ClientKnown,
      AttestedIsClient
<1>4. CASE Serve /\ ~Request
  <2>1. Daemon
    BY <1>4
    DEF Serve, ReferenceFromContext, ReferenceLookup, Attest, AttestFails, GetByUID,
        GetByUIDFallback, GetByIP, GetByIPFallback, LookupPauses, LookupReturns, RouteRequest,
        Validate, UseAccount,
        GetEmail, RequireTarget, Respond
  <2> QED BY <1>4, <2>1, AttestDaemon DEF Serve
<1>5. CASE UNCHANGED vars
  BY <1>0, <1>5
  DEF vars, configVars, kernelVars, requestVars, historyVars, AttestInv, TablesOK, RecordOfOwner,
      ClientKnown, AttestedIsClient, UseAttestation, IsHostSourceIP
<1> QED BY <1>1, <1>2, <1>3, <1>4, <1>5 DEF Next, Serve

\* In every mode and for any number of pods, a request attested by the kernel is
\* attributed to the pod that sent it (getPodServiceAccountReference).
THEOREM AlwaysAttestedIsClient == Spec => []AttestedIsClient
<1>1. AttestInv => AttestedIsClient
  BY DEF AttestInv
<1> QED BY <1>1, AttestInit, AttestStep, PTL DEF Spec

-----------------------------------------------------------------------------
(* One identity for each request *)

\* Every step is one of the loop, or starts it over.
LEMMA LoopStep == ASSUME [Next]_vars, ~ReferenceLookup PROVE [RetryNext]_retryVars
<1>1. CASE World \/ Deliver \/ Relist \/ UNCHANGED vars
  BY <1>1 DEF World, Deliver, Relist, Environment, vars
<1>2. CASE Request \/ ReferenceFromContext \/ Attest \/ AttestFails \/ GetByUID
           \/ GetByUIDFallback \/ LookupReturns \/ RouteRequest \/ Validate \/ UseAccount
           \/ GetEmail \/ RequireTarget \/ Respond
  BY <1>2
  DEF Request, ReferenceFromContext, Attest, AttestFails, GetByUID, GetByUIDFallback,
      LookupReturns, RouteRequest, Validate, UseAccount, GetEmail, RequireTarget, Respond
<1>3. CASE GetByIP \/ GetByIPFallback \/ LookupPauses
  BY <1>3 DEF GetByIP, GetByIPFallback, LookupPauses, FoundByIP, RetryNext, AnyFunc
<1> QED BY <1>1, <1>2, <1>3 DEF Next, Serve

LEMMA RetryKept == ASSUME RetryInv, [Next]_vars PROVE RetryInv'
<1>1. CASE ReferenceLookup
  <2>1. RetryTypeOK /\ op.maxAttempts \in Int \ {0}
    BY DEF RetryInv, RetryTypeOK
  <2> QED
    BY <1>1, <2>1
    DEF ReferenceLookup, RetryInv, RetryTypeOK, LoopInv, SuccessIsReal, FailuresExact
<1>2. CASE ~ReferenceLookup
  <2>1. [RetryNext]_retryVars
    BY <1>2, LoopStep
  <2> QED BY <2>1, StepRetry
<1> QED BY <1>1, <1>2

Looking == {"attest", "uid", "uidFallback", "lookup", "fallback"}

\* The account is looked up before it is used, once, and the lookups end with a pod.
IdentityInv ==
    /\ used \subseteq {saRef}
    /\ saRef = Nil => used = {}
    /\ pc \in Looking => saRef = Nil
    /\ pc = "next" /\ saRef = Nil => todo # <<>> /\ Head(todo) = "ref"
    /\ pc \in {"uid", "uidFallback"} => uid # Nil
    /\ pc \in {"attest", "uid", "uidFallback"} => UseAttestation
    /\ loop = "returned" /\ result = "none" /\ pc = "lookup" => found # Nil

LEMMA IdentityInit == Init => IdentityInv
BY DEF Init, IdentityInv, Looking

LEMMA IdentityStep == ASSUME RetryInv, IdentityInv, [Next]_vars PROVE IdentityInv'
<1> USE DEF IdentityInv, Looking
<1>1. CASE World \/ Deliver \/ Relist \/ UNCHANGED vars
  <2>1. UNCHANGED <<mode, tuple, pc, todo, saRef, used, uid, found, loop, result>>
    BY <1>1
    DEF World, Deliver, Relist, Environment, vars, configVars, requestVars, retryVars
  <2> QED BY <2>1 DEF UseAttestation, IsHostSourceIP
<1>2. ASSUME Request PROVE IdentityInv'
  <2>1. todo' # <<>> /\ Head(todo') = "ref"
    BY <1>2 DEF Request, Lister
  <2> QED BY <1>2, <2>1 DEF Request
<1>3. ASSUME Daemon PROVE UseAttestation' = UseAttestation
  BY <1>3 DEF Daemon, configVars, UseAttestation, IsHostSourceIP
<1>4. CASE ReferenceFromContext
  BY <1>4 DEF ReferenceFromContext, AssignPodServiceAccount, ContextHit
<1>5. CASE ReferenceLookup
  BY <1>3, <1>5 DEF ReferenceLookup, ContextHit
<1>6. CASE Attest \/ AttestFails
  BY <1>3, <1>6 DEF Attest, AttestFails, RespondError
<1>7. CASE GetByUID \/ GetByUIDFallback
  BY <1>3, <1>7 DEF GetByUID, GetByUIDFallback, AssignPodServiceAccount, RespondError
<1>8. CASE GetByIP \/ GetByIPFallback
  <2>1. /\ pc \in {"lookup", "fallback"} /\ pc' \in {"lookup", "fallback"}
        /\ UNCHANGED <<todo, saRef, used, uid>>
    BY <1>8 DEF GetByIP, GetByIPFallback
  <2>2. loop' = "returned" /\ result' = "none" /\ pc' = "lookup" => found' # Nil
    <3>1. ASSUME NEW pods \in SUBSET Pods, NEW isFresh, FoundByIP(pods, isFresh),
                 loop' = "returned", result' = "none"
          PROVE  found' # Nil
      BY <3>1, PodsAssumption DEF FoundByIP, FuncReturned, DoReturns
    <3>2. ASSUME FuncReturned("retryable") PROVE result' # "none"
      BY <3>2 DEF FuncReturned, DoReturns, RetryInv, LoopInv
    <3>3. ByIP(store, tuple.ip) \in SUBSET Pods /\ ByIP(object, tuple.ip) \in SUBSET Pods
      BY DEF ByIP, FilterPods
    <3> QED BY <1>8, <3>1, <3>2, <3>3 DEF GetByIP, GetByIPFallback
  <2> QED BY <2>1, <2>2
<1>9. CASE LookupPauses
  <2>1. result' # "none"
    BY <1>9
    DEF LookupPauses, SleepEnds, SleepCancelled, DoReturns, RetryInv, RetryTypeOK, LoopInv
  <2> QED BY <1>9, <2>1 DEF LookupPauses
<1>10. CASE LookupReturns
  BY <1>10 DEF LookupReturns, AssignPodServiceAccount, RespondError
<1>11. CASE UseAccount
  BY <1>11 DEF UseAccount, Calls, Proceed, RespondError
<1>12. CASE GetEmail
  BY <1>12 DEF GetEmail, Calls, Proceed, RespondError
<1>13. CASE RequireTarget \/ Respond
  BY <1>13 DEF RequireTarget, Respond, Calls, Proceed, RespondError
<1>14. CASE RouteRequest \/ Validate
  BY <1>14 DEF RouteRequest, Validate, Calls, Proceed, RespondError
<1> QED
  BY <1>1, <1>2, <1>4, <1>5, <1>6, <1>7, <1>8, <1>9, <1>10, <1>11, <1>12, <1>13, <1>14
  DEF Next, Serve

LEMMA IdentityInvariance == Spec => [](RetryInv /\ IdentityInv)
<1>1. Init => RetryInv /\ IdentityInv
  BY InitRetry, IdentityInit DEF Init
<1>2. RetryInv /\ IdentityInv /\ [Next]_vars => RetryInv' /\ IdentityInv'
  BY RetryKept, IdentityStep
<1> QED BY <1>1, <1>2, PTL DEF Spec

\* In every mode and for any number of pods, all calls of one request use the same
\* account (podServiceAccountReferenceContextKey).
THEOREM AlwaysOneIdentity == Spec => []OneIdentity
<1>1. IdentityInv => OneIdentity
  <2> SUFFICES ASSUME IdentityInv PROVE Cardinality(used) <= 1
    BY DEF OneIdentity
  <2>1. used = {} \/ used = {saRef}
    BY DEF IdentityInv
  <2>2. Cardinality({}) = 0
    BY FS_EmptySet
  <2>3. Cardinality({saRef}) = 1
    BY FS_Singleton
  <2> QED BY <2>1, <2>2, <2>3
<1> QED BY <1>1, IdentityInvariance, PTL

-----------------------------------------------------------------------------
(* Attribution by address *)

\* Addresses: each is held by one pod, and connections come from the address of
\* the pod that holds them.
AddressesOK ==
    /\ hostPods \subseteq Pods
    /\ addr \in [Pods -> IPs \cup {PodIP, Nil}]
    /\ \A p \in Pods \ hostPods : addr[p] \in IPs \cup {Nil}
    /\ \A p, q \in Pods \ hostPods : addr[p] = addr[q] /\ addr[p] # Nil => p = q
    /\ \A t \in Tuples : socket[t] # Nil =>
          IF socket[t] \in hostPods THEN t.ip \in HostIPs
                                    ELSE t.ip = addr[socket[t]]
    /\ \A t \in Tuples : socket[t] # Nil => addr[socket[t]] # Nil

\* A lookup that saw the pods as they were found the client.
FoundClient == ~UseAttestation /\ connected /\ fresh => found = client

\* A settled request has one candidate, and its loop ends with the first attempt.
SettledInv ==
    settled /\ ~UseAttestation =>
        /\ client \in Pods \ hostPods
        /\ Settled(client) /\ addr[client] = tuple.ip
        /\ pc # "fallback"
        /\ pc = "lookup" => loop = "call" \/ (loop = "returned" /\ result = "none")

AddressInv == AddressesOK /\ FoundClient /\ SettledInv /\ AddressIsClient

Known == RetryInv /\ AttestInv /\ IdentityInv

LEMMA AddressInit == Init => AddressInv
BY PodsAssumption
DEF Init, AddressInv, AddressesOK, FoundClient, SettledInv, AddressIsClient

\* The only pod that has the address of an open connection is its client.
LEMMA ClientHasAddress ==
    ASSUME Known, AddressesOK, connected, ~UseAttestation
    PROVE  client \in Pods \ hostPods /\ addr[client] = tuple.ip /\ tuple.ip \in IPs
<1>1. tuple \in Tuples /\ socket[tuple] = client /\ client # Nil /\ client \in Pods
  BY DEF Known, AttestInv, TablesOK, ClientKnown
<1>2. tuple.ip \notin HostIPs /\ tuple.ip \in IPs \cup HostIPs
  BY <1>1 DEF UseAttestation, IsHostSourceIP, Tuples
<1> QED BY <1>1, <1>2 DEF AddressesOK

LEMMA AddressesKept == ASSUME Known, AddressesOK, [Next]_vars PROVE AddressesOK'
<1>0. TablesOK
  BY DEF Known, AttestInv
<1>1. CASE \E p \in Pods : PodStarts(p) /\ Environment
  <2>1. PICK p \in Pods : PodStarts(p) /\ Environment
    BY <1>1
  <2>2. UNCHANGED <<hostPods, socket>>
    BY <2>1 DEF PodStarts, Environment, configVars, kernelVars
  <2>3. PICK ip \in IF p \in hostPods THEN {PodIP} ELSE IPs \ {addr[q] : q \in Pods} :
          addr' = [addr EXCEPT ![p] = ip]
    BY <2>1 DEF PodStarts
  <2>4. addr[p] = Nil /\ ip # Nil
    BY <2>1, <2>3, PodsAssumption DEF PodStarts
  <2> QED BY <1>0, <2>2, <2>3, <2>4 DEF AddressesOK, TablesOK
<1>2. CASE \E p \in Pods : PodStops(p) /\ Environment
  <2>1. PICK p \in Pods : PodStops(p) /\ Environment
    BY <1>2
  <2>2. /\ UNCHANGED hostPods
        /\ addr' = [addr EXCEPT ![p] = Nil]
        /\ socket' = [t \in Tuples |-> IF socket[t] = p THEN Nil ELSE socket[t]]
    BY <2>1 DEF PodStops, Environment, configVars
  <2> QED BY <1>0, <2>2 DEF AddressesOK, TablesOK
<1>3. CASE \E p \in Pods : Connect(p) /\ Environment
  <2>1. PICK p \in Pods : Connect(p) /\ Environment
    BY <1>3
  <2>2. PICK t \in Tuples :
          /\ addr[p] # Nil
          /\ t.ip \in IF p \in hostPods THEN HostIPs ELSE {addr[p]}
          /\ socket' = [socket EXCEPT ![t] = p]
          /\ UNCHANGED <<addr, hostPods>>
    BY <2>1 DEF Connect, Environment, configVars, clusterVars
  <2> QED BY <1>0, <2>2 DEF AddressesOK, TablesOK
<1>4. CASE \E t \in Tuples : Disconnect(t) /\ Environment
  <2>1. PICK t \in Tuples : Disconnect(t) /\ Environment
    BY <1>4
  <2>2. socket' = [socket EXCEPT ![t] = Nil] /\ UNCHANGED <<addr, hostPods>>
    BY <2>1 DEF Disconnect, Environment, configVars, clusterVars
  <2> QED BY <1>0, <2>2 DEF AddressesOK, TablesOK
<1>5. CASE UNCHANGED <<hostPods, addr, socket>>
  BY <1>5 DEF AddressesOK
<1>6. \/ \E p \in Pods : (PodStarts(p) \/ PodStops(p) \/ Connect(p)) /\ Environment
      \/ \E t \in Tuples : Disconnect(t) /\ Environment
      \/ UNCHANGED <<hostPods, addr, socket>>
  <2>1. CASE World
    <3>1. ASSUME NEW p \in Pods, ObjectChanges(p), Environment
          PROVE UNCHANGED <<hostPods, addr, socket>>
      BY <3>1 DEF ObjectChanges, Change, Environment, configVars, kernelVars
    <3>2. ASSUME NEW t \in Tuples, Evict(t), Environment
          PROVE UNCHANGED <<hostPods, addr, socket>>
      BY <3>2 DEF Evict, Environment, configVars, clusterVars
    <3> QED BY <2>1, <3>1, <3>2 DEF World
  <2>2. CASE Deliver \/ Relist \/ UNCHANGED vars
    BY <2>2 DEF Deliver, Relist, Environment, vars, configVars, clusterVars, kernelVars
  <2>3. CASE Serve
    BY <2>3
    DEF Serve, Request, ReferenceFromContext, ReferenceLookup, Attest, AttestFails, GetByUID,
        GetByUIDFallback, GetByIP, GetByIPFallback, LookupPauses, LookupReturns, RouteRequest,
        Validate, UseAccount,
        GetEmail, RequireTarget, Respond, Daemon, configVars, clusterVars, kernelVars
  <2> QED BY <2>1, <2>2, <2>3 DEF Next
<1> QED BY <1>1, <1>2, <1>3, <1>4, <1>5, <1>6

\* When objects tell the truth, an address leads to no other pod than the client.
LEMMA OnlyClient ==
    ASSUME Known, AddressesOK, Truthful, ~UseAttestation, NEW c \in Pods \ hostPods,
           addr[c] = tuple.ip, tuple.ip # Nil, NEW q \in ByIP(object, tuple.ip)
    PROVE  q = c
<1>1. q \in Pods \ hostPods /\ object[q].phase = "live" /\ object[q].ip = tuple.ip
  BY DEF ByIP, FilterPods
<1>2. addr[q] = tuple.ip
  BY <1>1 DEF Truthful
<1> QED BY <1>1, <1>2 DEF AddressesOK

\* Steps that leave the request alone.
LEMMA AddressAround ==
    ASSUME Known, AddressInv, World \/ Deliver \/ Relist
    PROVE  FoundClient' /\ SettledInv' /\ AddressIsClient'
<1>0. FoundClient /\ SettledInv /\ AddressIsClient
  BY DEF AddressInv
<1>1. UNCHANGED <<mode, hostPods, tuple, client, pc, saRef, found, fresh, loop, result>>
  BY DEF World, Deliver, Relist, Environment, configVars, requestVars, retryVars
<1>2. (connected' => connected) /\ (settled' => settled /\ Settled(client)')
  BY DEF World, Deliver, Relist, Watch
<1>3. UseAttestation' = UseAttestation
  BY <1>1 DEF UseAttestation, IsHostSourceIP
<1>4. FoundClient' /\ AddressIsClient'
  BY <1>0, <1>1, <1>2, <1>3 DEF FoundClient, AddressIsClient
<1>5. addr' = addr \/ object' = object
  BY DEF World, Deliver, Relist, ObjectChanges, Change, PodStarts, PodStops, Connect, Disconnect,
         Evict, clusterVars
<1>6. SettledInv'
  <2> SUFFICES ASSUME settled', ~UseAttestation PROVE addr'[client] = tuple.ip
    BY <1>0, <1>1, <1>2, <1>3 DEF SettledInv
  <2>1. addr[client] = tuple.ip /\ object[client].ip = addr[client]
    BY <1>0, <1>2 DEF SettledInv, Settled
  <2>2. object'[client].ip = addr'[client]
    BY <1>1, <1>2 DEF Settled
  <2> QED BY <1>5, <2>1, <2>2
<1> QED BY <1>4, <1>6

\* The start of a request.
LEMMA AddressRequest ==
    ASSUME Known, AddressInv, Request
    PROVE  FoundClient' /\ SettledInv' /\ AddressIsClient'
<1>0. AddressesOK /\ TablesOK
  BY DEF AddressInv, Known, AttestInv
<1>1. PICK t \in Tuples :
        /\ socket[t] # Nil
        /\ tuple' = t /\ client' = socket[t] /\ settled' = Settled(socket[t])
  BY DEF Request
<1>2. /\ UNCHANGED <<mode, hostPods, object, addr, store>>
      /\ pc' \in {"next", "done"} /\ saRef' = Nil /\ fresh' = FALSE
  BY DEF Request, configVars, clusterVars, informerVars
<1>3. FoundClient' /\ AddressIsClient'
  BY <1>2 DEF FoundClient, AddressIsClient
<1>4. SettledInv'
  <2> SUFFICES ASSUME settled', ~UseAttestation'
               PROVE  /\ client' \in Pods \ hostPods
                      /\ Settled(client)' /\ addr[client'] = tuple'.ip
    BY <1>2 DEF SettledInv
  <2>1. client' \in Pods /\ tuple'.ip \notin HostIPs
    BY <1>0, <1>1 DEF TablesOK, UseAttestation, IsHostSourceIP
  <2>2. client' \notin hostPods /\ addr[client'] = tuple'.ip
    BY <1>0, <1>1, <2>1 DEF AddressesOK
  <2>3. Settled(client)'
    BY <1>1, <1>2 DEF Settled, Truthful
  <2> QED BY <2>1, <2>2, <2>3
<1> QED BY <1>3, <1>4

\* The lookup by address.
LEMMA AddressLookup ==
    ASSUME Known, AddressInv, GetByIP \/ GetByIPFallback
    PROVE  FoundClient' /\ SettledInv' /\ AddressIsClient'
<1>0. AddressesOK /\ FoundClient /\ SettledInv /\ RetryInv
  BY DEF AddressInv, Known
<1>1. /\ UNCHANGED <<mode, hostPods, object, addr, store, tuple, client, connected, settled,
                     saRef>>
      /\ saRef = Nil /\ pc' \in {"lookup", "fallback"}
  BY DEF GetByIP, GetByIPFallback, Daemon, configVars, clusterVars, informerVars, historyVars,
         Known, IdentityInv, Looking
<1>2. UseAttestation' = UseAttestation
  BY <1>1 DEF UseAttestation, IsHostSourceIP
<1>3. AddressIsClient'
  BY <1>1 DEF AddressIsClient
<1>4. ASSUME NEW pods, NEW isFresh, FoundByIP(pods, isFresh), isFresh => Truthful,
             isFresh => pods = ByIP(object, tuple.ip)
      PROVE  FoundClient'
  <2> SUFFICES ASSUME ~UseAttestation, connected, fresh' PROVE found' = client
    BY <1>1, <1>2 DEF FoundClient
  <2>1. CASE found' = found /\ fresh' = fresh
    BY <1>0, <2>1 DEF FoundClient
  <2>2. CASE found' \in pods /\ fresh' = isFresh
    <3>1. client \in Pods \ hostPods /\ addr[client] = tuple.ip /\ tuple.ip \in IPs
      BY <1>0, ClientHasAddress
    <3> QED BY <1>0, <1>4, <2>2, <3>1, OnlyClient, PodsAssumption
  <2> QED BY <1>4, <2>1, <2>2 DEF FoundByIP
<1>5. FoundClient'
  <2>1. CASE UNCHANGED <<found, fresh>>
    BY <1>0, <1>1, <1>2, <2>1 DEF FoundClient
  <2>2. CASE FoundByIP(ByIP(store, tuple.ip), Truthful /\ store = object)
    BY <1>4, <2>2
  <2>3. CASE FoundByIP(ByIP(object, tuple.ip), Truthful)
    BY <1>4, <2>3
  <2> QED BY <2>1, <2>2, <2>3 DEF GetByIP, GetByIPFallback
<1>6. SettledInv'
  <2> SUFFICES ASSUME settled, ~UseAttestation
               PROVE pc' # "fallback" /\ loop' = "returned" /\ result' = "none"
    BY <1>0, <1>1, <1>2 DEF SettledInv, Settled, Truthful
  <2>1. /\ pc # "fallback" /\ client \in Pods \ hostPods
        /\ Settled(client) /\ addr[client] = tuple.ip
    BY <1>0 DEF SettledInv
  <2>2. tuple.ip # Nil
    BY PodsAssumption DEF Known, AttestInv, TablesOK, Tuples
  <2>3. ByIP(store, tuple.ip) = {client}
    <3>1. client \in ByIP(object, tuple.ip)
      BY <2>1 DEF Settled, ByIP, FilterPods
    <3>2. \A q \in ByIP(object, tuple.ip) : q = client
      BY <1>0, <2>1, <2>2, OnlyClient DEF Settled
    <3>3. store = object
      BY <2>1 DEF Settled
    <3> QED BY <3>1, <3>2, <3>3
  <2>4. ExactlyOne(ByIP(store, tuple.ip))
    BY <2>3, FS_Singleton DEF ExactlyOne
  <2>5. GetByIP
    BY <2>1 DEF GetByIPFallback
  <2>6. pc' = "lookup" /\ FuncReturned("none")
    BY <2>4, <2>5 DEF GetByIP, FoundByIP
  <2> QED BY <2>6 DEF FuncReturned, DoReturns
<1> QED BY <1>3, <1>5, <1>6

\* The other steps of the handler.
LEMMA AddressDaemon ==
    ASSUME Known, AddressInv, Daemon,
           \/ ReferenceFromContext \/ ReferenceLookup
           \/ Attest \/ AttestFails \/ GetByUID \/ GetByUIDFallback
           \/ LookupPauses \/ LookupReturns
           \/ RouteRequest \/ Validate \/ UseAccount \/ GetEmail \/ RequireTarget \/ Respond
    PROVE  FoundClient' /\ SettledInv' /\ AddressIsClient'
<1>0. FoundClient /\ SettledInv /\ AddressIsClient /\ IdentityInv
  BY DEF AddressInv, Known
<1>1. /\ UNCHANGED <<mode, hostPods, object, addr, store, tuple, client, connected, settled>>
      /\ UNCHANGED <<found, fresh>>
  BY DEF Daemon, configVars, clusterVars, informerVars, historyVars, ReferenceFromContext,
         ReferenceLookup, Attest, AttestFails, GetByUID, GetByUIDFallback, LookupPauses,
         LookupReturns, RouteRequest, Validate, UseAccount, GetEmail, RequireTarget, Respond
<1>2. UseAttestation' = UseAttestation
  BY <1>1 DEF UseAttestation, IsHostSourceIP
<1>3. FoundClient'
  BY <1>0, <1>1, <1>2 DEF FoundClient
<1>4. SettledInv'
  <2> SUFFICES ASSUME settled, ~UseAttestation
               PROVE  /\ pc' # "fallback"
                      /\ pc' = "lookup" => loop' = "call" \/ (loop' = "returned" /\ result' = "none")
    BY <1>0, <1>1, <1>2 DEF SettledInv, Settled, Truthful
  <2>1. CASE ReferenceLookup
    BY <2>1 DEF ReferenceLookup
  <2>2. CASE LookupPauses
    BY <1>0, <2>2 DEF LookupPauses, SleepEnds, SleepCancelled, SettledInv
  <2>3. CASE ReferenceFromContext \/ Attest \/ AttestFails \/ GetByUID \/ GetByUIDFallback
             \/ LookupReturns
    BY <2>3
    DEF ReferenceFromContext, Attest, AttestFails, GetByUID, GetByUIDFallback, LookupReturns,
        AssignPodServiceAccount, RespondError
  <2>4. CASE RouteRequest \/ Validate \/ UseAccount \/ GetEmail \/ RequireTarget \/ Respond
    BY <2>4 DEF RouteRequest, Validate, UseAccount, GetEmail, RequireTarget, Respond, Proceed,
                RespondError
  <2> QED BY <2>1, <2>2, <2>3, <2>4
<1>5. AddressIsClient'
  <2> SUFFICES ASSUME ~UseAttestation, saRef' # saRef PROVE saRef' = found
    BY <1>0, <1>1, <1>2 DEF AddressIsClient, FoundClient
  <2>1. CASE LookupReturns
    BY <2>1 DEF LookupReturns, AssignPodServiceAccount, RespondError
  <2>2. CASE GetByUID \/ GetByUIDFallback
    BY <1>0, <2>2 DEF GetByUID, GetByUIDFallback, IdentityInv
  <2>3. CASE ReferenceFromContext \/ ReferenceLookup \/ Attest \/ AttestFails \/ LookupPauses
    BY <2>3
    DEF ReferenceFromContext, ReferenceLookup, Attest, AttestFails, LookupPauses,
        AssignPodServiceAccount, RespondError
  <2>4. CASE RouteRequest \/ Validate \/ UseAccount \/ GetEmail \/ RequireTarget \/ Respond
    BY <2>4 DEF RouteRequest, Validate, UseAccount, GetEmail, RequireTarget, Respond, Proceed,
                RespondError
  <2> QED BY <2>1, <2>2, <2>3, <2>4
<1> QED BY <1>3, <1>4, <1>5

LEMMA AddressStep == ASSUME Known, AddressInv, [Next]_vars PROVE AddressInv'
<1>0. AddressesOK'
  BY AddressesKept DEF AddressInv
<1>1. SUFFICES FoundClient' /\ SettledInv' /\ AddressIsClient'
  BY <1>0 DEF AddressInv
<1>2. CASE World \/ Deliver \/ Relist
  BY <1>2, AddressAround
<1>3. CASE Request
  BY <1>3, AddressRequest
<1>4. CASE GetByIP \/ GetByIPFallback
  BY <1>4, AddressLookup
<1>5. CASE \/ ReferenceFromContext \/ ReferenceLookup
           \/ Attest \/ AttestFails \/ GetByUID \/ GetByUIDFallback
           \/ LookupPauses \/ LookupReturns
           \/ RouteRequest \/ Validate \/ UseAccount \/ GetEmail \/ RequireTarget \/ Respond
  <2>1. Daemon
    BY <1>5
    DEF ReferenceFromContext, ReferenceLookup, Attest, AttestFails, GetByUID, GetByUIDFallback,
        LookupPauses, LookupReturns, RouteRequest, Validate, UseAccount, GetEmail,
        RequireTarget, Respond
  <2> QED BY <1>5, <2>1, AddressDaemon
<1>6. CASE UNCHANGED vars
  BY <1>6
  DEF vars, configVars, clusterVars, informerVars, requestVars, historyVars, retryVars,
      AddressInv, FoundClient, SettledInv, AddressIsClient, Settled, Truthful, UseAttestation,
      IsHostSourceIP
<1> QED BY <1>2, <1>3, <1>4, <1>5, <1>6 DEF Next, Serve

LEMMA AddressInvariance == Spec => [](Known /\ AddressInv)
<1>1. Init => Known /\ AddressInv
  BY InitRetry, AttestInit, IdentityInit, AddressInit DEF Init, Known
<1>2. Known /\ AddressInv /\ [Next]_vars => Known' /\ AddressInv'
  <2> SUFFICES ASSUME Known, AddressInv, [Next]_vars PROVE Known' /\ AddressInv'
    OBVIOUS
  <2> QED BY RetryKept, AttestStep, IdentityStep, AddressStep DEF Known
<1> QED BY <1>1, <1>2, PTL DEF Spec

\* For any number of pods and addresses, a lookup by address that sees the pods as
\* they are attributes the request to the pod that sent it (lookupPodByIP).
THEOREM AlwaysAddressIsClient == Spec => []AddressIsClient
<1>1. Known /\ AddressInv => AddressIsClient
  BY DEF AddressInv
<1> QED BY <1>1, AddressInvariance, PTL

\* For any number of pods, options of the retry loop and a lag of any length, a pod
\* that the informer knows is not refused for its address (getByIP, FilterPods).
THEOREM KnownPodNeverRefused == Spec => []KnownPodNotRefused
<1>1. Known /\ AddressInv => KnownPodNotRefused
  BY DEF AddressInv, SettledInv, KnownPodNotRefused, Known, RetryInv, LoopInv
<1> QED BY <1>1, AddressInvariance, PTL

-----------------------------------------------------------------------------
(* Types, and the gauge of the informer *)

StoredPods == {p \in Pods : Stored(store[p])}

\* The gauge counts the pods in the store; a pod without an object has not been
\* heard of, so that a new list of the pods misses no deletion but one that panics.
GaugeInv ==
    /\ ~crashed => numPods = Cardinality(StoredPods)
    /\ \A p \in Pods : object[p].phase = "none" =>
          store[p].phase = "none" /\ \A i \in DOMAIN events : events[i].pod # p

LEMMA PodTypeInit == Init => PodTypeOK /\ GaugeInv
<1> SUFFICES ASSUME Init PROVE PodTypeOK /\ GaugeInv  OBVIOUS
<1>1. object \in [Pods -> Objects] /\ store \in [Pods -> Objects]
  BY DEF Init, Objects
<1>2. /\ socket \in [Tuples -> Pods \cup {Nil}] /\ attested \in [Tuples -> Pods \cup {Nil}]
      /\ addr \in [Pods -> IPs \cup {PodIP, Nil}]
      /\ events \in Seq([pod : Pods, new : Objects])
  BY DEF Init
<1>3. PodTypeOK
  BY <1>1, <1>2 DEF Init, PodTypeOK
<1>4. StoredPods = {}
  BY DEF Init, StoredPods, Stored
<1> QED BY <1>3, <1>4, FS_EmptySet DEF Init, GaugeInv

\* One object of the store is replaced.
LEMMA GaugeDelivered ==
    ASSUME store \in [Pods -> Objects], numPods = Cardinality(StoredPods),
           NEW p \in Pods, NEW new \in Objects,
           store' = [store EXCEPT ![p] = new],
           numPods' = numPods + Counted(store[p], new)
    PROVE  numPods' = Cardinality(StoredPods') /\ numPods' \in Nat
<1>1. IsFiniteSet(StoredPods) /\ IsFiniteSet(StoredPods')
  BY PodsAssumption, FS_Subset DEF StoredPods
<1>2. Cardinality(StoredPods) \in Nat /\ Cardinality(StoredPods') \in Nat
  BY <1>1, FS_CardinalityType
<1>3. CASE ~Stored(store[p]) /\ Stored(new)
  <2>1. StoredPods' = StoredPods \cup {p} /\ p \notin StoredPods
    BY <1>3 DEF StoredPods
  <2> QED BY <1>1, <1>2, <1>3, <2>1, FS_AddElement DEF Counted
<1>4. CASE Stored(store[p]) /\ ~Stored(new)
  <2>1. StoredPods' = StoredPods \ {p} /\ p \in StoredPods
    BY <1>4 DEF StoredPods
  <2>2. Counted(store[p], new) = -1
    BY <1>4 DEF Counted
  <2>3. Cardinality(StoredPods') = Cardinality(StoredPods) - 1
    BY <1>1, <2>1, FS_RemoveElement
  <2> QED BY <1>2, <2>2, <2>3
<1>5. CASE Stored(store[p]) <=> Stored(new)
  <2>1. StoredPods' = StoredPods
    BY <1>5 DEF StoredPods
  <2>2. Counted(store[p], new) = 0
    BY <1>5 DEF Counted
  <2> QED BY <1>2, <2>1, <2>2
<1> QED BY <1>3, <1>4, <1>5

\* All pods are listed again.
LEMMA GaugeRelisted ==
    ASSUME PodTypeOK, GaugeInv, Relist
    PROVE  numPods' \in Nat /\ (~crashed' => numPods' = Cardinality(StoredPods'))
<1> DEFINE New == {p \in Pods : ~Stored(store[p]) /\ Stored(object[p])}
<1>1. /\ store' = object /\ numPods' = numPods + Cardinality(New)
      /\ numPods = Cardinality(StoredPods) /\ numPods \in Nat
  BY DEF Relist, GaugeInv, PodTypeOK
<1>2. IsFiniteSet(StoredPods) /\ IsFiniteSet(New)
  BY PodsAssumption, FS_Subset DEF StoredPods
<1>3. Cardinality(New) \in Nat
  BY <1>2, FS_CardinalityType
<1>4. ASSUME ~crashed' PROVE StoredPods' = StoredPods \cup New /\ StoredPods \cap New = {}
  <2>1. ASSUME NEW p \in Pods, Stored(store[p]) PROVE Stored(object[p])
    <3>1. object[p].phase \in {"none", "live", "ending", "gone"}
      BY DEF PodTypeOK, Objects
    <3>2. object[p].phase # "gone"
      BY <1>4, <2>1 DEF Relist
    <3>3. object[p].phase # "none"
      BY <2>1 DEF GaugeInv, Stored
    <3> QED BY <3>1, <3>2, <3>3 DEF Stored
  <2> QED BY <1>1, <2>1 DEF StoredPods
<1>5. ASSUME ~crashed' PROVE numPods' = Cardinality(StoredPods')
  <2>1. Cardinality(StoredPods \cup New)
          = Cardinality(StoredPods) + Cardinality(New) - Cardinality(StoredPods \cap New)
    BY <1>2, FS_Union
  <2>2. Cardinality(StoredPods \cap New) = 0
    BY <1>4, <1>5, FS_EmptySet
  <2>3. StoredPods' = StoredPods \cup New
    BY <1>4, <1>5
  <2> HIDE DEF New
  <2> QED BY <1>1, <1>3, <2>1, <2>2, <2>3
<1> QED BY <1>1, <1>3, <1>5

\* Steps that leave the request alone.
LEMMA PodTypeAround ==
    ASSUME Known, AddressesOK, PodTypeOK, GaugeInv, World \/ Deliver \/ Relist
    PROVE  PodTypeOK' /\ GaugeInv'
<1>1. /\ UNCHANGED <<mode, fallback, hostPods, pc, tuple, saRef, email, status, client, used,
                     uid, found>>
      /\ crashed' \in BOOLEAN
  BY DEF World, Deliver, Relist, Environment, configVars, requestVars, PodTypeOK
<1>2. SUFFICES /\ object' \in [Pods -> Objects] /\ store' \in [Pods -> Objects]
               /\ addr' \in [Pods -> IPs \cup {PodIP, Nil}]
               /\ events' \in Seq([pod : Pods, new : Objects])
               /\ numPods' \in Nat
               /\ socket' \in [Tuples -> Pods \cup {Nil}]
               /\ attested' \in [Tuples -> Pods \cup {Nil}]
               /\ GaugeInv'
  BY <1>1 DEF PodTypeOK
<1>3. ASSUME NEW p \in Pods, NEW new \in Objects, Change(p, new), crashed' = crashed,
             new.phase # "none"
      PROVE  /\ object' \in [Pods -> Objects] /\ events' \in Seq([pod : Pods, new : Objects])
             /\ UNCHANGED <<addr, store, numPods, socket, attested>>
             /\ GaugeInv'
  <2>1. /\ object' = [object EXCEPT ![p] = new]
        /\ events' = Append(events, [pod |-> p, new |-> new])
        /\ UNCHANGED <<addr, store, numPods, socket, attested>>
    BY <1>3 DEF Change, kernelVars
  <2>2. object' \in [Pods -> Objects] /\ events' \in Seq([pod : Pods, new : Objects])
    BY <2>1 DEF PodTypeOK
  <2>3. StoredPods' = StoredPods
    BY <2>1 DEF StoredPods
  <2>4. ASSUME NEW q \in Pods, object'[q].phase = "none"
        PROVE  store'[q].phase = "none" /\ \A i \in DOMAIN events' : events'[i].pod # q
    <3>1. q # p /\ object[q].phase = "none"
      BY <1>3, <2>1, <2>4 DEF PodTypeOK
    <3>2. store[q].phase = "none" /\ \A i \in DOMAIN events : events[i].pod # q
      BY <3>1 DEF GaugeInv
    <3>3. \A i \in DOMAIN events' : events'[i] \in {[pod |-> p, new |-> new]} \/
                                    (i \in DOMAIN events /\ events'[i] = events[i])
      BY <2>1 DEF PodTypeOK
    <3> QED BY <2>1, <3>1, <3>2, <3>3
  <2> QED BY <1>3, <2>1, <2>2, <2>3, <2>4 DEF GaugeInv
<1>4. ASSUME NEW p \in Pods, ObjectChanges(p), crashed' = crashed
      PROVE  \E new \in Objects : Change(p, new) /\ new.phase # "none"
  <2>1. object[p] \in Objects /\ addr[p] \in IPs \cup {PodIP, Nil}
    BY DEF PodTypeOK
  <2>2. p \notin hostPods => addr[p] \in IPs \cup {Nil}
    BY DEF AddressesOK
  <2>3. [phase |-> "live", ip |-> Nil] \in Objects
    BY DEF Objects
  <2>4. p \notin hostPods /\ addr[p] # Nil => [phase |-> "live", ip |-> addr[p]] \in Objects
    BY <2>2 DEF Objects
  <2>5. /\ [object[p] EXCEPT !.phase = "ending"] \in Objects
        /\ [object[p] EXCEPT !.phase = "ending"].phase = "ending"
        /\ [object[p] EXCEPT !.phase = "gone"] \in Objects
        /\ [object[p] EXCEPT !.phase = "gone"].phase = "gone"
    BY <2>1 DEF Objects
  <2> QED BY <1>4, <2>3, <2>4, <2>5 DEF ObjectChanges
<1>5. CASE World
  <2>1. crashed' = crashed
    BY <1>5 DEF World, Environment
  <2>2. CASE \E p \in Pods : ObjectChanges(p)
    BY <1>3, <1>4, <2>1, <2>2 DEF PodTypeOK
  <2>3. CASE ~\E p \in Pods : ObjectChanges(p)
    <3>1. UNCHANGED <<object, store, events, numPods>>
      BY <1>5, <2>3 DEF World, PodStarts, PodStops, Connect, Disconnect, Evict, informerVars,
                        clusterVars
    <3>2. GaugeInv'
      BY <2>1, <3>1 DEF GaugeInv, StoredPods
    <3>3. addr' \in [Pods -> IPs \cup {PodIP, Nil}]
      BY <1>5, <2>3 DEF World, PodStarts, PodStops, Connect, Disconnect, Evict, clusterVars,
                        PodTypeOK
    <3>4. /\ socket' \in [Tuples -> Pods \cup {Nil}]
          /\ attested' \in [Tuples -> Pods \cup {Nil}]
      <4>1. CASE \E p \in Pods : PodStarts(p)
        BY <4>1 DEF PodStarts, kernelVars, PodTypeOK
      <4>2. CASE \E p \in Pods : PodStops(p)
        BY <4>2 DEF PodStops, PodTypeOK
      <4>3. CASE \E p \in Pods : Connect(p)
        BY <4>3 DEF Connect, Record, PodTypeOK
      <4>4. CASE \E t \in Tuples : Disconnect(t) \/ Evict(t)
        BY <4>4 DEF Disconnect, Evict, PodTypeOK
      <4> QED BY <1>5, <2>3, <4>1, <4>2, <4>3, <4>4 DEF World
    <3> QED BY <3>1, <3>2, <3>3, <3>4 DEF PodTypeOK
  <2> QED BY <2>2, <2>3
<1>6. CASE Deliver
  <2> DEFINE e == Head(events)
  <2>1. /\ events # <<>> /\ events' = Tail(events) /\ crashed' = crashed /\ ~crashed
        /\ store' = [store EXCEPT ![e.pod] = e.new]
        /\ numPods' = numPods + Counted(store[e.pod], e.new)
        /\ UNCHANGED <<object, addr, socket, attested>>
    BY <1>6 DEF Deliver, Environment, clusterVars, kernelVars
  <2>2. e \in [pod : Pods, new : Objects] /\ e = events[1] /\ 1 \in DOMAIN events
    <3> DEFINE Event == [pod : Pods, new : Objects]
    <3>1. events \in Seq(Event) /\ events # <<>>
      BY <2>1 DEF PodTypeOK
    <3> HIDE DEF Event
    <3>2. Head(events) \in Event /\ Head(events) = events[1] /\ 1 \in DOMAIN events
      BY <3>1
    <3> QED BY <3>2 DEF Event
  <2>3. /\ events' \in Seq([pod : Pods, new : Objects])
        /\ \A i \in DOMAIN events' : i + 1 \in DOMAIN events /\ events'[i] = events[i + 1]
    BY <2>1 DEF PodTypeOK
  <2>4. e.pod \in Pods /\ e.new \in Objects
    BY <2>2
  <2> HIDE DEF e
  <2>5. numPods' = Cardinality(StoredPods') /\ numPods' \in Nat
    BY <2>1, <2>4, GaugeDelivered DEF PodTypeOK, GaugeInv
  <2>6. store' \in [Pods -> Objects]
    BY <2>1, <2>4 DEF PodTypeOK
  <2>7. ASSUME NEW q \in Pods, object'[q].phase = "none"
        PROVE  store'[q].phase = "none" /\ \A i \in DOMAIN events' : events'[i].pod # q
    <3>1. store[q].phase = "none" /\ \A i \in DOMAIN events : events[i].pod # q
      BY <2>1, <2>7 DEF GaugeInv
    <3>2. e.pod # q
      BY <2>2, <3>1
    <3> QED BY <2>1, <2>3, <3>1, <3>2 DEF PodTypeOK
  <2> QED BY <2>1, <2>3, <2>5, <2>6, <2>7 DEF PodTypeOK, GaugeInv
<1>7. CASE Relist
  <2>1. store' = object /\ events' = <<>> /\ UNCHANGED <<object, addr, socket, attested>>
    BY <1>7 DEF Relist, clusterVars, kernelVars
  <2>2. GaugeInv' /\ numPods' \in Nat
    BY <1>7, <2>1, GaugeRelisted DEF GaugeInv
  <2> QED BY <2>1, <2>2 DEF PodTypeOK
<1> QED BY <1>5, <1>6, <1>7

\* Steps of the handler.
LEMMA PodTypeServe ==
    ASSUME Known, PodTypeOK, GaugeInv, Serve
    PROVE  PodTypeOK' /\ GaugeInv'
<1>1. /\ UNCHANGED <<mode, fallback, hostPods, object, addr, store, events, numPods, crashed,
                     socket, attested>>
  BY DEF Serve, Request, ReferenceFromContext, ReferenceLookup, Attest, AttestFails, GetByUID,
         GetByUIDFallback, GetByIP, GetByIPFallback, LookupPauses, LookupReturns, RouteRequest,
         Validate, UseAccount, GetEmail, RequireTarget, Respond, Daemon, configVars,
         clusterVars, informerVars, kernelVars
<1>2. GaugeInv'
  BY <1>1 DEF GaugeInv, StoredPods
<1>3. SUFFICES
        /\ pc' \in {"idle", "next", "attest", "uid", "uidFallback", "lookup", "fallback", "done"}
        /\ tuple' \in Tuples /\ client' \in Pods \cup {Nil}
        /\ {uid', found', saRef'} \subseteq Pods \cup {Nil} /\ used' \subseteq Pods
        /\ email' \in {"unknown", "set", "absent"}
        /\ status' \in {"none", "200", "400", "403", "404", "429", "499", "500", "google"}
  BY <1>1, <1>2 DEF PodTypeOK
<1>4. ASSUME Request PROVE <1>3!1
  BY <1>4 DEF Request, PodTypeOK
<1>5. ASSUME Daemon PROVE UNCHANGED <<tuple, client>>
  BY <1>5 DEF Daemon
<1>6. CASE ReferenceFromContext \/ ReferenceLookup
  BY <1>5, <1>6 DEF ReferenceFromContext, ReferenceLookup, AssignPodServiceAccount, PodTypeOK
<1>7. CASE Attest \/ AttestFails
  BY <1>5, <1>7 DEF Attest, AttestFails, RespondError, Owner, PodTypeOK
<1>8. CASE GetByUID \/ GetByUIDFallback
  BY <1>5, <1>8 DEF GetByUID, GetByUIDFallback, AssignPodServiceAccount, RespondError, PodTypeOK
<1>9. CASE GetByIP \/ GetByIPFallback
  <2>1. ByIP(store, tuple.ip) \subseteq Pods /\ ByIP(object, tuple.ip) \subseteq Pods
    BY DEF ByIP, FilterPods
  <2>2. found' \in Pods \cup {Nil}
    BY <1>9, <2>1 DEF GetByIP, GetByIPFallback, FoundByIP, PodTypeOK
  <2> QED BY <1>5, <1>9, <2>2 DEF GetByIP, GetByIPFallback, PodTypeOK
<1>10. CASE LookupPauses \/ LookupReturns
  BY <1>5, <1>10 DEF LookupPauses, LookupReturns, AssignPodServiceAccount, RespondError, PodTypeOK
<1>11. ASSUME NEW name, Calls(name), name # "ref" PROVE saRef \in Pods
  BY <1>11 DEF Calls, Known, IdentityInv, PodTypeOK
<1>12. CASE RouteRequest \/ Validate \/ Respond \/ RequireTarget
  BY <1>5, <1>12 DEF RouteRequest, Validate, Respond, RequireTarget, Proceed, RespondError, PodTypeOK
<1>13. CASE UseAccount \/ GetEmail
  <2>1. saRef \in Pods
    BY <1>11, <1>13 DEF UseAccount, GetEmail
  <2> QED BY <1>5, <1>13, <2>1 DEF UseAccount, GetEmail, Proceed, RespondError, PodTypeOK
<1> QED BY <1>4, <1>6, <1>7, <1>8, <1>9, <1>10, <1>12, <1>13 DEF Serve

LEMMA PodTypeInvariance == Spec => [](Known /\ AddressInv /\ PodTypeOK /\ GaugeInv)
<1>1. Known /\ AddressInv /\ PodTypeOK /\ GaugeInv /\ [Next]_vars => PodTypeOK' /\ GaugeInv'
  <2> SUFFICES ASSUME Known, AddressInv, PodTypeOK, GaugeInv, [Next]_vars
               PROVE  PodTypeOK' /\ GaugeInv'
    OBVIOUS
  <2>1. CASE World \/ Deliver \/ Relist
    BY <2>1, PodTypeAround DEF AddressInv
  <2>2. CASE Serve
    BY <2>2, PodTypeServe
  <2>3. CASE UNCHANGED vars
    BY <2>3 DEF vars, configVars, clusterVars, informerVars, kernelVars, requestVars, PodTypeOK,
                GaugeInv, StoredPods
  <2> QED BY <2>1, <2>2, <2>3 DEF Next
<1> QED BY <1>1, PodTypeInit, AddressInvariance, PTL DEF Spec

\* For any number of pods, requests and late events, the variables keep their types:
\* in particular a handler never uses an account before it has looked up a pod,
\* and the gauge of cached pods never becomes negative (AddFunc, DeleteFunc).
THEOREM PodTypeCorrect == Spec => []PodTypeOK
BY PodTypeInvariance, PTL

\* Until the process panics, the gauge is the number of pods in the store, also
\* after an interrupted watch (AddFunc, DeleteFunc of pods/watch).
THEOREM PodGaugeAlwaysExact == Spec => [](~crashed => numPods = Cardinality(StoredPods))
<1>1. GaugeInv => (~crashed => numPods = Cardinality(StoredPods))
  BY DEF GaugeInv
<1> QED BY <1>1, PodTypeInvariance, PTL

-----------------------------------------------------------------------------
(* The pauses of a lookup *)

\* For any options, the pauses between the attempts of a lookup by address grow
\* within their bounds: each lookup starts the loop over (lookupPodByIP).
THEOREM LookupBackoffMonotone == Spec => BackoffMonotone
<1> DEFINE Grows == loop' = "sleep" /\ loop = "call" =>
                      /\ delay' >= delay
                      /\ op.initialDelay <= delay' /\ delay' <= op.maxDelay
<1>1. ASSUME RetryInv, PauseInv, [Next]_vars PROVE PauseInv' /\ [Grows]_retryVars
  <2>1. CASE ReferenceLookup
    BY <1>1, <2>1 DEF ReferenceLookup, PauseInv, Sane
  <2>2. CASE ~ReferenceLookup
    <3>1. [RetryNext]_retryVars
      BY <1>1, <2>2, LoopStep
    <3> QED BY <1>1, <3>1, StepPause DEF RetryInv
  <2> QED BY <2>1, <2>2
<1> HIDE DEF Grows
<1>2. Init => PauseInv
  BY InitPause DEF Init
<1> QED BY <1>1, <1>2, IdentityInvariance, PTL DEF Spec, BackoffMonotone, Grows
=============================================================================
