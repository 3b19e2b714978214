----------------------------- MODULE PodIdentity -----------------------------
(***************************************************************************)
(* How a request is attributed to a pod (internal/server, internal/pods,   *)
(* internal/attestation, ebpf/attest.c) and what its handler does with the *)
(* identity, while pods come and go and take over each other's addresses.  *)
(*                                                                         *)
(* With eBPF routing every connection is attested by the kernel; otherwise *)
(* only connections from the node's own addresses are, and the others are  *)
(* attributed by their source address, looked up in the informer's store   *)
(* and then in the API server, inside the loop of module Retry.            *)
(*                                                                         *)
(* One handler is followed; other connections are made and closed around   *)
(* it.  ServiceAccounts are told apart by the pods that use them.          *)
(***************************************************************************)
EXTENDS Retry, Sequences, FiniteSets

CONSTANTS
    Pods,    \* pods scheduled to the node
    IPs,     \* addresses the node gives to pods
    PodIP,   \* opts.PodIP, the address of the node, which host-network pods have
    HostIPs, \* addresses such pods connect from: loopback, link-local and that of the node
    Ports,   \* source ports
    Nil,     \* no pod, no address
    MaxLag   \* bound on the events the informer has not seen

ASSUME PodsAssumption ==
    /\ IsFiniteSet(Pods) /\ Nil \notin Pods
    /\ PodIP \in HostIPs /\ HostIPs \cap IPs = {} /\ Nil \notin IPs \cup HostIPs
    /\ MaxLag \in Nat

VARIABLES
    mode,      \* opts.RoutingMode; "None" is the same as "Loopback" here
    fallback,  \* the pod informer has a FallbackSource
    hostPods,  \* pods with spec.hostNetwork
    object,    \* the Pod objects in the API server
    addr,      \* the address each pod really has, Nil when it does not run
    store,     \* the Pod objects as the informer knows them
    events,    \* changes of objects on their way to the informer
    numPods,   \* the gauge of cached pods
    crashed,   \* the process has panicked
    socket,    \* the pod that holds each source address and port
    attested,  \* map_attest: the pod recorded for each source address and port
    pc,        \* control point of the handler
    todo,      \* calls the handler has yet to make
    tuple,     \* source of its connection
    uid,       \* result of Attestation.Lookup
    found,     \* result of GetByIP
    saRef,     \* account in the request's context
    email,     \* Google email in the request's context
    status,    \* status of the response
    client,    \* history: the pod that sent the request
    connected, \* history: it has kept the connection since
    used,      \* history: accounts the handler has used
    fresh,     \* history: the lookup by address saw the pods as they were
    settled    \* history: so would all lookups since the request, the client's included

configVars == <<mode, fallback, hostPods>>
clusterVars == <<object, addr>>
informerVars == <<store, events, numPods>>
kernelVars == <<socket, attested>>
requestVars == <<todo, tuple, saRef, email, status, client, used>>
historyVars == <<connected, settled>>
vars == <<configVars, clusterVars, informerVars, crashed, kernelVars, pc, requestVars,
          uid, found, fresh, historyVars, retryVars>>

Tuples == [ip : IPs \cup HostIPs, port : Ports]
\* isPodRunning tells "live" from "ending" (deletion timestamp set, succeeded, failed).
Objects == [phase : {"none", "live", "ending", "gone"}, ip : IPs \cup {Nil}]
Endpoints == {"listing", "recursive", "email", "token", "identity"}

Init ==
    /\ RetryInit
    /\ mode \in {"eBPF", "Loopback"} /\ fallback \in BOOLEAN /\ hostPods \in SUBSET Pods
    /\ object = [p \in Pods |-> [phase |-> "none", ip |-> Nil]] /\ store = object
    /\ addr = [p \in Pods |-> Nil]
    /\ events = <<>> /\ numPods = 0 /\ crashed = FALSE
    /\ socket = [t \in Tuples |-> Nil] /\ attested = socket
    /\ pc = "idle" /\ todo = <<>> /\ tuple \in Tuples
    /\ uid = Nil /\ found = Nil /\ saRef = Nil /\ email = "unknown" /\ status = "none"
    /\ client = Nil /\ connected = FALSE /\ used = {} /\ fresh = FALSE /\ settled = FALSE

-----------------------------------------------------------------------------
(* Lookups *)

\* FilterPods.
FilterPodsMissing(view) == {p \in Pods : view[p].phase \in {"live", "ending"}}
FilterPods(view) == {p \in Pods : view[p].phase = "live"}

\* The pods found for an address: those on the host network are not indexed.
ByIP(view, ip) == {p \in FilterPods(view) : p \notin hostPods /\ view[p].ip = ip}

\* What objects say of addresses is true.
Truthful == \A p \in Pods : object[p].phase = "live" /\ object[p].ip # Nil => addr[p] = object[p].ip

\* The pods are known as they are, the client of the request among them.
Settled(c) == Truthful /\ store = object /\ object[c].phase = "live" /\ object[c].ip = addr[c]

\* History that every step of the environment updates.
Watch == /\ connected' = (connected /\ socket'[tuple] = client)
         /\ settled' = (settled /\ Settled(client)')

-----------------------------------------------------------------------------
(* The cluster and the kernel (external) *)

\* Steps that leave the process alone; they end with it.
Environment == /\ ~crashed
               /\ UNCHANGED <<configVars, crashed, pc, requestVars, uid, found, fresh, retryVars>>

\* An object changes in the API server.
Change(p, new) ==
    /\ Len(events) < MaxLag
    /\ object' = [object EXCEPT ![p] = new]
    /\ events' = Append(events, [pod |-> p, new |-> new])
    /\ UNCHANGED <<addr, store, numPods, kernelVars>>

\* A pod is created, its address is reported, it is about to end, it is deleted.
ObjectChanges(p) ==
    \/ object[p].phase = "none" /\ Change(p, [phase |-> "live", ip |-> Nil])
    \/ /\ object[p].phase = "live" /\ p \notin hostPods
       /\ addr[p] \notin {Nil, object[p].ip}
       /\ Change(p, [phase |-> "live", ip |-> addr[p]])
    \/ object[p].phase = "live" /\ Change(p, [object[p] EXCEPT !.phase = "ending"])
    \/ object[p].phase = "ending" /\ Change(p, [object[p] EXCEPT !.phase = "gone"])

\* The kubelet starts a pod, with an address no other pod has.
PodStarts(p) ==
    /\ object[p].phase = "live" /\ addr[p] = Nil
    /\ \E ip \in IF p \in hostPods THEN {PodIP} ELSE IPs \ {addr[q] : q \in Pods} :
          addr' = [addr EXCEPT ![p] = ip]
    /\ UNCHANGED <<object, informerVars, kernelVars>>

\* The processes of a pod end and its address is free, whatever its object says.
PodStops(p) ==
    /\ addr[p] # Nil
    /\ addr' = [addr EXCEPT ![p] = Nil]
    /\ socket' = [t \in Tuples |-> IF socket[t] = p THEN Nil ELSE socket[t]]
    /\ UNCHANGED <<object, informerVars, attested>>

\* attest_connect, before the connection exists: the map is overwritten.
RecordOnce(t, p) == IF attested[t] = Nil THEN [attested EXCEPT ![t] = p] ELSE attested
Record(t, p) == [attested EXCEPT ![t] = p]

Connect(p) ==
    \E t \in Tuples :
        /\ addr[p] # Nil /\ socket[t] = Nil
        /\ t.ip \in IF p \in hostPods THEN HostIPs ELSE {addr[p]}
        /\ socket' = [socket EXCEPT ![t] = p]
        /\ attested' = IF mode = "eBPF" THEN Record(t, p) ELSE attested
        /\ UNCHANGED <<clusterVars, informerVars>>

Disconnect(t) ==
    /\ socket[t] # Nil
    /\ socket' = [socket EXCEPT ![t] = Nil]
    /\ UNCHANGED <<clusterVars, informerVars, attested>>

\* map_attest is an LRU map: any entry may be evicted.
Evict(t) ==
    /\ attested[t] # Nil
    /\ attested' = [attested EXCEPT ![t] = Nil]
    /\ UNCHANGED <<clusterVars, informerVars, socket>>

World == /\ \/ \E p \in Pods : ObjectChanges(p) \/ PodStarts(p) \/ PodStops(p) \/ Connect(p)
            \/ \E t \in Tuples : Disconnect(t) \/ Evict(t)
         /\ Environment
         /\ Watch

-----------------------------------------------------------------------------
(* The pod informer *)

Stored(o) == o.phase \in {"live", "ending"}

\* AddFunc and DeleteFunc: the change of the gauge when an object replaces another.
CountedDeletions(old, new) == IF Stored(old) /\ ~Stored(new) THEN -1 ELSE 0
Counted(old, new) == IF ~Stored(old) /\ Stored(new) THEN 1
                     ELSE IF Stored(old) /\ ~Stored(new) THEN -1 ELSE 0

Deliver ==
    /\ events # <<>>
    /\ LET e == Head(events) IN
         /\ store' = [store EXCEPT ![e.pod] = e.new]
         /\ numPods' = numPods + Counted(store[e.pod], e.new)
    /\ events' = Tail(events)
    /\ UNCHANGED <<clusterVars, kernelVars>>
    /\ Environment
    /\ Watch

\* The watch has been interrupted and the pods are listed again.  A deletion
\* that was missed reaches DeleteFunc as a DeletedFinalStateUnknown, which is
\* not a *corev1.Pod: the type assertion panics.
Relist ==
    /\ ~crashed /\ events # <<>>
    /\ store' = object /\ events' = <<>>
    /\ numPods' = numPods + Cardinality({p \in Pods : ~Stored(store[p]) /\ Stored(object[p])})
    /\ crashed' = \E p \in Pods : Stored(store[p]) /\ object[p].phase = "gone"
    /\ UNCHANGED <<configVars, clusterVars, kernelVars, pc, requestVars, uid, found, fresh,
                    retryVars>>
    /\ Watch

-----------------------------------------------------------------------------
(* getPodServiceAccountReference *)

Daemon == ~crashed /\ UNCHANGED <<configVars, clusterVars, informerVars, crashed, kernelVars,
                                  historyVars, tuple, client>>

\* Without eBPF, only connections from the node's own addresses are attested.
IsHostSourceIP(ip) == ip \in HostIPs
UseAttestation == mode = "eBPF" \/ IsHostSourceIP(tuple.ip)

\* The handler sends an error response and returns.
RespondError(code) ==
    /\ status' = code /\ pc' = "done"
    /\ UNCHANGED <<todo, saRef, email, used>>

\* assignPodServiceAccount, and on to the handler's next call.
AssignPodServiceAccount(p) ==
    /\ saRef' = p
    /\ todo' = Tail(todo) /\ pc' = "next"
    /\ UNCHANGED <<email, status, used>>

Calls(name) == pc = "next" /\ todo # <<>> /\ Head(todo) = name

\* The account is in the request's context.
ContextHitNever == FALSE
ContextHit == saRef # Nil

ReferenceFromContext ==
    /\ Daemon /\ Calls("ref") /\ ContextHit
    /\ AssignPodServiceAccount(saRef)
    /\ UNCHANGED <<uid, found, fresh, retryVars>>

\* The choice of the strategy; retry.Do starts over for a lookup by address.
ReferenceLookup ==
    /\ Daemon /\ Calls("ref") /\ ~ContextHit
    /\ pc' = IF UseAttestation THEN "attest" ELSE "lookup"
    /\ loop' = "call" /\ attempt' = 1 /\ failures' = 0 /\ delay' = 0
    /\ result' = "pending" /\ lastErr' = "none"
    /\ UNCHANGED <<todo, saRef, email, status, used, uid, found, fresh, op>>

\* Attestation.Lookup: the sockops map, or the table of sockets, and the cgroup of
\* the pod found there, which may outlive the pod's processes.
Owner == IF mode = "eBPF" THEN attested[tuple] ELSE socket[tuple]

Attest ==
    /\ Daemon /\ pc = "attest"
    /\ Owner # Nil
    /\ uid' = Owner /\ pc' = "uid"
    /\ UNCHANGED <<todo, saRef, email, status, used, found, fresh, retryVars>>

\* Nothing is recorded, or the walk through /proc or the cgroups fails.
AttestFails ==
    /\ Daemon /\ pc = "attest"
    /\ RespondError("403")
    /\ UNCHANGED <<uid, found, fresh, retryVars>>

\* Pods.GetByUID, from the store and from the fallback.
GetByUID ==
    /\ Daemon /\ pc = "uid"
    /\ \/ uid \in FilterPods(store) /\ AssignPodServiceAccount(uid)
       \/ /\ uid \notin FilterPods(store) /\ fallback
          /\ pc' = "uidFallback" /\ UNCHANGED <<todo, saRef, email, status, used>>
       \/ uid \notin FilterPods(store) /\ ~fallback /\ RespondError("403")
    /\ UNCHANGED <<uid, found, fresh, retryVars>>

GetByUIDFallback ==
    /\ Daemon /\ pc = "uidFallback"
    /\ \/ uid \in FilterPods(object) /\ AssignPodServiceAccount(uid)
       \/ RespondError("403")
    /\ UNCHANGED <<uid, found, fresh, retryVars>>

\* lookupPodByIP's function has found the pods in a view of the cluster: it
\* succeeds if there is exactly one, and an error for none or many is final.
ExactlyOne(pods) == Cardinality(pods) = 1

FoundByIP(pods, isFresh) ==
    IF ExactlyOne(pods)
    THEN FuncReturned("none") /\ found' \in pods /\ fresh' = isFresh
    ELSE FuncReturned("fatal") /\ UNCHANGED <<found, fresh>>

\* Pods.GetByIP, from the store and from the fallback.
GetByIP ==
    /\ Daemon /\ pc = "lookup"
    /\ loop = "call"
    /\ LET pods == ByIP(store, tuple.ip) IN
         \/ /\ ExactlyOne(pods) \/ ~fallback
            /\ FoundByIP(pods, Truthful /\ store = object)
            /\ UNCHANGED pc
         \/ /\ ~ExactlyOne(pods) /\ fallback
            /\ pc' = "fallback" /\ UNCHANGED <<found, fresh, retryVars>>
    /\ UNCHANGED <<todo, saRef, email, status, used, uid>>

GetByIPFallback ==
    /\ Daemon /\ pc = "fallback"
    /\ \/ FoundByIP(ByIP(object, tuple.ip), Truthful)
       \/ FuncReturned("retryable") /\ UNCHANGED <<found, fresh>>
    /\ pc' = "lookup"
    /\ UNCHANGED <<todo, saRef, email, status, used, uid>>

LookupPauses ==
    /\ Daemon /\ pc = "lookup"
    /\ SleepEnds \/ SleepCancelled
    /\ UNCHANGED <<pc, todo, saRef, email, status, used, uid, found, fresh>>

\* retry.Do has returned; HTTPStatusCode.
LookupReturns ==
    /\ Daemon /\ pc = "lookup"
    /\ loop = "returned"
    /\ \/ result = "none" /\ AssignPodServiceAccount(found)
       \/ result = "maxAttempts" /\ RespondError("429")
       \/ result = "cancelled" /\ RespondError("499")
       \/ result = "fatal" /\ RespondError("500")
    /\ UNCHANGED <<uid, found, fresh, retryVars>>

-----------------------------------------------------------------------------
(* The handlers of the endpoints that depend on the pod *)

\* Every path below service-accounts/ starts with the directory lister, which
\* looks up the email, and then with the search for the entry among the names
\* listed; the lister's account and email are in the context of what follows.
Lister == <<"ref", "email", "route">>

\* The calls made behind the lister, those inside getPodGoogleServiceAccountEmail
\* and getPodGoogleAccessTokens included.  A recursive listing calls the email
\* handler for both names of the account; a listing, the aliases and the scopes
\* depend on the pod no further.
Handler(endpoint) ==
    CASE endpoint = "listing"   -> <<>>
      [] endpoint = "recursive" -> <<"email", "email">>
      [] endpoint = "email"     -> <<"email">>
      [] endpoint = "token"     -> <<"preflight", "ref", "saToken", "email", "access">>
      [] endpoint = "identity"  ->
           <<"preflight", "audience", "email", "target", "ref", "ref", "saToken", "email",
             "access", "identity">>

\* A request arrives on a connection.
Request ==
    /\ ~crashed /\ pc \in {"idle", "done"}
    /\ \E t \in Tuples :
          /\ socket[t] # Nil
          /\ tuple' = t /\ client' = socket[t]
          /\ settled' = Settled(socket[t])
    /\ connected' = TRUE
    /\ pc' = "next" /\ status' = "none"
    /\ todo' = Lister
    /\ saRef' = Nil /\ email' = "unknown" /\ used' = {}
    /\ uid' = Nil /\ found' = Nil /\ fresh' = FALSE
    /\ UNCHANGED <<configVars, clusterVars, informerVars, crashed, kernelVars, retryVars>>

\* The entry and the endpoint of the path, or 404 when they do not exist.
RouteRequest ==
    /\ Daemon /\ Calls("route")
    /\ \/ \E endpoint \in Endpoints : todo' = Handler(endpoint) /\ pc' = "next"
                                      /\ UNCHANGED <<saRef, email, status, used>>
       \/ RespondError("404")
    /\ UNCHANGED <<uid, found, fresh, retryVars>>

\* The call succeeds, with the account of the context.
Proceed(uses) ==
    /\ pc' = "next" /\ todo' = Tail(todo)
    /\ used' = IF uses THEN used \cup {saRef} ELSE used
    /\ UNCHANGED <<saRef, status>>

\* What a handler of tokens refuses by itself: an unsuitable container image, a
\* missing audience.
Validate ==
    /\ Daemon
    /\ Calls("preflight") \/ Calls("audience")
    /\ \/ Proceed(FALSE) /\ UNCHANGED email
       \/ RespondError(IF Head(todo) = "audience" THEN "400" ELSE "500")
    /\ UNCHANGED <<uid, found, fresh, retryVars>>

\* GetServiceAccountToken and GetGoogleIdentityToken, for the account;
\* GetGoogleAccessTokens, for the token of the first.
UseAccount ==
    /\ Daemon
    /\ Calls("saToken") \/ Calls("access") \/ Calls("identity")
    /\ \/ Proceed(Head(todo) # "access") /\ UNCHANGED email
       \/ RespondError(IF Head(todo) = "saToken" THEN "500" ELSE "google")
    /\ UNCHANGED <<uid, found, fresh, retryVars>>

\* getPodGoogleServiceAccountEmail, once the account is known: the email in the
\* context, or the annotation of the account.
GetEmail ==
    /\ Daemon /\ Calls("email")
    /\ \/ email # "unknown" /\ Proceed(FALSE) /\ UNCHANGED email
       \/ email = "unknown" /\ Proceed(TRUE) /\ email' \in {"set", "absent"}
       \/ email = "unknown" /\ (RespondError("500") \/ RespondError("400"))
    /\ UNCHANGED <<uid, found, fresh, retryVars>>

\* Identity tokens need an email.
RequireTarget ==
    /\ Daemon /\ Calls("target")
    /\ \/ email = "set" /\ Proceed(FALSE) /\ UNCHANGED email
       \/ email = "absent" /\ RespondError("404")
    /\ UNCHANGED <<uid, found, fresh, retryVars>>

Respond ==
    /\ Daemon /\ pc = "next" /\ todo = <<>>
    /\ status' = "200" /\ pc' = "done"
    /\ UNCHANGED <<todo, saRef, email, used, uid, found, fresh, retryVars>>

Serve ==
    \/ Request \/ RouteRequest \/ Validate
    \/ ReferenceFromContext \/ ReferenceLookup
    \/ Attest \/ AttestFails \/ GetByUID \/ GetByUIDFallback
    \/ GetByIP \/ GetByIPFallback \/ LookupPauses \/ LookupReturns
    \/ UseAccount \/ GetEmail \/ RequireTarget \/ Respond

Next == World \/ Deliver \/ Relist \/ Serve

Spec == Init /\ [][Next]_vars

-----------------------------------------------------------------------------
PodTypeOK ==
    /\ mode \in {"eBPF", "Loopback"} /\ fallback \in BOOLEAN /\ hostPods \subseteq Pods
    /\ object \in [Pods -> Objects] /\ store \in [Pods -> Objects]
    /\ addr \in [Pods -> IPs \cup {PodIP, Nil}]
    /\ events \in Seq([pod : Pods, new : Objects])
    /\ numPods \in Nat /\ crashed \in BOOLEAN
    /\ socket \in [Tuples -> Pods \cup {Nil}] /\ attested \in [Tuples -> Pods \cup {Nil}]
    /\ pc \in {"idle", "next", "attest", "uid", "uidFallback", "lookup", "fallback", "done"}
    /\ tuple \in Tuples
    /\ {uid, found, saRef, client} \subseteq Pods \cup {Nil} /\ used \subseteq Pods
    /\ email \in {"unknown", "set", "absent"}
    /\ status \in {"none", "200", "400", "403", "404", "429", "499", "500", "google"}

\* A request attested by the kernel is attributed to the pod that sent it, however
\* far behind the informer is and whoever used its address and port before: the
\* record is overwritten before the connection exists, and may at worst be gone.
AttestedIsClient ==
    UseAttestation /\ connected /\ saRef # Nil => saRef = client

\* A request attributed by its address is attributed to the pod that sent it, if
\* the objects tell the truth about addresses and the informer has caught up when
\* the lookup is made: also when the address had belonged to another pod.
AddressIsClient ==
    ~UseAttestation /\ connected /\ fresh /\ saRef # Nil => saRef = client

\* A pod the informer knows is never refused for its address: neither pods that
\* had the address before nor pods on the host network make it ambiguous.
KnownPodNotRefused ==
    ~UseAttestation /\ settled /\ pc = "lookup" =>
        loop # "sleep" /\ result \notin {"fatal", "maxAttempts", "cancelled"}

\* All calls of a request use the same account, although pods change between
\* them: tokens of one account are never combined with the email of another.
OneIdentity == Cardinality(used) <= 1
=============================================================================
