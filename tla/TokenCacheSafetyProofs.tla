---------------------- MODULE TokenCacheSafetyProofs ----------------------
(***************************************************************************)
(* Proofs that a request for tokens is never answered twice and never      *)
(* lost, for every number of clients, workers and nudges, and that         *)
(* podCount, the reference count that decides whether an account stays in  *)
(* the cache, is correct.                                                  *)
(***************************************************************************)
EXTENDS TokenCacheProofs

(* Requests *)

\* Only calls that have dispatched a request are pending or answered.
OnlyDispatched ==
    \A req \in Requests :
        reply[req] # Nil \/ (\E sa \in Entries : Pending(sa, req)) => call[req] \in {"wait", "done"}

RequestInv == AnsweredOnce /\ NotLost /\ OnlyDispatched

(***************************************************************************)
(* Every step, seen from the channels and the calls, is one of these.      *)
(***************************************************************************)
channels == <<externalRequests, batch, reply>>

\* A call moves before its dispatch, or returns.
Moves(req) ==
    /\ \/ /\ call[req] \notin {"wait", "done"}
          /\ \E p \in {"read", "dispatch"} : call' = [call EXCEPT ![req] = p]
       \/ call' = [call EXCEPT ![req] = "done"]
    /\ \A other \in Requests \ {req} : callEntry'[other] = callEntry[other]

\* A struct is allocated: its channel is new.
Allocates(sa) ==
    /\ \A req \in Requests : callEntry[req] # sa
    /\ externalRequests' = [externalRequests EXCEPT ![sa] = Empty]
    /\ UNCHANGED <<batch, reply>>

Dispatches(req) ==
    /\ call[req] = "dispatch" /\ externalRequests[callEntry[req]] = Empty
    /\ externalRequests' = [externalRequests EXCEPT ![callEntry[req]] = req]
    /\ call' = [call EXCEPT ![req] = "wait"]
    /\ UNCHANGED <<callEntry, batch, reply>>

Takes(sa) ==
    /\ batch' = [batch EXCEPT ![sa] = @ \cup ({externalRequests[sa]} \ {Nudge})]
    /\ externalRequests' = [externalRequests EXCEPT ![sa] = Empty]
    /\ externalRequests[sa] # Empty
    /\ UNCHANGED <<reply, call, callEntry>>

Nudges(sa) ==
    /\ externalRequests[sa] = Empty
    /\ externalRequests' = [externalRequests EXCEPT ![sa] = Nudge]
    /\ UNCHANGED <<batch, reply, call, callEntry>>

Responds(sa) ==
    /\ reply' = [req \in Requests |-> IF req \in batch[sa] THEN created[sa] ELSE reply[req]]
    /\ batch' = [batch EXCEPT ![sa] = {}]
    /\ UNCHANGED <<externalRequests, call, callEntry>>

ChannelStep ==
    \/ \E req \in Requests : \/ Moves(req) /\ UNCHANGED channels
                             \/ Moves(req) /\ \E sa \in Entries : Allocates(sa)
                             \/ Dispatches(req)
    \/ \E sa \in Entries : \/ Allocates(sa) /\ UNCHANGED <<call, callEntry>>
                           \/ Takes(sa) \/ Nudges(sa) \/ Responds(sa)
    \/ UNCHANGED <<channels, call, callEntry>>

LEMMA NextChannelStep == ASSUME TypeInv, [Next]_vars PROVE ChannelStep
<1>0. TypeOK /\ CallOK  BY DEF TypeInv
<1>q. CASE UNCHANGED <<channels, call, callEntry>>  BY <1>q DEF ChannelStep
<1>r. ASSUME NEW req \in Requests, NEW resp, Return(req, resp),
             UNCHANGED <<entryVars, workerVars>>
      PROVE ChannelStep
  <2>1. Moves(req)  BY <1>0, <1>r DEF Return, Moves, TypeOK
  <2>2. UNCHANGED channels  BY <1>r DEF Return, channels, entryVars, workerVars
  <2> QED  BY <2>1, <2>2 DEF ChannelStep
<1>1. ASSUME NEW req \in Requests, GetTokens(req) PROVE ChannelStep
  <2>1. ASSUME NEW ref \in Refs, NEW sa \in Entries, GetTokensAdd(req, ref, sa)
        PROVE ChannelStep
    <3>1. Moves(req)  BY <1>0, <2>1 DEF GetTokensAdd, Proceed, Moves, TypeOK
    <3>2. Allocates(sa)
      BY <2>1 DEF GetTokensAdd, AddServiceAccount, Free, Allocates, Proceed
    <3> QED  BY <3>1, <3>2 DEF ChannelStep
  <2>2. ASSUME NEW ref \in Refs, GetTokensFound(req, ref) PROVE ChannelStep
    <3>1. Moves(req)  BY <1>0, <2>2 DEF GetTokensFound, Proceed, Moves, TypeOK
    <3>2. UNCHANGED channels
      BY <2>2 DEF GetTokensFound, Proceed, channels, entryVars, workerVars
    <3> QED  BY <3>1, <3>2 DEF ChannelStep
  <2>3. ASSUME NEW ref \in Refs, GetTokensDeleted(req, ref) PROVE ChannelStep
    BY <1>r, <2>3 DEF GetTokensDeleted
  <2>4. CASE GetTokensRead(req)
    <3>1. CASE \E resp : Return(req, resp)  BY <1>r, <2>4, <3>1 DEF GetTokensRead
    <3>2. CASE ~\E resp : Return(req, resp)
      <4>1. Moves(req) /\ UNCHANGED channels
        BY <1>0, <2>4, <3>2 DEF GetTokensRead, Moves, channels, entryVars, workerVars, TypeOK
      <4> QED  BY <4>1 DEF ChannelStep
    <3> QED  BY <3>1, <3>2
  <2>5. CASE RequestDispatch(req)
    <3>1. Dispatches(req)  BY <2>5 DEF RequestDispatch, Dispatches, workerVars
    <3> QED  BY <3>1 DEF ChannelStep
  <2>6. CASE RequestAbandon(req) \/ RequestTerminated(req) \/ RequestReceive(req)
    BY <1>r, <2>6 DEF RequestAbandon, RequestTerminated, RequestReceive
  <2> QED  BY <1>1, <2>1, <2>2, <2>3, <2>4, <2>5, <2>6 DEF GetTokens
<1>2. ASSUME NEW sa \in Entries, CacheTokens(sa) PROVE ChannelStep
  <2>1. CASE DrainRequest(sa) \/ WakeByRequest(sa)
    <3>1. Takes(sa)  BY <2>1 DEF DrainRequest, WakeByRequest, Takes, callVars
    <3> QED  BY <3>1 DEF ChannelStep
  <2>2. CASE SendResponse(sa)
    <3>1. Responds(sa)  BY <2>2 DEF SendResponse, ForgetBatch, Responds, entryVars
    <3> QED  BY <3>1 DEF ChannelStep
  <2>3. CASE StoreTokens(sa) \/ Acquire(sa) \/ TimerFires(sa)
    BY <1>q, <2>3 DEF StoreTokens, Acquire, TimerFires, channels, entryVars, callVars
  <2>4. CASE CheckFirst(sa) \/ CheckSecond(sa)
    BY <1>q, <2>4 DEF CheckFirst, CheckSecond, DeleteAndExit, channels, entryVars, callVars
  <2>5. CASE AcquireAborted(sa) \/ SleepAborted(sa)
    BY <1>q, <2>5 DEF AcquireAborted, SleepAborted, Abort, channels, entryVars, callVars
  <2>6. CASE GetServiceAccount(sa) \/ IssueTokens(sa) \/ IssueTokensFails(sa)
    BY <1>q, <2>6 DEF GetServiceAccount, IssueTokens, IssueTokensFails, CreateTokensReturn,
       channels, entryVars, callVars
  <2> QED  BY <1>2, <2>1, <2>2, <2>3, <2>4, <2>5, <2>6 DEF CacheTokens
<1>3. CASE Informers
  <2>1. ASSUME NEW ref \in Refs, AddPodServiceAccount(ref) PROVE ChannelStep
    <3>1. ASSUME NEW sa \in Entries, AddServiceAccount(ref, sa, 1) PROVE ChannelStep
      <4>1. Allocates(sa) /\ UNCHANGED <<call, callEntry>>
        BY <2>1, <3>1 DEF AddPodServiceAccount, AddServiceAccount, Free, Allocates, callVars
      <4> QED  BY <4>1 DEF ChannelStep
    <3>2. CASE Registered(ref)
      BY <1>q, <2>1, <3>2 DEF AddPodServiceAccount, channels, workerVars, callVars
    <3> QED  BY <2>1, <3>1, <3>2 DEF AddPodServiceAccount
  <2>2. CASE Deliver
    <3>1. UNCHANGED <<batch, reply, call, callEntry>>
      BY <2>2 DEF Deliver, workerVars, callVars
    <3>2. CASE UNCHANGED externalRequests  BY <1>q, <3>1, <3>2 DEF channels
    <3>3. CASE ~UNCHANGED externalRequests
      <4> DEFINE n == Head(notifications)
      <4>0. n \in Notification  BY <1>0, <2>2 DEF Deliver, TypeOK
      <4>1. n.ref \in Refs  BY <4>0 DEF Notification
      <4>2. serviceAccounts[n.ref] \in Entries
        BY <1>0, <2>2, <3>3, <4>1 DEF Deliver, Registered, TypeOK
      <4>3. Nudges(serviceAccounts[n.ref])
        BY <2>2, <3>1, <3>3 DEF Deliver, Wake, Nudges
      <4> QED  BY <4>2, <4>3 DEF ChannelStep
    <3> QED  BY <3>2, <3>3
  <2>3. ASSUME NEW ref \in Refs, DeletePodServiceAccount(ref) PROVE ChannelStep
    BY <1>q, <2>3 DEF DeletePodServiceAccount, channels, workerVars, callVars
  <2>4. ASSUME NEW ref \in Refs, NEW value, AccountChange(ref, value) \/ Resync(ref)
        PROVE ChannelStep
    BY <1>q, <2>4 DEF AccountChange, Resync, channels, entryVars, workerVars, callVars
  <2> QED  BY <1>3, <2>1, <2>2, <2>3, <2>4 DEF Informers
<1>4. ASSUME NEW sa \in Entries, TokensExpire(sa) PROVE ChannelStep
  BY <1>q, <1>4 DEF TokensExpire, channels, workerVars, callVars
<1>5. CASE CloseCancel \/ CloseReturn \/ UNCHANGED vars
  BY <1>q, <1>5 DEF CloseCancel, CloseReturn, vars, channels, entryVars, workerVars, callVars
<1> QED  BY <1>1, <1>2, <1>3, <1>4, <1>5 DEF Next

LEMMA RequestStep ==
    ASSUME TypeInv, RequestInv, ChannelStep PROVE RequestInv'
<1>0. /\ externalRequests \in [Entries -> Requests \cup {Nudge, Empty}]
      /\ batch \in [Entries -> SUBSET Requests]
      /\ reply \in [Requests -> Responses \cup {Nil}]
      /\ created \in [Entries -> Responses]
      /\ call \in [Requests -> CallStates]
      /\ CallOK
      /\ AnsweredOnce /\ NotLost /\ OnlyDispatched
  BY DEF TypeInv, TypeOK, RequestInv
<1>a. ASSUME NEW req \in Requests, Moves(req), UNCHANGED channels PROVE RequestInv'
  BY <1>0, <1>a DEF Moves, RequestInv, AnsweredOnce, NotLost, OnlyDispatched, channels,
     Pending, Queued, Taken
<1>b. ASSUME NEW sa \in Entries, Allocates(sa) PROVE AnsweredOnce'
  BY <1>0, <1>b, SentinelAssumption DEF Allocates, AnsweredOnce, Pending, Queued, Taken
<1>c. ASSUME NEW req \in Requests, NEW sa \in Entries, Moves(req), Allocates(sa)
      PROVE RequestInv'
  <2>1. NotLost'
    BY <1>0, <1>c DEF Moves, Allocates, NotLost, Pending, Queued, Taken
  <2>2. OnlyDispatched'
    BY <1>0, <1>c, SentinelAssumption DEF Moves, Allocates, OnlyDispatched, Pending, Queued, Taken
  <2> QED  BY <1>b, <1>c, <2>1, <2>2 DEF RequestInv
<1>d. ASSUME NEW sa \in Entries, Allocates(sa), UNCHANGED <<call, callEntry>> PROVE RequestInv'
  <2>1. NotLost'
    BY <1>0, <1>d DEF Allocates, NotLost, Pending, Queued, Taken
  <2>2. OnlyDispatched'
    BY <1>0, <1>d, SentinelAssumption DEF Allocates, OnlyDispatched, Pending, Queued, Taken
  <2> QED  BY <1>b, <1>d, <2>1, <2>2 DEF RequestInv
<1>e. ASSUME NEW req \in Requests, Dispatches(req) PROVE RequestInv'
  <2>1. /\ callEntry[req] \in Entries
        /\ reply[req] = Nil
        /\ \A sa \in Entries : ~Pending(sa, req)
    BY <1>0, <1>e DEF Dispatches, CallOK, OnlyDispatched
  <2>2. AnsweredOnce'
    BY <1>0, <1>e, <2>1, SentinelAssumption DEF Dispatches, AnsweredOnce, Pending, Queued, Taken
  <2>3. NotLost'
    BY <1>0, <1>e, <2>1, SentinelAssumption DEF Dispatches, NotLost, Pending, Queued, Taken
  <2>4. OnlyDispatched'
    BY <1>0, <1>e, <2>1 DEF Dispatches, OnlyDispatched, Pending, Queued, Taken
  <2> QED  BY <2>2, <2>3, <2>4 DEF RequestInv
<1>f. ASSUME NEW sa \in Entries, Takes(sa) PROVE RequestInv'
  <2>1. \A e \in Entries, q \in Requests : Pending(e, q)' <=> Pending(e, q)
    BY <1>0, <1>f, SentinelAssumption DEF Takes, Pending, Queued, Taken
  <2>2. AnsweredOnce'
    BY <1>0, <1>f, <2>1, SentinelAssumption DEF Takes, AnsweredOnce, Queued, Taken
  <2>3. NotLost'
    BY <1>0, <1>f, SentinelAssumption DEF Takes, NotLost, Pending, Queued, Taken
  <2>4. OnlyDispatched'  BY <1>0, <1>f, <2>1 DEF Takes, OnlyDispatched
  <2> QED  BY <2>2, <2>3, <2>4 DEF RequestInv
<1>g. ASSUME NEW sa \in Entries, Nudges(sa) PROVE RequestInv'
  <2>1. \A e \in Entries, q \in Requests :
          (Queued(e, q)' <=> Queued(e, q)) /\ (Taken(e, q)' <=> Taken(e, q))
    BY <1>0, <1>g, SentinelAssumption DEF Nudges, Queued, Taken
  <2>2. NotLost'
    BY <1>0, <1>g, SentinelAssumption DEF Nudges, NotLost, Pending, Queued, Taken
  <2> QED
    BY <1>0, <1>g, <2>1, <2>2 DEF Nudges, RequestInv, AnsweredOnce, OnlyDispatched, Pending
<1>h. ASSUME NEW sa \in Entries, Responds(sa) PROVE RequestInv'
  <2>1. created[sa] # Nil  BY <1>0, NilAssumption
  <2>2. \A e \in Entries, q \in Requests : Pending(e, q)' => Pending(e, q) /\ ~Taken(sa, q)
    BY <1>0, <1>h DEF Responds, Pending, Queued, Taken, AnsweredOnce
  <2>3. AnsweredOnce'
    BY <1>0, <1>h, <2>2 DEF Responds, AnsweredOnce, Pending, Queued, Taken
  <2>4. NotLost'
    BY <1>0, <1>h, <2>1 DEF Responds, NotLost, Pending, Queued, Taken
  <2>5. OnlyDispatched'
    BY <1>0, <1>h, <2>2 DEF Responds, OnlyDispatched, Pending, Taken
  <2> QED  BY <2>3, <2>4, <2>5 DEF RequestInv
<1>i. CASE UNCHANGED <<channels, call, callEntry>>
  BY <1>0, <1>i DEF RequestInv, AnsweredOnce, NotLost, OnlyDispatched, channels,
     Pending, Queued, Taken
<1> QED
  BY <1>a, <1>c, <1>d, <1>e, <1>f, <1>g, <1>h, <1>i DEF ChannelStep

LEMMA RequestInvariance == Spec => [](AnsweredOnce /\ NotLost)
<1>1. Init => TypeInv /\ RequestInv
  BY InitType, SentinelAssumption
  DEF Init, RequestInv, AnsweredOnce, NotLost, OnlyDispatched, Pending, Queued, Taken
<1>2. TypeInv /\ RequestInv /\ [Next]_vars => (TypeInv /\ RequestInv)'
  BY NextType, NextChannelStep, RequestStep
<1>3. RequestInv => AnsweredOnce /\ NotLost  BY DEF RequestInv
<1> QED  BY <1>1, <1>2, <1>3, PTL DEF Spec

\* No worker ever sends on a reply channel that is already closed, however many
\* clients and nudges compete for its one-slot channel and however workers of
\* the same account succeed each other.
THEOREM NeverAnsweredTwice == Spec => []AnsweredOnce
BY RequestInvariance, PTL

\* No request that was accepted by a channel disappears from it unanswered.
THEOREM NeverLost == Spec => []NotLost
BY RequestInvariance, PTL

-----------------------------------------------------------------------------
(* podCount *)

\* A struct is marked deleted only by a deletion the informer has reported.
DeletionReported ==
    \A ref \in Refs : Registered(ref) /\ deleted[serviceAccounts[ref]] => ref \in everDeleted

PodInv == PodCountBounded /\ PodCountExact /\ DeletionReported

counters == <<serviceAccounts, podCount, deleted, pods, everDeleted>>

\* Two accounts never share a struct.
LEMMA OwnStruct ==
    ASSUME RegistryCoherent, NEW r1 \in Refs, NEW r2 \in Refs,
           Registered(r1), serviceAccounts[r1] = serviceAccounts[r2]
    PROVE  r1 = r2
BY DEF RegistryCoherent, Registered

LEMMA AddPreservesPodInv ==
    ASSUME TypeInv, RegistryCoherent, PodInv,
           NEW ref \in Refs, NEW sa \in Entries, NEW count \in Nat,
           ~Registered(ref), AddServiceAccount(ref, sa, count),
           pods' = [pods EXCEPT ![ref] = @ + count], everDeleted' = everDeleted
    PROVE  PodInv'
<1>0. /\ serviceAccounts \in [Refs -> Entries \cup {Nil}]
      /\ podCount \in [Entries -> Nat] /\ deleted \in [Entries -> BOOLEAN]
      /\ pods \in [Refs -> 0..MaxPods]
  BY DEF TypeInv, TypeOK
<1>1. /\ serviceAccounts'[ref] = sa /\ podCount'[sa] = count /\ deleted'[sa] = FALSE
      /\ pods'[ref] = pods[ref] + count /\ pods[ref] \in Nat
  BY <1>0, BoundsAssumption DEF AddServiceAccount
<1>2. \A r \in Refs \ {ref} :
        /\ serviceAccounts'[r] = serviceAccounts[r] /\ serviceAccounts[r] # sa
        /\ pods'[r] = pods[r]
  BY <1>0 DEF AddServiceAccount, Free
<1>3. \A e \in Entries \ {sa} : podCount'[e] = podCount[e] /\ deleted'[e] = deleted[e]
  BY <1>0 DEF AddServiceAccount
<1>4. PodCountBounded'
  BY <1>0, <1>1, <1>2, <1>3 DEF PodInv, PodCountBounded, Registered
<1>5. PodCountExact'
  <2>1. ref \notin everDeleted => pods[ref] = 0  BY DEF PodInv, PodCountExact
  <2>2. sa # Nil  BY SentinelAssumption
  <2> QED  BY <1>0, <1>1, <1>2, <1>3, <2>1, <2>2 DEF PodInv, PodCountExact, Registered
<1>6. DeletionReported'
  BY <1>0, <1>1, <1>2, <1>3 DEF PodInv, DeletionReported, Registered
<1> QED  BY <1>4, <1>5, <1>6 DEF PodInv

LEMMA RemovePreservesPodInv ==
    ASSUME TypeInv, RegistryCoherent, PodInv, NEW sa \in Entries,
           worker[sa] \in Live, DeleteAndExit(sa)
    PROVE  PodInv'
<1> DEFINE ref == reference[sa]
<1>0. /\ serviceAccounts \in [Refs -> Entries \cup {Nil}]
      /\ podCount \in [Entries -> Nat]
      /\ pods \in [Refs -> 0..MaxPods]
  BY DEF TypeInv, TypeOK
<1>1. ref \in Refs /\ serviceAccounts[ref] = sa  BY DEF RegistryCoherent
<1>2. serviceAccounts' = [serviceAccounts EXCEPT ![ref] = Nil]
      /\ UNCHANGED <<podCount, deleted, pods, everDeleted>>
  BY DEF DeleteAndExit, Unregister, entryVars, clusterVars
<1>3. podCount[sa] = 0 \/ deleted[sa]  BY DEF DeleteAndExit, MustDelete
<1>4. ref \notin everDeleted => pods[ref] = 0
  BY <1>1, <1>3, SentinelAssumption DEF PodInv, PodCountExact, DeletionReported, Registered
<1>5. PodCountBounded'
  BY <1>0, <1>1, <1>2 DEF PodInv, PodCountBounded, Registered
<1>6. PodCountExact'
  BY <1>0, <1>1, <1>2, <1>4 DEF PodInv, PodCountExact, Registered
<1>7. DeletionReported'
  BY <1>0, <1>1, <1>2 DEF PodInv, DeletionReported, Registered
<1> QED  BY <1>5, <1>6, <1>7 DEF PodInv

LEMMA InformersPreservePodInv ==
    ASSUME TypeInv, RegistryCoherent, PodInv, Informers PROVE PodInv'
<1>0. /\ serviceAccounts \in [Refs -> Entries \cup {Nil}]
      /\ podCount \in [Entries -> Nat] /\ deleted \in [Entries -> BOOLEAN]
      /\ pods \in [Refs -> 0..MaxPods]
  BY DEF TypeInv, TypeOK
<1>u. CASE UNCHANGED counters
  BY <1>u DEF counters, PodInv, PodCountBounded, PodCountExact, DeletionReported, Registered
<1>n. \A r \in Refs : pods[r] \in Nat  BY <1>0, BoundsAssumption
<1>1. ASSUME NEW ref \in Refs, AddPodServiceAccount(ref) PROVE PodInv'
  <2>1. pods' = [pods EXCEPT ![ref] = @ + 1] /\ everDeleted' = everDeleted
    BY <1>1 DEF AddPodServiceAccount
  <2>2. CASE ~Registered(ref)
    <3>1. PICK sa \in Entries : AddServiceAccount(ref, sa, 1)
      BY <1>1, <2>2 DEF AddPodServiceAccount
    <3> QED  BY <2>1, <2>2, <3>1, AddPreservesPodInv
  <2>3. CASE Registered(ref)
    <3>1. /\ podCount' = [podCount EXCEPT ![serviceAccounts[ref]] = @ + 1]
          /\ UNCHANGED <<serviceAccounts, deleted>>
      BY <1>1, <2>3 DEF AddPodServiceAccount, providerVars
    <3>2. serviceAccounts[ref] \in Entries  BY <1>0, <2>3 DEF Registered
    <3>3. \A r \in Refs \ {ref} : serviceAccounts[r] # serviceAccounts[ref]
      BY <2>3, OwnStruct
    <3>4. PodCountBounded'
      BY <1>0, <1>n, <2>1, <3>1, <3>2, <3>3 DEF PodInv, PodCountBounded, Registered
    <3>5. PodCountExact'
      BY <1>0, <1>n, <2>1, <2>3, <3>1, <3>2, <3>3 DEF PodInv, PodCountExact, Registered
    <3>6. DeletionReported'
      BY <2>1, <3>1 DEF PodInv, DeletionReported, Registered
    <3> QED  BY <3>4, <3>5, <3>6 DEF PodInv
  <2> QED  BY <2>2, <2>3
<1>2. ASSUME NEW ref \in Refs, DeletePodServiceAccount(ref) PROVE PodInv'
  <2>1. /\ pods[ref] > 0 /\ pods' = [pods EXCEPT ![ref] = @ - 1]
        /\ UNCHANGED <<serviceAccounts, deleted, everDeleted>>
    BY <1>2 DEF DeletePodServiceAccount, providerVars
  <2>2. CASE Registered(ref) /\ podCount[serviceAccounts[ref]] > 0
    <3>1. podCount' = [podCount EXCEPT ![serviceAccounts[ref]] = @ - 1]
      BY <1>2, <2>2 DEF DeletePodServiceAccount, ForgetPod
    <3>2. serviceAccounts[ref] \in Entries  BY <1>0, <2>2 DEF Registered
    <3>3. \A r \in Refs \ {ref} : serviceAccounts[r] # serviceAccounts[ref]
      BY <2>2, OwnStruct
    <3>4. PodCountBounded'
      BY <1>0, <1>n, <2>1, <3>1, <3>2, <3>3 DEF PodInv, PodCountBounded, Registered
    <3>5. PodCountExact'
      BY <1>0, <1>n, <2>1, <2>2, <3>1, <3>2, <3>3 DEF PodInv, PodCountExact, Registered
    <3>6. DeletionReported'
      BY <2>1, <3>1 DEF PodInv, DeletionReported, Registered
    <3> QED  BY <3>4, <3>5, <3>6 DEF PodInv
  <2>3. CASE ~(Registered(ref) /\ podCount[serviceAccounts[ref]] > 0)
    <3>1. podCount' = podCount
      BY <1>2, <2>3 DEF DeletePodServiceAccount, ForgetPod
    <3>2. Registered(ref) => podCount[serviceAccounts[ref]] = 0
      BY <1>0, <2>3 DEF Registered
    <3>3. ref \in everDeleted
      BY <2>1, <3>2 DEF PodInv, PodCountExact
    <3>4. PodCountBounded'
      BY <1>0, <1>n, <2>1, <3>1, <3>2 DEF PodInv, PodCountBounded, Registered
    <3>5. PodCountExact'
      BY <1>0, <2>1, <3>1, <3>3 DEF PodInv, PodCountExact, Registered
    <3>6. DeletionReported'
      BY <2>1 DEF PodInv, DeletionReported, Registered
    <3> QED  BY <3>4, <3>5, <3>6 DEF PodInv
  <2> QED  BY <2>2, <2>3
<1>3. ASSUME NEW ref \in Refs, NEW value, AccountChange(ref, value) \/ Resync(ref)
      PROVE PodInv'
  BY <1>u, <1>3 DEF AccountChange, Resync, counters, providerVars, entryVars
<1>4. CASE Deliver
  <2> DEFINE n == Head(notifications)
  <2>1. n \in Notification  BY <1>4 DEF TypeInv, TypeOK, Deliver
  <2>2. n.ref \in Refs  BY <2>1 DEF Notification
  <2>3. /\ UNCHANGED <<serviceAccounts, podCount, pods>>
        /\ everDeleted \subseteq everDeleted'
        /\ n.kind = "delete" => n.ref \in everDeleted'
    BY <1>4 DEF Deliver, providerVars
  <2>4. PodCountBounded'
    BY <2>3 DEF PodInv, PodCountBounded, Registered
  <2>5. PodCountExact'
    BY <2>3 DEF PodInv, PodCountExact, Registered
  <2>6. ASSUME NEW r \in Refs, Registered(r)', deleted'[serviceAccounts'[r]]
        PROVE r \in everDeleted'
    <3>1. Registered(r) /\ serviceAccounts[r] \in Entries
      BY <1>0, <2>3, <2>6 DEF Registered
    <3>2. CASE r = n.ref
      <4>1. deleted'[serviceAccounts[r]] = (n.kind = "delete")
        BY <1>0, <1>4, <3>1, <3>2 DEF Deliver
      <4> QED  BY <2>3, <2>6, <3>2, <4>1
    <3>3. CASE r # n.ref
      <4>1. Registered(n.ref) => serviceAccounts[n.ref] # serviceAccounts[r]
        BY <2>2, <3>1, <3>3, OwnStruct
      <4>2. deleted'[serviceAccounts[r]] = deleted[serviceAccounts[r]]
        BY <1>0, <1>4, <2>2, <3>1, <4>1 DEF Deliver
      <4> QED  BY <2>3, <2>6, <3>1, <4>2 DEF PodInv, DeletionReported
    <3> QED  BY <3>2, <3>3
  <2> QED  BY <2>4, <2>5, <2>6 DEF PodInv, DeletionReported
<1> QED  BY <1>1, <1>2, <1>3, <1>4 DEF Informers

LEMMA NextPodInv ==
    ASSUME TypeInv, RegistryCoherent, PodInv, [Next]_vars PROVE PodInv'
<1>u. CASE UNCHANGED counters
  BY <1>u DEF counters, PodInv, PodCountBounded, PodCountExact, DeletionReported, Registered
<1>1. ASSUME NEW req \in Requests, GetTokens(req) PROVE PodInv'
  <2>1. ASSUME NEW ref \in Refs, NEW sa \in Entries, GetTokensAdd(req, ref, sa) PROVE PodInv'
    <3>1. pods' = [pods EXCEPT ![ref] = @ + 0] /\ everDeleted' = everDeleted
      <4>1. pods \in [Refs -> 0..MaxPods]  BY DEF TypeInv, TypeOK
      <4>2. pods[ref] + 0 = pods[ref]  BY <4>1, BoundsAssumption
      <4> QED  BY <2>1, <4>1, <4>2 DEF GetTokensAdd, clusterVars
    <3> QED  BY <2>1, <3>1, AddPreservesPodInv DEF GetTokensAdd
  <2>2. CASE UNCHANGED counters  BY <1>u, <2>2
  <2> QED
    BY <1>1, <2>1, <2>2 DEF GetTokens, GetTokensFound, GetTokensDeleted, GetTokensRead,
       RequestDispatch, RequestAbandon, RequestTerminated, RequestReceive,
       counters, providerVars, entryVars, clusterVars
<1>2. ASSUME NEW sa \in Entries, CacheTokens(sa) PROVE PodInv'
  <2>1. CASE CheckFirst(sa) \/ CheckSecond(sa)
    <3>1. worker[sa] \in Live  BY <2>1 DEF CheckFirst, CheckSecond, Live
    <3>2. CASE DeleteAndExit(sa)  BY <3>1, <3>2, RemovePreservesPodInv
    <3>3. CASE ~DeleteAndExit(sa)
      BY <1>u, <2>1, <3>3 DEF CheckFirst, CheckSecond, counters, providerVars, entryVars, clusterVars
    <3> QED  BY <3>2, <3>3
  <2>2. CASE DrainRequest(sa) \/ WakeByRequest(sa) \/ SendResponse(sa)
    BY <1>u, <2>2 DEF DrainRequest, WakeByRequest, SendResponse,
       counters, providerVars, entryVars, clusterVars
  <2>3. CASE StoreTokens(sa) \/ Acquire(sa) \/ TimerFires(sa)
    BY <1>u, <2>3 DEF StoreTokens, Acquire, TimerFires,
       counters, providerVars, entryVars, clusterVars
  <2>4. CASE AcquireAborted(sa) \/ SleepAborted(sa)
    BY <1>u, <2>4 DEF AcquireAborted, SleepAborted, Abort,
       counters, providerVars, entryVars, clusterVars
  <2>5. CASE GetServiceAccount(sa) \/ IssueTokens(sa) \/ IssueTokensFails(sa)
    BY <1>u, <2>5 DEF GetServiceAccount, IssueTokens, IssueTokensFails, CreateTokensReturn,
       counters, providerVars, entryVars, clusterVars
  <2> QED  BY <1>2, <2>1, <2>2, <2>3, <2>4, <2>5 DEF CacheTokens
<1>3. ASSUME NEW sa \in Entries, TokensExpire(sa) PROVE PodInv'
  BY <1>u, <1>3 DEF TokensExpire, counters, providerVars, clusterVars
<1>4. CASE CloseCancel \/ CloseReturn \/ UNCHANGED vars
  BY <1>u, <1>4 DEF CloseCancel, CloseReturn, vars, counters, providerVars, entryVars, clusterVars
<1> QED  BY <1>1, <1>2, <1>3, <1>4, InformersPreservePodInv DEF Next

LEMMA PodInvariance == Spec => [](PodCountBounded /\ PodCountExact)
<1>1. Init => TypeInv /\ RegistryCoherent /\ PodInv
  BY InitType, SentinelAssumption
  DEF Init, RegistryCoherent, PodInv, PodCountBounded, PodCountExact, DeletionReported,
      Registered, Live
<1>2. TypeInv /\ RegistryCoherent /\ PodInv /\ [Next]_vars
        => (TypeInv /\ RegistryCoherent /\ PodInv)'
  BY NextType, NextStep, RegistryStep, NextPodInv
<1>3. PodInv => PodCountBounded /\ PodCountExact  BY DEF PodInv
<1> QED  BY <1>1, <1>2, <1>3, PTL DEF Spec

\* podCount never counts a pod that is gone, so that an account without pods is
\* dropped by its worker's next check; and until the deletion of an account is
\* reported, its podCount is the number of its pods, and an account with pods is
\* registered.
THEOREM PodCountAlwaysCorrect == Spec => []PodCountCorrect
<1>1. PodCountBounded /\ PodCountExact => PodCountCorrect  BY DEF PodCountCorrect
<1> QED  BY <1>1, PodInvariance, PTL
=============================================================================
