-------------------------- MODULE TokenCacheProofs --------------------------
(***************************************************************************)
(* Proofs that the invariants of TokenCache hold for every number of       *)
(* accounts, structs, requests, pods and pending notifications.            *)
(***************************************************************************)
EXTENDS TokenCache, FiniteSetTheorems, TLAPS

\* A call that is under way holds the struct it found.
CallOK == \A req \in Requests :
            call[req] \in {"read", "dispatch", "wait"} => callEntry[req] \in Entries

TypeInv == TypeOK /\ CallOK

LEMMA ResponsesType ==
    /\ \A err \in Errors : Failure(err) \in Responses
    /\ \A e \in Emails \cup {Nil} : Success(e) \in Responses
BY DEF Failure, Success, Responses, Errors

LEMMA InitType == Init => TypeInv
<1> SUFFICES ASSUME Init PROVE TypeInv  OBVIOUS
<1>1. Failure("none") \in Responses  BY ResponsesType DEF Errors
<1>2. notifications \in Seq(Notification)  BY DEF Init
<1>3. TypeOK
  BY <1>1, <1>2, BoundsAssumption DEF Init, TypeOK, WorkerStates, CallStates, Live
<1>4. CallOK  BY DEF Init, CallOK
<1> QED  BY <1>3, <1>4 DEF TypeInv

LEMMA AddServiceAccountType ==
    ASSUME TypeInv, NEW ref \in Refs, NEW sa \in Entries, NEW count \in Nat,
           AddServiceAccount(ref, sa, count)
    PROVE  /\ serviceAccounts' \in [Refs -> Entries \cup {Nil}]
           /\ numTokens' \in Int
           /\ reference' \in [Entries -> Refs \cup {Nil}]
           /\ podCount' \in [Entries -> Nat]
           /\ deleted' \in [Entries -> BOOLEAN]
           /\ tokens' \in [Entries -> Emails \cup {Nil}]
           /\ externalRequests' \in [Entries -> Requests \cup {Nudge, Empty}]
           /\ expired' \in [Entries -> BOOLEAN]
           /\ worker' \in [Entries -> WorkerStates]
           /\ UNCHANGED <<semaphore, closing, batch, email, created>>
BY DEF TypeInv, TypeOK, AddServiceAccount, WorkerStates, Live

LEMMA GetTokensType ==
    ASSUME TypeInv, NEW req \in Requests, GetTokens(req) PROVE TypeInv'
<1>0. TypeOK /\ CallOK  BY DEF TypeInv
<1>1. ASSUME NEW ref \in Refs, NEW sa \in Entries, GetTokensAdd(req, ref, sa) PROVE TypeInv'
  <2>1. AddServiceAccount(ref, sa, 0)  BY <1>1 DEF GetTokensAdd
  <2>2. /\ call' \in [Requests -> CallStates]
        /\ callEntry' \in [Requests -> Entries \cup {Nil}]
        /\ UNCHANGED <<reply, returned>>
        /\ CallOK'
    BY <1>0, <1>1 DEF GetTokensAdd, Proceed, TypeOK, CallOK, CallStates
  <2>3. UNCHANGED clusterVars  BY <1>1 DEF GetTokensAdd
  <2> QED
    BY <1>0, <2>1, <2>2, <2>3, AddServiceAccountType DEF TypeInv, TypeOK, clusterVars
<1>2. ASSUME NEW resp \in Responses, Return(req, resp),
             UNCHANGED <<providerVars, entryVars, workerVars, clusterVars>>
      PROVE TypeInv'
  BY <1>0, <1>2 DEF Return, TypeInv, TypeOK, CallOK, CallStates,
     providerVars, entryVars, workerVars, clusterVars
<1>3. ASSUME NEW ref \in Refs, GetTokensFound(req, ref) PROVE TypeInv'
  <2>1. serviceAccounts[ref] \in Entries
    BY <1>0, <1>3 DEF GetTokensFound, Registered, TypeOK
  <2> QED
    BY <1>0, <1>3, <2>1 DEF GetTokensFound, Proceed, TypeInv, TypeOK, CallOK, CallStates,
       providerVars, entryVars, workerVars, clusterVars
<1>4. ASSUME NEW ref \in Refs, GetTokensDeleted(req, ref) PROVE TypeInv'
  BY <1>2, <1>4, ResponsesType DEF GetTokensDeleted, Errors
<1>5. CASE GetTokensRead(req)
  <2>1. callEntry[req] \in Entries  BY <1>0, <1>5 DEF GetTokensRead, CallOK
  <2>2. Success(tokens[callEntry[req]]) \in Responses
    BY <1>0, <2>1, ResponsesType DEF TypeOK
  <2>3. CASE tokens[callEntry[req]] # Nil /\ ~expired[callEntry[req]]
    BY <1>2, <1>5, <2>2, <2>3 DEF GetTokensRead
  <2>4. CASE ~(tokens[callEntry[req]] # Nil /\ ~expired[callEntry[req]])
    BY <1>0, <1>5, <2>1, <2>4 DEF GetTokensRead, TypeInv, TypeOK, CallOK, CallStates,
       providerVars, entryVars, workerVars, clusterVars
  <2> QED  BY <2>3, <2>4
<1>6. CASE RequestDispatch(req)
  BY <1>0, <1>6 DEF RequestDispatch, TypeInv, TypeOK, CallOK, CallStates,
     providerVars, workerVars, clusterVars
<1>7. CASE RequestAbandon(req)
  BY <1>2, <1>7, ResponsesType DEF RequestAbandon, Errors
<1>8. CASE RequestTerminated(req)
  BY <1>2, <1>8, ResponsesType DEF RequestTerminated, Errors
<1>9. CASE RequestReceive(req)
  <2>1. reply[req] \in Responses  BY <1>0, <1>9 DEF RequestReceive, TypeOK
  <2> QED  BY <1>2, <1>9, <2>1 DEF RequestReceive
<1> QED  BY <1>1, <1>3, <1>4, <1>5, <1>6, <1>7, <1>8, <1>9 DEF GetTokens

LEMMA CacheTokensType ==
    ASSUME TypeInv, NEW sa \in Entries, CacheTokens(sa) PROVE TypeInv'
<1>0. TypeOK /\ CallOK  BY DEF TypeInv
<1> USE DEF Goto
<1>r. DeferredResponse \in Responses  BY ResponsesType DEF DeferredResponse, Errors
<1>a. CASE DeleteAndExit(sa)
  <2>1. serviceAccounts' \in [Refs -> Entries \cup {Nil}] /\ numTokens' \in Int
    <3>1. serviceAccounts' = [serviceAccounts EXCEPT ![reference[sa]] = Nil]
      BY <1>a DEF DeleteAndExit, Unregister
    <3>2. \A ref \in Refs : serviceAccounts'[ref] \in {serviceAccounts[ref], Nil}
      BY <1>0, <3>1 DEF TypeOK
    <3>3. serviceAccounts' = [ref \in Refs |-> serviceAccounts'[ref]]
      BY <1>0, <3>1 DEF TypeOK
    <3>4. serviceAccounts' \in [Refs -> Entries \cup {Nil}]
      BY <1>0, <3>2, <3>3 DEF TypeOK
    <3> QED  BY <1>0, <1>a, <3>4 DEF DeleteAndExit, Unregister, TypeOK
  <2>2. worker' \in [Entries -> WorkerStates] /\ created' \in [Entries -> Responses]
    BY <1>0, <1>a, <1>r DEF DeleteAndExit, TypeOK, WorkerStates
  <2> QED
    BY <1>0, <1>a, <2>1, <2>2 DEF DeleteAndExit, TypeInv, TypeOK, CallOK,
       entryVars, callVars, clusterVars
<1>b. CASE Abort(sa)
  BY <1>0, <1>b, <1>r DEF Abort, TypeInv, TypeOK, CallOK, WorkerStates,
     providerVars, entryVars, callVars, clusterVars
<1>c. ASSUME NEW point \in WorkerStates, Goto(sa, point),
             UNCHANGED <<providerVars, entryVars, batch, email, created, callVars, clusterVars>>
      PROVE TypeInv'
  BY <1>0, <1>c DEF TypeInv, TypeOK, CallOK, providerVars, entryVars, callVars, clusterVars
<1>d. ASSUME NEW resp \in Responses, CreateTokensReturn(sa, resp) PROVE TypeInv'
  BY <1>0, <1>d DEF CreateTokensReturn, TypeInv, TypeOK, CallOK, WorkerStates, Live,
     entryVars, callVars, clusterVars
<1>1. CASE CheckFirst(sa)
  BY <1>1, <1>a, <1>c DEF CheckFirst, WorkerStates, Live
<1>2. CASE Acquire(sa)
  BY <1>0, <1>2 DEF Acquire, TypeInv, TypeOK, CallOK, WorkerStates, Live,
     entryVars, callVars, clusterVars
<1>3. CASE AcquireAborted(sa)  BY <1>3, <1>b DEF AcquireAborted
<1>4. CASE GetServiceAccount(sa)
  <2>1. PICK found \in Lookup(reference[sa]) :
          \/ /\ found \in Emails
             /\ email' = [email EXCEPT ![sa] = found]
             /\ Goto(sa, "issue")
             /\ UNCHANGED <<providerVars, entryVars, batch, created, callVars, clusterVars>>
          \/ found = Invalid /\ CreateTokensReturn(sa, Failure("annotation"))
          \/ found = Nil /\ CreateTokensReturn(sa, Failure("retryable"))
    BY <1>4 DEF GetServiceAccount
  <2>2. Failure("annotation") \in Responses /\ Failure("retryable") \in Responses
    BY ResponsesType DEF Errors
  <2>3. CASE /\ found \in Emails
             /\ email' = [email EXCEPT ![sa] = found]
             /\ Goto(sa, "issue")
             /\ UNCHANGED <<providerVars, entryVars, batch, created, callVars, clusterVars>>
    BY <1>0, <2>3 DEF TypeInv, TypeOK, CallOK, WorkerStates, Live,
       providerVars, entryVars, callVars, clusterVars
  <2> QED  BY <1>d, <2>1, <2>2, <2>3
<1>5. CASE IssueTokens(sa)
  <2>1. Success(email[sa]) \in Responses  BY <1>0, ResponsesType DEF TypeOK
  <2> QED  BY <1>5, <1>d, <2>1 DEF IssueTokens
<1>6. CASE IssueTokensFails(sa)
  BY <1>6, <1>d, ResponsesType DEF IssueTokensFails, Errors
<1>7. CASE CheckSecond(sa)
  BY <1>7, <1>a, <1>c DEF CheckSecond, WorkerStates, Live
<1>8. CASE DrainRequest(sa)
  BY <1>0, <1>8 DEF DrainRequest, TypeInv, TypeOK, CallOK,
     providerVars, callVars, clusterVars
<1>9. CASE SendResponse(sa)
  <2>1. reply' \in [Requests -> Responses \cup {Nil}]
    BY <1>0, <1>9 DEF SendResponse, TypeOK
  <2>2. batch' \in [Entries -> SUBSET Requests]
    BY <1>0, <1>9 DEF SendResponse, ForgetBatch, TypeOK
  <2>3. worker' \in [Entries -> WorkerStates]
    BY <1>0, <1>9 DEF SendResponse, TypeOK, WorkerStates, Live
  <2> QED
    BY <1>0, <1>9, <2>1, <2>2, <2>3 DEF SendResponse, TypeInv, TypeOK, CallOK,
       providerVars, entryVars, clusterVars
<1>10. CASE StoreTokens(sa)
  <2>1. created[sa].tokens \in Emails \cup {Nil}  BY <1>0 DEF TypeOK, Responses
  <2>2. Failure("none") \in Responses  BY ResponsesType DEF Errors
  <2>3. worker' \in [Entries -> WorkerStates]
    BY <1>0, <1>10 DEF StoreTokens, TypeOK, WorkerStates, Live
  <2> QED
    BY <1>0, <1>10, <2>1, <2>2, <2>3 DEF StoreTokens, TypeInv, TypeOK, CallOK,
       providerVars, callVars, clusterVars
<1>11. CASE TimerFires(sa)  BY <1>11, <1>c DEF TimerFires, WorkerStates, Live
<1>12. CASE WakeByRequest(sa)
  BY <1>0, <1>12 DEF WakeByRequest, TypeInv, TypeOK, CallOK, WorkerStates, Live,
     providerVars, callVars, clusterVars
<1>13. CASE SleepAborted(sa)  BY <1>13, <1>b DEF SleepAborted
<1> QED
  BY <1>1, <1>2, <1>3, <1>4, <1>5, <1>6, <1>7, <1>8, <1>9, <1>10, <1>11, <1>12, <1>13
  DEF CacheTokens

LEMMA InformersType ==
    ASSUME TypeInv, Informers PROVE TypeInv'
<1>0. TypeOK /\ CallOK  BY DEF TypeInv
<1>1. ASSUME NEW ref \in Refs, AddPodServiceAccount(ref) PROVE TypeInv'
  <2>1. pods' \in [Refs -> 0..MaxPods]
    BY <1>0, <1>1, BoundsAssumption DEF AddPodServiceAccount, TypeOK
  <2>2. UNCHANGED <<callVars, accounts, notifications, everDeleted>>
    BY <1>1 DEF AddPodServiceAccount
  <2>3. CASE /\ Registered(ref)
             /\ podCount' = [podCount EXCEPT ![serviceAccounts[ref]] = @ + 1]
             /\ UNCHANGED <<providerVars, reference, deleted, tokens, externalRequests, expired,
                             workerVars>>
    <3>1. serviceAccounts[ref] \in Entries  BY <1>0, <2>3 DEF TypeOK, Registered
    <3>2. podCount' \in [Entries -> Nat]  BY <1>0, <2>3, <3>1 DEF TypeOK
    <3> QED
      BY <1>0, <2>1, <2>2, <2>3, <3>2 DEF TypeInv, TypeOK, CallOK, callVars, providerVars,
         workerVars
  <2>4. ASSUME NEW sa \in Entries, AddServiceAccount(ref, sa, 1) PROVE TypeInv'
    BY <1>0, <2>1, <2>2, <2>4, AddServiceAccountType DEF TypeInv, TypeOK, CallOK, callVars
  <2> QED  BY <1>1, <2>3, <2>4 DEF AddPodServiceAccount
<1>2. ASSUME NEW ref \in Refs, DeletePodServiceAccount(ref) PROVE TypeInv'
  <2>1. pods' \in [Refs -> 0..MaxPods]
    BY <1>0, <1>2, BoundsAssumption DEF DeletePodServiceAccount, TypeOK
  <2>2. podCount' \in [Entries -> Nat]
    <3>1. CASE Registered(ref) /\ podCount[serviceAccounts[ref]] > 0
      <4>1. serviceAccounts[ref] \in Entries  BY <1>0, <3>1 DEF TypeOK, Registered
      <4> QED
        BY <1>0, <1>2, <3>1, <4>1 DEF DeletePodServiceAccount, ForgetPod, TypeOK
    <3>2. CASE ~(Registered(ref) /\ podCount[serviceAccounts[ref]] > 0)
      BY <1>0, <1>2, <3>2 DEF DeletePodServiceAccount, ForgetPod, TypeOK
    <3> QED  BY <3>1, <3>2
  <2> QED
    BY <1>0, <1>2, <2>1, <2>2 DEF DeletePodServiceAccount, TypeInv, TypeOK, CallOK,
       providerVars, workerVars, callVars
<1>3. ASSUME NEW ref \in Refs, NEW value \in Emails \cup {Invalid, Nil},
             AccountChange(ref, value)
      PROVE TypeInv'
  <2>1. [ref |-> ref, kind |-> IF value = Nil THEN "delete" ELSE "update"] \in Notification
    BY DEF Notification
  <2>2. notifications' \in Seq(Notification)  BY <1>0, <1>3, <2>1 DEF AccountChange, TypeOK
  <2> QED
    BY <1>0, <1>3, <2>2 DEF AccountChange, TypeInv, TypeOK, CallOK,
       providerVars, entryVars, workerVars, callVars
<1>4. ASSUME NEW ref \in Refs, Resync(ref) PROVE TypeInv'
  <2>1. [ref |-> ref, kind |-> "update"] \in Notification  BY DEF Notification
  <2>2. notifications' \in Seq(Notification)  BY <1>0, <1>4, <2>1 DEF Resync, TypeOK
  <2> QED
    BY <1>0, <1>4, <2>2 DEF Resync, TypeInv, TypeOK, CallOK,
       providerVars, entryVars, workerVars, callVars
<1>5. CASE Deliver
  <2> DEFINE n == Head(notifications)
  <2>1. n \in Notification  BY <1>0, <1>5 DEF Deliver, TypeOK
  <2>2. n.ref \in Refs /\ (n.kind = "delete") \in BOOLEAN  BY <2>1 DEF Notification
  <2>3. notifications' \in Seq(Notification)  BY <1>0, <1>5 DEF Deliver, TypeOK
  <2>4. everDeleted' \subseteq Refs  BY <1>0, <1>5, <2>2 DEF Deliver, TypeOK
  <2>5. deleted' \in [Entries -> BOOLEAN]
    BY <1>0, <1>5, <2>2 DEF Deliver, TypeOK
  <2>6. externalRequests' \in [Entries -> Requests \cup {Nudge, Empty}]
    BY <1>0, <1>5, <2>2 DEF Deliver, Wake, TypeOK
  <2> QED
    BY <1>0, <1>5, <2>3, <2>4, <2>5, <2>6 DEF Deliver, TypeInv, TypeOK, CallOK,
       providerVars, workerVars, callVars
<1> QED  BY <1>1, <1>2, <1>3, <1>4, <1>5 DEF Informers

LEMMA NextType == ASSUME TypeInv, [Next]_vars PROVE TypeInv'
<1>0. TypeOK /\ CallOK  BY DEF TypeInv
<1>1. ASSUME NEW sa \in Entries, TokensExpire(sa) PROVE TypeInv'
  BY <1>0, <1>1 DEF TokensExpire, TypeInv, TypeOK, CallOK,
     providerVars, workerVars, callVars, clusterVars
<1>2. CASE CloseCancel
  BY <1>0, <1>2 DEF CloseCancel, TypeInv, TypeOK, CallOK,
     entryVars, workerVars, callVars, clusterVars
<1>3. CASE CloseReturn
  BY <1>0, <1>3 DEF CloseReturn, TypeInv, TypeOK, CallOK,
     entryVars, workerVars, callVars, clusterVars
<1>4. CASE UNCHANGED vars
  BY <1>0, <1>4 DEF vars, TypeInv, TypeOK, CallOK,
     providerVars, entryVars, workerVars, callVars, clusterVars
<1> QED
  BY <1>1, <1>2, <1>3, <1>4, GetTokensType, CacheTokensType, InformersType DEF Next

\* Every variable keeps its type, in every instance: no step of a worker, a
\* client, an informer or Close stores a value of the wrong kind, drives a
\* podCount below zero or dereferences a struct that is not there.
THEOREM TypeCorrect == Spec => []TypeOK
<1>1. Init => TypeInv  BY InitType
<1>2. TypeInv /\ [Next]_vars => TypeInv'  BY NextType
<1>3. TypeInv => TypeOK  BY DEF TypeInv
<1> QED  BY <1>1, <1>2, <1>3, PTL DEF Spec

-----------------------------------------------------------------------------
(***************************************************************************)
(* Every step, seen from the map, the workers, the gauge and the           *)
(* semaphore, is one of the following.                                     *)
(***************************************************************************)
Creating == {"get", "issue"}

Adds(ref, sa) ==
    /\ Free(sa) /\ ~Registered(ref)
    /\ serviceAccounts' = [serviceAccounts EXCEPT ![ref] = sa]
    /\ reference' = [reference EXCEPT ![sa] = ref]
    /\ worker' = [worker EXCEPT ![sa] = "check1"]
    /\ numTokens' = numTokens + 1
    /\ UNCHANGED <<semaphore, closing>>

Removes(sa) ==
    /\ worker[sa] \in {"check1", "check2"}
    /\ serviceAccounts' = [serviceAccounts EXCEPT ![reference[sa]] = Nil]
    /\ worker' = [worker EXCEPT ![sa] = "exit"]
    /\ numTokens' = numTokens - 1
    /\ UNCHANGED <<reference, semaphore, closing>>

\* A worker goes on within its loop, taking and giving back the semaphore.
Loops(sa, point) ==
    /\ worker[sa] \in Live /\ point \in Live
    /\ worker' = [worker EXCEPT ![sa] = point]
    /\ \/ /\ worker[sa] \in Creating <=> point \in Creating
          /\ semaphore' = semaphore
       \/ /\ worker[sa] \notin Creating /\ point \in Creating
          /\ semaphore < Concurrency /\ semaphore' = semaphore + 1
       \/ /\ worker[sa] \in Creating /\ point \notin Creating
          /\ semaphore' = semaphore - 1
    /\ UNCHANGED <<serviceAccounts, reference, numTokens, closing>>

\* A worker leaves its loop because of Close, or ends.
Leaves(sa) ==
    /\ \/ /\ worker[sa] \in Live \ Creating /\ ctxDone
          /\ worker' = [worker EXCEPT ![sa] = "exit"]
       \/ /\ worker[sa] = "exit"
          /\ worker' = [worker EXCEPT ![sa] = "done"]
    /\ UNCHANGED <<serviceAccounts, reference, numTokens, semaphore, closing>>

Stands ==
    /\ UNCHANGED <<serviceAccounts, reference, worker, numTokens, semaphore>>
    /\ closing' = closing \/ closing' # "open"

Step ==
    \/ \E ref \in Refs, sa \in Entries : Adds(ref, sa)
    \/ \E sa \in Entries : Removes(sa) \/ Leaves(sa)
    \/ \E sa \in Entries, point \in Live : Loops(sa, point)
    \/ Stands

LEMMA CacheTokensStep ==
    ASSUME TypeInv, NEW sa \in Entries, CacheTokens(sa) PROVE Step
<1> USE DEF Goto
<1>0. worker \in [Entries -> WorkerStates]  BY DEF TypeInv, TypeOK
<1>1. CASE CheckFirst(sa)
  <2>1. CASE DeleteAndExit(sa)
    <3>1. Removes(sa)
      BY <1>1, <2>1 DEF CheckFirst, DeleteAndExit, Unregister, Removes, entryVars
    <3> QED  BY <3>1 DEF Step
  <2>2. CASE ~DeleteAndExit(sa)
    <3>1. Loops(sa, "acquire")
      BY <1>1, <2>2 DEF CheckFirst, Loops, Live, Creating, providerVars, entryVars
    <3> QED  BY <3>1 DEF Step, Live
  <2> QED  BY <2>1, <2>2
<1>2. CASE Acquire(sa)
  <2>1. Loops(sa, "get")
    BY <1>2 DEF Acquire, SemaphoreAccepts, Loops, Live, Creating, entryVars
  <2> QED  BY <2>1 DEF Step, Live
<1>3. CASE AcquireAborted(sa) \/ SleepAborted(sa)
  <2>1. Leaves(sa)
    BY <1>3 DEF AcquireAborted, SleepAborted, Abort, Leaves, Live, Creating, providerVars, entryVars
  <2> QED  BY <2>1 DEF Step
<1>4. ASSUME NEW resp, worker[sa] \in Creating, CreateTokensReturn(sa, resp) PROVE Step
  <2>1. Loops(sa, "check2")
    BY <1>4 DEF CreateTokensReturn, Loops, Live, Creating, entryVars
  <2> QED  BY <2>1 DEF Step, Live
<1>5. CASE GetServiceAccount(sa)
  <2>1. CASE Goto(sa, "issue") /\ UNCHANGED <<providerVars, entryVars>>
    <3>1. Loops(sa, "issue")
      BY <1>5, <2>1 DEF GetServiceAccount, Loops, Live, Creating, providerVars, entryVars
    <3> QED  BY <3>1 DEF Step, Live
  <2>2. CASE ~(Goto(sa, "issue") /\ UNCHANGED <<providerVars, entryVars>>)
    <3>1. worker[sa] \in Creating  BY <1>5 DEF GetServiceAccount, Creating
    <3>2. \E resp : CreateTokensReturn(sa, resp)  BY <1>5, <2>2 DEF GetServiceAccount
    <3> QED  BY <1>4, <3>1, <3>2
  <2> QED  BY <2>1, <2>2
<1>6. CASE IssueTokens(sa) \/ IssueTokensFails(sa)
  BY <1>4, <1>6 DEF IssueTokens, IssueTokensFails, Creating
<1>7. CASE CheckSecond(sa)
  <2>1. CASE DeleteAndExit(sa)
    <3>1. Removes(sa)
      BY <1>7, <2>1 DEF CheckSecond, DeleteAndExit, Unregister, Removes, entryVars
    <3> QED  BY <3>1 DEF Step
  <2>2. CASE ~DeleteAndExit(sa)
    <3>1. PICK point \in {"respond", "store"} : Loops(sa, point)
      BY <1>7, <2>2 DEF CheckSecond, Loops, Live, Creating, providerVars, entryVars
    <3> QED  BY <3>1 DEF Step, Live
  <2> QED  BY <2>1, <2>2
<1>8. CASE DrainRequest(sa)
  <2>1. Stands  BY <1>8 DEF DrainRequest, Stands, providerVars
  <2> QED  BY <2>1 DEF Step
<1>9. CASE SendResponse(sa)
  <2>1. CASE worker[sa] = "exit"
    <3>1. Leaves(sa)  BY <1>9, <2>1 DEF SendResponse, Leaves, providerVars, entryVars
    <3> QED  BY <3>1 DEF Step
  <2>2. CASE worker[sa] = "respond"
    <3>1. Loops(sa, "store")
      BY <1>9, <2>2 DEF SendResponse, Loops, Live, Creating, providerVars, entryVars
    <3> QED  BY <3>1 DEF Step, Live
  <2> QED  BY <1>9, <2>1, <2>2 DEF SendResponse
<1>10. CASE StoreTokens(sa)
  <2>1. PICK point \in {"sleep", "parked"} : Loops(sa, point)
    BY <1>10 DEF StoreTokens, Loops, Live, Creating, providerVars
  <2> QED  BY <2>1 DEF Step, Live
<1>11. CASE TimerFires(sa) \/ WakeByRequest(sa)
  <2>1. Loops(sa, "check1")
    BY <1>11 DEF TimerFires, WakeByRequest, Loops, Live, Creating, providerVars, entryVars
  <2> QED  BY <2>1 DEF Step, Live
<1> QED
  BY <1>1, <1>2, <1>3, <1>5, <1>6, <1>7, <1>8, <1>9, <1>10, <1>11 DEF CacheTokens

LEMMA NextStep == ASSUME TypeInv, [Next]_vars PROVE Step
<1>1. ASSUME NEW ref \in Refs, NEW sa \in Entries, NEW count,
             ~Registered(ref), AddServiceAccount(ref, sa, count)
      PROVE Step
  BY <1>1 DEF AddServiceAccount, Adds, Step
<1>2. ASSUME NEW req \in Requests, GetTokens(req) PROVE Step
  <2>1. ASSUME NEW ref \in Refs, NEW sa \in Entries, GetTokensAdd(req, ref, sa) PROVE Step
    BY <1>1, <2>1 DEF GetTokensAdd
  <2>2. CASE UNCHANGED providerVars /\ UNCHANGED <<reference, worker>>
    BY <2>2 DEF Stands, Step, providerVars
  <2> QED
    BY <1>2, <2>1, <2>2 DEF GetTokens, GetTokensFound, GetTokensDeleted, GetTokensRead,
       RequestDispatch, RequestAbandon, RequestTerminated, RequestReceive, entryVars, workerVars
<1>3. CASE Informers
  <2>1. ASSUME NEW ref \in Refs, AddPodServiceAccount(ref) PROVE Step
    <3>1. CASE ~Registered(ref)
      BY <1>1, <2>1, <3>1 DEF AddPodServiceAccount
    <3>2. CASE Registered(ref)
      BY <2>1, <3>2 DEF AddPodServiceAccount, Stands, Step, providerVars, workerVars
    <3> QED  BY <3>1, <3>2
  <2>2. CASE UNCHANGED providerVars /\ UNCHANGED <<reference, worker>>
    BY <2>2 DEF Stands, Step, providerVars
  <2> QED
    BY <1>3, <2>1, <2>2 DEF Informers, DeletePodServiceAccount, AccountChange, Resync, Deliver,
       entryVars, workerVars
<1>4. ASSUME NEW sa \in Entries, TokensExpire(sa) PROVE Step
  BY <1>4 DEF TokensExpire, Stands, Step, providerVars, workerVars
<1>5. CASE CloseCancel \/ CloseReturn
  BY <1>5 DEF CloseCancel, CloseReturn, Stands, Step, entryVars, workerVars
<1>6. CASE UNCHANGED vars
  BY <1>6 DEF vars, Stands, Step, providerVars, entryVars, workerVars
<1> QED  BY <1>2, <1>3, <1>4, <1>5, <1>6, CacheTokensStep DEF Next

-----------------------------------------------------------------------------
LEMMA RegistryStep ==
    ASSUME TypeInv, RegistryCoherent, Step PROVE RegistryCoherent'
<1>0. /\ serviceAccounts \in [Refs -> Entries \cup {Nil}]
      /\ reference \in [Entries -> Refs \cup {Nil}]
      /\ worker \in [Entries -> WorkerStates]
  BY DEF TypeInv, TypeOK
<1>1. ASSUME NEW ref \in Refs, NEW sa \in Entries, Adds(ref, sa) PROVE RegistryCoherent'
  BY <1>0, <1>1, SentinelAssumption
  DEF Adds, Free, Registered, RegistryCoherent, ctxDone, Live, WorkerStates
<1>2. ASSUME NEW sa \in Entries, Removes(sa) PROVE RegistryCoherent'
  <2>1. reference[sa] \in Refs /\ serviceAccounts[reference[sa]] = sa
    BY <1>2 DEF Removes, RegistryCoherent, Live
  <2> QED
    BY <1>0, <1>2, <2>1, SentinelAssumption
    DEF Removes, Registered, RegistryCoherent, ctxDone, Live, WorkerStates
<1>3. ASSUME NEW sa \in Entries, Leaves(sa) PROVE RegistryCoherent'
  BY <1>0, <1>3 DEF Leaves, Registered, RegistryCoherent, ctxDone, Live, WorkerStates
<1>4. ASSUME NEW sa \in Entries, NEW point \in Live, Loops(sa, point) PROVE RegistryCoherent'
  <2>1. \A e \in Entries : worker'[e] \in Live <=> worker[e] \in Live
    BY <1>0, <1>4 DEF Loops
  <2>2. UNCHANGED <<serviceAccounts, reference, closing>>  BY <1>4 DEF Loops
  <2> QED
    BY <1>0, <2>1, <2>2 DEF Registered, RegistryCoherent, ctxDone
<1>5. CASE Stands
  BY <1>0, <1>5 DEF Stands, Registered, RegistryCoherent, ctxDone
<1> QED  BY <1>1, <1>2, <1>3, <1>4, <1>5 DEF Step

-----------------------------------------------------------------------------
RegisteredRefs == {ref \in Refs : Registered(ref)}

LEMMA GaugeStep ==
    ASSUME TypeInv, RegistryCoherent, GaugeExact, Step PROVE GaugeExact'
<1>0. /\ serviceAccounts \in [Refs -> Entries \cup {Nil}]
      /\ numTokens = Cardinality(RegisteredRefs)
  BY DEF TypeInv, TypeOK, GaugeExact, RegisteredRefs
<1>f. IsFiniteSet(RegisteredRefs) /\ Cardinality(RegisteredRefs) \in Nat
  <2>1. RegisteredRefs \subseteq Refs  BY DEF RegisteredRefs
  <2> QED  BY <2>1, FiniteAssumption, FS_Subset, FS_CardinalityType
<1>1. ASSUME NEW ref \in Refs, NEW sa \in Entries, Adds(ref, sa) PROVE GaugeExact'
  <2>1. RegisteredRefs' = RegisteredRefs \cup {ref}
    BY <1>0, <1>1, SentinelAssumption DEF Adds, RegisteredRefs, Registered
  <2>2. ref \notin RegisteredRefs  BY <1>1 DEF Adds, RegisteredRefs
  <2>3. Cardinality(RegisteredRefs') = Cardinality(RegisteredRefs) + 1
    BY <1>f, <2>1, <2>2, FS_AddElement
  <2>4. numTokens' = numTokens + 1  BY <1>1 DEF Adds
  <2> QED  BY <1>0, <2>3, <2>4 DEF GaugeExact, RegisteredRefs
<1>2. ASSUME NEW sa \in Entries, Removes(sa) PROVE GaugeExact'
  <2>1. reference[sa] \in Refs /\ serviceAccounts[reference[sa]] = sa
    BY <1>2 DEF Removes, RegistryCoherent, Live
  <2>2. RegisteredRefs' = RegisteredRefs \ {reference[sa]}
    BY <1>0, <1>2, <2>1, SentinelAssumption DEF Removes, RegisteredRefs, Registered
  <2>3. reference[sa] \in RegisteredRefs
    BY <2>1, SentinelAssumption DEF RegisteredRefs, Registered
  <2>4. Cardinality(RegisteredRefs') = Cardinality(RegisteredRefs) - 1
    BY <1>f, <2>2, <2>3, FS_RemoveElement
  <2>5. numTokens' = numTokens - 1  BY <1>2 DEF Removes
  <2> QED  BY <1>0, <2>4, <2>5 DEF GaugeExact, RegisteredRefs
<1>3. CASE UNCHANGED <<serviceAccounts, numTokens>>
  <2>1. RegisteredRefs' = RegisteredRefs  BY <1>3 DEF RegisteredRefs, Registered
  <2> QED  BY <1>0, <1>3, <2>1 DEF GaugeExact, RegisteredRefs
<1> QED  BY <1>1, <1>2, <1>3 DEF Step, Leaves, Loops, Stands

\* Each worker in its loop owns the map entry of its reference, and each struct
\* in the map has such a worker until Close: whatever the interleaving of
\* getTokens, the informers and the workers, a worker's delete by reference
\* never removes the struct of another one.  And the gauge of cached accounts is
\* exact at all times: the increment of addServiceAccount and the decrement of
\* checkIfMustDeleteAndDelete always pair up, because a worker can only remove an
\* account that is still registered.
THEOREM RegistryAlwaysExact == Spec => []RegistryExact
<1>1. Init => TypeInv /\ RegistryCoherent /\ GaugeExact
  <2> SUFFICES ASSUME Init PROVE TypeInv /\ RegistryCoherent /\ GaugeExact  OBVIOUS
  <2>1. RegisteredRefs = {}  BY DEF Init, RegisteredRefs, Registered
  <2>2. GaugeExact  BY <2>1, FS_EmptySet DEF Init, GaugeExact, RegisteredRefs
  <2> QED
    BY <2>2, InitType, SentinelAssumption DEF Init, RegistryCoherent, Registered, Live
<1>2. TypeInv /\ RegistryCoherent /\ GaugeExact /\ [Next]_vars
        => (TypeInv /\ RegistryCoherent /\ GaugeExact)'
  BY NextType, NextStep, RegistryStep, GaugeStep
<1>3. RegistryCoherent /\ GaugeExact => RegistryExact  BY DEF RegistryExact
<1> QED  BY <1>1, <1>2, <1>3, PTL DEF Spec

-----------------------------------------------------------------------------
Creators == {sa \in Entries : worker[sa] \in {"get", "issue"}}

LEMMA SemaphoreStep ==
    ASSUME TypeInv, SemaphoreExact, Step PROVE SemaphoreExact'
<1>0. /\ worker \in [Entries -> WorkerStates]
      /\ semaphore = Cardinality(Creators)
      /\ semaphore <= Concurrency
  BY DEF TypeInv, TypeOK, SemaphoreExact, Creators
<1>f. IsFiniteSet(Creators) /\ Cardinality(Creators) \in Nat
  <2>1. Creators \subseteq Entries  BY DEF Creators
  <2> QED  BY <2>1, FiniteAssumption, FS_Subset, FS_CardinalityType
<1>s. ASSUME Creators' = Creators, semaphore' = semaphore PROVE SemaphoreExact'
  BY <1>0, <1>s DEF SemaphoreExact, Creators
<1>1. ASSUME NEW ref \in Refs, NEW sa \in Entries, Adds(ref, sa) PROVE SemaphoreExact'
  BY <1>0, <1>1, <1>s DEF Adds, Free, Creators
<1>2. ASSUME NEW sa \in Entries, Removes(sa) \/ Leaves(sa) PROVE SemaphoreExact'
  <2>1. sa \notin Creators /\ sa \notin Creators'
    BY <1>0, <1>2 DEF Removes, Leaves, Creators, Creating
  <2>2. \A e \in Entries \ {sa} : worker'[e] = worker[e]
    BY <1>0, <1>2 DEF Removes, Leaves
  <2>3. Creators' = Creators  BY <2>1, <2>2 DEF Creators
  <2> QED  BY <1>2, <1>s, <2>3 DEF Removes, Leaves
<1>3. ASSUME NEW sa \in Entries, NEW point \in Live, Loops(sa, point) PROVE SemaphoreExact'
  <2>1. CASE worker[sa] \in Creating <=> point \in Creating
    <3>1. Creators' = Creators  BY <1>0, <1>3, <2>1 DEF Loops, Creators, Creating
    <3> QED  BY <1>3, <1>s, <2>1, <3>1 DEF Loops
  <2>2. CASE worker[sa] \notin Creating /\ point \in Creating
    <3>1. Creators' = Creators \cup {sa} /\ sa \notin Creators
      BY <1>0, <1>3, <2>2 DEF Loops, Creators, Creating
    <3>2. Cardinality(Creators') = Cardinality(Creators) + 1  BY <1>f, <3>1, FS_AddElement
    <3>3. semaphore < Concurrency /\ semaphore' = semaphore + 1  BY <1>3, <2>2 DEF Loops
    <3> QED
      BY <1>0, <1>f, <3>2, <3>3, ConcurrencyAssumption DEF SemaphoreExact, Creators
  <2>3. CASE worker[sa] \in Creating /\ point \notin Creating
    <3>1. Creators' = Creators \ {sa} /\ sa \in Creators
      BY <1>0, <1>3, <2>3 DEF Loops, Creators, Creating
    <3>2. Cardinality(Creators') = Cardinality(Creators) - 1  BY <1>f, <3>1, FS_RemoveElement
    <3>3. semaphore' = semaphore - 1  BY <1>3, <2>3 DEF Loops
    <3> QED
      BY <1>0, <1>f, <3>2, <3>3, ConcurrencyAssumption DEF SemaphoreExact, Creators
  <2> QED  BY <2>1, <2>2, <2>3
<1>4. CASE Stands  BY <1>4, <1>s DEF Stands, Creators
<1> QED  BY <1>1, <1>2, <1>3, <1>4 DEF Step

\* The semaphore counts exactly the workers inside createTokens and never
\* exceeds its capacity: every path through createTokens, failed or not,
\* releases what Acquire took.
THEOREM SemaphoreAlwaysExact == Spec => []SemaphoreExact
<1>1. Init => TypeInv /\ SemaphoreExact
  <2> SUFFICES ASSUME Init PROVE TypeInv /\ SemaphoreExact  OBVIOUS
  <2>1. Creators = {}  BY DEF Init, Creators
  <2>2. Cardinality(Creators) = 0 /\ semaphore = 0  BY <2>1, FS_EmptySet DEF Init
  <2>3. SemaphoreExact  BY <2>2, ConcurrencyAssumption DEF SemaphoreExact, Creators
  <2> QED  BY <2>3, InitType
<1>2. TypeInv /\ SemaphoreExact /\ [Next]_vars => (TypeInv /\ SemaphoreExact)'
  BY NextType, NextStep, SemaphoreStep
<1> QED  BY <1>1, <1>2, PTL DEF Spec
=============================================================================
