----------------------------- MODULE TokenCache -----------------------------
(***************************************************************************)
(* The proactive cache of ServiceAccount tokens,                           *)
(* internal/serviceaccounttokens/cache.                                    *)
(*                                                                         *)
(* One goroutine per cached ServiceAccount (cacheTokens) keeps the tokens  *)
(* of that account fresh.  Three other kinds of goroutine share state with *)
(* it: HTTP handlers that call getTokens, the pod informer that counts the *)
(* pods of each account, and the ServiceAccount informer that reports      *)
(* changes of the account itself.  Close cancels the provider's context    *)
(* and waits for the workers.                                              *)
(*                                                                         *)
(* A step of a goroutine is what it does between two points where another  *)
(* goroutine can interfere: a critical section of serviceAccountsMutex, a  *)
(* select, a channel operation, a call to a remote service, or the         *)
(* unsynchronised access to sa.tokens.  That access is a data race on one  *)
(* pointer; the worker does nothing visible between the store (line 298)   *)
(* and its next synchronising operation, so a read that misses the store   *)
(* is the same behaviour as a store that happens later.                    *)
(*                                                                         *)
(* Time is abstracted: tokens may expire at any moment, and a timer that   *)
(* is armed may fire at any moment.  The arithmetic of expiration is in    *)
(* module DerivedTokenCache.                                               *)
(***************************************************************************)
EXTENDS Integers, Sequences, FiniteSets

CONSTANTS
    Refs,         \* references (namespace/name) of Kubernetes ServiceAccounts
    Entries,      \* heap identities of serviceAccount structs
    Requests,     \* calls of getTokens; also the identity of their reply channel
    Emails,       \* valid values of the GKE annotation (its absence included)
    Invalid,      \* a value of the annotation that is not an email
    Nil,          \* Go's nil, an absent map entry, an absent account
    Nudge,        \* the nil request with which an informer wakes a worker
    Empty,        \* the slot of an empty externalRequests channel
    Concurrency,  \* ProviderOptions.Concurrency, capacity of the semaphore
    MaxPods,      \* bound on the pods of one account on the node
    MaxLag        \* bound on the notifications the informer has not delivered

ASSUME SentinelAssumption ==
    /\ Nil \notin Refs \cup Entries \cup Requests \cup Emails \cup {Invalid, Nudge, Empty}
    /\ Nudge \notin Requests /\ Empty \notin Requests /\ Nudge # Empty
    /\ Invalid \notin Emails
ASSUME FiniteAssumption == IsFiniteSet(Refs) /\ IsFiniteSet(Entries)
\* With capacity 0 the semaphore would be an unbuffered channel nobody receives
\* from before sending, and no token would ever be created.
ASSUME ConcurrencyAssumption == Concurrency \in Nat \ {0}
ASSUME BoundsAssumption == MaxPods \in Nat /\ MaxLag \in Nat

VARIABLES
    \* Provider
    serviceAccounts,  \* the map p.serviceAccounts: the entry registered for each ref
    numTokens,        \* the gauge of cached service accounts
    semaphore,        \* number of elements in the channel p.semaphore
    closing,          \* Close: "open", then "waiting" for the workers, then "returned"
    \* fields of each serviceAccount struct
    reference, podCount, deleted, tokens, externalRequests,
    \* whether the tokens in the field of the same entry have expired
    expired,
    \* the goroutine of each struct: its control point, the requests it has
    \* taken off the channel, the email it read, and the result of createTokens
    worker, batch, email, created,
    \* each call of getTokens: its control point, the struct it found,
    \* the reply channel (Nil until answered) and what the call returns
    call, callEntry, reply, returned,
    \* the cluster as the informers see it: pods of each account on this node,
    \* the account in the informer's store, handler calls not yet made
    pods, accounts, notifications,
    \* history: the accounts whose deletion has been delivered
    everDeleted

providerVars == <<serviceAccounts, numTokens, semaphore, closing>>
entryVars    == <<reference, podCount, deleted, tokens, externalRequests, expired>>
workerVars   == <<worker, batch, email, created>>
callVars     == <<call, callEntry, reply, returned>>
clusterVars  == <<pods, accounts, notifications, everDeleted>>
vars == <<providerVars, entryVars, workerVars, callVars, clusterVars>>

-----------------------------------------------------------------------------
(* Values *)

\* Errors that reach a caller or steer the worker.
Errors == {"none", "annotation", "retryable", "deleted", "context"}

\* *tokensAndError.  Tokens are told apart by the email they were issued for.
Responses == [tokens : Emails \cup {Nil}, err : Errors]
ASSUME NilAssumption == Nil \notin Responses
Success(e) == [tokens |-> e, err |-> "none"]
Failure(err) == [tokens |-> Nil, err |-> err]

\* The deferred sendResponse of line 237: Go evaluates the arguments of a
\* deferred call when the defer statement runs, and retErr is still nil then.
DeferredResponse == Failure("none")

\* Control points of a worker; "done" is also an entry that does not exist yet.
\* "parked" is the sleep of ten years after an invalid annotation.
Live == {"check1", "acquire", "get", "issue", "check2", "respond", "store",
         "sleep", "parked"}
WorkerStates == Live \cup {"exit", "done"}
CallStates == {"idle", "read", "dispatch", "wait", "done"}

ctxDone == closing # "open"

\* A struct can be allocated where nothing refers to one: no goroutine, no map
\* entry, no call.
Free(sa) == /\ worker[sa] = "done"
            /\ \A ref \in Refs : serviceAccounts[ref] # sa
            /\ \A req \in Requests : callEntry[req] # sa

Registered(ref) == serviceAccounts[ref] # Nil

Notification == [ref : Refs, kind : {"update", "delete"}]

Init ==
    /\ serviceAccounts = [ref \in Refs |-> Nil]
    /\ numTokens = 0
    /\ semaphore = 0
    /\ closing = "open"
    /\ reference = [sa \in Entries |-> Nil]
    /\ podCount = [sa \in Entries |-> 0]
    /\ deleted = [sa \in Entries |-> FALSE]
    /\ tokens = [sa \in Entries |-> Nil]
    /\ externalRequests = [sa \in Entries |-> Empty]
    /\ expired = [sa \in Entries |-> FALSE]
    /\ worker = [sa \in Entries |-> "done"]
    /\ batch = [sa \in Entries |-> {}]
    /\ email = [sa \in Entries |-> Nil]
    /\ created = [sa \in Entries |-> Failure("none")]
    /\ call = [req \in Requests |-> "idle"]
    /\ callEntry = [req \in Requests |-> Nil]
    /\ reply = [req \in Requests |-> Nil]
    /\ returned = [req \in Requests |-> Nil]
    /\ pods = [ref \in Refs |-> 0]
    /\ accounts \in [Refs -> Emails \cup {Invalid, Nil}]
    /\ notifications = <<>>
    /\ everDeleted = {}

-----------------------------------------------------------------------------
(* The map of service accounts *)

\* addServiceAccount: a new struct, registered under ref, with its goroutine.
AddServiceAccount(ref, sa, count) ==
    /\ Free(sa)
    /\ reference' = [reference EXCEPT ![sa] = ref]
    /\ podCount' = [podCount EXCEPT ![sa] = count]
    /\ deleted' = [deleted EXCEPT ![sa] = FALSE]
    /\ tokens' = [tokens EXCEPT ![sa] = Nil]
    /\ externalRequests' = [externalRequests EXCEPT ![sa] = Empty]
    /\ expired' = [expired EXCEPT ![sa] = FALSE]
    /\ serviceAccounts' = [serviceAccounts EXCEPT ![ref] = sa]
    /\ numTokens' = numTokens + 1
    /\ worker' = [worker EXCEPT ![sa] = "check1"]
    /\ UNCHANGED <<semaphore, closing, batch, email, created>>

\* checkIfMustDeleteAndDelete's condition.
MustDeleteEarly(sa) == podCount[sa] <= 1 \/ deleted[sa]
MustDeleteNever(sa) == deleted[sa]
MustDelete(sa) == podCount[sa] = 0 \/ deleted[sa]

\* checkIfMustDeleteAndDelete's effect on the map and the gauge.
UnregisterKeepingEntry(sa) ==
    /\ serviceAccounts' = serviceAccounts
    /\ numTokens' = numTokens - 1
Unregister(sa) ==
    /\ serviceAccounts' = [serviceAccounts EXCEPT ![reference[sa]] = Nil]
    /\ numTokens' = numTokens - 1

\* checkIfMustDeleteAndDelete, followed by the return of cacheTokens.
DeleteAndExit(sa) ==
    /\ MustDelete(sa)
    /\ Unregister(sa)
    /\ worker' = [worker EXCEPT ![sa] = "exit"]
    /\ created' = [created EXCEPT ![sa] = DeferredResponse]
    /\ UNCHANGED <<semaphore, closing, entryVars, batch, email, callVars, clusterVars>>

-----------------------------------------------------------------------------
(* getTokens, called by an HTTP handler *)

\* A call returns response resp.
Return(req, resp) ==
    /\ call' = [call EXCEPT ![req] = "done"]
    /\ returned' = [returned EXCEPT ![req] = resp]
    /\ callEntry' = [callEntry EXCEPT ![req] = Nil]
    /\ UNCHANGED reply

\* The call goes on with struct sa.
Proceed(req, sa) ==
    /\ call' = [call EXCEPT ![req] = "read"]
    /\ callEntry' = [callEntry EXCEPT ![req] = sa]
    /\ UNCHANGED <<reply, returned>>

\* The critical section of getTokens, an account that is not registered.
GetTokensAdd(req, ref, sa) ==
    /\ call[req] = "idle"
    /\ ~Registered(ref)
    /\ AddServiceAccount(ref, sa, 0)
    /\ Proceed(req, sa)
    /\ UNCHANGED clusterVars

\* The critical section of getTokens, a registered account.
GetTokensFound(req, ref) ==
    /\ call[req] = "idle"
    /\ Registered(ref)
    /\ ~deleted[serviceAccounts[ref]]
    /\ Proceed(req, serviceAccounts[ref])
    /\ UNCHANGED <<providerVars, entryVars, workerVars, clusterVars>>

\* The critical section of getTokens, an account reported deleted.
GetTokensDeleted(req, ref) ==
    /\ call[req] = "idle"
    /\ Registered(ref)
    /\ deleted[serviceAccounts[ref]]
    /\ Return(req, Failure("deleted"))
    /\ UNCHANGED <<providerVars, entryVars, workerVars, clusterVars>>

\* The read of sa.tokens, outside the mutex: a hit, or a request to the worker.
GetTokensRead(req) ==
    LET sa == callEntry[req] IN
    /\ call[req] = "read"
    /\ IF tokens[sa] # Nil /\ ~expired[sa]
         THEN Return(req, Success(tokens[sa]))
         ELSE /\ call' = [call EXCEPT ![req] = "dispatch"]
              /\ UNCHANGED <<callEntry, reply, returned>>
    /\ UNCHANGED <<providerVars, entryVars, workerVars, clusterVars>>

\* First select of requestTokens: the channel accepts the request.
RequestDispatch(req) ==
    LET sa == callEntry[req] IN
    /\ call[req] = "dispatch"
    /\ externalRequests[sa] = Empty
    /\ externalRequests' = [externalRequests EXCEPT ![sa] = req]
    /\ call' = [call EXCEPT ![req] = "wait"]
    /\ UNCHANGED <<providerVars, reference, podCount, deleted, tokens, expired, workerVars,
                    callEntry, reply, returned, clusterVars>>

\* Either select of requestTokens: the client gave up.
RequestAbandon(req) ==
    /\ call[req] \in {"dispatch", "wait"}
    /\ Return(req, Failure("context"))
    /\ UNCHANGED <<providerVars, entryVars, workerVars, clusterVars>>

\* Either select of requestTokens: the provider was closed.
RequestTerminated(req) ==
    /\ call[req] \in {"dispatch", "wait"}
    /\ ctxDone
    /\ Return(req, Failure("context"))
    /\ UNCHANGED <<providerVars, entryVars, workerVars, clusterVars>>

\* Second select of requestTokens: the worker has answered.
RequestReceive(req) ==
    /\ call[req] = "wait"
    /\ reply[req] # Nil
    /\ Return(req, reply[req])
    /\ UNCHANGED <<providerVars, entryVars, workerVars, clusterVars>>

GetTokens(req) ==
    \/ \E ref \in Refs : \/ \E sa \in Entries : GetTokensAdd(req, ref, sa)
                         \/ GetTokensFound(req, ref)
                         \/ GetTokensDeleted(req, ref)
    \/ GetTokensRead(req)
    \/ RequestDispatch(req)
    \/ RequestAbandon(req)
    \/ RequestTerminated(req)
    \/ RequestReceive(req)

-----------------------------------------------------------------------------
(* cacheTokens, the goroutine of an entry *)

Goto(sa, point) == worker' = [worker EXCEPT ![sa] = point]

\* cacheTokens returns because the provider's context is done.
Abort(sa) ==
    /\ ctxDone
    /\ Goto(sa, "exit")
    /\ created' = [created EXCEPT ![sa] = DeferredResponse]
    /\ UNCHANGED <<providerVars, entryVars, batch, email, callVars, clusterVars>>

\* The check at the head of the loop.
CheckFirst(sa) ==
    /\ worker[sa] = "check1"
    /\ \/ DeleteAndExit(sa)
       \/ /\ ~MustDelete(sa)
          /\ Goto(sa, "acquire")
          /\ UNCHANGED <<providerVars, entryVars, batch, email, created, callVars, clusterVars>>

\* The channel of the semaphore accepts one more element.
SemaphoreAccepts == semaphore < Concurrency

\* The select on the semaphore.
Acquire(sa) ==
    /\ worker[sa] = "acquire"
    /\ SemaphoreAccepts
    /\ semaphore' = semaphore + 1
    /\ Goto(sa, "get")
    /\ UNCHANGED <<serviceAccounts, numTokens, closing, entryVars, batch, email, created,
                    callVars, clusterVars>>

AcquireAborted(sa) == worker[sa] = "acquire" /\ Abort(sa)

\* createTokens has returned resp: the semaphore is released.
CreateTokensReturnLeaking(sa, resp) ==
    /\ created' = [created EXCEPT ![sa] = resp]
    /\ email' = [email EXCEPT ![sa] = Nil]
    /\ semaphore' = IF resp.err = "none" THEN semaphore - 1 ELSE semaphore
    /\ Goto(sa, "check2")
    /\ UNCHANGED <<serviceAccounts, numTokens, closing, entryVars, batch, callVars, clusterVars>>
CreateTokensReturn(sa, resp) ==
    /\ created' = [created EXCEPT ![sa] = resp]
    /\ email' = [email EXCEPT ![sa] = Nil]
    /\ semaphore' = semaphore - 1
    /\ Goto(sa, "check2")
    /\ UNCHANGED <<serviceAccounts, numTokens, closing, entryVars, batch, callVars, clusterVars>>

\* What ServiceAccounts.Get can find: the account in the informer's store, or,
\* when it is not there, whatever the fallback source answers, which may be
\* ahead of the store.
Lookup(ref) == IF accounts[ref] # Nil THEN {accounts[ref]}
               ELSE Emails \cup {Invalid, Nil}

\* createTokens, first part: get the account and the email it is annotated with.
GetServiceAccount(sa) ==
    /\ worker[sa] = "get"
    /\ \E found \in Lookup(reference[sa]) :
          \/ /\ found \in Emails
             /\ email' = [email EXCEPT ![sa] = found]
             /\ Goto(sa, "issue")
             /\ UNCHANGED <<providerVars, entryVars, batch, created, callVars, clusterVars>>
          \/ found = Invalid /\ CreateTokensReturn(sa, Failure("annotation"))
          \/ found = Nil /\ CreateTokensReturn(sa, Failure("retryable"))

\* createTokens, second part: the tokens for the email read before.
IssueTokensForOldEmail(sa) ==
    worker[sa] = "issue"
    /\ CreateTokensReturn(sa, Success(IF tokens[sa] # Nil THEN tokens[sa] ELSE email[sa]))
IssueTokens(sa) == worker[sa] = "issue" /\ CreateTokensReturn(sa, Success(email[sa]))

\* createTokens, second part: one of the two remote calls fails.
IssueTokensFails(sa) == worker[sa] = "issue" /\ CreateTokensReturn(sa, Failure("retryable"))

\* The switch on the error of createTokens: only a retryable error is kept from
\* the clients, which wait for a later attempt.
AnswersSuccessOnly(sa) == created[sa].err = "none"
Answers(sa) == created[sa].err # "retryable"

\* The check after createTokens.
CheckSecond(sa) ==
    /\ worker[sa] = "check2"
    /\ \/ DeleteAndExit(sa)
       \/ /\ ~MustDelete(sa)
          /\ Goto(sa, IF Answers(sa) THEN "respond" ELSE "store")
          /\ UNCHANGED <<providerVars, entryVars, batch, email, created, callVars, clusterVars>>

\* sendResponse, the loop that empties the channel.
DrainRequest(sa) ==
    /\ worker[sa] \in {"respond", "exit"}
    /\ externalRequests[sa] # Empty
    /\ batch' = [batch EXCEPT ![sa] = @ \cup ({externalRequests[sa]} \ {Nudge})]
    /\ externalRequests' = [externalRequests EXCEPT ![sa] = Empty]
    /\ UNCHANGED <<providerVars, reference, podCount, deleted, tokens, expired, worker, email,
                    created, callVars, clusterVars>>

\* sendResponse, the reset of the slice of requests.
ForgetBatchMissing(sa) == batch' = batch
ForgetBatch(sa) == batch' = [batch EXCEPT ![sa] = {}]

\* sendResponse, the answers: each reply channel is filled and closed.  The
\* deferred call is the goroutine's last step.
SendResponse(sa) ==
    /\ worker[sa] \in {"respond", "exit"}
    /\ externalRequests[sa] = Empty
    /\ reply' = [req \in Requests |-> IF req \in batch[sa] THEN created[sa] ELSE reply[req]]
    /\ ForgetBatch(sa)
    /\ Goto(sa, IF worker[sa] = "exit" THEN "done" ELSE "store")
    /\ UNCHANGED <<providerVars, entryVars, email, created, call, callEntry, returned,
                    clusterVars>>

\* The store of sa.tokens (nil after an error), and the choice of the sleep.
StoreTokens(sa) ==
    /\ worker[sa] = "store"
    /\ tokens' = [tokens EXCEPT ![sa] = created[sa].tokens]
    /\ expired' = [expired EXCEPT ![sa] = FALSE]
    /\ Goto(sa, IF created[sa].err = "annotation" THEN "parked" ELSE "sleep")
    /\ created' = [created EXCEPT ![sa] = Failure("none")]
    /\ UNCHANGED <<providerVars, reference, podCount, deleted, externalRequests, batch, email,
                    callVars, clusterVars>>

\* The select of the sleep: refresh or retry timer (never the one of ten years).
TimerFires(sa) ==
    /\ worker[sa] = "sleep"
    /\ Goto(sa, "check1")
    /\ UNCHANGED <<providerVars, entryVars, batch, email, created, callVars, clusterVars>>

\* The select of the sleep: a request, or the nudge of an informer.
WakeByRequest(sa) ==
    /\ worker[sa] \in {"sleep", "parked"}
    /\ externalRequests[sa] # Empty
    /\ batch' = [batch EXCEPT ![sa] = @ \cup ({externalRequests[sa]} \ {Nudge})]
    /\ externalRequests' = [externalRequests EXCEPT ![sa] = Empty]
    /\ Goto(sa, "check1")
    /\ UNCHANGED <<providerVars, reference, podCount, deleted, tokens, expired, email, created,
                    callVars, clusterVars>>

SleepAbortedUnlessParked(sa) == worker[sa] = "sleep" /\ Abort(sa)
SleepAborted(sa) == worker[sa] \in {"sleep", "parked"} /\ Abort(sa)

CacheTokens(sa) ==
    \/ CheckFirst(sa)    \/ Acquire(sa)          \/ AcquireAborted(sa)
    \/ GetServiceAccount(sa)
    \/ IssueTokens(sa)   \/ IssueTokensFails(sa) \/ CheckSecond(sa)
    \/ DrainRequest(sa)  \/ SendResponse(sa)     \/ StoreTokens(sa)
    \/ TimerFires(sa)    \/ WakeByRequest(sa)    \/ SleepAborted(sa)

\* The clock: tokens held by an entry expire.
TokensExpire(sa) ==
    /\ tokens[sa] # Nil
    /\ ~expired[sa]
    /\ expired' = [expired EXCEPT ![sa] = TRUE]
    /\ UNCHANGED <<providerVars, reference, podCount, deleted, tokens, externalRequests,
                    workerVars, callVars, clusterVars>>

-----------------------------------------------------------------------------
(* Informers *)

\* AddPodServiceAccount, called when a pod of ref appears on the node.
AddPodServiceAccount(ref) ==
    /\ pods[ref] < MaxPods
    /\ pods' = [pods EXCEPT ![ref] = @ + 1]
    /\ \/ /\ Registered(ref)
          /\ podCount' = [podCount EXCEPT ![serviceAccounts[ref]] = @ + 1]
          /\ UNCHANGED <<providerVars, reference, deleted, tokens, externalRequests, expired,
                          workerVars>>
       \/ /\ ~Registered(ref)
          /\ \E sa \in Entries : AddServiceAccount(ref, sa, 1)
    /\ UNCHANGED <<callVars, accounts, notifications, everDeleted>>

\* DeletePodServiceAccount, the counter.
ForgetPodBelowZero(ref) ==
    podCount' = IF Registered(ref) THEN [podCount EXCEPT ![serviceAccounts[ref]] = @ - 1]
                                   ELSE podCount
ForgetPod(ref) ==
    podCount' = IF Registered(ref) /\ podCount[serviceAccounts[ref]] > 0
                THEN [podCount EXCEPT ![serviceAccounts[ref]] = @ - 1] ELSE podCount

\* DeletePodServiceAccount, called when a pod of ref leaves the node.
DeletePodServiceAccount(ref) ==
    /\ pods[ref] > 0
    /\ pods' = [pods EXCEPT ![ref] = @ - 1]
    /\ ForgetPod(ref)
    /\ UNCHANGED <<providerVars, reference, deleted, tokens, externalRequests, expired, workerVars,
                    callVars, accounts, notifications, everDeleted>>

\* The informer's store changes and the call of the handler is queued.
AccountChange(ref, value) ==
    /\ Len(notifications) < MaxLag
    /\ value # accounts[ref]
    /\ accounts' = [accounts EXCEPT ![ref] = value]
    /\ notifications' = Append(notifications,
          [ref |-> ref, kind |-> IF value = Nil THEN "delete" ELSE "update"])
    /\ UNCHANGED <<providerVars, entryVars, workerVars, callVars, pods, everDeleted>>

\* The periodic resync calls UpdateFunc for every account in the store.
Resync(ref) ==
    /\ Len(notifications) < MaxLag
    /\ accounts[ref] # Nil
    /\ notifications' = Append(notifications, [ref |-> ref, kind |-> "update"])
    /\ UNCHANGED <<providerVars, entryVars, workerVars, callVars, pods, accounts, everDeleted>>

\* The attempt to wake the worker, which never blocks: a slot that is taken is
\* left alone.
WakeOverwriting(sa) == externalRequests' = [externalRequests EXCEPT ![sa] = Nudge]
Wake(sa) == externalRequests' = IF externalRequests[sa] = Empty
                                THEN [externalRequests EXCEPT ![sa] = Nudge]
                                ELSE externalRequests

\* UpdateServiceAccount or DeleteServiceAccount, for the oldest notification.
Deliver ==
    LET n == Head(notifications) IN
    /\ notifications # <<>>
    /\ notifications' = Tail(notifications)
    /\ IF Registered(n.ref)
         THEN /\ deleted' = [deleted EXCEPT ![serviceAccounts[n.ref]] = n.kind = "delete"]
              /\ Wake(serviceAccounts[n.ref])
         ELSE UNCHANGED <<deleted, externalRequests>>
    /\ everDeleted' = IF n.kind = "delete" THEN everDeleted \cup {n.ref} ELSE everDeleted
    /\ UNCHANGED <<providerVars, reference, podCount, tokens, expired, workerVars, callVars, pods,
                    accounts>>

Informers ==
    \/ \E ref \in Refs : \/ AddPodServiceAccount(ref)
                         \/ DeletePodServiceAccount(ref)
                         \/ \E value \in Emails \cup {Invalid, Nil} : AccountChange(ref, value)
                         \/ Resync(ref)
    \/ Deliver

-----------------------------------------------------------------------------
(* Close *)

CloseCancel ==
    /\ closing = "open"
    /\ closing' = "waiting"
    /\ UNCHANGED <<serviceAccounts, numTokens, semaphore, entryVars, workerVars, callVars,
                    clusterVars>>

\* wg.Wait returns once every goroutine has.
CloseReturn ==
    /\ closing = "waiting"
    /\ \A sa \in Entries : worker[sa] = "done"
    /\ closing' = "returned"
    /\ UNCHANGED <<serviceAccounts, numTokens, semaphore, entryVars, workerVars, callVars,
                    clusterVars>>

Next ==
    \/ \E req \in Requests : GetTokens(req)
    \/ \E sa \in Entries : CacheTokens(sa) \/ TokensExpire(sa)
    \/ Informers
    \/ CloseCancel
    \/ CloseReturn

Spec == Init /\ [][Next]_vars

\* Goroutines are scheduled and remote calls return.  A select that finds a
\* branch ready again and again takes it sooner or later (Go chooses among the
\* ready branches at random), a remote call does not fail for ever, and the
\* drain loop finds the channel empty at some time.  The informer runs its
\* handlers and resyncs.  Clients are never obliged to come, pods and accounts
\* never obliged to change, Close never obliged to be called.
Fairness ==
    /\ \A sa \in Entries :
          /\ WF_vars(CacheTokens(sa))
          /\ SF_vars(Acquire(sa))
          /\ SF_vars(IssueTokens(sa))
          /\ SF_vars(SendResponse(sa))
          /\ SF_vars(AcquireAborted(sa) \/ SleepAborted(sa))
    /\ \A req \in Requests : WF_vars(RequestReceive(req))
    /\ \A ref \in Refs : SF_vars(Resync(ref))
    /\ WF_vars(Deliver)
    /\ WF_vars(CloseReturn)

FairSpec == Spec /\ Fairness

-----------------------------------------------------------------------------
(* Safety *)

TypeOK ==
    /\ serviceAccounts \in [Refs -> Entries \cup {Nil}]
    /\ numTokens \in Int
    /\ semaphore \in Int
    /\ closing \in {"open", "waiting", "returned"}
    /\ reference \in [Entries -> Refs \cup {Nil}]
    /\ podCount \in [Entries -> Nat]
    /\ deleted \in [Entries -> BOOLEAN]
    /\ tokens \in [Entries -> Emails \cup {Nil}]
    /\ externalRequests \in [Entries -> Requests \cup {Nudge, Empty}]
    /\ expired \in [Entries -> BOOLEAN]
    /\ worker \in [Entries -> WorkerStates]
    /\ batch \in [Entries -> SUBSET Requests]
    /\ email \in [Entries -> Emails \cup {Nil}]
    /\ created \in [Entries -> Responses]
    /\ call \in [Requests -> CallStates]
    /\ callEntry \in [Requests -> Entries \cup {Nil}]
    /\ reply \in [Requests -> Responses \cup {Nil}]
    /\ returned \in [Requests -> Responses \cup {Nil}]
    /\ pods \in [Refs -> 0..MaxPods]
    /\ accounts \in [Refs -> Emails \cup {Invalid, Nil}]
    /\ notifications \in Seq(Notification)
    /\ everDeleted \subseteq Refs

\* A worker in its loop owns the map entry of its reference, so that the delete
\* of checkIfMustDeleteAndDelete, which goes by reference, can never remove the
\* struct of another worker; and unless the provider is closing, a registered
\* struct has a worker that will serve the requests getTokens dispatches to it.
RegistryCoherent ==
    /\ \A sa \in Entries : worker[sa] \in Live =>
          reference[sa] \in Refs /\ serviceAccounts[reference[sa]] = sa
    /\ \A ref \in Refs : Registered(ref) =>
          /\ reference[serviceAccounts[ref]] = ref
          /\ ctxDone \/ worker[serviceAccounts[ref]] \in Live

\* The gauge is the number of registered accounts: no path adds or removes an
\* account twice, whatever getTokens, the pod informer and the workers do.
GaugeExact == numTokens = Cardinality({ref \in Refs : Registered(ref)})

\* The map of accounts, the workers and the gauge agree.
RegistryExact == RegistryCoherent /\ GaugeExact

\* Every acquisition of the semaphore is paired with a release, and at most
\* Concurrency workers are inside createTokens.
SemaphoreExact ==
    /\ semaphore = Cardinality({sa \in Entries : worker[sa] \in {"get", "issue"}})
    /\ semaphore <= Concurrency

\* Where request req waits for an answer.
Queued(sa, req) == externalRequests[sa] = req
Taken(sa, req) == req \in batch[sa]
Pending(sa, req) == Queued(sa, req) \/ Taken(sa, req)

\* A request is answered at most once: sending on a reply channel closes it, and
\* sending again would panic, so a request that is still pending anywhere is
\* unanswered and is pending in one place only.
AnsweredOnce ==
    \A req \in Requests, sa \in Entries : Pending(sa, req) =>
        /\ reply[req] = Nil
        /\ ~(Queued(sa, req) /\ Taken(sa, req))
        /\ \A other \in Entries : Pending(other, req) => other = sa

\* A request is not lost: a call that waits without an answer is pending at the
\* struct it was dispatched to, also when nudges of the informers, drains and
\* wake-ups compete for the single slot of the channel.
NotLost ==
    \A req \in Requests : call[req] = "wait" /\ reply[req] = Nil =>
        callEntry[req] # Nil /\ Pending(callEntry[req], req)

\* podCount never exceeds the pods of the account on the node, so an account no
\* pod uses any more is dropped at the worker's next check.
PodCountBounded ==
    \A ref \in Refs : Registered(ref) => podCount[serviceAccounts[ref]] <= pods[ref]

\* As long as the deletion of an account has not been reported, podCount is
\* exact and every account used by a pod is registered, although clients
\* register accounts with a count of zero that workers remove again.
PodCountExact ==
    \A ref \in Refs \ everDeleted :
        IF Registered(ref) THEN podCount[serviceAccounts[ref]] = pods[ref]
                           ELSE pods[ref] = 0

\* podCount keeps the accounts of pods in the cache and no others: it is never too
\* high, and too low only after the account has been deleted.
PodCountCorrect == PodCountBounded /\ PodCountExact

-----------------------------------------------------------------------------
(* What comments and documents say of the cache, and the code does not do *)

\* getTokens returns tokens or an error: its callers read the tokens as soon as
\* the error is nil (GetServiceAccountToken, GetGoogleAccessTokens).
TokensOrError ==
    \A req \in Requests : returned[req] # Nil =>
        returned[req].tokens # Nil \/ returned[req].err # "none"

\* Tokens issued for the email the account still has stay in the cache until
\* they expire, whatever happens to the permission to issue new ones.
CachedUntilExpiration ==
    [][\A sa \in Entries :
         /\ worker[sa] \in Live
         /\ tokens[sa] # Nil /\ tokens[sa] = accounts[reference[sa]]
         /\ ~expired[sa]
         => tokens'[sa] # Nil]_vars

-----------------------------------------------------------------------------
(* Liveness, under FairSpec *)

\* Once accounts stop disappearing, a dispatched request is answered, through
\* backoffs, failed calls and nudges, unless its worker had already sent its last
\* responses when the request was dispatched.
WaitAnswered ==
    \A req \in Requests :
        <>[](\A ref \in Refs : accounts[ref] # Nil) =>
            (call[req] = "wait" ~> \/ call[req] = "done"
                                   \/ \E sa \in Entries : callEntry[req] = sa /\ worker[sa] = "done")

\* Close returns, although informers and clients still register accounts while
\* it waits, unless pods come and go for ever (each arrival may start a worker
\* before the worker of the previous one has ended).
CloseReturns == <>[][FALSE]_pods => (closing = "waiting" ~> closing = "returned")

\* The email of an account whose annotation has settled reaches the cache again
\* and again, also from tokens of an earlier email: a nudge that is drained before
\* it had an effect is made up for by the refresh timer or by a resync.
EmailConverges ==
    \A ref \in Refs, value \in Emails :
        <>[](accounts[ref] = value /\ pods[ref] > 0 /\ ref \notin everDeleted /\ ~ctxDone) =>
            []<>(Registered(ref) /\ tokens[serviceAccounts[ref]] = value)

\* An account that exists but is used by no pod any more leaves the cache,
\* although DeletePodServiceAccount does not wake the worker.
UnusedReclaimed ==
    \A ref \in Refs :
        <>[](accounts[ref] # Nil /\ pods[ref] = 0 /\ ~ctxDone) => []<>(~Registered(ref))
=============================================================================
