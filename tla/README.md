# gke-metadata-server in TLA+

gke-metadata-server is a daemon that runs on every node of a Kubernetes cluster
outside GKE and answers the requests pods send to the metadata address of a
Google VM. The hard part of the daemon is that each answer depends on *which pod*
asks, and that the tokens it hands out are created ahead of time by background
goroutines. This directory holds TLA+ specifications of that logic, TLC
configurations that check them on small instances, and TLAPS proofs that hold
for all instances. Line numbers refer to the files under `src/`.

- [Inventory](#inventory)
- [Modules and how they correspond to the code](#modules-and-how-they-correspond-to-the-code)
- [Runs](#runs)
- [Bounds, symmetry and views](#bounds-symmetry-and-views)
- [Fairness](#fairness)
- [Refinement](#refinement)
- [Proofs](#proofs)
- [Disagreements between code and documents](#disagreements-between-code-and-documents)
- [What is not modelled](#what-is-not-modelled)
- [Plan](#plan)

## Inventory

| Component | State | Operations | What makes it correct |
|---|---|---|---|
| Token cache, `internal/serviceaccounttokens/cache` | map from ServiceAccount references to structs (tokens, podCount, deleted flag, one-slot request channel), one goroutine per struct, a semaphore, a gauge | `getTokens`/`requestTokens`, the loop `cacheTokens`, `AddPodServiceAccount`, `DeletePodServiceAccount`, `UpdateServiceAccount`, `DeleteServiceAccount`, `Close` | one worker per registered account; counters exact; requests answered once and not lost; changes of an account reach the cache; unused accounts leave it; Close returns |
| Identity and scoped tokens, same package | two maps with a mutex each, a garbage collector, the shared semaphore, two clocks per token | `GetGoogleIdentityToken`, `GetGoogleAccessTokens` with scopes, the collector | no mixing of identities; no lifetime longer than what was granted; slots given back; maps do not grow for ever |
| Pod identification, `internal/server/pods.go`, `internal/pods` | the request's context | choice of strategy, lookup by address, lookup by UID, fallback to the API server, retries | the request is attributed to its sender; one account per request |
| Attestation, `internal/attestation`, `ebpf/attest.c` | `map_attest` (an LRU map from connections to cgroups), the kernel's table of sockets | `attest_connect`, `Lookup`, `Verify` | a record belongs to the present connection |
| Pod, ServiceAccount and node informers, `internal/{pods,serviceaccounts,node}/watch` | an indexed store, a gauge, listeners | event handlers, `Get…` with a fallback | store and gauge agree; listeners see every change |
| Retry loop, `internal/retry` | the loop's variables | `Do` | nil means success; failures are counted; pauses are bounded |
| Taint removal, `internal/node/taints` | the Node object in the API server | `Remove` | removes its own taints and nothing else |
| Proxy, `internal/proxy` | a queue of connections, sniffed bytes, a gauge | `Listen`, `Accept`, `handle`, `Close` | bytes pass unchanged; metadata requests go inside; goroutines end |
| Metadata directory, `internal/http/directory_handler.go` | a tree of handlers with static edges, path parameters and directory listers | `HandleMetadata`, `HandleDirectory`, `ServeHTTP` with its walk, listings, redirects and recursive answers | the tree does not depend on the order of the calls; one response, the right one; no token in a recursive answer |
| HTTP servers, `internal/server`, `internal/http` | listeners, requests in flight | GKE endpoints, `/readyz`, `Shutdown` | calls in the right order; an accepted request keeps what it uses |
| Lifecycle, `main.go` | deferred calls, the signal handler's context | starts and closes everything above; exits on fatal errors | taints go when pods can be served; an orderly exit leaves nothing behind; after a crash the next process starts |
| Routing and redirection, `internal/{routing,loopback,redirect}` | the address on the loopback interface, eBPF links, the mode set on the node | `LoadAndAttach`, the closers they return | another's address is not taken; the own address is taken over and removed |
| Token creation, preflight, metrics, logging | remote state | RPCs | see [What is not modelled](#what-is-not-modelled) |

Interactions. Handlers run in one goroutine per request; they identify the pod
(store of the pod informer, then the API server, or the kernel), read the
ServiceAccount, and ask the token cache. The cache's workers are woken by
handlers, by the ServiceAccount informer and by timers through a channel with a
single slot; the pod informer changes `podCount` under the same mutex that the
workers take for their checks. Handlers and workers compete for one semaphore. In
eBPF mode connections reach the HTTP server through the proxy's queue. Taint
removal and pod lookups run inside `retry.Do`. `main` starts the informers, the
route, the attestation and the two servers, removes the taints only then, and
closes all of them in the opposite order after a signal; the directory listers of
the HTTP tree identify the pod and hand what they found to the handlers below them
in the context of the request. The node informer's cached `Get` has no consumer:
`main` reads the node through the API server, once.

Behaviours that are hard to test, each listed with its line in
`PROJECT.json` under `hazards`: requests and nudges that share the channel; a
worker that ends while a client dispatches to it; results of remote calls that
arrive after the account changed; failed refreshes; leaked slots; clocks that
stop or are set back; addresses that move between pods while the informer is
behind; records of old connections; an interrupted watch; a lost answer to an
update; a full queue; Close at any moment; a crash that leaves the address on the
loopback interface; a readiness probe that overtakes the server it asks; a grace
period that ends before the requests do; registrations in another order; listings
that change between two calls of one request.

## Modules and how they correspond to the code

`map` in `PROJECT.json` gives the source lines of every definition. A step of a
model is what a goroutine does between two points where another one can
interfere.

**TokenCache** (cache/provider.go, service_accounts.go). `serviceAccounts`,
`numTokens`, `semaphore` and `closing` are the provider; `reference`, `podCount`,
`deleted`, `tokens`, `externalRequests` the fields of each struct; `worker`,
`batch`, `email`, `created` the locals of each goroutine `cacheTokens`; `call`,
`callEntry`, `reply`, `returned` each call of `getTokens`. Structs have
identities (`Entries`), because an account may be registered again while the
worker of its previous struct is still ending. The loop of `cacheTokens` is
`CheckFirst`, `Acquire`, `GetServiceAccount`, `IssueTokens`, `CheckSecond`,
`SendResponse`, `StoreTokens` and the three ends of its sleep; `getTokens` is
`GetTokensAdd`, `GetTokensFound`, `GetTokensRead`, `RequestDispatch`,
`RequestReceive` and its error exits. Informers change accounts in the store
(`AccountChange`) before their handlers run (`Deliver`), since a worker reads the
store. Tokens may expire and timers may fire at any moment.

**DerivedTokenCache** (cache/provider.go, tokens.go). The two maps are one
function over `Refs`; `Call` is the body shared by the two getters; `NewToken`,
`Left` and `IsExpired` keep the integer arithmetic (80%, maximum, one hour, whole
seconds). `now` is the time of the issuer; `mono` may stand still (`suspended`)
and `wall` be wrong from the start and adjusted (`setBack`). `Measured` is
`monotonicExpiration.Sub(now)`: where the source computes an expiration as a duration
from now (identity tokens, direct access tokens), Go compares monotonic readings; for
impersonated tokens (`TimestampInputs`) the expiration is the timestamp of the issuer,
without such a reading, and Go compares it with the wall clock. Workers of TokenCache appear as takers of
slots only.

**Retry** (retry/retry.go, time/time.go). The loop with its defaults; the
function that is retried belongs to the module that extends Retry and calls
`FuncReturned`.

**TaintRemoval** (node/taints/taints.go) extends Retry: `Get` and `Update` of the
node, each of which may fail, `UpdateFails` also after the write happened, and
`OtherWrites` of other controllers. `AcceptsUpdate` is the optimistic concurrency
of the API server (external).

**Lifecycle** (main.go, server/server.go, routing, loopback, redirect) extends
TaintRemoval. `main` is the control point of the function of that name, `deferred`
the calls it has deferred, `live` what is open, `srv` and `done` the two goroutines
that `server.New` starts and waits for, `probe` a handler of `/readyz`. `Fatal`
ends the process without deferred calls, `MainReturns` after all of them; `Restart`
begins the next one, which finds the node, its setting and the address on the
interface (`lo`) as they are. `StartFails`, `ServeFails`, `CloseFails`, `Signal` and
`Crash` are the failures. `RemoveTaints` are the actions of TaintRemoval, taken by
`main`.

**MetadataDirectory** (http/directory_handler.go, the registrations of
server/server.go). Edges are named by the pieces of the pattern that leads to them;
`children` holds the static edges of each node in the order of their creation, and
`value` what every edge leads to, path parameters included.
`Handle` is one call of `HandleMetadata` or `HandleDirectory`, with its panics
(`Panics`); `Walk…` is the walk of `ServeHTTP`; `Redirect`, `List`, `Build…` and
`ServeMetadata` are its ends. The recursion of `buildRecursive` is an agenda of
values and listers to visit, in the order of the code. `listed` and `called` record
what listers returned and which handlers ran, for the reference definitions.

**PodIdentity** (server/pods.go, server/gke_apis.go, pods, attestation,
ebpf/attest.c) extends Retry. `object` and `addr` are what the API server says
and what is true of each pod; `store` and `events` the informer; `socket` and
`attested` the kernel. One request is followed: `todo` is the sequence of calls
its endpoint makes (`Handler`), the directory lister of the service accounts first
(`Lister`, `RouteRequest`), `saRef` and `email` the values in its context,
`Validate` the preflight check of token requests.
`ReferenceLookup` chooses the strategy, `Attest` … `GetByUIDFallback` and
`GetByIP` … `LookupReturns` are the two strategies. `Relist` is the informer's new
list after an interrupted watch, including the panic of `DeleteFunc` on a
`DeletedFinalStateUnknown` (pods/watch/provider.go:111), after which the process
does nothing. The cluster and the kernel (`World`) are external.

**Proxy** (proxy/proxy.go). `handler` is the control point of `handle` for each
connection, `buf` the sniffed bytes, `peer` the receiver and `got` what it has
read. Bytes are pieces that complete the path of a metadata request, of another
request, or of none; reads return up to `Chunk` pieces. **Relay** is the abstract
specification that Proxy implements.

`MC…` modules add model constants, symmetry sets and views; `…Proofs` modules hold
the theorems. Operators that stand before a mapped definition and carry its name
with a suffix (`AddressTakenByAnyone` before `AddressTaken`) are faulty variants: with
one of them in place of the definition, TLC finds the property violated that
`mutants` in `PROJECT.json` names.

## Runs

| Run | Checks | Shows |
|---|---|---|
| `cache_safety` | TypeOK, RegistryExact, SemaphoreExact, AnsweredOnce, NotLost, PodCountCorrect | no order of clients, pods, informers, workers and Close breaks the registry, the counters, or the hand-over of requests |
| `cache_liveness` | WaitAnswered, UnusedReclaimed, CloseReturns | waiting clients are answered; unused accounts go; Close is not held up by workers started while it waits |
| `cache_email` | EmailConverges | a settled annotation reaches the cache although tokens of the previous email are in it and the nudge for the new one may be swallowed by the drain |
| `cache_nil_tokens` | TokensOrError (violated) | see below |
| `cache_failed_refresh` | CachedUntilExpiration (violated) | see below |
| `derived_clocks` | DerivedTypeOK, ExpirationHonest, DurationCapped | a clock that fails while a token is cached never lengthens its life; a wall clock that is behind when a token with a timestamp arrives lengthens it by no more than that, and not at all up to a quarter of its life; no clock lifts the maximum |
| `derived_calls` | OwnToken, SlotsExact, CallsReturn, ExpiredCollected | concurrent fetches do not mix identities, leak slots, block each other or leave expired tokens behind |
| `lifecycle` | LifecycleTypeOK, OutcomeExact, RequestsKeepResources, CleanExit, RemovesOwnTaints, UntaintedWhenServing, ServesAgain | through crashes, fatal errors, signals and changes of the mode: taints go only when pods can be served, requests keep what they use until the grace period ends, an orderly exit leaves nothing behind, and in the end a process serves and is ready |
| `taint_removal_gives_up` | BlocksUntilRemoved (violated) | see below |
| `directory` | DirTypeOK, RegistrationOrderFree, AnswerExact, RecursiveExact, ContextExact | the tree is the same in every order of registration, or building it panics in every order; each request gets the one response that a definition over patterns demands; recursive answers are complete and hold no token |
| `proxy` | ProxyTypeOK, Verbatim, ImplementsRelay, MetadataServed, HandlersEnd | sniffing is transparent for every split into reads; a full queue and Close strand no goroutine |
| `pod_identity` | PodTypeOK, AttestedIsClient, AddressIsClient, KnownPodNotRefused, OneIdentity, BackoffMonotone | attribution while addresses and ports change hands, events are late, the map evicts and lookups fail; pauses between attempts grow up to their maximum |

What the conditions in the identity properties mean: `AttestedIsClient` has none
but that the connection still exists. `AddressIsClient` needs `fresh`: when the
lookup was made, no object claimed an address its pod had given up, and the view
used was current. Without it the property is false, and must be: between the
moment an address moves and the moment the objects say so, nothing the daemon can
read tells the two pods apart. eBPF routing does not have this window.
Beyond the upper bound, `PodCountCorrect` leaves out accounts whose deletion has
been reported: when such
an account is created again while a pod still uses it, `UpdateServiceAccount`
ignores it (service_accounts.go:120) and nothing reports the pod a second time,
so that the account stays out of the cache.

`ExpirationHonest` says what the code can guarantee with the clocks it has. Cached
tokens are safe from one failing clock. A token that arrives with a timestamp
(impersonated tokens with custom scopes) is measured by the wall clock alone: 80% of a
duration that is too long by up to a quarter of the true one is not longer than the
true one, and beyond that the lifetime a client is told is too long by at most what
the clock is behind (`excess`). `AnswerExact` demands 403 for
a request without the header whose pieces lead under the prefix, but for paths with an
empty segment there (`NoGap`): the check compares the path as it is written
(directory_handler.go:172), the walk goes by the non-empty pieces (line 179), so that
such a request is served although the message of the check calls the header required.

`ServesAgain` has a condition, too: the mode asked for exists, and the address is
not on the interface under somebody else's label. Otherwise every process ends with
a fatal error, as the code intends. `CleanExit` is about processes whose closers
succeeded; their errors are logged and nothing else.

## Bounds, symmetry and views

- TokenCache: one account and two structs in `cache_safety` (the worker of the
  previous struct ends while the next one runs), one request, one pod at a time,
  one undelivered notification. One request suffices to race with nudges for the
  slot; the invariants are proved for any number of each.
  `cache_liveness` has one struct and one email, to keep the liveness graph small; its
  worker may end and start again, also while Close waits. `cache_email` has two emails
  and two undelivered notifications instead of the client, whose requests would only
  wake the worker more often.
- DerivedTokenCache: `derived_clocks` has one caller, one token with a timestamp and
  time up to 4 with seconds of two units, an hour of five and a wall clock wrong by up
  to two from the start; tokens have two, four or six units left, so that rounding, the
  cap, both failures, errors that the 20% absorb and errors that they do not absorb
  occur (a token measured by the monotonic clock is in `derived_calls` and in the
  proofs); `derived_calls` has two callers, two
  accounts, one slot, and time to expire.
- Retry: three attempts, with a delay that is doubled past its maximum in
  `pod_identity` and the defaults in `lifecycle`. The cap by the number of attempts
  (`i > 11`) lies beyond these bounds; the proofs about Retry include it.
- Lifecycle: three disruptions (crashes, failing calls, signals and changes of the
  mode together) are enough for a crash in Loopback mode, a change of the mode or a
  failure, and the orderly end of the process that finds the address; the settings
  are the default, an annotation over a label, a label alone and an unknown mode;
  the address is at first absent or somebody else's. One request, one write of
  others to the node, two informers.
- MetadataDirectory: up to five registrations, in any order and number, out of ten
  that include those of the service accounts, a parameter below a parameter and one
  for each kind of conflict; two listings.
- Proxy: two connections for a queue of one; streams mix partial, metadata and
  other pieces; reads and sniffing of up to two pieces.
- PodIdentity: two pods and one pod address, so that it is taken over; the
  node's address for pods on the host network (loopback and link-local addresses
  are treated alike, and the proofs have any number of them); one port per
  address, so that ports are reused; two events that are late; three attempts.

Symmetry is used in safety runs only, over sets whose members are
interchangeable. `VIEW` is used in two safety runs: the views leave out fields
that no action and no invariant reads again (of freed structs; of a request
whose response has been sent). No liveness run uses either.

## Fairness

TokenCache. `WF` of a worker's steps: goroutines are scheduled and calls return.
`SF` of `Acquire` and of the aborts: Go's `select` chooses at random among ready
branches and a channel serves its senders in order, so a branch that is ready
again and again is taken. `SF` of `IssueTokens`: the remote services do not fail
for ever. `SF` of `SendResponse`: the drain loop finds the channel empty at some
time. `SF` of `Resync` and `WF` of `Deliver`: the informer's resync period and
delivery. `WF` of `CloseReturn`: `Wait` returns when no worker is left.
`CloseReturns` is stated for behaviours in which pods do not come and go for ever,
since each arrival may start a worker after the context was cancelled. Clients,
pods, accounts and the call of Close are under no obligation.

DerivedTokenCache. `WF` of callers, of the workers' release and of the collector,
`SF` of `Acquire`; in `CallsReturn` fetches may fail or succeed.

Proxy. `WF` of the steps of `handle`, of reading and of both copies: the dial has
a timeout, an upstream closes after a half-close; `SF` of `Enqueue`: senders on a
channel are served in order.

Lifecycle. `WF` of `Restart` (the kubelet restarts containers), of the steps of
`main` and of the servers' goroutines, of `Readyz` (the kubelet goes on probing) and
of `GraceExpires` (a timer). Requests need not end: the grace period does. Failures
are finitely many by their bound, and nothing is assumed about when they happen.

## Refinement

Relay says what the two ends of a connection may rely on, without queue, buffers or
goroutines: one destination for each connection, decided once by the first request
(or by the lack of one in the first `SniffCap` pieces), which reads a prefix of what
the client sent. Proxy implements it (`ImplementsRelay`, checked and proved) with `input` the part of
the client's stream that has been sent, `destination` the peer and `output` what the
peer has read. Most steps of Proxy are stutters of Relay: accepting, sniffing,
dialling, waiting for the queue, closing.

## Proofs

Every invariant and every action property of the passing runs, and the refinement,
is a theorem; what remains with TLC alone is liveness. Theorems have the form
`Spec => []Inv`, `Spec => [][A]_vars` or, for the refinement, `Spec =>
ImplementsRelay`, for every value of the constants that satisfies the named
assumptions of the modules: sentinels differ from other values
(`SentinelAssumption`, `NilAssumption`), sets that are counted are finite
(`FiniteAssumption`), capacities are positive (`ConcurrencyAssumption`, and
`DerivedAssumption`, which also says that durations are integers), bounds are
naturals (`BoundsAssumption`), options are integers (`OptionsAssumption`), host
addresses are not pod addresses (`PodsAssumption`), patterns, paths and listings are
sequences (`DirectoryAssumption`, `PiecesAssumption`); `TaintsAssumption`,
`LifecycleAssumption` and `ProxyAssumption` say the same kind of thing of their
constants.

- **TokenCacheProofs**: TypeCorrect, RegistryAlwaysExact, SemaphoreAlwaysExact.
  `TypeInv` adds to TypeOK what a call knows at each control
  point. The lemma `NextStep` classifies every step by its effect on the registry
  and the semaphore (`Step`): the three invariants follow from the classification
  without looking at actions again. RegistryExact has two
  parts: RegistryCoherent is inductive with TypeInv; GaugeExact needs it, since
  `Unregister` removes by reference.
- **TokenCacheSafetyProofs**: NeverAnsweredTwice, NeverLost, PodCountAlwaysCorrect.
  `ChannelStep` classifies steps by what they do to the channel and the batch. That a
  dispatched request is not pending elsewhere needs `OnlyDispatched` (only calls that
  have dispatched are pending anywhere), so the inductive invariant of the first two
  is the conjunction of the three. For podCount the strengthening is
  `DeletionReported`: the deleted flag of a registered struct is set only for
  accounts in `everDeleted`; with it a worker removes an account that is still
  counted exactly only when no pod uses it.
- **DerivedTokenCacheProofs**: SlotsAlwaysExact (`SlotInv`, cardinality of the
  callers that fetch), AlwaysOwnToken, ExpirationAlwaysHonest,
  DurationAlwaysCapped, DerivedTypeCorrect. The middle three come from `Sound`, which
  says of every token in a map, in a local variable or in a reply how its two
  expirations relate to the issuer's under each failure of the clocks. Lemmas bound
  `EffectiveDuration` and the rounding; `MeasuredBounds` shows that the clock that
  measures a token adds no more than its `excess`, and where the 20% absorb it.
- **RetryProofs**: OutcomeAlwaysExact, RetryTypeCorrect, from `RetryInv`, which
  relates the counter and the control point to the number of attempts;
  BackoffAlwaysMonotone, from `PauseInv`: the delay is `DelayAfter` of the number of
  attempts, which lemmas show to grow and to stay within the options, also where the
  cap by the number of attempts (`i > 11`) takes over.
- **PodIdentityProofs**: AlwaysAttestedIsClient (`AttestInv`: while a connection
  exists its record is its owner's or gone), AlwaysOneIdentity (`IdentityInv`:
  what has been used is the account in the context), AlwaysAddressIsClient and
  KnownPodNeverRefused (`AddressInv`: distinct pods have distinct addresses, a pod
  on the pod network connects from its own, so that exactly one true object
  matches). PodTypeCorrect and PodGaugeAlwaysExact: the gauge is the cardinality of
  the store, through late events and new lists, until a panic. RetryInv is carried
  through the actions of PodIdentity by `RetryKept`; every step but the one that starts
  a lookup is a step of the loop or leaves it alone (`LoopStep`), which gives
  LookupBackoffMonotone.
- **ProxyProofs**: ProxyTypeCorrect, AlwaysVerbatim, ActiveAlwaysExact and
  ProxyImplementsRelay. The inductive invariant `ProxyInv` relates the control point of
  each handler to its buffer and its peer (`RouteInv`), the queue to the handlers that
  wait in it, each at most once (`QueueInv`), and the bytes taken to those read or
  buffered (`StreamInv`). The refinement is shown step by step: the step that gives a
  connection a peer is the decision of Relay, a read is its relay step, everything else
  stutters. That the decision is the one Relay makes uses that the route depends on the
  *first* piece that completes a path, a least element, which later pieces cannot
  change.
- **LifecycleProofs**: LifecycleTypeCorrect, RemoveOutcomeExact,
  AlwaysRemovesOwnTaints, RequestsAlwaysKeepResources, AlwaysCleanExit,
  AlwaysUntaintedWhenServing. `TaintInv` says what the update in flight was computed
  from, whoever writes meanwhile; `DeferInv` that at every control point of `main` the
  deferred calls are those of what is open, each once; `AddressInv` who put the address on
  the interface; `ServingInv` what the servers' goroutines imply about `main`.
- **MetadataDirectoryProofs**: AlwaysRegistrationOrderFree, DirTypeCorrect,
  AlwaysContextExact, AlwaysAnswerExact, AlwaysRecursiveExact, for patterns of any length
  and trees of any size.
  `TreeInv` says where each edge came from (`Origin`); with it `PanicsExact` shows that
  the checks of `handle`, which look at the tree, are the conflicts of the pair of
  registrations. `ShapeInv` is the form of the tree, `NodeInv` and `AgendaInv` what the
  walk and the recursion may point at. `MatchUnique` (no path matches two edges) looks at
  the first piece where two patterns differ; with it `WalkInv` and `DoneInv` show that the
  greedy walk finds the match there is. For recursive answers, `FoundInv` says that what
  is found is expected, and that what is expected is found or covered by work on the
  agenda that needs no other lister (`Covers`); a listing makes new paths expected, and
  `ListCovers` shows that they are covered by its own names, because the *last* parameter
  of a path decides: if that one was listed before, all parameters above it were.

Model-checked only: the liveness properties WaitAnswered, EmailConverges,
UnusedReclaimed, CloseReturns, CallsReturn, ExpiredCollected, MetadataServed,
HandlersEnd and ServesAgain, since fairness and ENABLED are beyond the prover, and
the three disagreements below, which are counterexamples.

Induction over data is beyond the prover as well. Where an argument needs it, the proofs
take a least counterexample instead (`LeastElement`, from the well-foundedness of the
naturals): enough for "the first piece that differs" and "the last parameter". What
`SelectSeq` returns cannot be derived; that the pieces of a path are a sequence, and
that a path starts with the prefix exactly when its pieces do and no empty segment is
in between, is therefore an assumption (`PiecesAssumption`, which TLC evaluates), and
nothing else about `Pieces` is used.

## Disagreements between code and documents

1. `cache_nil_tokens`. `defer sendResponse(&tokensAndError{err: retErr})`
   (cache/provider.go:237) evaluates `retErr` when the defer statement runs. A client
   that waits for a worker that ends gets nil tokens and a nil error, and its
   handler dereferences the tokens. It happens to a client whose account no pod is
   known to use yet.
2. `cache_failed_refresh`. A refresh that fails stores nil over tokens that are
   still valid (cache/provider.go:298); README.md:434 says that pods get tokens
   until they expire.
3. `taint_removal_gives_up`. `Remove` ends after three failed attempts
   (taints.go:23); its comment says that it blocks until it succeeds.

That the proxy decides once per connection, so that later requests follow the first,
is what its comment (proxy.go:108) and README.md:258 say, and what Relay specifies.

## What is not modelled

- The data race on `sa.tokens` (read without the mutex): a pointer is read whole on
  the platforms of the build, and a read that misses a store is a behaviour in
  which the store happens later. TokenCache takes the accesses as atomic.
- Durations in TokenCache: the length of backoffs and refresh intervals.
- In DerivedTokenCache a token arrives at the moment its remaining life is granted;
  the network's latency is not counted. TokenCache abstracts from expirations: its
  ServiceAccount tokens carry timestamps too, and go through the same `newToken`.
- PodIdentity follows one handler at a time (handlers share only the store and the
  kernel's tables); each pod has an account of its own; pods do not connect from
  loopback addresses of their own namespaces, which cannot reach the daemon. A
  daemon without the pod informer behaves like one whose store stays empty and
  which has a fallback.
- Parsing and formatting: annotations, headers, JSON, camel case and trimming of
  values, cgroup paths, byte order of the map's keys. Paths are sequences of pieces:
  where the code compares a string prefix with the prefix of the metadata tree,
  MetadataDirectory compares pieces, so that "/computeMetadata/v1x" is not told from
  other unknown paths.
- What `ebpf/redirect.c` does to a connection: it happens in the kernel. The program
  is attached or not.
- In Lifecycle: an update of a killed process that reaches the API server after its
  successor started; an address that stays on the interface because the mode was
  changed after a crash in Loopback mode (no process looks for it then, so `CleanExit`
  speaks of the mode of the process that exits); connections passed upstream, which
  `Shutdown` does not wait for; parsing and validation of flags; the upstream used
  by tests (`internal/proxytest`).
- The node informer's store and handlers, which nothing reads.
- Creation of tokens and credentials: remote calls, represented by their results. The
  preflight check of a token request succeeds or fails.
- Metrics other than the gauges of cached accounts, cached pods and active
  connections, logging, static values of endpoints, charts, Terraform.

## Plan

The order follows how much depends on the part: tokens and their counters first,
then retry and taint removal, derived tokens, the proxy, the identity of pods, the
life of the process and the tree of endpoints. All of these are modelled and their
safety properties proved. What is left:

1. An abstract token cache (a map from accounts to the tokens last issued, with
   atomic registration and answers) that TokenCache implements.
2. Safety facts that the liveness arguments rest on and that can be proved: what a
   waiting client may wait for (a worker that will answer it, or one that has ended),
   and that no slot is held by a worker that waits for another.
