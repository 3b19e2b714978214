--------------------------- MODULE LifecycleProofs ---------------------------
(***************************************************************************)
(* Theorems about Lifecycle: what a process has open, deferred and         *)
(* listening at each control point of main, for any number of requests,    *)
(* restarts, crashes, signals and changes of the routing mode.             *)
(***************************************************************************)
EXTENDS Lifecycle, RetryProofs, SequenceTheorems

Starting == {"down", "providers", "node", "route", "attest", "server"}
Up == {"starting", "taints", "wait"}
Draining == {"drainMetadata", "drainHealth"}

Items(s) == {s[i] : i \in DOMAIN s}
Distinct(s) == \A i, j \in DOMAIN s : s[i] = s[j] => i = j

\* What main has opened when it gets to a control point.
Opened(at, mode) ==
    CASE at \in {"down", "providers"} -> {}
      [] at \in {"node", "route"} -> Enabled
      [] at = "attest" -> Enabled \cup {"route"}
      [] OTHER -> Enabled \cup {"route"} \cup (IF mode = "eBPF" THEN {"attest"} ELSE {})

\* Everything that is open has one deferred call, and only what is open has.
DeferInv ==
    /\ Distinct(deferred)
    /\ main # "closing" => live = Opened(main, routingMode) /\ Items(deferred) = live
    /\ main = "closing" /\ ~closeError => live = Items(deferred)

\* The address is on the interface from AttachRoute to the deferred call.
AddressInv ==
    routingMode = "Loopback" =>
        /\ main \in {"attest", "server"} \cup Up \cup Draining => lo = "ours"
        /\ main = "closing" /\ ~closeError /\ "route" \notin Items(deferred) => lo = "absent"

\* What the metadata server can be doing, and when requests can be under way.
ServingInv ==
    /\ main \in Starting => (\A s \in Servers : srv[s] = "off") /\ inflight = {} /\ done = {}
    /\ main = "starting" =>
          /\ srv["metadata"] \in {"listen", "bound", "serving", "failed"}
          /\ "metadata" \in done => srv["metadata"] # "listen"
    /\ main \in {"taints", "wait"} => srv["metadata"] \in {"bound", "serving", "failed"}
    /\ main \in Draining \cup {"closing"} => srv["metadata"] \in {"bound", "failed", "closed"}
    /\ main \in {"drainHealth", "closing"} /\ ~expired => inflight = {}

\* The object removeTaints writes back is the one it read, if nobody wrote since.
TaintInv ==
    /\ node \in [taints : SUBSET Taints, version : Nat]
    /\ got \in [taints : SUBSET Taints, version : Nat]
    /\ func \in {"get", "update"}
    /\ func = "update" => /\ got.version <= node.version
                          /\ got.version = node.version => got.taints = node.taints

-----------------------------------------------------------------------------
(* Deferred calls as sequences *)

LEMMA NoItems == Distinct(<<>>) /\ Items(<<>>) = {} /\ \A S : <<>> \in Seq(S)
<1>1. DOMAIN <<>> = {}
  OBVIOUS
<1>2. Distinct(<<>>)
  BY <1>1 DEF Distinct
<1>3. Items(<<>>) = {}
  BY <1>1 DEF Items
<1> QED BY <1>2, <1>3

LEMMA PushItem ==
    ASSUME NEW S, NEW s \in Seq(S), Distinct(s), NEW r \in S, r \notin Items(s)
    PROVE  /\ Append(s, r) \in Seq(S) /\ Distinct(Append(s, r))
           /\ Items(Append(s, r)) = Items(s) \cup {r}
<1> DEFINE t == Append(s, r)
<1>1. /\ t \in Seq(S) /\ DOMAIN t = DOMAIN s \cup {Len(s) + 1}
      /\ t[Len(s) + 1] = r /\ \A i \in DOMAIN s : t[i] = s[i]
  BY AppendProperties
<1> HIDE DEF t
<1>2. \A i \in DOMAIN s : s[i] # r
  BY DEF Items
<1>3. Distinct(t)
  BY <1>1, <1>2 DEF Distinct
<1>4. Items(t) = Items(s) \cup {r}
  BY <1>1 DEF Items
<1> QED BY <1>1, <1>3, <1>4 DEF t

LEMMA PopItem ==
    ASSUME NEW S, NEW s \in Seq(S), Distinct(s), s # <<>>
    PROVE  LET t == SubSeq(s, 1, Len(s) - 1)
           IN  /\ t \in Seq(S) /\ Distinct(t) /\ Items(t) = Items(s) \ {s[Len(s)]}
               /\ s[Len(s)] \in Items(s)
<1> DEFINE n == Len(s)
           t == SubSeq(s, 1, n - 1)
<1>1. n \in Nat \ {0} /\ DOMAIN s = 1..n
  OBVIOUS
<1>2. t \in Seq(S) /\ DOMAIN t = 1..(n - 1) /\ \A i \in 1..(n - 1) : t[i] = s[i]
  OBVIOUS
<1>3. Distinct(t)
  BY <1>1, <1>2 DEF Distinct
<1>4. \A i \in 1..(n - 1) : s[i] # s[n]
  BY <1>1 DEF Distinct
<1>5. 1..n = 1..(n - 1) \cup {n}
  BY <1>1
<1>6. Items(t) = {s[i] : i \in 1..(n - 1)} /\ Items(s) = {s[i] : i \in 1..n}
  BY <1>1, <1>2 DEF Items
<1>7. Items(t) = Items(s) \ {s[n]} /\ s[n] \in Items(s)
  BY <1>4, <1>5, <1>6
<1> QED BY <1>2, <1>3, <1>7

LEMMA DeferFlag ==
    ASSUME NEW S, NEW s \in Seq(S), Distinct(s), NEW r, Enabled \subseteq S, r \notin Items(s)
    PROVE  LET t == DeferredIfEnabled(s, r)
           IN  t \in Seq(S) /\ Distinct(t) /\ Items(t) = Items(s) \cup (Enabled \cap {r})
BY PushItem DEF DeferredIfEnabled

-----------------------------------------------------------------------------
(* The loop of taints.Remove and the Node object *)

\* What a step of the process may do to them.
LEMMA TaintCases ==
    ASSUME [LifeNext]_allVars
    PROVE  \/ UNCHANGED vars
           \/ RemoveForgotten /\ UNCHANGED node
           \/ main = "taints" /\ RemoveTaints
           \/ OtherWrites
<1>1. CASE Restart \/ StartProviders \/ GetNode \/ AttachRoute \/ AttachAttestation \/ NewServer
           \/ ServersStarted \/ StartFails
  BY <1>1 DEF Restart, StartProviders, GetNode, AttachRoute, AttachAttestation, NewServer,
              ServersStarted, StartFails, Fatal, ProcessEnds
<1>2. CASE RemoveTaints \/ TaintsRemoved \/ WriteNode \/ UNCHANGED allVars
  BY <1>2 DEF RemoveTaints, TaintsRemoved, WriteNode, allVars
<1>3. CASE ShutdownMetadata \/ ShutdownHealth \/ ShutdownReturns \/ CloseDeferred \/ MainReturns
           \/ Readyz \/ Signal \/ Crash \/ GraceExpires \/ CloseFails \/ ChangeSetting
  BY <1>3 DEF ShutdownMetadata, ShutdownHealth, ShutdownReturns, CloseDeferred, MainReturns, Readyz,
              Signal, Crash, GraceExpires, CloseFails, ChangeSetting, Fatal, ProcessEnds
<1>4. CASE \/ \E s \in Servers : ServerStep(s) \/ ServeFails(s)
           \/ \E r \in Requests : Arrive(r) \/ Finish(r)
  BY <1>4 DEF ServerStep, ServeFails, Arrive, Finish, Fatal, ProcessEnds
<1> QED BY <1>1, <1>2, <1>3, <1>4 DEF LifeNext, MainStep

LEMMA RemoveRetries == ASSUME RemoveTaints PROVE [RetryNext]_retryVars
BY DEF RemoveTaints, Get, GetFails, Update, UpdateFails, RetryNext, AnyFunc

LEMMA RetryKept == ASSUME RetryInv, [LifeNext]_allVars PROVE RetryInv'
<1>1. CASE UNCHANGED vars \/ OtherWrites \/ RemoveTaints
  <2>1. [RetryNext]_retryVars
    BY <1>1, RemoveRetries DEF vars, OtherWrites
  <2> QED BY <2>1, StepRetry
<1>2. CASE RemoveForgotten
  <2>1. RetryInit'
    BY <1>2 DEF RemoveForgotten, RetryInit
  <2>2. RetryInit' => RetryInv'
    BY InitRetry, PTL
  <2> QED BY <2>1, <2>2
<1> QED BY <1>1, <1>2, TaintCases

LEMMA TaintInit == Init => TaintInv
BY DEF Init, NoNode, TaintInv

\* A write of removeTaints takes its own taints off and leaves the others.
LEMMA WriteOwnOnly ==
    ASSUME TaintInv, func = "update", AcceptsUpdate, node' = Written
    PROVE  /\ node' \in [taints : SUBSET Taints, version : Nat]
           /\ Kept(node'.taints) = Kept(node.taints)
           /\ node'.taints \cap OwnTaints = {}
<1>1. got.taints = node.taints /\ node.version \in Nat /\ node.taints \in SUBSET Taints
  BY DEF TaintInv, AcceptsUpdate
<1>2. node' = [taints |-> Kept(node.taints), version |-> node.version + 1]
  BY <1>1 DEF Written
<1> QED BY <1>1, <1>2 DEF Kept

LEMMA TaintStep == ASSUME TaintInv, [LifeNext]_allVars PROVE TaintInv'
<1>0. /\ node \in [taints : SUBSET Taints, version : Nat]
      /\ got \in [taints : SUBSET Taints, version : Nat] /\ func \in {"get", "update"}
  BY DEF TaintInv
<1>1. NoNode \in [taints : SUBSET Taints, version : Nat]
  BY DEF NoNode
<1>2. CASE UNCHANGED vars
  BY <1>2 DEF vars, taintVars, TaintInv
<1>3. CASE RemoveForgotten /\ UNCHANGED node
  BY <1>0, <1>1, <1>3 DEF RemoveForgotten, TaintInv
<1>4. CASE OtherWrites
  <2>1. PICK taints \in SUBSET Taints : node' = [taints |-> taints, version |-> node.version + 1]
    BY <1>4 DEF OtherWrites
  <2>2. UNCHANGED <<got, func>>
    BY <1>4 DEF OtherWrites
  <2>3. node.version \in Nat /\ got.version \in Nat
    BY <1>0
  <2>4. node' \in [taints : SUBSET Taints, version : Nat] /\ node'.version = node.version + 1
    BY <2>1, <2>3
  <2> QED BY <1>0, <2>2, <2>3, <2>4 DEF TaintInv
<1>5. CASE RemoveTaints
  <2>1. CASE Get
    <3>1. node' = node /\ (UNCHANGED <<got, func>> \/ (got' = node /\ func' = "update"))
      BY <2>1 DEF Get
    <3>2. node.version \in Nat
      BY <1>0
    <3> QED BY <1>0, <3>1, <3>2 DEF TaintInv
  <2>2. CASE Update \/ UpdateFails
    <3>1. /\ func' = "get" /\ got' = NoNode /\ func = "update"
          /\ node' = node \/ (AcceptsUpdate /\ node' = Written)
      BY <2>2 DEF Update, UpdateFails
    <3>2. node' \in [taints : SUBSET Taints, version : Nat]
      BY <1>0, <3>1, WriteOwnOnly
    <3> QED BY <1>1, <3>1, <3>2 DEF TaintInv
  <2>3. CASE GetFails \/ UNCHANGED taintVars
    BY <2>3 DEF GetFails, taintVars, TaintInv
  <2> QED BY <1>5, <2>1, <2>2, <2>3 DEF RemoveTaints
<1> QED BY <1>2, <1>3, <1>4, <1>5, TaintCases

LEMMA TaintInvariance == LifeSpec => [](RetryInv /\ TaintInv)
<1>1. LifeInit => RetryInv /\ TaintInv
  BY InitRetry, TaintInit DEF LifeInit, Init
<1>2. RetryInv /\ TaintInv /\ [LifeNext]_allVars => RetryInv' /\ TaintInv'
  BY RetryKept, TaintStep
<1> QED BY <1>1, <1>2, PTL DEF LifeSpec

\* What taints.Remove reports is what happened, in every process of the node's life.
THEOREM RemoveOutcomeExact == LifeSpec => []OutcomeExact
<1>1. RetryInv => OutcomeExact
  BY DEF RetryInv, OutcomeExact
<1> QED BY <1>1, TaintInvariance, PTL

\* Any number of processes, crashes, lost answers and writes of other controllers:
\* removeTaints takes its own taints off the node and nothing else, and a success
\* means that they are gone.
THEOREM AlwaysRemovesOwnTaints == LifeSpec => RemovesOwnTaints
<1>1. ASSUME RetryInv, TaintInv, [LifeNext]_allVars
      PROVE  [/\ Update \/ UpdateFails => Kept(node'.taints) = Kept(node.taints)
              /\ result' = "none" /\ result # "none" => node'.taints \cap OwnTaints = {}]_vars
  <2>1. ASSUME Update \/ UpdateFails PROVE Kept(node'.taints) = Kept(node.taints)
    <3>1. func = "update" /\ (node' = node \/ (AcceptsUpdate /\ node' = Written))
      BY <2>1 DEF Update, UpdateFails
    <3> QED BY <1>1, <3>1, WriteOwnOnly
  <2>2. ASSUME result' = "none", result # "none" PROVE node'.taints \cap OwnTaints = {}
    <3>1. RemoveTaints
      BY <1>1, <2>2, TaintCases DEF vars, retryVars, RemoveForgotten, OtherWrites
    <3>2. CASE Get
      <4>1. UnchangedTaints(node.taints) /\ node' = node
        BY <2>2, <3>2 DEF Get, retryVars
      <4> QED BY <4>1 DEF UnchangedTaints, Kept
    <3>3. CASE Update
      <4>1. ~FuncReturned("retryable")
        BY <2>2 DEF FuncReturned, DoReturns
      <4>2. func = "update" /\ AcceptsUpdate /\ node' = Written
        BY <3>3, <4>1 DEF Update
      <4> QED BY <1>1, <4>2, WriteOwnOnly
    <3>4. CASE GetFails \/ UpdateFails
      <4>1. FuncReturned("retryable")
        BY <3>4 DEF GetFails, UpdateFails
      <4> QED BY <2>2, <4>1 DEF FuncReturned, DoReturns
    <3>5. CASE SleepEnds
      <4>1. op.maxAttempts < 0 \/ attempt' <= op.maxAttempts
        BY <1>1, <3>5 DEF SleepEnds, RetryInv, RetryTypeOK, LoopInv
      <4> QED BY <2>2, <3>5, <4>1 DEF SleepEnds
    <3>6. CASE SleepCancelled
      BY <2>2, <3>6 DEF SleepCancelled, DoReturns
    <3> QED BY <3>1, <3>2, <3>3, <3>4, <3>5, <3>6 DEF RemoveTaints
  <2> QED BY <2>1, <2>2
<1>2. RetryInv /\ TaintInv /\ [LifeNext]_allVars =>
        [/\ Update \/ UpdateFails => Kept(node'.taints) = Kept(node.taints)
         /\ result' = "none" /\ result # "none" => node'.taints \cap OwnTaints = {}]_vars
  BY <1>1
<1> QED BY <1>2, TaintInvariance, PTL DEF LifeSpec, RemovesOwnTaints

-----------------------------------------------------------------------------
(* What is open, and the address *)

Resources == Enabled \cup {"route", "attest"}
DeferTypeOK == deferred \in Seq(Resources)
OpenInv == DeferTypeOK /\ DeferInv /\ AddressInv

LEMMA OpenInit == LifeInit => OpenInv
<1> SUFFICES ASSUME LifeInit PROVE OpenInv  OBVIOUS
<1>1. deferred = <<>> /\ live = {} /\ main = "down" /\ routingMode = ""
  BY DEF LifeInit
<1>2. deferred \in Seq(Resources) /\ Distinct(deferred) /\ Items(deferred) = {}
  BY <1>1, NoItems
<1> QED BY <1>1, <1>2 DEF OpenInv, DeferTypeOK, DeferInv, AddressInv, Opened

LEMMA OpenEnds == ASSUME ProcessEnds PROVE OpenInv'
<1>1. deferred' = <<>> /\ live' = {} /\ main' = "down" /\ routingMode' = ""
  BY DEF ProcessEnds
<1>2. deferred' \in Seq(Resources) /\ Distinct(deferred') /\ Items(deferred') = {}
  BY <1>1, NoItems
<1> QED BY <1>1, <1>2 DEF OpenInv, DeferTypeOK, DeferInv, AddressInv, Opened

\* Steps that open and close nothing.
LEMMA OpenCases ==
    ASSUME [LifeNext]_allVars
    PROVE  \/ ProcessEnds
           \/ UNCHANGED <<main, startVars, lo>>
           \/ Restart \/ StartProviders \/ GetNode \/ AttachRoute \/ AttachAttestation
           \/ NewServer \/ ServersStarted \/ TaintsRemoved \/ ShutdownMetadata \/ ShutdownHealth
           \/ ShutdownReturns \/ CloseDeferred \/ CloseFails
<1>1. CASE \/ RemoveTaints \/ Readyz \/ Signal \/ Crash \/ StartFails \/ MainReturns \/ GraceExpires
           \/ ChangeSetting \/ WriteNode \/ UNCHANGED allVars
  BY <1>1 DEF RemoveTaints, Readyz, Signal, Crash, StartFails, MainReturns, GraceExpires,
              ChangeSetting, WriteNode, Fatal, allVars, lifeVars, worldVars
<1>2. CASE \/ \E s \in Servers : ServerStep(s) \/ ServeFails(s)
           \/ \E r \in Requests : Arrive(r) \/ Finish(r)
  BY <1>2 DEF ServerStep, ServeFails, Arrive, Finish, Fatal, worldVars
<1> QED BY <1>1, <1>2 DEF LifeNext, MainStep

LEMMA OpenStep == ASSUME OpenInv, [LifeNext]_allVars PROVE OpenInv'
<1>0. /\ deferred \in Seq(Resources) /\ Distinct(deferred) /\ DeferInv /\ AddressInv
      /\ "route" \notin Enabled /\ "attest" \notin Enabled /\ Enabled \subseteq Resources
  BY LifecycleAssumption DEF OpenInv, DeferTypeOK, DeferInv, Resources
<1> USE DEF OpenInv, DeferTypeOK
<1>1. CASE UNCHANGED <<main, startVars, lo>>
  BY <1>0, <1>1 DEF startVars, DeferInv, AddressInv
<1>2. CASE Restart
  <2>1. main = "down" /\ main' = "providers" /\ UNCHANGED <<routingMode, deferred, live, closeError>>
    BY <1>2 DEF Restart, startVars
  <2> QED BY <1>0, <2>1 DEF DeferInv, AddressInv, Opened, Up, Draining
<1>3. CASE StartProviders
  <2> DEFINE pods == DeferredIfEnabled(deferred, "pods")
             nodes == DeferredIfEnabled(pods, "node")
             accounts == DeferredIfEnabled(nodes, "accounts")
             cache == DeferredIfEnabled(accounts, "cache")
  <2>1. /\ main = "providers" /\ main' = "node" /\ deferred' = cache /\ live' = Enabled
        /\ UNCHANGED routingMode
    BY <1>3 DEF StartProviders
  <2>2. Items(deferred) = {}
    BY <1>0, <2>1 DEF DeferInv, Opened
  <2>3. pods \in Seq(Resources) /\ Distinct(pods) /\ Items(pods) = Enabled \cap {"pods"}
    BY <1>0, <2>2, DeferFlag
  <2> HIDE DEF pods
  <2>4. nodes \in Seq(Resources) /\ Distinct(nodes) /\ Items(nodes) = Enabled \cap {"pods", "node"}
    <3>1. "node" \notin Items(pods)
      BY <2>3
    <3>2. /\ nodes \in Seq(Resources) /\ Distinct(nodes)
          /\ Items(nodes) = Items(pods) \cup (Enabled \cap {"node"})
      <4>1. pods \in Seq(Resources) /\ Distinct(pods) /\ Enabled \subseteq Resources
        BY <1>0, <2>3
      <4> QED BY <3>1, <4>1, DeferFlag, Zenon
    <3> QED BY <2>3, <3>2
  <2> HIDE DEF nodes
  <2>5. /\ accounts \in Seq(Resources) /\ Distinct(accounts)
        /\ Items(accounts) = Enabled \cap {"pods", "node", "accounts"}
    <3>1. "accounts" \notin Items(nodes)
      BY <2>4
    <3>2. /\ accounts \in Seq(Resources) /\ Distinct(accounts)
          /\ Items(accounts) = Items(nodes) \cup (Enabled \cap {"accounts"})
      <4>1. nodes \in Seq(Resources) /\ Distinct(nodes) /\ Enabled \subseteq Resources
        BY <1>0, <2>4
      <4> QED BY <3>1, <4>1, DeferFlag, Zenon
    <3> QED BY <2>4, <3>2
  <2> HIDE DEF accounts
  <2>6. cache \in Seq(Resources) /\ Distinct(cache) /\ Items(cache) = Enabled
    <3>1. "cache" \notin Items(accounts)
      BY <2>5
    <3>2. /\ cache \in Seq(Resources) /\ Distinct(cache)
          /\ Items(cache) = Items(accounts) \cup (Enabled \cap {"cache"})
      <4>1. accounts \in Seq(Resources) /\ Distinct(accounts) /\ Enabled \subseteq Resources
        BY <1>0, <2>5
      <4> QED BY <3>1, <4>1, DeferFlag, Zenon
    <3> QED BY <2>5, <3>2, LifecycleAssumption
  <2> HIDE DEF cache
  <2> QED BY <2>1, <2>6 DEF DeferInv, AddressInv, Opened, Up, Draining
<1>4. CASE GetNode
  <2>1. CASE ProcessEnds
    BY <2>1, OpenEnds
  <2>2. CASE ~ProcessEnds
    <3>1. main = "node" /\ main' = "route" /\ UNCHANGED <<deferred, live, closeError>>
      BY <1>4, <2>2 DEF GetNode, Fatal
    <3> QED BY <1>0, <3>1 DEF DeferInv, AddressInv, Opened, Up, Draining
  <2> QED BY <2>1, <2>2
<1>5. CASE AttachRoute
  <2>1. CASE ProcessEnds
    BY <2>1, OpenEnds
  <2>2. CASE ~ProcessEnds
    <3>1. /\ main = "route" /\ main' = "attest" /\ deferred' = Append(deferred, "route")
          /\ live' = live \cup {"route"} /\ UNCHANGED routingMode
          /\ routingMode = "Loopback" => lo' = "ours"
      BY <1>5, <2>2 DEF AttachRoute, AttachLoopback, AttachRedirect, Deferred, Fatal
    <3>2. live = Enabled /\ Items(deferred) = Enabled
      BY <1>0, <3>1 DEF DeferInv, Opened
    <3>3. /\ deferred' \in Seq(Resources) /\ Distinct(deferred')
          /\ Items(deferred') = Items(deferred) \cup {"route"}
      BY <1>0, <3>1, <3>2, PushItem DEF Resources
    <3> QED BY <3>1, <3>2, <3>3 DEF DeferInv, AddressInv, Opened
  <2> QED BY <2>1, <2>2
<1>6. CASE AttachAttestation
  <2>1. main = "attest" /\ main' = "server" /\ UNCHANGED <<routingMode, lo>>
    BY <1>6 DEF AttachAttestation, worldVars
  <2>2. live = Enabled \cup {"route"} /\ Items(deferred) = live
    BY <1>0, <2>1 DEF DeferInv, Opened
  <2>3. CASE routingMode = "eBPF"
    <3>1. deferred' = Append(deferred, "attest") /\ live' = live \cup {"attest"}
      BY <1>6, <2>3 DEF AttachAttestation, Deferred
    <3>2. /\ deferred' \in Seq(Resources) /\ Distinct(deferred')
          /\ Items(deferred') = Items(deferred) \cup {"attest"}
      BY <1>0, <2>2, <3>1, PushItem DEF Resources
    <3> QED BY <2>1, <2>2, <2>3, <3>1, <3>2 DEF DeferInv, AddressInv, Opened
  <2>4. CASE routingMode # "eBPF"
    <3>1. UNCHANGED <<deferred, live>>
      BY <1>6, <2>4 DEF AttachAttestation
    <3> QED BY <1>0, <2>1, <2>2, <2>4, <3>1 DEF DeferInv, AddressInv, Opened
  <2> QED BY <2>3, <2>4
<1>7. CASE NewServer \/ ServersStarted \/ TaintsRemoved \/ ShutdownMetadata \/ ShutdownHealth
  <2>1. /\ main \in {"server", "drainMetadata"} \cup Up /\ main' \in Up \cup Draining
        /\ UNCHANGED <<routingMode, deferred, live, closeError, lo>>
    BY <1>7 DEF NewServer, ServersStarted, TaintsRemoved, ShutdownMetadata, ShutdownHealth, worldVars,
                startVars, Up, Draining
  <2> QED BY <1>0, <2>1 DEF DeferInv, AddressInv, Opened, Up, Draining
<1>8. CASE ShutdownReturns
  <2>1. /\ main = "drainHealth" /\ main' = "closing"
        /\ UNCHANGED <<routingMode, deferred, live, closeError, lo>>
    BY <1>8 DEF ShutdownReturns, worldVars, startVars
  <2> QED BY <1>0, <2>1 DEF DeferInv, AddressInv, Opened, Up, Draining
<1>9. ASSUME NEW r, RunsDeferred(r)
      PROVE  /\ main = "closing" /\ deferred' \in Seq(Resources) /\ Distinct(deferred')
             /\ Items(deferred') = Items(deferred) \ {r}
  <2>1. /\ main = "closing" /\ deferred # <<>> /\ r = deferred[Len(deferred)]
        /\ deferred' = SubSeq(deferred, 1, Len(deferred) - 1)
    BY <1>9 DEF RunsDeferred
  <2> QED BY <1>0, <2>1, PopItem
<1>10. CASE CloseDeferred
  <2>1. PICK r \in Resources : /\ RunsDeferred(r) /\ live' = live \ {r}
                               /\ \/ r # "route" /\ lo' = lo
                                  \/ r = "route" /\ (routingMode = "Loopback" => lo' = "absent")
    BY <1>0, <1>10 DEF CloseDeferred, CloseProvider, CloseAttestation, CloseRoute, Resources
  <2>2. UNCHANGED <<main, routingMode, closeError>>
    BY <1>10 DEF CloseDeferred
  <2>3. /\ main = "closing" /\ deferred' \in Seq(Resources) /\ Distinct(deferred')
        /\ Items(deferred') = Items(deferred) \ {r}
    BY <2>1, <1>9
  <2> QED BY <1>0, <2>1, <2>2, <2>3 DEF DeferInv, AddressInv, Up, Draining
<1>11. CASE CloseFails
  <2>1. /\ \E r : RunsDeferred(r)
        /\ closeError' = TRUE /\ UNCHANGED main
    BY <1>11 DEF CloseFails
  <2>2. main = "closing" /\ deferred' \in Seq(Resources) /\ Distinct(deferred')
    BY <1>9, <2>1
  <2> QED BY <2>1, <2>2 DEF DeferInv, AddressInv, Up, Draining
<1> QED BY <1>1, <1>2, <1>3, <1>4, <1>5, <1>6, <1>7, <1>8, <1>10, <1>11, OpenCases, OpenEnds

-----------------------------------------------------------------------------
(* The servers *)

SrvTypeOK ==
    /\ srv \in [Servers -> {"off", "listen", "announce", "bound", "serving", "failed", "closed"}]
    /\ done \subseteq Servers
    /\ main \in Starting \cup Up \cup Draining \cup {"closing"}

ServeInv == SrvTypeOK /\ ServingInv

LEMMA ServeInit == LifeInit => ServeInv
<1> SUFFICES ASSUME LifeInit PROVE ServeInv  OBVIOUS
<1>1. main = "down" /\ srv = [s \in Servers |-> "off"] /\ done = {} /\ inflight = {}
  BY DEF LifeInit
<1> QED BY <1>1 DEF ServeInv, SrvTypeOK, ServingInv, Servers, Starting, Up, Draining

LEMMA ServeEnds == ASSUME ProcessEnds PROVE ServeInv'
<1>1. main' = "down" /\ srv' = [s \in Servers |-> "off"] /\ done' = {} /\ inflight' = {}
  BY DEF ProcessEnds
<1> QED BY <1>1 DEF ServeInv, SrvTypeOK, ServingInv, Servers, Starting, Up, Draining

LEMMA ServeCases ==
    ASSUME [LifeNext]_allVars
    PROVE  \/ ProcessEnds
           \/ UNCHANGED <<main, srv, done, inflight, expired>>
           \/ Restart \/ StartProviders \/ GetNode \/ AttachRoute \/ AttachAttestation
           \/ NewServer \/ ServersStarted \/ TaintsRemoved \/ ShutdownMetadata \/ ShutdownHealth
           \/ ShutdownReturns \/ GraceExpires
           \/ \E s \in Servers : ServerStep(s) \/ ServeFails(s)
           \/ \E r \in Requests : Arrive(r) \/ Finish(r)
<1>1. CASE \/ RemoveTaints \/ Readyz \/ Signal \/ Crash \/ StartFails \/ MainReturns \/ CloseDeferred
           \/ CloseFails \/ ChangeSetting \/ WriteNode \/ UNCHANGED allVars
  BY <1>1 DEF RemoveTaints, Readyz, Signal, Crash, StartFails, MainReturns, CloseDeferred, CloseFails,
              ChangeSetting, WriteNode, Fatal, allVars, lifeVars, serverVars
<1> QED BY <1>1 DEF LifeNext, MainStep

LEMMA ServeStep == ASSUME ServeInv, [LifeNext]_allVars PROVE ServeInv'
<1>0. SrvTypeOK /\ ServingInv /\ {"metadata", "health"} = Servers
  BY DEF ServeInv, Servers
<1> USE DEF ServeInv, ServingInv, Starting, Up, Draining
<1>1. CASE UNCHANGED <<main, srv, done, inflight, expired>>
  BY <1>0, <1>1 DEF SrvTypeOK
<1>2. CASE ProcessEnds
  BY <1>2, ServeEnds
<1>3. CASE Restart \/ StartProviders \/ GetNode \/ AttachRoute \/ AttachAttestation
  <2>1. \/ ProcessEnds
        \/ main \in Starting /\ main' \in Starting /\ UNCHANGED <<srv, done, inflight, expired>>
    BY <1>3 DEF Restart, StartProviders, GetNode, AttachRoute, AttachAttestation, Fatal, serverVars
  <2> QED BY <1>0, <1>2, <2>1 DEF SrvTypeOK
<1>4. CASE NewServer
  <2>1. /\ main = "server" /\ main' = "starting" /\ UNCHANGED <<done, inflight, expired>>
        /\ srv' = [metadata |-> "listen", health |-> "announce"]
    BY <1>4 DEF NewServer
  <2>2. SrvTypeOK' /\ srv'["metadata"] = "listen"
    BY <1>0, <2>1 DEF SrvTypeOK
  <2> QED BY <1>0, <2>1, <2>2
<1>5. CASE ServersStarted
  <2>1. /\ main = "starting" /\ done = Servers /\ main' = "taints"
        /\ UNCHANGED <<srv, done, inflight, expired>>
    BY <1>5 DEF ServersStarted, Started, serverVars
  <2> QED BY <1>0, <2>1 DEF SrvTypeOK
<1>6. CASE TaintsRemoved
  <2>1. main = "taints" /\ main' = "wait" /\ UNCHANGED <<srv, done, inflight, expired>>
    BY <1>6 DEF TaintsRemoved, serverVars
  <2> QED BY <1>0, <2>1 DEF SrvTypeOK
<1>7. CASE ShutdownMetadata
  <2>1. /\ main = "wait" /\ main' = "drainMetadata" /\ UNCHANGED <<done, inflight, expired>>
        /\ srv' = [srv EXCEPT !["metadata"] = IF @ = "serving" THEN "closed" ELSE @]
    BY <1>7 DEF ShutdownMetadata, CloseListener
  <2>2. SrvTypeOK' /\ srv'["metadata"] = IF srv["metadata"] = "serving" THEN "closed" ELSE srv["metadata"]
    BY <1>0, <2>1 DEF SrvTypeOK
  <2> QED BY <1>0, <2>1, <2>2
<1>8. CASE ShutdownHealth
  <2>1. /\ main = "drainMetadata" /\ main' = "drainHealth" /\ UNCHANGED <<done, inflight, expired>>
        /\ inflight = {} \/ expired
        /\ srv' = [srv EXCEPT !["health"] = IF @ = "serving" THEN "closed" ELSE @]
    BY <1>8 DEF ShutdownHealth, CloseListener, Drained
  <2>2. SrvTypeOK' /\ srv'["metadata"] = srv["metadata"]
    BY <1>0, <2>1 DEF SrvTypeOK
  <2> QED BY <1>0, <2>1, <2>2
<1>9. CASE ShutdownReturns
  <2>1. main = "drainHealth" /\ main' = "closing" /\ UNCHANGED <<srv, done, inflight, expired>>
    BY <1>9 DEF ShutdownReturns, serverVars
  <2> QED BY <1>0, <2>1 DEF SrvTypeOK
<1>10. CASE GraceExpires
  <2>1. expired' = TRUE /\ UNCHANGED <<main, srv, done, inflight>>
    BY <1>10 DEF GraceExpires
  <2> QED BY <1>0, <2>1 DEF SrvTypeOK
<1>11. ASSUME NEW s \in Servers, Listen(s), UNCHANGED <<main, inflight, expired>> PROVE ServeInv'
  <2>1. \/ /\ s = "metadata" /\ srv[s] = "listen" /\ srv' = [srv EXCEPT ![s] = "bound"]
           /\ done' = done \cup {s}
        \/ /\ s = "health" /\ srv[s] = "announce" /\ srv' = [srv EXCEPT ![s] = "listen"]
           /\ done' = done \cup {s}
    BY <1>11 DEF Listen
  <2>2. SrvTypeOK'
    BY <1>0, <1>11, <2>1 DEF SrvTypeOK
  <2>3. CASE s = "metadata"
    <3>1. srv'["metadata"] = "bound" /\ srv["metadata"] = "listen"
      BY <1>0, <2>1, <2>3 DEF SrvTypeOK
    <3>2. main = "starting"
      BY <1>0, <3>1 DEF SrvTypeOK
    <3> QED BY <1>11, <2>2, <3>1, <3>2
  <2>4. CASE s = "health"
    <3>1. srv'["metadata"] = srv["metadata"] /\ ("metadata" \in done' <=> "metadata" \in done)
      BY <1>0, <2>1, <2>4 DEF SrvTypeOK
    <3>2. main \notin Starting
      BY <1>0, <2>1
    <3> QED BY <1>0, <1>11, <2>2, <3>1, <3>2
  <2> QED BY <1>0, <2>3, <2>4
<1>12. ASSUME NEW s \in Servers, Serve(s), UNCHANGED <<main, inflight, expired>> PROVE ServeInv'
  <2>1. /\ srv[s] \in {"bound", "listen"} /\ done' = done
        /\ s = "metadata" => srv[s] = "bound"
        /\ srv' = [srv EXCEPT ![s] = IF ShutdownCalled(s) THEN "closed" ELSE "serving"]
    BY <1>12 DEF Serve
  <2>2. SrvTypeOK'
    BY <1>0, <1>12, <2>1 DEF SrvTypeOK
  <2>3. main \notin Starting
    BY <1>0, <2>1
  <2>4. CASE s = "metadata"
    <3>1. srv'["metadata"] = IF main \in Draining \cup {"closing"} THEN "closed" ELSE "serving"
      BY <1>0, <2>1, <2>4 DEF SrvTypeOK, ShutdownCalled
    <3>2. main \in {"starting", "taints", "wait", "drainMetadata", "drainHealth", "closing"}
      BY <1>0, <2>3 DEF SrvTypeOK
    <3> QED BY <1>0, <1>12, <2>1, <2>2, <2>3, <3>1, <3>2
  <2>5. CASE s = "health"
    <3>1. srv'["metadata"] = srv["metadata"]
      BY <1>0, <2>1, <2>5 DEF SrvTypeOK
    <3> QED BY <1>0, <1>12, <2>1, <2>2, <2>3, <3>1
  <2> QED BY <1>0, <2>4, <2>5
<1>13. ASSUME NEW s \in Servers, ServerStep(s) PROVE ServeInv'
  BY <1>2, <1>11, <1>12, <1>13 DEF ServerStep, Fatal
<1>14. ASSUME NEW s \in Servers, ServeFails(s) PROVE ServeInv'
  <2>1. /\ srv[s] = "serving" /\ srv' = [srv EXCEPT ![s] = "failed"]
        /\ UNCHANGED <<main, done, inflight, expired>>
    BY <1>14 DEF ServeFails
  <2>2. SrvTypeOK' /\ main \notin Starting
    BY <1>0, <2>1 DEF SrvTypeOK
  <2>3. srv'["metadata"] = srv["metadata"] \/ (srv["metadata"] = "serving" /\ srv'["metadata"] = "failed")
    BY <1>0, <2>1 DEF SrvTypeOK
  <2> QED BY <1>0, <2>1, <2>2, <2>3
<1>15. ASSUME NEW r \in Requests, Arrive(r) \/ Finish(r) PROVE ServeInv'
  <2>1. /\ UNCHANGED <<main, srv, done, expired>>
        /\ srv["metadata"] = "serving" \/ inflight' \subseteq inflight
    BY <1>15 DEF Arrive, Finish
  <2> QED BY <1>0, <2>1 DEF SrvTypeOK
<1> QED BY <1>1, <1>2, <1>3, <1>4, <1>5, <1>6, <1>7, <1>8, <1>9, <1>10, <1>13, <1>14, <1>15, ServeCases

-----------------------------------------------------------------------------
(* Types *)

RestTypeOK ==
    /\ setting \in Settings
    /\ lo \in {"absent", "ours", "foreign"}
    /\ live \subseteq Resources
    /\ inflight \subseteq Requests
    /\ probe \in {"idle", "self", "verify"}
    /\ {closeError, expired, signalled, ready} \subseteq BOOLEAN

\* How a step may change the variables that no other invariant is about.
RestMoves ==
    /\ setting' = setting \/ setting' \in Settings
    /\ lo' \in {lo, "ours", "absent"}
    /\ live' \subseteq live \cup Resources
    /\ inflight' \subseteq inflight \cup Requests
    /\ probe' = probe \/ probe' \in {"idle", "self", "verify"}
    /\ closeError' = closeError \/ closeError' \in BOOLEAN
    /\ expired' = expired \/ expired' \in BOOLEAN
    /\ signalled' = signalled \/ signalled' \in BOOLEAN
    /\ ready' = ready \/ ready' \in BOOLEAN

LEMMA RestCases == ASSUME [LifeNext]_allVars PROVE RestMoves
<1> USE DEF RestMoves
<1>1. ASSUME Fatal PROVE RestMoves
  BY <1>1 DEF Fatal, ProcessEnds, worldVars
<1>2. CASE Restart \/ NewServer \/ ServersStarted \/ TaintsRemoved \/ RemoveTaints \/ WriteNode
           \/ ShutdownMetadata \/ ShutdownHealth \/ ShutdownReturns \/ UNCHANGED allVars
  <2>1. UNCHANGED <<setting, lo, live, inflight, probe, closeError, expired, signalled, ready>>
    BY <1>2 DEF Restart, NewServer, ServersStarted, TaintsRemoved, RemoveTaints, WriteNode,
                ShutdownMetadata, ShutdownHealth, ShutdownReturns, allVars, lifeVars, worldVars,
                startVars, serverVars, probeVars
  <2> QED BY <2>1
<1>3. CASE StartProviders \/ GetNode \/ AttachRoute \/ AttachAttestation
  <2>1. CASE Fatal
    BY <1>1, <2>1
  <2>2. CASE ~Fatal
    <3>1. UNCHANGED <<setting, inflight, probe, closeError, expired, signalled, ready>>
      BY <1>3, <2>2 DEF StartProviders, GetNode, AttachRoute, AttachAttestation, worldVars, serverVars,
                        probeVars
    <3>2. lo' \in {lo, "ours"} /\ live' \subseteq live \cup Resources
      BY <1>3, <2>2 DEF StartProviders, GetNode, AttachRoute, AttachLoopback, AttachRedirect,
                        AttachAttestation, worldVars, Resources
    <3> QED BY <3>1, <3>2
  <2> QED BY <2>1, <2>2
<1>4. CASE StartFails \/ MainReturns \/ Crash
  BY <1>1, <1>4 DEF StartFails, MainReturns, Crash
<1>5. CASE \E s \in Servers : ServerStep(s) \/ ServeFails(s)
  <2>1. \/ Fatal
        \/ UNCHANGED <<setting, lo, live, inflight, probe, closeError, expired, signalled, ready>>
    BY <1>5 DEF ServerStep, ServeFails, worldVars, startVars, probeVars
  <2> QED BY <1>1, <2>1
<1>6. CASE \/ \E r \in Requests : Arrive(r) \/ Finish(r)
           \/ GraceExpires
  BY <1>6 DEF Arrive, Finish, GraceExpires, worldVars, startVars, probeVars
<1>7. CASE Readyz
  <2>1. UNCHANGED <<setting, lo, live, inflight, closeError, expired, signalled>>
    BY <1>7 DEF Readyz, worldVars, startVars, serverVars
  <2>2. Verify \in BOOLEAN
    BY DEF Verify
  <2>3. /\ probe' = probe \/ probe' \in {"idle", "self", "verify"}
        /\ ready' = ready \/ ready' \in BOOLEAN
    BY <1>7, <2>2 DEF Readyz, ReadyzStarts, ReadyzAsks, ReadyzVerifies
  <2> QED BY <2>1, <2>3
<1>8. CASE Signal
  BY <1>1, <1>8 DEF Signal, worldVars, startVars, serverVars, probeVars
<1>9. CASE CloseDeferred
  BY <1>9 DEF CloseDeferred, CloseProvider, CloseAttestation, CloseRoute, serverVars, probeVars
<1>10. CASE CloseFails \/ ChangeSetting
  BY <1>10 DEF CloseFails, ChangeSetting, worldVars, startVars, serverVars, probeVars
<1> QED BY <1>2, <1>3, <1>4, <1>5, <1>6, <1>7, <1>8, <1>9, <1>10 DEF LifeNext, MainStep

LEMMA RestTypeStep == ASSUME RestTypeOK, [LifeNext]_allVars PROVE RestTypeOK'
<1>1. RestMoves
  BY RestCases
<1>2. /\ setting' \in Settings /\ lo' \in {"absent", "ours", "foreign"} /\ live' \subseteq Resources
      /\ inflight' \subseteq Requests /\ probe' \in {"idle", "self", "verify"}
  BY <1>1 DEF RestMoves, RestTypeOK
<1>3. closeError' \in BOOLEAN /\ expired' \in BOOLEAN /\ signalled' \in BOOLEAN /\ ready' \in BOOLEAN
  BY <1>1 DEF RestMoves, RestTypeOK
<1> QED BY <1>2, <1>3 DEF RestTypeOK

-----------------------------------------------------------------------------
(* The invariant and what follows from it *)

LEMMA LifeInvariance == LifeSpec => [](RetryInv /\ OpenInv /\ ServeInv /\ RestTypeOK)
<1>1. LifeInit => RetryInv /\ OpenInv /\ ServeInv /\ RestTypeOK
  <2> SUFFICES ASSUME LifeInit PROVE RestTypeOK
    BY InitRetry, OpenInit, ServeInit DEF LifeInit, Init
  <2> QED BY DEF LifeInit, RestTypeOK
<1>2. /\ RetryInv /\ OpenInv /\ ServeInv /\ RestTypeOK
      /\ [LifeNext]_allVars
      => RetryInv' /\ OpenInv' /\ ServeInv' /\ RestTypeOK'
  BY RetryKept, OpenStep, ServeStep, RestTypeStep
<1> QED BY <1>1, <1>2, PTL DEF LifeSpec

\* The types of the variables are the declared ones in every process.
THEOREM LifecycleTypeCorrect == LifeSpec => []LifecycleTypeOK
<1>1. RetryInv /\ OpenInv /\ ServeInv /\ RestTypeOK => LifecycleTypeOK
  BY DEF RetryInv, OpenInv, DeferTypeOK, ServeInv, SrvTypeOK, RestTypeOK, LifecycleTypeOK, Resources,
         Starting, Up, Draining
<1> QED BY <1>1, LifeInvariance, PTL

\* For any number of requests, an accepted one keeps the informers, the cache, the
\* route and the attestation until it is answered or the grace period is over.
THEOREM RequestsAlwaysKeepResources == LifeSpec => []RequestsKeepResources
<1>1. OpenInv /\ ServeInv => RequestsKeepResources
  <2> SUFFICES ASSUME OpenInv, ServeInv, inflight # {}, ~expired
               PROVE  /\ Enabled \cup {"route"} \subseteq live
                      /\ routingMode = "eBPF" => "attest" \in live
                      /\ routingMode = "Loopback" => lo = "ours"
    BY DEF RequestsKeepResources
  <2>1. main \in {"starting", "taints", "wait", "drainMetadata"}
    BY DEF ServeInv, SrvTypeOK, ServingInv, Starting, Up, Draining
  <2> QED BY <2>1 DEF OpenInv, DeferInv, AddressInv, Opened, Up, Draining
<1> QED BY <1>1, LifeInvariance, PTL

\* Whatever a predecessor left, a process that ends in order leaves nothing open
\* and no address behind, unless the call that removes it failed.
THEOREM AlwaysCleanExit == LifeSpec => []CleanExit
<1>1. OpenInv => CleanExit
  <2> SUFFICES ASSUME OpenInv, main = "closing", deferred = <<>>, ~closeError
               PROVE  live = {} /\ (routingMode = "Loopback" => lo # "ours")
    BY DEF CleanExit
  <2>1. Items(deferred) = {}
    BY NoItems
  <2> QED BY <2>1 DEF OpenInv, DeferInv, AddressInv
<1> QED BY <1>1, LifeInvariance, PTL

\* However the two goroutines of server.New are scheduled, taints come off the node
\* only when this process is bound to its socket, routed to and recording.
THEOREM AlwaysUntaintedWhenServing == LifeSpec => UntaintedWhenServing
<1>1. OpenInv /\ ServeInv =>
        [main = "taints" /\ node' # node /\ (Update \/ UpdateFails) =>
            /\ srv["metadata"] \in {"bound", "serving", "failed"}
            /\ "route" \in live
            /\ routingMode = "eBPF" => "attest" \in live]_allVars
  BY DEF OpenInv, DeferInv, Opened, ServeInv, ServingInv
<1> QED BY <1>1, LifeInvariance, PTL DEF UntaintedWhenServing
=============================================================================
