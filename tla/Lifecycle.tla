------------------------------ MODULE Lifecycle ------------------------------
(***************************************************************************)
(* The life of the emulator on a node (main.go, server.New and Shutdown,   *)
(* routing, loopback, redirect): one process after another starts its      *)
(* informers, attaches the route to itself, listens, removes the taints,   *)
(* serves, and is stopped by a signal, by a fatal error of any of its      *)
(* goroutines, or by a crash.                                              *)
(*                                                                         *)
(* What outlives a process is the Node object (TaintRemoval), the routing  *)
(* mode set on it, and the address of the metadata server on the loopback  *)
(* interface; eBPF programs vanish with the process that attached them.    *)
(***************************************************************************)
EXTENDS TaintRemoval, Sequences, FiniteSets

CONSTANTS
    Enabled,        \* what the flags turn on: subset of {"pods", "node", "accounts", "cache"}
    Settings,       \* values of the node's annotation and label for the routing mode
    Requests,       \* requests of pods
    MaxDisruptions  \* bound on crashes, failing calls, signals and changes of the mode

ASSUME LifecycleAssumption ==
    /\ Enabled \subseteq {"pods", "node", "accounts", "cache"}
    /\ MaxDisruptions \in Nat

VARIABLES
    setting,      \* annotation and label of the node, "" when absent
    lo,           \* 169.254.169.254 on lo: "absent", "ours" (by its label) or "foreign"
    main,         \* control point of main
    routingMode,  \* local variable of main
    deferred,     \* deferred calls of main, the latest last
    live,         \* informers, cache and eBPF programs that are open
    closeError,   \* a deferred call failed, which is only logged
    srv,          \* control points of the goroutines of server.New
    done,         \* servers that sent to the channel done
    inflight,     \* requests the metadata server has accepted and not answered
    expired,      \* the grace period of the shutdown is over
    signalled,    \* ctx.Done of the signal handler
    probe,        \* control point of the handler of /readyz
    ready,        \* the latest answer of /readyz
    disruptions   \* crashes, failing calls, signals and changes so far

worldVars == <<setting, lo>>
startVars == <<routingMode, deferred, live, closeError>>
serverVars == <<srv, done, inflight, expired>>
probeVars == <<probe, ready>>
lifeVars == <<worldVars, main, startVars, serverVars, signalled, probeVars, disruptions>>
allVars == <<vars, lifeVars>>

Servers == {"metadata", "health"}
RoutingModes == {"eBPF", "Loopback", "None"}

\* getMode: the annotation, else the label, else eBPF.
getMode ==
    CASE setting.annotation # "" -> setting.annotation
      [] setting.label # "" -> setting.label
      [] OTHER -> "eBPF"

LifeInit ==
    /\ Init
    /\ setting \in Settings
    /\ lo \in {"absent", "foreign"}
    /\ main = "down"
    /\ routingMode = "" /\ deferred = <<>> /\ live = {} /\ closeError = FALSE
    /\ srv = [s \in Servers |-> "off"] /\ done = {} /\ inflight = {} /\ expired = FALSE
    /\ signalled = FALSE
    /\ probe = "idle" /\ ready = FALSE
    /\ disruptions = 0

\* Something happens to the process that nobody owes it.
Disrupt == disruptions < MaxDisruptions /\ disruptions' = disruptions + 1

\* The variables of taints.Remove are gone.
RemoveForgotten ==
    /\ \E o \in Operations : op' = WithDefaults(o)
    /\ loop' = "call" /\ attempt' = 1 /\ failures' = 0 /\ delay' = 0
    /\ result' = "pending" /\ lastErr' = "none"
    /\ got' = NoNode /\ func' = "get"

\* The process ends: its memory, sockets and eBPF links are gone.
ProcessEnds ==
    /\ main' = "down"
    /\ routingMode' = "" /\ deferred' = <<>> /\ live' = {} /\ closeError' = FALSE
    /\ srv' = [s \in Servers |-> "off"] /\ done' = {} /\ inflight' = {} /\ expired' = FALSE
    /\ signalled' = FALSE
    /\ probe' = "idle" /\ ready' = FALSE
    /\ RemoveForgotten

\* logrus.Fatal and the signal handler's second signal: os.Exit, no deferred call.
Fatal == ProcessEnds /\ UNCHANGED <<worldVars, node>>

Restart ==
    /\ main = "down"
    /\ main' = "providers"
    /\ UNCHANGED <<vars, worldVars, startVars, serverVars, signalled, probeVars, disruptions>>

-----------------------------------------------------------------------------
(* Start of the process. *)

\* The statement defer.
DeferredUnlessLeftover(r) ==
    IF r = "route" /\ lo = "ours" THEN deferred ELSE Append(deferred, r)
Deferred(r) == Append(deferred, r)

\* The statement defer in a branch of a flag.
DeferredIfEnabled(calls, r) == IF r \in Enabled THEN Append(calls, r) ELSE calls

\* Providers are created with their deferred calls of Close, and informers start.
StartProviders ==
    /\ main = "providers"
    /\ deferred' = LET pods     == DeferredIfEnabled(deferred, "pods")
                       nodes    == DeferredIfEnabled(pods, "node")
                       accounts == DeferredIfEnabled(nodes, "accounts")
                   IN  DeferredIfEnabled(accounts, "cache")
    /\ live' = Enabled
    /\ main' = "node"
    /\ UNCHANGED <<vars, worldVars, routingMode, closeError, serverVars, signalled, probeVars, disruptions>>

\* nodeGetter.Get fails when the context of the signal handler is done.
GetNode ==
    /\ main = "node"
    /\ \/ /\ ~signalled
          /\ routingMode' = getMode
          /\ main' = "route"
          /\ UNCHANGED <<vars, worldVars, deferred, live, closeError, serverVars, signalled, probeVars>>
       \/ signalled /\ Fatal
    /\ UNCHANGED disruptions

\* loopback.LoadAndAttach: an address with another label is not taken over; one
\* with the label of the emulator is what a predecessor left.
AddressTakenByAnyone == lo # "absent"
AddressTaken == lo = "foreign"

AttachLoopback == routingMode = "Loopback" /\ ~AddressTaken /\ lo' = "ours"

\* redirect.LoadAndAttach: connections to the address are redirected by an eBPF program.
AttachRedirect == routingMode = "eBPF" /\ UNCHANGED lo

\* routing.LoadAndAttach: also an unknown mode is an error.
RouteRefused ==
    \/ routingMode \notin RoutingModes
    \/ routingMode = "Loopback" /\ AddressTaken

AttachRoute ==
    /\ main = "route"
    /\ \/ /\ AttachLoopback \/ AttachRedirect \/ (routingMode = "None" /\ UNCHANGED lo)
          /\ deferred' = Deferred("route")
          /\ live' = live \cup {"route"}
          /\ main' = "attest"
          /\ UNCHANGED <<vars, setting, routingMode, closeError, serverVars, signalled, probeVars>>
       \/ RouteRefused /\ Fatal
    /\ UNCHANGED disruptions

\* Only eBPF mode attaches a program for the attestation.
AttachAttestation ==
    /\ main = "attest"
    /\ IF routingMode = "eBPF"
         THEN deferred' = Deferred("attest") /\ live' = live \cup {"attest"}
         ELSE UNCHANGED <<deferred, live>>
    /\ main' = "server"
    /\ UNCHANGED <<vars, worldVars, routingMode, closeError, serverVars, signalled, probeVars, disruptions>>

\* server.New, the two goroutines.
NewServer ==
    /\ main = "server"
    /\ srv' = [metadata |-> "listen", health |-> "announce"]
    /\ main' = "starting"
    /\ UNCHANGED <<vars, worldVars, startVars, done, inflight, expired, signalled, probeVars, disruptions>>

\* A system call or a request of the API server fails: Fatal.
StartFails ==
    /\ \/ main = "node"
       \/ main = "route" /\ routingMode # "None"
       \/ main = "attest" /\ routingMode = "eBPF"
       \/ \E s \in Servers : srv[s] = "listen"
    /\ Disrupt /\ Fatal

\* server.New has received from done twice.
StartedOnce == done # {}
Started == done = Servers

ServersStarted ==
    /\ main = "starting" /\ Started
    /\ main' = "taints"
    /\ UNCHANGED <<vars, worldVars, startVars, serverVars, signalled, probeVars, disruptions>>

\* taints.Remove; a pause ends early only when the context is done.
RemoveTaints ==
    /\ main = "taints"
    /\ \/ Get \/ GetFails \/ Update \/ UpdateFails
       \/ SleepEnds /\ UNCHANGED taintVars
       \/ signalled /\ SleepCancelled /\ UNCHANGED taintVars
    /\ UNCHANGED lifeVars

\* The result of Remove is not looked at.
TaintsRemoved ==
    /\ main = "taints" /\ loop = "returned"
    /\ main' = "wait"
    /\ RemoveForgotten
    /\ UNCHANGED <<node, worldVars, startVars, serverVars, signalled, probeVars, disruptions>>

-----------------------------------------------------------------------------
(* The servers. *)

ShutdownCalled(s) ==
    main \in {"drainHealth", "closing"} \cup (IF s = "metadata" THEN {"drainMetadata"} ELSE {})

\* The goroutine of the metadata server listens, through the proxy in eBPF mode,
\* before it sends to done; the one of the health server sends first.
Listen(s) ==
    \/ /\ s = "metadata" /\ srv[s] = "listen"
       /\ srv' = [srv EXCEPT ![s] = "bound"]
       /\ done' = done \cup {s}
    \/ /\ s = "health" /\ srv[s] = "announce"
       /\ srv' = [srv EXCEPT ![s] = "listen"]
       /\ done' = done \cup {s}

\* Serve returns ErrServerClosed at once when Shutdown was called before.
Serve(s) ==
    /\ srv[s] = (IF s = "metadata" THEN "bound" ELSE "listen")
    /\ srv' = [srv EXCEPT ![s] = IF ShutdownCalled(s) THEN "closed" ELSE "serving"]
    /\ UNCHANGED done

ServerStep(s) ==
    \/ /\ Listen(s) \/ Serve(s)
       /\ UNCHANGED <<vars, worldVars, main, startVars, inflight, expired, signalled, probeVars, disruptions>>
    \/ /\ srv[s] = "failed"
       /\ Fatal
       /\ UNCHANGED disruptions

\* Serve ends with another error: a listener that broke, or any error of accept
\* in the proxy, which then closes itself.
ServeFails(s) ==
    /\ srv[s] = "serving"
    /\ Disrupt
    /\ srv' = [srv EXCEPT ![s] = "failed"]
    /\ UNCHANGED <<vars, worldVars, main, startVars, done, inflight, expired, signalled, probeVars>>

Arrive(r) ==
    /\ srv["metadata"] = "serving" /\ r \notin inflight
    /\ inflight' = inflight \cup {r}
    /\ UNCHANGED <<vars, worldVars, main, startVars, srv, done, expired, signalled, probeVars, disruptions>>

Finish(r) ==
    /\ r \in inflight
    /\ inflight' = inflight \ {r}
    /\ UNCHANGED <<vars, worldVars, main, startVars, srv, done, expired, signalled, probeVars, disruptions>>

\* The handler of /readyz: a request of the server itself, which waits while the
\* listener is not served, then Verify of the attestation.
ReadyzStarts ==
    /\ probe = "idle" /\ srv["health"] = "serving"
    /\ probe' = "self"
    /\ UNCHANGED ready

ReadyzAsks ==
    /\ probe = "self" /\ srv["metadata"] # "bound"
    /\ IF srv["metadata"] = "serving"
         THEN probe' = "verify" /\ UNCHANGED ready
         ELSE probe' = "idle" /\ ready' = FALSE

\* The program has seen the connection of the request; without eBPF nothing is checked.
Verify == routingMode = "eBPF" => "attest" \in live

ReadyzVerifies ==
    /\ probe = "verify"
    /\ probe' = "idle"
    /\ ready' = Verify

Readyz ==
    /\ ReadyzStarts \/ ReadyzAsks \/ ReadyzVerifies
    /\ UNCHANGED <<vars, worldVars, main, startVars, serverVars, signalled, disruptions>>

-----------------------------------------------------------------------------
(* End of the process. *)

\* The first signal cancels the context, the second exits.
Signal ==
    /\ main # "down"
    /\ Disrupt
    /\ \/ /\ ~signalled
          /\ signalled' = TRUE
          /\ UNCHANGED <<vars, worldVars, main, startVars, serverVars, probeVars>>
       \/ signalled /\ Fatal

Crash == main # "down" /\ Disrupt /\ Fatal

\* http.Server.Shutdown closes the listener of a server that serves.
CloseListener(s) == srv' = [srv EXCEPT ![s] = IF @ = "serving" THEN "closed" ELSE @]

ShutdownMetadata ==
    /\ main = "wait" /\ signalled
    /\ main' = "drainMetadata"
    /\ CloseListener("metadata")
    /\ UNCHANGED <<vars, worldVars, startVars, done, inflight, expired, signalled, probeVars, disruptions>>

\* Shutdown returns when its server is idle or the grace period is over.
DrainedAtOnce(idle) == TRUE
Drained(idle) == idle \/ expired

ShutdownHealth ==
    /\ main = "drainMetadata" /\ Drained(inflight = {})
    /\ main' = "drainHealth"
    /\ CloseListener("health")
    /\ UNCHANGED <<vars, worldVars, startVars, done, inflight, expired, signalled, probeVars, disruptions>>

ShutdownReturns ==
    /\ main = "drainHealth" /\ Drained(probe = "idle")
    /\ main' = "closing"
    /\ UNCHANGED <<vars, worldVars, startVars, serverVars, signalled, probeVars, disruptions>>

GraceExpires ==
    /\ main \in {"drainMetadata", "drainHealth"} /\ ~expired
    /\ expired' = TRUE
    /\ UNCHANGED <<vars, worldVars, main, startVars, srv, done, inflight, signalled, probeVars, disruptions>>

\* The latest deferred call is the one of r.
RunsDeferred(r) ==
    /\ main = "closing" /\ deferred # <<>> /\ deferred[Len(deferred)] = r
    /\ deferred' = SubSeq(deferred, 1, Len(deferred) - 1)

\* Close of an informer or of the token cache waits for its goroutines to end.
CloseProvider == \E r \in Enabled : RunsDeferred(r) /\ live' = live \ {r} /\ UNCHANGED lo

CloseAttestation == RunsDeferred("attest") /\ live' = live \ {"attest"} /\ UNCHANGED lo

\* closeRoute takes the address off the interface, or detaches the redirection.
CloseRoute ==
    /\ RunsDeferred("route")
    /\ live' = live \ {"route"}
    /\ lo' = IF routingMode = "Loopback" THEN "absent" ELSE lo

CloseDeferred ==
    /\ CloseProvider \/ CloseAttestation \/ CloseRoute
    /\ UNCHANGED <<vars, setting, main, routingMode, closeError, serverVars, signalled, probeVars, disruptions>>

\* Errors of the route's and of the attestation's closers are logged.
CloseFails ==
    /\ RunsDeferred("attest") \/ (RunsDeferred("route") /\ routingMode # "None")
    /\ Disrupt
    /\ closeError' = TRUE
    /\ UNCHANGED <<vars, worldVars, main, routingMode, live, serverVars, signalled, probeVars>>

MainReturns ==
    /\ main = "closing" /\ deferred = <<>>
    /\ Fatal
    /\ UNCHANGED disruptions

-----------------------------------------------------------------------------
\* The operator sets another routing mode, which the next process will read.
ChangeSetting ==
    /\ Disrupt
    /\ setting' \in Settings \ {setting}
    /\ UNCHANGED <<vars, lo, main, startVars, serverVars, signalled, probeVars>>

WriteNode == OtherWrites /\ UNCHANGED lifeVars

MainStep ==
    \/ StartProviders \/ GetNode \/ AttachRoute \/ AttachAttestation \/ NewServer
    \/ ServersStarted \/ RemoveTaints \/ TaintsRemoved
    \/ ShutdownMetadata \/ ShutdownHealth \/ ShutdownReturns
    \/ CloseDeferred \/ MainReturns

LifeNext ==
    \/ Restart
    \/ MainStep
    \/ StartFails
    \/ \E s \in Servers : ServerStep(s) \/ ServeFails(s)
    \/ \E r \in Requests : Arrive(r) \/ Finish(r)
    \/ Readyz
    \/ Signal \/ Crash \/ GraceExpires \/ CloseFails
    \/ ChangeSetting \/ WriteNode

\* The kubelet restarts the container and goes on asking /readyz, goroutines and
\* the timer of the shutdown run; nothing else is owed.
LifeSpec ==
    /\ LifeInit /\ [][LifeNext]_allVars
    /\ WF_allVars(Restart)
    /\ WF_allVars(MainStep)
    /\ WF_allVars(\E s \in Servers : ServerStep(s))
    /\ WF_allVars(Readyz)
    /\ WF_allVars(GraceExpires)

-----------------------------------------------------------------------------
LifecycleTypeOK ==
    /\ RetryTypeOK
    /\ setting \in Settings
    /\ lo \in {"absent", "ours", "foreign"}
    /\ main \in {"down", "providers", "node", "route", "attest", "server", "starting", "taints",
                 "wait", "drainMetadata", "drainHealth", "closing"}
    /\ deferred \in Seq(Enabled \cup {"route", "attest"})
    /\ live \subseteq Enabled \cup {"route", "attest"}
    /\ srv \in [Servers -> {"off", "listen", "announce", "bound", "serving", "failed", "closed"}]
    /\ done \subseteq Servers
    /\ inflight \subseteq Requests
    /\ probe \in {"idle", "self", "verify"}
    /\ {closeError, expired, signalled, ready} \subseteq BOOLEAN

\* Pods are let onto the node only by a process they can reach: when a write of
\* taints.Remove takes a taint off, the metadata server of this process has bound
\* its socket, the route leads to it, and in eBPF mode connections are recorded
\* for the attestation, however the two goroutines of server.New are scheduled.
UntaintedWhenServing ==
    [][main = "taints" /\ node' # node /\ (Update \/ UpdateFails) =>
          /\ srv["metadata"] \in {"bound", "serving", "failed"}
          /\ "route" \in live
          /\ routingMode = "eBPF" => "attest" \in live]_allVars

\* A request that has been accepted keeps what it uses until it is answered: the
\* informers, the token cache, the route and the attestation are closed behind its
\* back only when the grace period of the shutdown is over.
RequestsKeepResources ==
    inflight # {} /\ ~expired =>
        /\ Enabled \cup {"route"} \subseteq live
        /\ routingMode = "eBPF" => "attest" \in live
        /\ routingMode = "Loopback" => lo = "ours"

\* A process that stops in order leaves nothing behind: before it exits, all it
\* had started is closed and in Loopback mode the address is off the interface,
\* also one it had found there from a predecessor that crashed; unless the call
\* that removes it failed.
CleanExit ==
    main = "closing" /\ deferred = <<>> /\ ~closeError =>
        /\ live = {}
        /\ routingMode = "Loopback" => lo # "ours"

Startable == getMode \in RoutingModes /\ ~(getMode = "Loopback" /\ lo = "foreign")

Serving ==
    /\ main \in {"taints", "wait"} /\ ~signalled
    /\ \A s \in Servers : srv[s] = "serving"

\* Whatever crashes, fatal errors, signals and changes of the routing mode came
\* before, in the end a process serves and is ready, provided that the mode the
\* node asks for is valid and the address is not somebody else's: no end of a
\* process leaves something that keeps its successors from starting, and no
\* shutdown hangs.
ServesAgain == <>[](Startable => Serving /\ ready)
=============================================================================
