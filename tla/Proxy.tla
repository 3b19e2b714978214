-------------------------------- MODULE Proxy --------------------------------
(***************************************************************************)
(* The listener of internal/proxy, used with eBPF routing: it sniffs the   *)
(* first request of each connection, queues the connection for the inner   *)
(* metadata server if that is a metadata request, and copies the bytes of  *)
(* the connection to and from the real metadata address otherwise.         *)
(*                                                                         *)
(* What a client sends is a sequence of pieces: "meta" and "other" are     *)
(* bytes that complete the path of a metadata request and of any other     *)
(* one, "part" are bytes that complete no path.                            *)
(***************************************************************************)
EXTENDS Integers, Sequences, FiniteSets

CONSTANTS
    Conns,     \* connections clients make
    Streams,   \* what a client may send
    Chunk,     \* pieces one Read returns at most
    SniffCap,  \* sniffCap, in pieces
    QueueCap   \* capacity of the queue

Pieces == {"part", "meta", "other"}

ASSUME ProxyAssumption ==
    /\ IsFiniteSet(Conns)
    /\ Streams \subseteq Seq(Pieces) /\ <<>> \in Streams
    /\ Chunk \in Nat \ {0} /\ SniffCap \in Nat \ {0} /\ QueueCap \in Nat \ {0}

VARIABLES
    handler,  \* control point of the goroutine handle of each connection
    stream,   \* what the client sends
    sent,     \* how much of it has been sent
    eof,      \* the client has closed its side
    taken,    \* how much has been read from the socket
    buf,      \* sniffed pieces that have not been read again yet
    peer,     \* who reads the connection: "server" or "upstream"
    got,      \* what it has read
    up, down, \* the goroutines that copy have ended
    queue,    \* p.queue
    ctxDone,  \* p.ctx is done and the listener closed
    serving,  \* the inner server calls Accept
    activeConnections

clientVars == <<stream, sent, eof>>
connVars == <<taken, buf, got>>
copyVars == <<up, down, activeConnections>>
proxyVars == <<queue, ctxDone, serving>>
vars == <<handler, clientVars, connVars, peer, copyVars, proxyVars>>

All(x) == [c \in Conns |-> x]

Init ==
    /\ handler = All("none")
    /\ stream = All(<<>>) /\ sent = All(0) /\ eof = All(FALSE)
    /\ taken = All(0) /\ buf = All(<<>>) /\ got = All(<<>>)
    /\ peer = All("none")
    /\ up = All(FALSE) /\ down = All(FALSE) /\ activeConnections = 0
    /\ queue = <<>> /\ ctxDone = FALSE /\ serving = TRUE

Go(c, from, to) == handler[c] = from /\ handler' = [handler EXCEPT ![c] = to]

-----------------------------------------------------------------------------
\* Clients (external), and the goroutine that accepts their connections.

Accept(c) ==
    /\ ~ctxDone
    /\ Go(c, "none", "sniff")
    /\ \E s \in Streams : stream' = [stream EXCEPT ![c] = s]
    /\ UNCHANGED <<sent, eof, connVars, peer, copyVars, proxyVars>>

Send(c) ==
    /\ handler[c] # "none" /\ ~eof[c]
    /\ \/ sent[c] < Len(stream[c]) /\ sent' = [sent EXCEPT ![c] = @ + 1] /\ UNCHANGED eof
       \/ eof' = [eof EXCEPT ![c] = TRUE] /\ UNCHANGED sent
    /\ UNCHANGED <<handler, stream, connVars, peer, copyVars, proxyVars>>

\* Close, called by the server or when accepting a connection fails.
Close ==
    /\ ~ctxDone /\ ctxDone' = TRUE
    /\ UNCHANGED <<handler, clientVars, connVars, peer, copyVars, queue, serving>>

-----------------------------------------------------------------------------
\* The goroutine of a connection.

\* What a Read of the socket may return.
Available(c) ==
    {SubSeq(stream[c], taken[c] + 1, taken[c] + n) :
        n \in {k \in 1..Chunk : taken[c] + k <= sent[c]}}
AtEOF(c) == eof[c] /\ taken[c] = sent[c]

RequestPathComplete(b) == \E i \in DOMAIN b : b[i] # "part"

\* The first request line in the buffer is complete and of a metadata request.
IsMetadataRequestAnywhere(b) == \E i \in DOMAIN b : b[i] = "meta"
IsMetadataRequest(b) == \E i \in DOMAIN b : b[i] = "meta" /\ \A j \in 1..(i - 1) : b[j] = "part"

\* Where the handler goes with what it has sniffed.
Route(b) ==
    IF ~RequestPathComplete(b) /\ Len(b) < SniffCap THEN "sniff"
    ELSE IF IsMetadataRequest(b) THEN "enqueue" ELSE "dial"

Sniff(c) ==
    \E piece \in Available(c) :
        /\ Go(c, "sniff", Route(buf[c] \o piece))
        /\ buf' = [buf EXCEPT ![c] = @ \o piece]
        /\ taken' = [taken EXCEPT ![c] = @ + Len(piece)]
        /\ UNCHANGED <<clientVars, got, peer, copyVars, proxyVars>>

SniffFails(c) ==
    /\ AtEOF(c)
    /\ Go(c, "sniff", "closed")
    /\ UNCHANGED <<clientVars, connVars, peer, copyVars, proxyVars>>

\* The send to the queue, and what the handler does when it cannot be made.
EnqueueOrDrop(c) ==
    /\ Go(c, "enqueue", "queued")
    /\ queue' = IF Len(queue) < QueueCap THEN Append(queue, c) ELSE queue
    /\ UNCHANGED <<clientVars, connVars, peer, copyVars, ctxDone, serving>>
Enqueue(c) ==
    /\ Len(queue) < QueueCap
    /\ Go(c, "enqueue", "queued")
    /\ queue' = Append(queue, c)
    /\ UNCHANGED <<clientVars, connVars, peer, copyVars, ctxDone, serving>>

EnqueueNeverAborted(c) == FALSE /\ UNCHANGED vars
EnqueueAborted(c) ==
    /\ ctxDone
    /\ Go(c, "enqueue", "closed")
    /\ UNCHANGED <<clientVars, connVars, peer, copyVars, proxyVars>>

DialFails(c) ==
    /\ Go(c, "dial", "closed")
    /\ UNCHANGED <<clientVars, connVars, peer, copyVars, proxyVars>>

Dial(c) ==
    /\ Go(c, "dial", "copy")
    /\ peer' = [peer EXCEPT ![c] = "upstream"]
    /\ activeConnections' = activeConnections + 1
    /\ UNCHANGED <<clientVars, connVars, up, down, proxyVars>>

\* sniffedConn.Read, by the inner server or by the goroutine that copies upwards:
\* first what was sniffed, then the socket.
ReplayAgain(b, n) == b
Replay(b, n) == SubSeq(b, n + 1, Len(b))

Read(c) ==
    /\ peer[c] = "server" \/ (peer[c] = "upstream" /\ handler[c] = "copy" /\ ~up[c])
    /\ IF buf[c] # <<>>
         THEN \E n \in 1..Len(buf[c]) :
                /\ n <= Chunk
                /\ got' = [got EXCEPT ![c] = @ \o SubSeq(buf[c], 1, n)]
                /\ buf' = [buf EXCEPT ![c] = Replay(@, n)]
                /\ UNCHANGED taken
         ELSE \E piece \in Available(c) :
                /\ got' = [got EXCEPT ![c] = @ \o piece]
                /\ taken' = [taken EXCEPT ![c] = @ + Len(piece)]
                /\ UNCHANGED buf
    /\ UNCHANGED <<handler, clientVars, peer, copyVars, proxyVars>>

\* io.Copy(server, client) ends with the client, or with a write that fails when
\* the upstream has closed the connection.
CopyUpEnds(c) ==
    /\ handler[c] = "copy" /\ ~up[c]
    /\ \/ buf[c] = <<>> /\ AtEOF(c)
       \/ down[c] /\ (buf[c] # <<>> \/ taken[c] < sent[c])
    /\ up' = [up EXCEPT ![c] = TRUE]
    /\ UNCHANGED <<handler, clientVars, connVars, peer, down, activeConnections, proxyVars>>

\* io.Copy(client, server) ends with the upstream (external).
CopyDownEnds(c) ==
    /\ handler[c] = "copy" /\ ~down[c]
    /\ down' = [down EXCEPT ![c] = TRUE]
    /\ UNCHANGED <<handler, clientVars, connVars, peer, up, activeConnections, proxyVars>>

\* Both goroutines are done, and the deferred calls run.
DecTwice == activeConnections' = activeConnections - 2
Dec == activeConnections' = activeConnections - 1

HandleReturns(c) ==
    /\ up[c] /\ down[c]
    /\ Go(c, "copy", "closed")
    /\ Dec
    /\ UNCHANGED <<clientVars, connVars, peer, up, down, proxyVars>>

Handle(c) ==
    \/ Sniff(c) \/ SniffFails(c)
    \/ Enqueue(c) \/ EnqueueAborted(c)
    \/ DialFails(c) \/ Dial(c)
    \/ CopyUpEnds(c) \/ CopyDownEnds(c) \/ HandleReturns(c)

-----------------------------------------------------------------------------
\* The inner server: Accept of the proxy, until it returns net.ErrClosed.

ServerAccepts ==
    /\ serving /\ queue # <<>>
    /\ peer' = [peer EXCEPT ![Head(queue)] = "server"]
    /\ queue' = Tail(queue)
    /\ UNCHANGED <<handler, clientVars, connVars, copyVars, ctxDone, serving>>

ServerStops ==
    /\ serving /\ ctxDone
    /\ serving' = FALSE
    /\ UNCHANGED <<handler, clientVars, connVars, peer, copyVars, queue, ctxDone>>

Next ==
    \/ \E c \in Conns : Accept(c) \/ Send(c) \/ Handle(c) \/ Read(c)
    \/ ServerAccepts \/ ServerStops
    \/ Close

\* Goroutines run when they can, a dial ends within its timeout, the upstream
\* answers a half-closed connection by closing it, a handler that waits for room
\* in the queue is served in its turn, and the inner server accepts.
Fairness ==
    /\ \A c \in Conns :
         /\ WF_vars(Sniff(c) \/ SniffFails(c) \/ EnqueueAborted(c) \/ DialFails(c) \/ Dial(c)
                    \/ HandleReturns(c))
         /\ WF_vars(CopyUpEnds(c)) /\ WF_vars(CopyDownEnds(c)) /\ WF_vars(Read(c))
         /\ SF_vars(Enqueue(c))
    /\ WF_vars(ServerAccepts \/ ServerStops)

Spec == Init /\ [][Next]_vars
FairSpec == Spec /\ Fairness

-----------------------------------------------------------------------------
ProxyTypeOK ==
    /\ handler \in [Conns -> {"none", "sniff", "enqueue", "queued", "dial", "copy", "closed"}]
    /\ stream \in [Conns -> Streams] /\ eof \in [Conns -> BOOLEAN]
    /\ sent \in [Conns -> Nat] /\ taken \in [Conns -> Nat]
    /\ buf \in [Conns -> Seq(Pieces)] /\ got \in [Conns -> Seq(Pieces)]
    /\ peer \in [Conns -> {"none", "server", "upstream"}]
    /\ up \in [Conns -> BOOLEAN] /\ down \in [Conns -> BOOLEAN]
    /\ activeConnections \in Nat
    /\ queue \in Seq(Conns) /\ ctxDone \in BOOLEAN /\ serving \in BOOLEAN

\* What the inner server or the upstream has read, followed by what is sniffed and
\* not read again, is exactly what was taken from the socket: sniffing neither
\* loses, repeats nor reorders anything.
Verbatim == \A c \in Conns : got[c] \o buf[c] = SubSeq(stream[c], 1, taken[c])

\* The proxy implements Relay: however the bytes of a connection are split into
\* reads, whatever follows its first request in the same read, and whoever is closed
\* meanwhile, it goes where that request belongs, once, and what is read there is a
\* prefix of what the client sent.  Only a metadata request whose path does not fit
\* the sniffed bytes is taken for another one.
Relayed == INSTANCE Relay WITH
    input <- [c \in Conns |-> SubSeq(stream[c], 1, sent[c])],
    destination <- peer,
    output <- got
ImplementsRelay == Relayed!RelaySpec

\* When its client has closed, the goroutine of a connection ends: also with a
\* full queue, and also when the proxy has been closed and nobody empties it.
HandlersEnd ==
    \A c \in Conns : (handler[c] # "none" /\ eof[c]) ~> handler[c] \in {"queued", "closed"}

\* A metadata request gets to the inner server although the queue may be full,
\* unless the proxy is closed.
MetadataServed == \A c \in Conns : handler[c] = "enqueue" ~> (peer[c] = "server" \/ ctxDone)
=============================================================================
