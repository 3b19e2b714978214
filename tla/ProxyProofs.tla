----------------------------- MODULE ProxyProofs -----------------------------
(***************************************************************************)
(* Theorems about Proxy: bytes pass verbatim, the gauge is exact, and the  *)
(* proxy implements Relay, for any number of connections, any streams and  *)
(* any sizes of reads, of the sniffed part and of the queue.               *)
(***************************************************************************)
EXTENDS Proxy, FiniteSetTheorems, SequenceTheorems, WellFoundedInduction, TLAPS

\* How much has been sent and taken, and where that is now.
StreamInv ==
    \A c \in Conns :
        /\ handler[c] = "none" => sent[c] = 0
        /\ taken[c] <= sent[c] /\ sent[c] <= Len(stream[c])
        /\ got[c] \o buf[c] = SubSeq(stream[c], 1, taken[c])

\* Who reads the connection at each control point, and why.
RouteInv ==
    \A c \in Conns :
        /\ peer[c] = "none" => got[c] = <<>>
        /\ handler[c] \in {"none", "sniff", "enqueue", "dial"} => peer[c] = "none"
        /\ handler[c] = "enqueue" \/ (handler[c] = "queued" /\ peer[c] = "none") =>
              IsMetadataRequest(buf[c])
        /\ handler[c] = "dial" =>
              /\ ~IsMetadataRequest(buf[c])
              /\ RequestPathComplete(buf[c]) \/ Len(buf[c]) >= SniffCap

\* A connection in the queue is there once and nobody has accepted it.
QueueInv ==
    /\ \A i \in DOMAIN queue : handler[queue[i]] = "queued" /\ peer[queue[i]] = "none"
    /\ \A i, j \in DOMAIN queue : queue[i] = queue[j] => i = j

Copying == {c \in Conns : handler[c] = "copy"}
ActiveExact == activeConnections = Cardinality(Copying)

ProxyInv == ProxyTypeOK /\ StreamInv /\ RouteInv /\ QueueInv /\ ActiveExact

-----------------------------------------------------------------------------
(* Sequences *)

LEMMA Prefixes ==
    ASSUME NEW S, NEW s \in Seq(S), NEW k \in Nat, NEW n \in Nat, k + n <= Len(s)
    PROVE  /\ SubSeq(s, 1, k) \in Seq(S) /\ Len(SubSeq(s, 1, k)) = k
           /\ \A i \in 1..k : SubSeq(s, 1, k)[i] = s[i]
           /\ SubSeq(s, k + 1, k + n) \in Seq(S) /\ Len(SubSeq(s, k + 1, k + n)) = n
           /\ SubSeq(s, 1, k) \o SubSeq(s, k + 1, k + n) = SubSeq(s, 1, k + n)
<1>1. \A i \in 1..(k + n) : s[i] \in S
  OBVIOUS
<1>2. /\ SubSeq(s, 1, k) \in Seq(S) /\ Len(SubSeq(s, 1, k)) = k
      /\ \A i \in 1..k : SubSeq(s, 1, k)[i] = s[i]
  OBVIOUS
<1>3. SubSeq(s, k + 1, k + n) \in Seq(S) /\ Len(SubSeq(s, k + 1, k + n)) = n
  OBVIOUS
<1>4. SubSeq(s, 1, k) \o SubSeq(s, k + 1, k + n) = SubSeq(s, 1, k + n)
  <2>1. 1 \in 1..(Len(s) + 1) /\ k \in (1 - 1)..Len(s) /\ k + n \in k..Len(s)
    OBVIOUS
  <2> QED BY <2>1, ConcatAdjacentSubSeq
<1> QED BY <1>2, <1>3, <1>4

LEMMA Associative ==
    ASSUME NEW a \in Seq(Pieces), NEW b \in Seq(Pieces), NEW d \in Seq(Pieces)
    PROVE  (a \o b) \o d = a \o (b \o d)
BY ConcatAssociative

\* A Read of the socket returns the next pieces.
LEMMA AvailableNext ==
    ASSUME ProxyTypeOK, StreamInv, NEW c \in Conns, NEW piece \in Available(c)
    PROVE  /\ piece \in Seq(Pieces) /\ Len(piece) \in Nat \ {0}
           /\ taken[c] + Len(piece) <= sent[c]
           /\ SubSeq(stream[c], 1, taken[c]) \o piece
                = SubSeq(stream[c], 1, taken[c] + Len(piece))
<1>1. PICK n \in 1..Chunk : /\ taken[c] + n <= sent[c]
                            /\ piece = SubSeq(stream[c], taken[c] + 1, taken[c] + n)
  BY DEF Available
<1>2. /\ stream[c] \in Seq(Pieces) /\ taken[c] \in Nat /\ sent[c] \in Nat
      /\ sent[c] <= Len(stream[c]) /\ n \in Nat \ {0}
  BY ProxyAssumption DEF ProxyTypeOK, StreamInv
<1>3. taken[c] + n <= Len(stream[c])
  BY <1>1, <1>2
<1>4. /\ piece \in Seq(Pieces) /\ Len(piece) = n
      /\ SubSeq(stream[c], 1, taken[c]) \o piece = SubSeq(stream[c], 1, taken[c] + n)
  <2> DEFINE s == stream[c]
             k == taken[c]
  <2>1. s \in Seq(Pieces) /\ k \in Nat /\ n \in Nat /\ k + n <= Len(s)
    BY <1>2, <1>3
  <2>2. piece = SubSeq(s, k + 1, k + n)
    BY <1>1
  <2> HIDE DEF s, k
  <2>3. /\ SubSeq(s, k + 1, k + n) \in Seq(Pieces) /\ Len(SubSeq(s, k + 1, k + n)) = n
        /\ SubSeq(s, 1, k) \o SubSeq(s, k + 1, k + n) = SubSeq(s, 1, k + n)
    BY <2>1, Prefixes
  <2> QED BY <2>2, <2>3 DEF s, k
<1> QED BY <1>1, <1>2, <1>4

-----------------------------------------------------------------------------
(* The invariant *)

LEMMA ProxyInit == Init => ProxyInv
<1> SUFFICES ASSUME Init PROVE ProxyInv  OBVIOUS
<1>1. ProxyTypeOK
  <2>1. <<>> \in Seq(Pieces) /\ <<>> \in Seq(Conns) /\ <<>> \in Streams
    BY ProxyAssumption
  <2>2. /\ stream \in [Conns -> Streams]
        /\ buf \in [Conns -> Seq(Pieces)] /\ got \in [Conns -> Seq(Pieces)]
    BY <2>1 DEF Init, All
  <2>3. /\ eof \in [Conns -> BOOLEAN] /\ up \in [Conns -> BOOLEAN] /\ down \in [Conns -> BOOLEAN]
        /\ sent \in [Conns -> Nat] /\ taken \in [Conns -> Nat]
    BY DEF Init, All
  <2>4. /\ handler \in [Conns -> {"none", "sniff", "enqueue", "queued", "dial", "copy", "closed"}]
        /\ peer \in [Conns -> {"none", "server", "upstream"}]
    BY DEF Init, All
  <2>5. activeConnections \in Nat /\ queue \in Seq(Conns) /\ ctxDone \in BOOLEAN /\ serving \in BOOLEAN
    BY <2>1 DEF Init
  <2> QED BY <2>2, <2>3, <2>4, <2>5 DEF ProxyTypeOK
<1>2. StreamInv
  BY DEF Init, All, StreamInv
<1>3. RouteInv /\ QueueInv
  BY DEF Init, All, RouteInv, QueueInv
<1>4. Copying = {}
  BY DEF Init, All, Copying
<1> QED BY <1>1, <1>2, <1>3, <1>4, FS_EmptySet DEF Init, ProxyInv, ActiveExact

\* Bytes are sent, sniffed and read.
StreamTypeOK ==
    /\ stream \in [Conns -> Streams] /\ sent \in [Conns -> Nat] /\ taken \in [Conns -> Nat]
    /\ buf \in [Conns -> Seq(Pieces)] /\ got \in [Conns -> Seq(Pieces)]

LEMMA StreamStep ==
    ASSUME ProxyInv, [Next]_vars
    PROVE  StreamTypeOK' /\ StreamInv'
<1>0. ProxyTypeOK /\ StreamTypeOK /\ StreamInv
  BY DEF ProxyInv, ProxyTypeOK, StreamTypeOK
<1>a. \A c \in Conns : stream[c] \in Seq(Pieces) /\ Len(stream[c]) \in Nat
  BY <1>0, ProxyAssumption DEF StreamTypeOK
<1>1. ASSUME NEW c \in Conns, Accept(c) PROVE StreamTypeOK' /\ StreamInv'
  <2>1. PICK s \in Streams : stream' = [stream EXCEPT ![c] = s]
    BY <1>1 DEF Accept
  <2>2. /\ handler[c] = "none" /\ handler' = [handler EXCEPT ![c] = "sniff"]
        /\ UNCHANGED <<sent, taken, buf, got>>
    BY <1>1 DEF Accept, Go, connVars
  <2>3. sent[c] = 0 /\ taken[c] = 0 /\ s \in Seq(Pieces) /\ Len(s) \in Nat
    BY <1>0, <2>2, ProxyAssumption DEF StreamInv, StreamTypeOK
  <2>4. SubSeq(s, 1, 0) = SubSeq(stream[c], 1, 0)
    BY <1>a, <2>3
  <2>5. StreamTypeOK'
    BY <1>0, <2>1, <2>2 DEF StreamTypeOK
  <2>6. ASSUME NEW d \in Conns
        PROVE  /\ handler'[d] = "none" => sent'[d] = 0
               /\ taken'[d] <= sent'[d] /\ sent'[d] <= Len(stream'[d])
               /\ got'[d] \o buf'[d] = SubSeq(stream'[d], 1, taken'[d])
    <3>1. CASE d # c
      <4>1. stream'[d] = stream[d] /\ handler'[d] = handler[d]
        BY <1>0, <2>1, <2>2, <3>1 DEF StreamTypeOK, ProxyTypeOK
      <4> QED BY <1>0, <2>2, <4>1 DEF StreamInv
    <3>2. CASE d = c
      <4>1. stream'[d] = s /\ handler'[d] = "sniff"
        BY <1>0, <2>1, <2>2, <3>2 DEF StreamTypeOK, ProxyTypeOK
      <4>2. got[c] \o buf[c] = SubSeq(stream[c], 1, 0)
        BY <1>0, <2>3 DEF StreamInv
      <4> QED BY <2>2, <2>3, <2>4, <3>2, <4>1, <4>2
    <3> QED BY <3>1, <3>2
  <2> QED BY <2>5, <2>6 DEF StreamInv
<1>2. ASSUME NEW c \in Conns, Send(c) PROVE StreamTypeOK' /\ StreamInv'
  <2>1. /\ handler[c] # "none" /\ UNCHANGED <<handler, stream, taken, buf, got>>
        /\ \/ sent' = sent
           \/ sent[c] < Len(stream[c]) /\ sent' = [sent EXCEPT ![c] = @ + 1]
    BY <1>2 DEF Send, connVars
  <2>2. /\ sent[c] \in Nat /\ Len(stream[c]) \in Nat /\ taken[c] \in Nat
        /\ taken[c] <= sent[c] /\ sent[c] <= Len(stream[c])
    <3>1. sent[c] \in Nat /\ taken[c] \in Nat
      BY <1>0 DEF StreamTypeOK
    <3> QED BY <1>0, <1>a, <3>1 DEF StreamInv
  <2>a. StreamTypeOK'
    <3>1. sent' \in [Conns -> Nat]
      BY <1>0, <2>1, <2>2 DEF StreamTypeOK
    <3> QED BY <1>0, <2>1, <3>1 DEF StreamTypeOK
  <2>3. /\ sent[c] <= sent'[c] /\ sent'[c] <= Len(stream[c]) /\ sent'[c] \in Nat
        /\ \A d \in Conns \ {c} : sent'[d] = sent[d]
    BY <1>0, <2>1, <2>2 DEF StreamInv, StreamTypeOK
  <2>4. taken[c] <= sent'[c]
    BY <2>2, <2>3
  <2>5. \A d \in Conns : /\ handler[d] = "none" => sent'[d] = 0
                         /\ taken[d] <= sent'[d] /\ sent'[d] <= Len(stream[d])
    BY <1>0, <2>1, <2>3, <2>4 DEF StreamInv
  <2> QED BY <1>0, <2>1, <2>a, <2>5 DEF StreamInv
<1>3. ASSUME NEW c \in Conns, Sniff(c) PROVE StreamTypeOK' /\ StreamInv'
  <2>1. PICK piece \in Available(c) :
          /\ handler[c] = "sniff"
          /\ handler' = [handler EXCEPT ![c] = Route(buf[c] \o piece)]
          /\ buf' = [buf EXCEPT ![c] = @ \o piece]
          /\ taken' = [taken EXCEPT ![c] = @ + Len(piece)]
          /\ UNCHANGED <<stream, sent, got>>
    BY <1>3 DEF Sniff, Go, clientVars
  <2>2. /\ piece \in Seq(Pieces) /\ Len(piece) \in Nat \ {0}
        /\ taken[c] + Len(piece) <= sent[c]
        /\ SubSeq(stream[c], 1, taken[c]) \o piece = SubSeq(stream[c], 1, taken[c] + Len(piece))
    BY <1>0, AvailableNext
  <2>3. got[c] \o (buf[c] \o piece) = SubSeq(stream[c], 1, taken[c] + Len(piece))
    <3>1. (got[c] \o buf[c]) \o piece = got[c] \o (buf[c] \o piece)
      <4>1. got[c] \in Seq(Pieces) /\ buf[c] \in Seq(Pieces)
        BY <1>0 DEF StreamTypeOK
      <4> QED BY <2>2, <4>1, Associative
    <3> QED BY <1>0, <2>2, <3>1 DEF StreamInv
  <2>4. buf[c] \o piece \in Seq(Pieces) /\ taken[c] + Len(piece) \in Nat
    BY <1>0, <2>2 DEF StreamTypeOK
  <2>5. handler'[c] # "none"
    BY <1>0, <2>1 DEF Route, ProxyTypeOK
  <2> QED BY <1>0, <2>1, <2>2, <2>3, <2>4, <2>5 DEF StreamInv, StreamTypeOK, ProxyTypeOK
<1>4. ASSUME NEW c \in Conns, Read(c) PROVE StreamTypeOK' /\ StreamInv'
  <2>0. UNCHANGED <<handler, stream, sent>> /\ buf[c] \in Seq(Pieces) /\ got[c] \in Seq(Pieces)
    BY <1>0, <1>4 DEF Read, clientVars, StreamTypeOK
  <2>1. CASE buf[c] # <<>>
    <3>1. PICK n \in 1..Len(buf[c]) :
            /\ got' = [got EXCEPT ![c] = @ \o SubSeq(buf[c], 1, n)]
            /\ buf' = [buf EXCEPT ![c] = SubSeq(@, n + 1, Len(@))]
            /\ taken' = taken
      BY <1>4, <2>1 DEF Read, Replay
    <3>2. /\ SubSeq(buf[c], 1, n) \in Seq(Pieces)
          /\ SubSeq(buf[c], n + 1, Len(buf[c])) \in Seq(Pieces)
          /\ SubSeq(buf[c], 1, n) \o SubSeq(buf[c], n + 1, Len(buf[c])) = buf[c]
      <4>1. /\ n \in Nat /\ Len(buf[c]) - n \in Nat /\ n + (Len(buf[c]) - n) = Len(buf[c])
        BY <2>0, <3>1
      <4>2. SubSeq(buf[c], 1, Len(buf[c])) = buf[c]
        BY <2>0, SubSeqFull
      <4> QED BY <2>0, <4>1, <4>2, Prefixes
    <3>3. (got[c] \o SubSeq(buf[c], 1, n)) \o SubSeq(buf[c], n + 1, Len(buf[c])) = got[c] \o buf[c]
      <4> DEFINE a == SubSeq(buf[c], 1, n)
                 b == SubSeq(buf[c], n + 1, Len(buf[c]))
      <4>1. a \in Seq(Pieces) /\ b \in Seq(Pieces) /\ a \o b = buf[c]
        BY <3>2
      <4> HIDE DEF a, b
      <4>2. (got[c] \o a) \o b = got[c] \o (a \o b)
        BY <2>0, <4>1, Associative
      <4> QED BY <4>1, <4>2 DEF a, b
    <3>4. got[c] \o SubSeq(buf[c], 1, n) \in Seq(Pieces)
      BY <2>0, <3>2
    <3> QED BY <1>0, <2>0, <3>1, <3>2, <3>3, <3>4 DEF StreamInv, StreamTypeOK
  <2>2. CASE buf[c] = <<>>
    <3>1. PICK piece \in Available(c) :
            /\ got' = [got EXCEPT ![c] = @ \o piece]
            /\ taken' = [taken EXCEPT ![c] = @ + Len(piece)]
            /\ buf' = buf
      BY <1>4, <2>2 DEF Read
    <3>2. /\ piece \in Seq(Pieces) /\ Len(piece) \in Nat \ {0}
          /\ taken[c] + Len(piece) <= sent[c]
          /\ SubSeq(stream[c], 1, taken[c]) \o piece = SubSeq(stream[c], 1, taken[c] + Len(piece))
      BY <1>0, AvailableNext
    <3>3. got[c] \o <<>> = got[c] /\ (got[c] \o piece) \o <<>> = got[c] \o piece
          /\ got[c] \o piece \in Seq(Pieces) /\ taken[c] + Len(piece) \in Nat
      BY <1>0, <2>0, <3>2 DEF StreamTypeOK
    <3>4. (got[c] \o piece) \o buf[c] = SubSeq(stream[c], 1, taken[c] + Len(piece))
      BY <1>0, <2>2, <3>2, <3>3 DEF StreamInv
    <3> QED BY <1>0, <2>0, <3>1, <3>2, <3>3, <3>4 DEF StreamInv, StreamTypeOK
  <2> QED BY <2>1, <2>2
<1>5. CASE \/ \E c \in Conns : \/ SniffFails(c) \/ Enqueue(c) \/ EnqueueAborted(c) \/ DialFails(c)
                               \/ Dial(c) \/ CopyUpEnds(c) \/ CopyDownEnds(c) \/ HandleReturns(c)
           \/ ServerAccepts \/ ServerStops \/ Close \/ UNCHANGED vars
  <2>1. UNCHANGED <<stream, sent, taken, buf, got>>
    BY <1>5 DEF SniffFails, Enqueue, EnqueueAborted, DialFails, Dial, CopyUpEnds, CopyDownEnds,
                HandleReturns, ServerAccepts, ServerStops, Close, vars, clientVars, connVars
  <2>2. \A c \in Conns : handler'[c] = "none" => handler[c] = "none"
    BY <1>0, <1>5 DEF Go, SniffFails, Enqueue, EnqueueAborted, DialFails, Dial, CopyUpEnds,
                CopyDownEnds, HandleReturns, ServerAccepts, ServerStops, Close, vars, ProxyTypeOK
  <2> QED BY <1>0, <2>1, <2>2 DEF StreamInv, StreamTypeOK
<1> QED BY <1>1, <1>2, <1>3, <1>4, <1>5 DEF Next, Handle

\* The other actions move one handler, or none.
Moves(c) ==
    \/ Accept(c) \/ Send(c) \/ SniffFails(c) \/ EnqueueAborted(c) \/ DialFails(c)
    \/ CopyUpEnds(c) \/ CopyDownEnds(c) \/ HandleReturns(c)

LEMMA MovesOne ==
    ASSUME ProxyTypeOK, NEW c \in Conns, Moves(c)
    PROVE  /\ UNCHANGED <<peer, queue, buf, got>>
           /\ \A d \in Conns : handler'[d] # handler[d] =>
                 /\ handler[d] # "queued"
                 /\ handler'[d] \in {"sniff", "closed"}
                 /\ handler'[d] = "sniff" => handler[d] = "none"
<1>1. UNCHANGED <<peer, queue, buf, got>>
  BY DEF Moves, Accept, Send, SniffFails, EnqueueAborted, DialFails, CopyUpEnds, CopyDownEnds,
         HandleReturns, connVars, proxyVars
<1>2. \/ handler' = handler
      \/ handler[c] = "none" /\ handler' = [handler EXCEPT ![c] = "sniff"]
      \/ /\ handler[c] \in {"sniff", "enqueue", "dial", "copy"}
         /\ handler' = [handler EXCEPT ![c] = "closed"]
  BY DEF Moves, Accept, Send, SniffFails, EnqueueAborted, DialFails, CopyUpEnds, CopyDownEnds,
         HandleReturns, Go
<1> QED BY <1>1, <1>2 DEF ProxyTypeOK

LEMMA RouteStep ==
    ASSUME ProxyInv, [Next]_vars
    PROVE  RouteInv'
<1>0. ProxyTypeOK /\ RouteInv /\ QueueInv
  BY DEF ProxyInv
<1>1. ASSUME NEW c \in Conns, Moves(c) PROVE RouteInv'
  <2>1. /\ UNCHANGED <<peer, buf, got>>
        /\ \A d \in Conns : handler'[d] # handler[d] =>
              /\ handler'[d] \in {"sniff", "closed"}
              /\ handler'[d] = "sniff" => handler[d] = "none"
    BY <1>0, <1>1, MovesOne
  <2> QED BY <1>0, <2>1 DEF RouteInv
<1>2. ASSUME NEW c \in Conns, Sniff(c) PROVE RouteInv'
  <2>1. PICK piece \in Available(c) :
          /\ handler[c] = "sniff"
          /\ handler' = [handler EXCEPT ![c] = Route(buf[c] \o piece)]
          /\ buf' = [buf EXCEPT ![c] = @ \o piece]
          /\ UNCHANGED <<peer, got>>
    BY <1>2 DEF Sniff, Go
  <2> DEFINE b == buf[c] \o piece
  <2>2. handler'[c] = Route(b) /\ buf'[c] = b /\ peer[c] = "none"
    BY <1>0, <2>1 DEF ProxyTypeOK, RouteInv
  <2>3. b \in Seq(Pieces) /\ Len(b) \in Int /\ SniffCap \in Int
    <3>1. piece \in Seq(Pieces) /\ buf[c] \in Seq(Pieces)
      BY <1>0, AvailableNext DEF ProxyInv, ProxyTypeOK
    <3> QED BY <3>1, ProxyAssumption
  <2>4. \A d \in Conns \ {c} : handler'[d] = handler[d] /\ buf'[d] = buf[d]
    BY <1>0, <2>1 DEF ProxyTypeOK
  <2> HIDE DEF b
  <2>5. /\ Route(b) \in {"sniff", "enqueue", "dial"}
        /\ Route(b) = "enqueue" => IsMetadataRequest(b)
        /\ Route(b) = "dial" =>
              /\ ~IsMetadataRequest(b)
              /\ RequestPathComplete(b) \/ Len(b) >= SniffCap
    BY <2>3 DEF Route
  <2>6. got'[c] = <<>> /\ peer'[c] = "none"
    BY <1>0, <2>1, <2>2 DEF RouteInv
  <2> QED BY <1>0, <2>1, <2>2, <2>4, <2>5, <2>6 DEF RouteInv
<1>3. ASSUME NEW c \in Conns, Enqueue(c) PROVE RouteInv'
  <2>1. /\ handler[c] = "enqueue" /\ handler' = [handler EXCEPT ![c] = "queued"]
        /\ UNCHANGED <<peer, buf, got>>
    BY <1>3 DEF Enqueue, Go, connVars
  <2>2. handler'[c] = "queued" /\ \A d \in Conns \ {c} : handler'[d] = handler[d]
    BY <1>0, <2>1 DEF ProxyTypeOK
  <2> QED BY <1>0, <2>1, <2>2 DEF RouteInv
<1>4. ASSUME NEW c \in Conns, Dial(c) PROVE RouteInv'
  <2>1. /\ handler[c] = "dial" /\ handler' = [handler EXCEPT ![c] = "copy"]
        /\ peer' = [peer EXCEPT ![c] = "upstream"]
        /\ UNCHANGED <<buf, got>>
    BY <1>4 DEF Dial, Go, connVars
  <2>2. /\ handler'[c] = "copy" /\ peer'[c] = "upstream"
        /\ \A d \in Conns \ {c} : handler'[d] = handler[d] /\ peer'[d] = peer[d]
    BY <1>0, <2>1 DEF ProxyTypeOK
  <2> QED BY <1>0, <2>1, <2>2 DEF RouteInv
<1>5. ASSUME NEW c \in Conns, Read(c) PROVE RouteInv'
  <2>1. /\ UNCHANGED <<handler, peer>> /\ peer[c] # "none"
        /\ \A d \in Conns \ {c} : buf'[d] = buf[d] /\ got'[d] = got[d]
    BY <1>0, <1>5 DEF Read, ProxyTypeOK
  <2>2. handler[c] \notin {"none", "sniff", "enqueue", "dial"}
    BY <1>0, <2>1 DEF RouteInv
  <2> QED BY <1>0, <2>1, <2>2 DEF RouteInv
<1>6. CASE ServerAccepts
  <2>1. /\ queue \in Seq(Conns) /\ queue # <<>>
        /\ peer' = [peer EXCEPT ![Head(queue)] = "server"]
        /\ UNCHANGED <<handler, buf, got>>
    BY <1>0, <1>6 DEF ServerAccepts, connVars, ProxyTypeOK
  <2>2. Head(queue) \in Conns /\ 1 \in DOMAIN queue /\ queue[1] = Head(queue)
    BY <2>1
  <2>3. handler[Head(queue)] = "queued"
    BY <1>0, <2>2 DEF QueueInv
  <2>4. peer'[Head(queue)] = "server" /\ \A d \in Conns \ {Head(queue)} : peer'[d] = peer[d]
    BY <1>0, <2>1, <2>2 DEF ProxyTypeOK
  <2> QED BY <1>0, <2>1, <2>2, <2>3, <2>4 DEF RouteInv
<1>7. CASE ServerStops \/ Close \/ UNCHANGED vars
  <2>1. UNCHANGED <<handler, peer, buf, got>>
    BY <1>7 DEF ServerStops, Close, vars, connVars
  <2> QED BY <1>0, <2>1 DEF RouteInv
<1> QED BY <1>1, <1>2, <1>3, <1>4, <1>5, <1>6, <1>7 DEF Next, Handle, Moves

LEMMA QueueStep ==
    ASSUME ProxyInv, [Next]_vars
    PROVE  QueueInv' /\ queue' \in Seq(Conns)
<1>0. ProxyTypeOK /\ RouteInv /\ QueueInv /\ queue \in Seq(Conns)
  BY DEF ProxyInv, ProxyTypeOK
<1>a. \A i \in DOMAIN queue : queue[i] \in Conns
  BY <1>0
<1>1. CASE /\ queue' = queue
           /\ \A d \in Conns : handler[d] = "queued" => handler'[d] = "queued" /\ peer'[d] = peer[d]
  BY <1>0, <1>1, <1>a DEF QueueInv
<1>2. ASSUME NEW c \in Conns, Moves(c) PROVE QueueInv' /\ queue' \in Seq(Conns)
  BY <1>0, <1>1, <1>2, MovesOne
<1>3. ASSUME NEW c \in Conns, Sniff(c) \/ Dial(c) \/ Read(c)
      PROVE QueueInv' /\ queue' \in Seq(Conns)
  <2>1. queue' = queue
    BY <1>3 DEF Sniff, Dial, Read, proxyVars
  <2>2. \A d \in Conns : handler[d] = "queued" => handler'[d] = "queued" /\ peer'[d] = peer[d]
    BY <1>0, <1>3 DEF Sniff, Dial, Read, Go, ProxyTypeOK
  <2> QED BY <1>1, <2>1, <2>2
<1>4. ASSUME NEW c \in Conns, Enqueue(c) PROVE QueueInv' /\ queue' \in Seq(Conns)
  <2>1. /\ handler[c] = "enqueue" /\ handler' = [handler EXCEPT ![c] = "queued"]
        /\ queue' = Append(queue, c) /\ UNCHANGED peer
    BY <1>4 DEF Enqueue, Go
  <2>2. handler'[c] = "queued" /\ \A d \in Conns \ {c} : handler'[d] = handler[d]
    BY <1>0, <2>1 DEF ProxyTypeOK
  <2>3. /\ queue' \in Seq(Conns) /\ DOMAIN queue' = DOMAIN queue \cup {Len(queue) + 1}
        /\ queue'[Len(queue) + 1] = c /\ \A i \in DOMAIN queue : queue'[i] = queue[i]
    BY <1>0, <2>1, AppendProperties
  <2>4. peer[c] = "none" /\ \A i \in DOMAIN queue : queue[i] # c
    BY <1>0, <2>1 DEF QueueInv, RouteInv
  <2>5. \A i \in DOMAIN queue' : handler'[queue'[i]] = "queued" /\ peer'[queue'[i]] = "none"
    BY <1>0, <1>a, <2>1, <2>2, <2>3, <2>4 DEF QueueInv
  <2>6. \A i, j \in DOMAIN queue' : queue'[i] = queue'[j] => i = j
    BY <1>0, <2>3, <2>4 DEF QueueInv
  <2> QED BY <2>3, <2>5, <2>6 DEF QueueInv
<1>5. CASE ServerAccepts
  <2>1. /\ queue # <<>> /\ queue' = Tail(queue) /\ UNCHANGED handler
        /\ peer' = [peer EXCEPT ![Head(queue)] = "server"]
    BY <1>5 DEF ServerAccepts
  <2>2. /\ queue' \in Seq(Conns) /\ 1 \in DOMAIN queue /\ Head(queue) = queue[1]
        /\ \A i \in DOMAIN queue' : i + 1 \in DOMAIN queue /\ queue'[i] = queue[i + 1] /\ i \in Nat \ {0}
    BY <1>0, <2>1
  <2>3. \A i \in DOMAIN queue' : queue'[i] # Head(queue) /\ queue'[i] \in Conns
    BY <1>0, <1>a, <2>2 DEF QueueInv
  <2>4. \A d \in Conns : d # Head(queue) => peer'[d] = peer[d]
    BY <1>0, <2>1 DEF ProxyTypeOK
  <2>5. \A i \in DOMAIN queue' : handler'[queue'[i]] = "queued" /\ peer'[queue'[i]] = "none"
    BY <1>0, <2>1, <2>2, <2>3, <2>4 DEF QueueInv
  <2>6. \A i, j \in DOMAIN queue' : queue'[i] = queue'[j] => i = j
    <3> SUFFICES ASSUME NEW i \in DOMAIN queue', NEW j \in DOMAIN queue', queue'[i] = queue'[j]
                 PROVE  i = j
      OBVIOUS
    <3>1. i + 1 = j + 1
      BY <1>0, <2>2 DEF QueueInv
    <3> QED BY <2>2, <3>1
  <2> QED BY <2>2, <2>5, <2>6 DEF QueueInv
<1>6. CASE ServerStops \/ Close \/ UNCHANGED vars
  BY <1>0, <1>1, <1>6 DEF ServerStops, Close, vars, proxyVars
<1> QED BY <1>2, <1>3, <1>4, <1>5, <1>6 DEF Next, Handle, Moves

LEMMA ActiveStep ==
    ASSUME ProxyInv, [Next]_vars
    PROVE  ActiveExact'
<1>0. ProxyTypeOK /\ ActiveExact /\ IsFiniteSet(Copying)
  BY ProxyAssumption, FS_Subset DEF ProxyInv, Copying
<1>1. CASE Copying' = Copying /\ activeConnections' = activeConnections
  BY <1>0, <1>1 DEF ActiveExact
<1>2. ASSUME NEW c \in Conns,
             \/ Accept(c) \/ Send(c) \/ Read(c)
             \/ Sniff(c) \/ SniffFails(c) \/ Enqueue(c) \/ EnqueueAborted(c) \/ DialFails(c)
             \/ CopyUpEnds(c) \/ CopyDownEnds(c)
      PROVE  ActiveExact'
  <2>1. activeConnections' = activeConnections
    BY <1>2 DEF Accept, Send, Read, Sniff, SniffFails, Enqueue, EnqueueAborted, DialFails,
                CopyUpEnds, CopyDownEnds, copyVars
  <2>2. \/ handler' = handler
        \/ handler[c] # "copy" /\ \E h : h # "copy" /\ handler' = [handler EXCEPT ![c] = h]
    BY <1>2 DEF Accept, Send, Read, Sniff, Route, SniffFails, Enqueue, EnqueueAborted, DialFails,
                CopyUpEnds, CopyDownEnds, Go
  <2>3. \A d \in Conns : handler'[d] = "copy" <=> handler[d] = "copy"
    BY <1>0, <2>2 DEF ProxyTypeOK
  <2> QED BY <1>1, <2>1, <2>3 DEF Copying
<1>3. ASSUME NEW c \in Conns, Dial(c) PROVE ActiveExact'
  <2>1. /\ handler[c] = "dial" /\ handler' = [handler EXCEPT ![c] = "copy"]
        /\ activeConnections' = activeConnections + 1
    BY <1>3 DEF Dial, Go
  <2>2. c \notin Copying /\ Copying' = Copying \cup {c}
    BY <1>0, <2>1 DEF Copying, ProxyTypeOK
  <2> QED BY <1>0, <2>1, <2>2, FS_AddElement DEF ActiveExact
<1>4. ASSUME NEW c \in Conns, HandleReturns(c) PROVE ActiveExact'
  <2>1. /\ handler[c] = "copy" /\ handler' = [handler EXCEPT ![c] = "closed"]
        /\ activeConnections' = activeConnections - 1
    BY <1>4 DEF HandleReturns, Go, Dec
  <2>2. c \in Copying /\ Copying' = Copying \ {c}
    BY <1>0, <2>1 DEF Copying, ProxyTypeOK
  <2> QED BY <1>0, <2>1, <2>2, FS_RemoveElement DEF ActiveExact
<1>5. CASE ServerAccepts \/ ServerStops \/ Close \/ UNCHANGED vars
  BY <1>1, <1>5 DEF ServerAccepts, ServerStops, Close, vars, copyVars, Copying
<1> QED BY <1>2, <1>3, <1>4, <1>5 DEF Next, Handle

LEMMA ProxyTypeStep ==
    ASSUME ProxyInv, [Next]_vars
    PROVE  ProxyTypeOK'
<1>0. ProxyTypeOK
  BY DEF ProxyInv
<1>1. StreamTypeOK' /\ queue' \in Seq(Conns)
  BY StreamStep, QueueStep
<1>2. activeConnections' \in Nat
  <2>1. Copying' \subseteq Conns /\ IsFiniteSet(Conns)
    BY ProxyAssumption DEF Copying
  <2>2. Cardinality(Copying') \in Nat
    BY <2>1, FS_Subset, FS_CardinalityType
  <2> QED BY <2>2, ActiveStep DEF ActiveExact
<1>3. handler' \in [Conns -> {"none", "sniff", "enqueue", "queued", "dial", "copy", "closed"}]
  <2>1. \/ handler' = handler
        \/ \E c, h : /\ handler' = [handler EXCEPT ![c] = h]
                     /\ h \in {"sniff", "enqueue", "queued", "dial", "copy", "closed"}
    <3>1. ASSUME NEW c, Go(c, "sniff", "closed") \/ Go(c, "none", "sniff") \/ Go(c, "enqueue", "queued")
                        \/ Go(c, "enqueue", "closed") \/ Go(c, "dial", "closed")
                        \/ Go(c, "dial", "copy") \/ Go(c, "copy", "closed")
                        \/ \E b : Go(c, "sniff", Route(b))
          PROVE  \E h : /\ handler' = [handler EXCEPT ![c] = h]
                         /\ h \in {"sniff", "enqueue", "queued", "dial", "copy", "closed"}
      BY <3>1 DEF Go, Route
    <3> QED BY <3>1 DEF Next, Handle, Accept, Send, Read, Sniff, SniffFails, Enqueue, EnqueueAborted,
              DialFails, Dial, CopyUpEnds, CopyDownEnds, HandleReturns, ServerAccepts, ServerStops,
              Close, vars
  <2> QED BY <1>0, <2>1 DEF ProxyTypeOK
<1>4. peer' \in [Conns -> {"none", "server", "upstream"}]
  <2>1. \/ peer' = peer
        \/ \E c : peer' = [peer EXCEPT ![c] = "server"] \/ peer' = [peer EXCEPT ![c] = "upstream"]
    BY DEF Next, Handle, Accept, Send, Read, Sniff, SniffFails, Enqueue, EnqueueAborted, DialFails,
           Dial, CopyUpEnds, CopyDownEnds, HandleReturns, ServerAccepts, ServerStops, Close, vars
  <2> QED BY <1>0, <2>1 DEF ProxyTypeOK
<1>5. eof' \in [Conns -> BOOLEAN] /\ up' \in [Conns -> BOOLEAN] /\ down' \in [Conns -> BOOLEAN]
  <2>1. /\ eof' = eof \/ \E c : eof' = [eof EXCEPT ![c] = TRUE]
        /\ up' = up \/ \E c : up' = [up EXCEPT ![c] = TRUE]
        /\ down' = down \/ \E c : down' = [down EXCEPT ![c] = TRUE]
    BY DEF Next, Handle, Accept, Send, Read, Sniff, SniffFails, Enqueue, EnqueueAborted, DialFails,
           Dial, CopyUpEnds, CopyDownEnds, HandleReturns, ServerAccepts, ServerStops, Close,
           vars, clientVars, copyVars
  <2> QED BY <1>0, <2>1, Zenon DEF ProxyTypeOK
<1>6. ctxDone' \in BOOLEAN /\ serving' \in BOOLEAN
  BY <1>0 DEF Next, Handle, Accept, Send, Read, Sniff, SniffFails, Enqueue, EnqueueAborted,
              DialFails, Dial, CopyUpEnds, CopyDownEnds, HandleReturns, ServerAccepts, ServerStops,
              Close, vars, proxyVars, ProxyTypeOK
<1> QED BY <1>1, <1>2, <1>3, <1>4, <1>5, <1>6 DEF ProxyTypeOK, StreamTypeOK

LEMMA ProxyInvariance == Spec => []ProxyInv
<1>1. ProxyInv /\ [Next]_vars => ProxyInv'
  BY ProxyTypeStep, StreamStep, RouteStep, QueueStep, ActiveStep DEF ProxyInv
<1> QED BY ProxyInit, <1>1, PTL DEF Spec

\* The types of the variables are the declared ones.
THEOREM ProxyTypeCorrect == Spec => []ProxyTypeOK
<1>1. ProxyInv => ProxyTypeOK
  BY DEF ProxyInv
<1> QED BY <1>1, ProxyInvariance, PTL

\* Sniffing neither loses, repeats nor reorders anything, for any streams and reads.
THEOREM AlwaysVerbatim == Spec => []Verbatim
<1>1. ProxyInv => Verbatim
  BY DEF ProxyInv, StreamInv, Verbatim
<1> QED BY <1>1, ProxyInvariance, PTL

\* The gauge of active connections is the number of handlers that copy, whichever
\* way each of them ends.
THEOREM ActiveAlwaysExact == Spec => []ActiveExact
<1>1. ProxyInv => ActiveExact
  BY DEF ProxyInv
<1> QED BY <1>1, ProxyInvariance, PTL

-----------------------------------------------------------------------------
(* The proxy implements Relay *)

Input == [c \in Conns |-> SubSeq(stream[c], 1, sent[c])]

LEMMA LeastElement ==
    ASSUME NEW T \in SUBSET Nat, T # {}
    PROVE  \E x \in T : \A y \in T : x <= y
<1> DEFINE R == {ss \in Nat \X Nat : ss[1] < ss[2]}
<1>1. IsWellFoundedOn(R, Nat)
  BY NatLessThanWellFounded DEF OpToRel
<1>2. \A x, y \in Nat : y < x => <<y, x>> \in R
  OBVIOUS
<1> HIDE DEF R
<1>3. PICK x \in T : \A y \in T : ~(<<y, x>> \in R)
  BY <1>1, WFMin
<1>4. \A y \in T : ~(y < x)
  BY <1>2, <1>3
<1>5. \A y \in T : x <= y
  BY <1>4
<1> QED BY <1>5

\* What the handler decides on the sniffed bytes is right for all that was sent.
LEMMA RoutedRight ==
    ASSUME NEW s \in Seq(Pieces), NEW b \in Seq(Pieces),
           Len(b) <= Len(s), \A i \in 1..Len(b) : b[i] = s[i]
    PROVE  /\ IsMetadataRequest(b) => Relayed!FirstIsMetadata(s)
           /\ ~IsMetadataRequest(b) /\ (RequestPathComplete(b) \/ Len(b) >= SniffCap) =>
                 Relayed!FirstIsOther(s) \/ Relayed!NoRequestWithinCap(s)
<1>1. DOMAIN b = 1..Len(b) /\ DOMAIN s = 1..Len(s) /\ Len(b) \in Nat /\ Len(s) \in Nat
  OBVIOUS
<1>2. IsMetadataRequest(b) => Relayed!FirstIsMetadata(s)
  BY <1>1 DEF IsMetadataRequest, Relayed!FirstIsMetadata
<1>3. ASSUME ~IsMetadataRequest(b), RequestPathComplete(b)
      PROVE  Relayed!FirstIsOther(s)
  <2> DEFINE T == {i \in DOMAIN b : b[i] # "part"}
  <2>1. T \in SUBSET Nat /\ T # {}
    BY <1>1, <1>3 DEF RequestPathComplete
  <2>2. PICK x \in T : \A y \in T : x <= y
    BY <2>1, LeastElement
  <2>3. x \in 1..Len(b) /\ b[x] # "part" /\ \A j \in 1..(x - 1) : b[j] = "part"
    BY <1>1, <2>2
  <2>4. b[x] = "other"
    <3>1. b[x] \in Pieces
      BY <2>3
    <3> QED BY <1>1, <1>3, <2>3, <3>1 DEF IsMetadataRequest, Pieces
  <2> QED BY <1>1, <2>3, <2>4 DEF Relayed!FirstIsOther
<1>4. ASSUME ~RequestPathComplete(b), Len(b) >= SniffCap
      PROVE  Relayed!NoRequestWithinCap(s)
  BY <1>1, <1>4, ProxyAssumption DEF RequestPathComplete, Relayed!NoRequestWithinCap
<1> QED BY <1>2, <1>3, <1>4

LEMMA RelayStarts == Init => Relayed!RelayInit
<1> SUFFICES ASSUME Init PROVE Relayed!RelayInit  OBVIOUS
<1>1. \A c \in Conns : SubSeq(stream[c], 1, sent[c]) = <<>>
  BY DEF Init, All
<1> QED BY <1>1 DEF Init, All, Relayed!RelayInit

\* What has been sniffed of a connection nobody reads yet begins what was sent.
LEMMA SniffedFirst ==
    ASSUME ProxyInv, NEW c \in Conns, peer[c] = "none"
    PROVE  /\ Input[c] \in Seq(Pieces) /\ buf[c] \in Seq(Pieces)
           /\ Len(buf[c]) <= Len(Input[c])
           /\ \A i \in 1..Len(buf[c]) : buf[c][i] = Input[c][i]
<1> DEFINE s == stream[c]
           k == taken[c]
           m == sent[c]
<1>1. /\ s \in Seq(Pieces) /\ k \in Nat /\ m \in Nat /\ k <= m /\ m <= Len(s)
      /\ buf[c] \in Seq(Pieces)
  BY ProxyAssumption DEF ProxyInv, ProxyTypeOK, StreamInv
<1>2. buf[c] = SubSeq(s, 1, k)
  <2>1. got[c] = <<>> /\ got[c] \o buf[c] = SubSeq(s, 1, k)
    BY DEF ProxyInv, StreamInv, RouteInv
  <2>2. <<>> \o buf[c] = buf[c]
    BY <1>1
  <2> QED BY <2>1, <2>2
<1>3. Input[c] = SubSeq(s, 1, m)
  BY DEF Input
<1> HIDE DEF s, k, m
<1>4. /\ SubSeq(s, 1, k) \in Seq(Pieces) /\ Len(SubSeq(s, 1, k)) = k
      /\ \A i \in 1..k : SubSeq(s, 1, k)[i] = s[i]
  BY <1>1
<1>5. /\ SubSeq(s, 1, m) \in Seq(Pieces) /\ Len(SubSeq(s, 1, m)) = m
      /\ \A i \in 1..m : SubSeq(s, 1, m)[i] = s[i]
  BY <1>1
<1> QED BY <1>1, <1>2, <1>3, <1>4, <1>5

LEMMA RelaySends ==
    ASSUME ProxyInv, NEW c \in Conns, Send(c)
    PROVE  Relayed!ClientSends(c) \/ UNCHANGED Relayed!relayVars
<1>1. /\ UNCHANGED <<stream, peer, got>>
      /\ \/ sent' = sent
         \/ sent[c] < Len(stream[c]) /\ sent' = [sent EXCEPT ![c] = @ + 1]
  BY DEF Send, connVars
<1>2. CASE sent' = sent
  BY <1>1, <1>2 DEF Relayed!relayVars
<1>3. CASE sent[c] < Len(stream[c]) /\ sent' = [sent EXCEPT ![c] = @ + 1]
  <2> DEFINE s == stream[c]
             m == sent[c]
  <2>1. s \in Seq(Pieces) /\ m \in Nat /\ m < Len(s) /\ sent \in [Conns -> Nat]
    BY <1>3, ProxyAssumption DEF ProxyInv, ProxyTypeOK
  <2>2. /\ Input[c] = SubSeq(s, 1, m) /\ Input'[c] = SubSeq(s, 1, m + 1)
        /\ \A d \in Conns \ {c} : Input'[d] = Input[d]
    BY <1>1, <1>3, <2>1 DEF Input
  <2> HIDE DEF s, m
  <2>3. SubSeq(s, 1, m + 1) = Append(SubSeq(s, 1, m), s[m + 1]) /\ s[m + 1] \in Pieces
    BY <2>1
  <2>4. Input' = [Input EXCEPT ![c] = Append(@, s[m + 1])]
    BY <2>2, <2>3 DEF Input
  <2> QED BY <1>1, <2>3, <2>4 DEF Input, Relayed!ClientSends
<1> QED BY <1>1, <1>2, <1>3

LEMMA RelayDecides ==
    ASSUME ProxyInv, NEW c \in Conns, UNCHANGED <<stream, sent, got>>, peer[c] = "none",
           \/ IsMetadataRequest(buf[c]) /\ peer' = [peer EXCEPT ![c] = "server"]
           \/ /\ ~IsMetadataRequest(buf[c])
              /\ RequestPathComplete(buf[c]) \/ Len(buf[c]) >= SniffCap
              /\ peer' = [peer EXCEPT ![c] = "upstream"]
    PROVE  Relayed!Decide(c)
<1>1. /\ IsMetadataRequest(buf[c]) => Relayed!FirstIsMetadata(Input[c])
      /\ ~IsMetadataRequest(buf[c]) /\ (RequestPathComplete(buf[c]) \/ Len(buf[c]) >= SniffCap) =>
            Relayed!FirstIsOther(Input[c]) \/ Relayed!NoRequestWithinCap(Input[c])
  BY SniffedFirst, RoutedRight
<1> QED BY <1>1 DEF Input, Relayed!Decide

LEMMA RelayDelivers ==
    ASSUME ProxyInv, ProxyInv', NEW c \in Conns, Read(c)
    PROVE  Relayed!Delivers(c)
<1>0. /\ ProxyTypeOK /\ ProxyTypeOK' /\ StreamInv /\ StreamInv'
      /\ UNCHANGED <<stream, sent, peer>> /\ peer[c] # "none"
  BY DEF ProxyInv, Read, clientVars
<1>1. \E x \in Seq(Pieces) : Len(x) \in Nat \ {0} /\ got' = [got EXCEPT ![c] = @ \o x]
  <2>1. CASE buf[c] # <<>>
    <3>1. PICK n \in 1..Len(buf[c]) : got' = [got EXCEPT ![c] = @ \o SubSeq(buf[c], 1, n)]
      BY <2>1 DEF Read
    <3>2. buf[c] \in Seq(Pieces)
      BY <1>0 DEF ProxyTypeOK
    <3>3. SubSeq(buf[c], 1, n) \in Seq(Pieces) /\ Len(SubSeq(buf[c], 1, n)) = n /\ n \in Nat \ {0}
      BY <3>2
    <3> QED BY <3>1, <3>3
  <2>2. CASE buf[c] = <<>>
    <3>1. PICK piece \in Available(c) : got' = [got EXCEPT ![c] = @ \o piece]
      BY <2>2 DEF Read
    <3>2. piece \in Seq(Pieces) /\ Len(piece) \in Nat \ {0}
      BY <1>0, AvailableNext
    <3> QED BY <3>1, <3>2
  <2> QED BY <2>1, <2>2
<1>2. PICK x \in Seq(Pieces) : Len(x) \in Nat \ {0} /\ got' = [got EXCEPT ![c] = @ \o x]
  BY <1>1
<1> DEFINE s == stream[c]
           m == sent[c]
           k == taken'[c]
           g == got'[c]
           b == buf'[c]
<1>3. /\ s \in Seq(Pieces) /\ m \in Nat /\ k \in Nat /\ k <= m /\ m <= Len(s)
      /\ g \in Seq(Pieces) /\ b \in Seq(Pieces) /\ got[c] \in Seq(Pieces)
      /\ g = got[c] \o x /\ g \o b = SubSeq(s, 1, k) /\ Input[c] = SubSeq(s, 1, m)
  <2>1. /\ s \in Seq(Pieces) /\ m \in Nat /\ got[c] \in Seq(Pieces) /\ got \in [Conns -> Seq(Pieces)]
    BY <1>0, ProxyAssumption DEF ProxyTypeOK
  <2>2. k \in Nat /\ g \in Seq(Pieces) /\ b \in Seq(Pieces)
    BY <1>0 DEF ProxyTypeOK
  <2>3. k <= m /\ m <= Len(s) /\ g \o b = SubSeq(s, 1, k)
    BY <1>0 DEF StreamInv
  <2>4. g = got[c] \o x
    BY <1>2, <2>1
  <2> QED BY <2>1, <2>2, <2>3, <2>4 DEF Input
<1> HIDE DEF s, m, k, g, b
<1>4. Len(g) \in (Len(got[c]) + 1)..Len(Input[c]) /\ g = SubSeq(Input[c], 1, Len(g))
  <2> DEFINE n == Len(g)
             in == SubSeq(s, 1, m)
             rd == SubSeq(s, 1, k)
  <2>1. /\ in \in Seq(Pieces) /\ Len(in) = m /\ \A i \in 1..m : in[i] = s[i]
        /\ rd \in Seq(Pieces) /\ Len(rd) = k /\ \A i \in 1..k : rd[i] = s[i]
    BY <1>3
  <2>2. n = Len(got[c]) + Len(x) /\ n \in Nat /\ Len(b) \in Nat /\ Len(got[c]) \in Nat
    BY <1>2, <1>3
  <2>3. n + Len(b) = Len(g \o b) /\ \A i \in 1..n : (g \o b)[i] = g[i]
    BY <1>3
  <2>4. n + Len(b) = k /\ \A i \in 1..n : rd[i] = g[i]
    BY <1>3, <2>3
  <2>5. n <= k /\ n <= m /\ Len(got[c]) + 1 <= n
    BY <1>2, <1>3, <2>2, <2>4
  <2>6. \A i \in 1..n : in[i] = g[i]
    BY <1>3, <2>1, <2>2, <2>4, <2>5
  <2>7. g = SubSeq(in, 1, n)
    <3> HIDE DEF in
    <3>1. /\ SubSeq(in, 1, n) \in Seq(Pieces) /\ Len(SubSeq(in, 1, n)) = n
          /\ \A i \in 1..n : SubSeq(in, 1, n)[i] = in[i]
      BY <2>1, <2>2, <2>5
    <3> QED BY <1>3, <2>6, <3>1, SeqEqual
  <2> QED BY <1>3, <2>1, <2>2, <2>5, <2>7
<1>5. got' = [got EXCEPT ![c] = SubSeq(Input[c], 1, Len(g))]
  BY <1>2, <1>3, <1>4
<1>6. \E n \in (Len(got[c]) + 1)..Len(Input[c]) : got' = [got EXCEPT ![c] = SubSeq(Input[c], 1, n)]
  BY <1>4, <1>5
<1>7. Input[c] = SubSeq(stream[c], 1, sent[c])
  BY DEF Input
<1> QED BY <1>0, <1>6, <1>7 DEF Relayed!Delivers

LEMMA RelayStep ==
    ASSUME ProxyInv, ProxyInv', [Next]_vars
    PROVE  [Relayed!RelayNext]_Relayed!relayVars
<1>0. ProxyTypeOK /\ StreamInv /\ RouteInv /\ QueueInv
  BY DEF ProxyInv
<1>1. ASSUME NEW c \in Conns, Accept(c) PROVE UNCHANGED Relayed!relayVars
  <2>1. /\ handler[c] = "none" /\ UNCHANGED <<sent, got, peer>>
        /\ \E s \in Streams : stream' = [stream EXCEPT ![c] = s]
    BY <1>1 DEF Accept, Go, connVars
  <2>2. sent[c] = 0
    BY <1>0, <2>1 DEF StreamInv
  <2>3. \A d \in Conns : SubSeq(stream'[d], 1, sent[d]) = SubSeq(stream[d], 1, sent[d])
    <3>1. ASSUME NEW d \in Conns, d # c PROVE stream'[d] = stream[d]
      BY <1>0, <2>1, <3>1 DEF ProxyTypeOK
    <3>2. SubSeq(stream'[c], 1, 0) = SubSeq(stream[c], 1, 0)
      OBVIOUS
    <3> QED BY <2>2, <3>1, <3>2
  <2> QED BY <2>1, <2>3 DEF Relayed!relayVars
<1>2. ASSUME NEW c \in Conns, Send(c) PROVE [Relayed!RelayNext]_Relayed!relayVars
  BY <1>2, RelaySends DEF Relayed!RelayNext
<1>3. ASSUME NEW c \in Conns, Dial(c) PROVE Relayed!RelayNext
  <2>1. /\ handler[c] = "dial" /\ peer' = [peer EXCEPT ![c] = "upstream"]
        /\ UNCHANGED <<stream, sent, got>>
    BY <1>3 DEF Dial, Go, clientVars, connVars
  <2>2. /\ peer[c] = "none" /\ ~IsMetadataRequest(buf[c])
        /\ RequestPathComplete(buf[c]) \/ Len(buf[c]) >= SniffCap
    BY <1>0, <2>1 DEF RouteInv
  <2> QED BY <2>1, <2>2, RelayDecides DEF Relayed!RelayNext
<1>4. ASSUME NEW c \in Conns, Read(c) PROVE Relayed!RelayNext
  BY <1>4, RelayDelivers DEF Relayed!RelayNext
<1>5. CASE ServerAccepts
  <2> DEFINE c == Head(queue)
  <2>1. /\ queue \in Seq(Conns) /\ queue # <<>> /\ peer' = [peer EXCEPT ![c] = "server"]
        /\ UNCHANGED <<stream, sent, got>>
    BY <1>0, <1>5 DEF ServerAccepts, clientVars, connVars, ProxyTypeOK
  <2>2. c \in Conns /\ 1 \in DOMAIN queue /\ queue[1] = c
    BY <2>1
  <2>3. peer[c] = "none" /\ handler[c] = "queued"
    BY <1>0, <2>2 DEF QueueInv
  <2> HIDE DEF c
  <2>4. IsMetadataRequest(buf[c])
    BY <1>0, <2>2, <2>3 DEF RouteInv
  <2> QED BY <2>1, <2>2, <2>3, <2>4, RelayDecides DEF Relayed!RelayNext
<1>6. CASE \/ \E c \in Conns : \/ Sniff(c) \/ SniffFails(c) \/ Enqueue(c) \/ EnqueueAborted(c)
                               \/ DialFails(c) \/ CopyUpEnds(c) \/ CopyDownEnds(c) \/ HandleReturns(c)
           \/ ServerStops \/ Close \/ UNCHANGED vars
  <2>1. UNCHANGED <<stream, sent, got, peer>>
    BY <1>6 DEF Sniff, SniffFails, Enqueue, EnqueueAborted, DialFails, CopyUpEnds, CopyDownEnds,
                HandleReturns, ServerStops, Close, vars, clientVars, connVars
  <2> QED BY <2>1 DEF Relayed!relayVars
<1> QED BY <1>1, <1>2, <1>3, <1>4, <1>5, <1>6 DEF Next, Handle

\* However the bytes are split into reads and whatever follows the first request,
\* each connection goes where that request belongs, once, and what is read there is
\* what the client sent.
THEOREM ProxyImplementsRelay == Spec => ImplementsRelay
<1>1. ProxyInv /\ ProxyInv' /\ [Next]_vars => [Relayed!RelayNext]_Relayed!relayVars
  BY RelayStep
<1> QED BY RelayStarts, <1>1, ProxyInvariance, PTL DEF Spec, ImplementsRelay, Relayed!RelaySpec
=============================================================================
