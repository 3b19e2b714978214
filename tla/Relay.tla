-------------------------------- MODULE Relay --------------------------------
(***************************************************************************)
(* What the sniffing proxy promises to the two ends of a connection,       *)
(* without buffers, queues or goroutines: each connection is given to one  *)
(* destination, once, by its first request, and the destination reads what *)
(* the client sent, nothing lost, repeated or reordered.                   *)
(***************************************************************************)
EXTENDS Integers, Sequences

CONSTANTS
    Conns,     \* connections
    Pieces,    \* what clients send; "part" completes no request
    SniffCap   \* so many pieces without a request are not a metadata request

VARIABLES
    input,        \* what the client of each connection has sent
    destination,  \* "none", then "server" or "upstream"
    output        \* what the destination has read

relayVars == <<input, destination, output>>

RelayInit ==
    /\ input = [c \in Conns |-> <<>>]
    /\ destination = [c \in Conns |-> "none"]
    /\ output = [c \in Conns |-> <<>>]

\* The first request in s is for the metadata server.
FirstIsMetadata(s) ==
    \E i \in DOMAIN s : s[i] = "meta" /\ \A j \in 1..(i - 1) : s[j] = "part"
FirstIsOther(s) ==
    \E i \in DOMAIN s : s[i] = "other" /\ \A j \in 1..(i - 1) : s[j] = "part"
NoRequestWithinCap(s) == Len(s) >= SniffCap /\ \A i \in 1..SniffCap : s[i] = "part"

ClientSends(c) ==
    /\ \E p \in Pieces : input' = [input EXCEPT ![c] = Append(@, p)]
    /\ UNCHANGED <<destination, output>>

Decide(c) ==
    /\ destination[c] = "none"
    /\ \/ FirstIsMetadata(input[c]) /\ destination' = [destination EXCEPT ![c] = "server"]
       \/ /\ FirstIsOther(input[c]) \/ NoRequestWithinCap(input[c])
          /\ destination' = [destination EXCEPT ![c] = "upstream"]
    /\ UNCHANGED <<input, output>>

Delivers(c) ==
    /\ destination[c] # "none"
    /\ \E n \in (Len(output[c]) + 1)..Len(input[c]) :
          output' = [output EXCEPT ![c] = SubSeq(input[c], 1, n)]
    /\ UNCHANGED <<input, destination>>

RelayNext == \E c \in Conns : ClientSends(c) \/ Decide(c) \/ Delivers(c)

RelaySpec == RelayInit /\ [][RelayNext]_relayVars
=============================================================================
