------------------------------- MODULE MCProxy -------------------------------
(* Proxy on small instances. *)
EXTENDS Proxy

\* Requests in one piece and in several, two requests in a row in both orders,
\* a path that is longer than the sniffing limit of two, and no request at all.
MCStreams == {<<>>, <<"meta">>, <<"meta", "other">>, <<"other", "meta">>,
              <<"part", "part", "meta">>}
=============================================================================
