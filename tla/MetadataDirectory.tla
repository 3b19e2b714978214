------------------------- MODULE MetadataDirectory -------------------------
(***************************************************************************)
(* DirectoryHandler (internal/http/directory_handler.go): the tree of      *)
(* metadata endpoints that server.New builds with HandleDirectory and      *)
(* HandleMetadata, and how ServeHTTP walks it for a request.               *)
(*                                                                         *)
(* An edge of the tree is named by the pieces of the pattern that leads to *)
(* it, a node by those of the edge above it: the root is <<>>.  A piece is *)
(* static or a path parameter, whose names are what a directory lister     *)
(* returns: it looks up the pod of the request, may fail, and leaves what  *)
(* it found in the context of the request it returns.                      *)
(*                                                                         *)
(* The recursion of buildRecursive is an agenda of work yet to be done.    *)
(***************************************************************************)
EXTENDS Integers, SequencesExt

CONSTANTS
    Params,            \* pieces that start with "$"
    Registrations,     \* calls of HandleMetadata ("meta", "token") and HandleDirectory ("lister")
    Prefix,            \* the pieces of "/computeMetadata/v1"
    Requests,          \* requests: what is between the slashes of the path, flavor, recursive
    Listings,          \* what a directory lister may return
    MaxRegistrations   \* bound on the calls that build the tree

\* The pieces that patterns are made of.
Words == UNION {Range(g.path) : g \in Registrations}

ASSUME DirectoryAssumption ==
    /\ \A g \in Registrations : g.kind \in {"meta", "token", "lister"} /\ g.path \in Seq(Words)
    /\ \A r \in Requests : /\ r.segments \in Seq(Range(r.segments)) /\ r.segments # <<>>
                           /\ {r.flavor, r.recursive} \subseteq BOOLEAN
    /\ Requests # {}
    /\ \A names \in Listings : names \in Seq(Range(names))
    /\ MaxRegistrations \in Nat

VARIABLES
    phase,    \* "setup"; "idle" and "done" between requests; a control point of ServeHTTP;
              \* "panicked" in setup, "aborted" by a panic while serving
    made,     \* history: the registrations made
    children, \* the static edges of each node, in the order of their creation
    value,    \* what each edge leads to: "nil", "dir", "meta" or "token"
    listers,  \* nodes with a dirLister
    req,      \* the request
    node,     \* u, the node (or at last the edge) the walk has reached
    ctx,      \* nodes whose lister has enriched the context of the request
    agenda,   \* buildRecursive: what is still to be visited
    body,     \* the response: entries of a listing, paths of values
    status,   \* responses written
    listed,   \* history: what the listers called for the request returned
    called    \* history: handlers called for the request, with the context they got

treeVars == <<made, children, value, listers>>
vars == <<phase, treeVars, req, node, ctx, agenda, body, status, listed, called>>

Init ==
    /\ phase = "setup"
    /\ made = <<>> /\ children = [n \in {<<>>} |-> <<>>] /\ value = <<>> /\ listers = {}
    /\ req = (CHOOSE r \in Requests : TRUE) /\ node = <<>> /\ ctx = {}
    /\ agenda = <<>> /\ body = {} /\ status = <<>> /\ listed = {} /\ called = {}

IsParam(e) == Last(e) \in Params
PrefixesOf(path) == [k \in 1..Len(path) |-> SubSeq(path, 1, k)]

ParamEdges(n) == {e \in DOMAIN value : Front(e) = n /\ IsParam(e)}

-----------------------------------------------------------------------------
(* HandleMetadata and HandleDirectory *)

\* A node has static edges or one path parameter.
ClashesIgnored(e) == FALSE
Clashes(e) ==
    \E f \in DOMAIN value : Front(f) = Front(e) /\ f # e /\ (IsParam(e) \/ IsParam(f))

HasHandler(e) == e \in DOMAIN value /\ value[e] \in {"meta", "token"}

\* The panics of handle, on the way down and in its base case.
Panics(g) ==
    \/ g.path = <<>>
    \/ \E k \in 1..Len(g.path) : Clashes(SubSeq(g.path, 1, k))
    \/ \E k \in 1..(Len(g.path) - 1) : HasHandler(SubSeq(g.path, 1, k))
    \/ IF g.kind = "lister" THEN Front(g.path) \in listers \/ ~IsParam(g.path)
                            ELSE g.path \in DOMAIN value /\ value[g.path] # "nil"

\* A static edge is created when it is not found among its siblings.
CreatesAlways(e, siblings) == ~IsParam(e)
Creates(e, siblings) == ~IsParam(e) /\ e \notin Range(siblings)

\* The static edges afterwards, at the nodes there are and at the new ones.
ChildrenWith(g) ==
    [n \in DOMAIN children \cup {Front(e) : e \in Range(PrefixesOf(g.path))} |->
        LET siblings == IF n \in DOMAIN children THEN children[n] ELSE <<>>
            e == SubSeq(g.path, 1, Len(n) + 1)
        IN  IF IsStrictPrefix(n, g.path) /\ Creates(e, siblings)
            THEN Append(siblings, e) ELSE siblings]

\* What the edges lead to afterwards.
ValueWith(g) ==
    [e \in DOMAIN value \cup Range(PrefixesOf(g.path)) |->
        IF e = g.path /\ g.kind # "lister" THEN g.kind
        ELSE IF e # g.path /\ IsPrefix(e, g.path) THEN "dir"
        ELSE IF e \in DOMAIN value THEN value[e] ELSE "nil"]

Handle(g) ==
    /\ phase = "setup" /\ Len(made) < MaxRegistrations
    /\ made' = Append(made, g)
    /\ IF Panics(g)
         THEN phase' = "panicked" /\ UNCHANGED <<children, value, listers>>
         ELSE /\ children' = ChildrenWith(g)
              /\ value' = ValueWith(g)
              /\ listers' = IF g.kind = "lister" THEN listers \cup {Front(g.path)} ELSE listers
              /\ UNCHANGED phase
    /\ UNCHANGED <<req, node, ctx, agenda, body, status, listed, called>>

\* New has registered all and starts the server.
Start ==
    /\ phase = "setup" /\ phase' = "idle"
    /\ UNCHANGED <<treeVars, req, node, ctx, agenda, body, status, listed, called>>

-----------------------------------------------------------------------------
(* ServeHTTP: the walk *)

\* splitPathPieces: of "/a//b/" the segments "a", "", "b", "" give two pieces.
Pieces(r) == SelectSeq(r.segments, LAMBDA s : s # "")
EndsWithSlash(r) == Last(r.segments) = ""
UnderPrefix(r) == IsPrefix(Prefix, r.segments)

\* No empty segment where the prefix would be.
NoGap(r) == \A i \in DOMAIN Prefix \cap DOMAIN r.segments : r.segments[i] # ""

\* True of every sequence, and of every prefix without empty pieces; the provers know
\* nothing of SelectSeq.
ASSUME PiecesAssumption ==
    \A r \in Requests :
        /\ Pieces(r) \in Seq(Range(r.segments))
        /\ UnderPrefix(r) <=> IsPrefix(Prefix, Pieces(r)) /\ NoGap(r)

Respond(code) == status' = Append(status, code) /\ phase' = "done"

Receive(r) ==
    /\ phase \in {"idle", "done", "aborted"}
    /\ req' = r
    /\ node' = <<>> /\ ctx' = {} /\ agenda' = <<>> /\ body' = {} /\ listed' = {} /\ called' = {}
    /\ IF UnderPrefix(r) /\ ~r.flavor
         THEN status' = <<"403">> /\ phase' = "done"
         ELSE status' = <<>> /\ phase' = IF Pieces(r) = <<>> THEN "serve" ELSE "walk"
    /\ UNCHANGED treeVars

\* The piece of the path at the node.
Piece == Pieces(req)[Len(node) + 1]

\* The walk goes along edge e, or ends there; the type assertion of an edge that
\* leads to nothing panics.
Follow(e) ==
    IF Len(e) < Len(Pieces(req))
    THEN IF value[e] = "dir" THEN node' = e /\ UNCHANGED <<phase, status>>
                             ELSE Respond("404") /\ UNCHANGED node
    ELSE /\ node' = e /\ UNCHANGED status
         /\ phase' = CASE value[e] = "dir" -> "serve" [] value[e] = "nil" -> "aborted"
                       [] OTHER -> "call"

WalkStatic ==
    /\ phase = "walk" /\ ParamEdges(node) = {}
    /\ LET e == Append(node, Piece)
       IN  IF e \in Range(children[node]) THEN Follow(e) ELSE Respond("404") /\ UNCHANGED node
    /\ UNCHANGED <<treeVars, req, ctx, agenda, body, listed, called>>

\* A lister called for node n, reached along the names at, with context c: names.
Lists(n, at, c, names) ==
    listed' = listed \cup {[node |-> n, at |-> at, ctx |-> c, names |-> names]}

HasEntryMissing(names) == TRUE
HasEntry(names) == Piece \in Range(names)

WalkParam ==
    /\ phase = "walk" /\ node \in listers
    /\ \E names \in Listings, e \in ParamEdges(node) :
          /\ Lists(node, SubSeq(Pieces(req), 1, Len(node)), ctx, names)
          /\ ctx' = ctx \cup {node}
          /\ IF HasEntry(names) THEN Follow(e) ELSE Respond("404") /\ UNCHANGED node
    /\ UNCHANGED <<treeVars, req, agenda, body, called>>

\* The lister responds with its own error.
WalkParamFails ==
    /\ phase = "walk" /\ node \in listers
    /\ Respond("error")
    /\ UNCHANGED <<treeVars, req, node, ctx, agenda, body, listed, called>>

\* A path parameter without a lister: a nil function is called.
WalkParamAborts ==
    /\ phase = "walk" /\ ParamEdges(node) # {} /\ node \notin listers
    /\ phase' = "aborted"
    /\ UNCHANGED <<treeVars, req, node, ctx, agenda, body, status, listed, called>>

Calls(e, c) == called' = called \cup {[edge |-> e, ctx |-> c]}

\* serveMetadata: a value of a supported type, another one, or an error to which
\* the handler has responded.
ServeMetadata ==
    /\ phase = "call"
    /\ Calls(node, ctx)
    /\ \/ Respond("200") /\ body' = {Pieces(req)}
       \/ Respond("500") /\ UNCHANGED body
       \/ Respond("error") /\ UNCHANGED body
    /\ UNCHANGED <<treeVars, req, node, ctx, agenda, listed>>

-----------------------------------------------------------------------------
(* ServeHTTP of a node *)

Recursive == UnderPrefix(req) /\ req.recursive
Here == Pieces(req)

Redirect ==
    /\ phase = "serve" /\ ~EndsWithSlash(req)
    /\ Respond("301")
    /\ UNCHANGED <<treeVars, req, node, ctx, agenda, body, listed, called>>

\* An entry of a listing, with a slash if it is a directory.
Entry(e, name) == [name |-> name, slash |-> value[e] = "dir"]

StaticEntries == {Entry(e, Last(e)) : e \in Range(children[node])}

List ==
    /\ phase = "serve" /\ EndsWithSlash(req) /\ ~Recursive
    /\ \/ /\ node \notin listers /\ Respond("200") /\ body' = StaticEntries
          /\ UNCHANGED <<ctx, listed>>
       \/ /\ node \in listers /\ Respond("error") /\ UNCHANGED <<body, ctx, listed>>
       \/ /\ node \in listers
          /\ \E names \in Listings, e \in ParamEdges(node) :
                /\ Lists(node, Here, ctx, names)
                /\ body' = StaticEntries \cup {Entry(e, name) : name \in Range(names)}
          /\ ctx' = ctx \cup {node}
          /\ Respond("200")
    /\ UNCHANGED <<treeVars, req, node, agenda, called>>

\* The work of buildRecursive for node n, reached along the names at: the values
\* of its children, then its lister.
Visit(n, at, c) ==
    LET below == children[n]
    IN  [i \in DOMAIN below |->
            [do |-> "value", edge |-> below[i], at |-> Append(at, Last(below[i])), ctx |-> c]]
        \o IF n \in listers THEN <<[do |-> "list", edge |-> n, at |-> at, ctx |-> c]>> ELSE <<>>

BuildRecursive ==
    /\ phase = "serve" /\ EndsWithSlash(req) /\ Recursive
    /\ phase' = "build"
    /\ agenda' = Visit(node, Here, ctx)
    /\ UNCHANGED <<treeVars, req, node, ctx, body, status, listed, called>>

Builds(kind) == phase = "build" /\ agenda # <<>> /\ Head(agenda).do = kind

\* An error ends the recursion, up to ServeHTTP.
Fails == Respond("error") /\ UNCHANGED agenda

\* TokenHandler: left out.
SkipsNone(e) == FALSE
Skips(e) == value[e] = "token"

\* buildValueRecursive.  A value of no known type is null.
BuildValue ==
    /\ Builds("value")
    /\ LET w == Head(agenda) IN
         \/ /\ Skips(w.edge) /\ agenda' = Tail(agenda)
            /\ UNCHANGED <<phase, status, body, called>>
         \/ /\ value[w.edge] = "nil" /\ agenda' = Tail(agenda) /\ body' = body \cup {w.at}
            /\ UNCHANGED <<phase, status, called>>
         \/ /\ value[w.edge] = "dir"
            /\ agenda' = Visit(w.edge, w.at, w.ctx) \o Tail(agenda)
            /\ UNCHANGED <<phase, status, body, called>>
         \/ /\ value[w.edge] \in {"meta", "token"} /\ ~Skips(w.edge)
            /\ Calls(w.edge, w.ctx)
            /\ \/ agenda' = Tail(agenda) /\ body' = body \cup {w.at} /\ UNCHANGED <<phase, status>>
               \/ Fails /\ UNCHANGED body
    /\ UNCHANGED <<treeVars, req, node, ctx, listed>>

\* The context for the values behind a lister.
EnrichedMissing(w) == w.ctx
Enriched(w) == w.ctx \cup {w.edge}

\* The lister of a node, and a value for each name.
BuildList ==
    /\ Builds("list")
    /\ LET w == Head(agenda) IN
         \/ \E names \in Listings, e \in ParamEdges(w.edge) :
              /\ Lists(w.edge, w.at, w.ctx, names)
              /\ agenda' = [i \in DOMAIN names |->
                              [do |-> "value", edge |-> e, at |-> Append(w.at, names[i]),
                               ctx |-> Enriched(w)]] \o Tail(agenda)
              /\ UNCHANGED <<phase, status>>
         \/ Fails /\ UNCHANGED listed
    /\ UNCHANGED <<treeVars, req, node, ctx, body, called>>

BuildReturns ==
    /\ phase = "build" /\ agenda = <<>>
    /\ Respond("200")
    /\ UNCHANGED <<treeVars, req, node, ctx, agenda, body, listed, called>>

ServeHTTP ==
    \/ WalkStatic \/ WalkParam \/ WalkParamFails \/ WalkParamAborts \/ ServeMetadata
    \/ Redirect \/ List \/ BuildRecursive \/ BuildValue \/ BuildList \/ BuildReturns

Next ==
    \/ \E g \in Registrations : Handle(g)
    \/ Start
    \/ \E r \in Requests : Receive(r)
    \/ ServeHTTP

Spec == Init /\ [][Next]_vars

-----------------------------------------------------------------------------
DirTypeOK ==
    /\ phase \in {"setup", "panicked", "idle", "walk", "call", "serve", "build", "done", "aborted"}
    /\ made \in Seq(Registrations)
    /\ DOMAIN children = {<<>>} \cup {e \in DOMAIN value : value[e] = "dir"}
    /\ \A n \in DOMAIN children :
         /\ IsInjective(children[n])
         /\ Range(children[n]) = {e \in DOMAIN value : Front(e) = n /\ ~IsParam(e)}
    /\ \A e \in DOMAIN value : e # <<>> /\ Front(e) \in DOMAIN children
    /\ Range(value) \subseteq {"nil", "dir", "meta", "token"}
    /\ \A n \in listers : ParamEdges(n) # {}
    /\ req \in Requests /\ ctx \subseteq listers
    /\ node = <<>> \/ node \in DOMAIN value
    /\ \A w \in Range(agenda) : w.do = "list" \/ w.edge \in DOMAIN value

-----------------------------------------------------------------------------
(* The tree *)

\* Two registrations that exclude each other: their paths part at a node where one
\* goes on with a parameter, one handles what is a directory of the other, or they
\* register the same twice.
Part(p, q) ==
    \E k \in 1..Len(p) :
        /\ k <= Len(q) /\ SubSeq(p, 1, k - 1) = SubSeq(q, 1, k - 1) /\ p[k] # q[k]
        /\ p[k] \in Params \/ q[k] \in Params
Conflict(a, b) ==
    \/ Part(a.path, b.path)
    \/ a.kind # "lister" /\ a.path # b.path /\ IsPrefix(a.path, b.path)
    \/ a.path = b.path /\ (a.kind = "lister" <=> b.kind = "lister")
Malformed(g) == g.path = <<>> \/ (g.kind = "lister" /\ ~IsParam(g.path))

\* The tree depends on what is registered and not on the order of the calls, and
\* so does whether building it panics.
RegistrationOrderFree ==
    /\ phase = "panicked" <=>
         \/ \E i \in DOMAIN made : Malformed(made[i])
         \/ \E i, j \in DOMAIN made : i # j /\ Conflict(made[i], made[j])
    /\ phase # "panicked" =>
         /\ listers = {Front(g.path) : g \in {h \in Range(made) : h.kind = "lister"}}
         /\ DOMAIN value = UNION {Range(PrefixesOf(g.path)) : g \in Range(made)}
         /\ \A e \in DOMAIN value, g \in Range(made) :
              /\ g.path # e /\ IsPrefix(e, g.path) => value[e] = "dir"
              /\ g.path = e /\ g.kind # "lister" => value[e] = g.kind

-----------------------------------------------------------------------------
(* The answers *)

Matches(e, path) == Len(e) = Len(path) /\ \A i \in DOMAIN e : e[i] \in Params \/ e[i] = path[i]

\* Every parameter has a lister and every edge leads somewhere, as in the tree of New.
Complete == \A e \in DOMAIN value : value[e] # "nil" /\ (IsParam(e) => Front(e) \in listers)

\* Listings made by the walk that lack the piece of the request.
Absent == {l \in listed : /\ Len(l.at) < Len(Here) /\ IsPrefix(l.at, Here)
                          /\ Here[Len(l.at) + 1] \notin Range(l.names)}

\* A request gets exactly one response, and the right one: it is found when one
\* pattern, and no other, matches its path and all its names are listed, the handler
\* of that pattern is the only one called for it, and nothing is called for a path
\* that leads nowhere.  A request without the header that leads under the prefix gets
\* 403 and nothing is called for it, unless its path has an empty segment before the
\* end of the prefix: the check reads the path as it is written and the walk its
\* pieces, so that such a request is served as if it had the header.  Only a tree that
\* is not complete can make a handler panic.
AnswerExact ==
    LET matching == {e \in DOMAIN value : Matches(e, Here)}
        needsHeader == IsPrefix(Prefix, Here) /\ NoGap(req) /\ ~req.flavor
    IN  /\ phase = "aborted" => ~Complete /\ status = <<>>
        /\ phase = "done" =>
             /\ Len(status) = 1
             /\ Cardinality(matching) <= 1
             /\ status[1] = "403" <=> needsHeader
             /\ status[1] = "404" <=> Here # <<>> /\ ~needsHeader /\ status[1] # "error"
                                      /\ (matching = {} \/ Absent # {})
             /\ status[1] \in {"403", "404"} => called = {}
             /\ status[1] = "403" => listed = {}
             /\ status[1] = "200" /\ (\E e \in matching : value[e] # "dir") =>
                  {c.edge : c \in called} = matching

\* The value at names at, read along edge e from the directory of the request.
Expected(e, at) ==
    /\ Len(e) > Len(Here) /\ IsPrefix(node, e)
    /\ value[e] \in {"nil", "meta"}
    /\ Len(at) = Len(e) /\ IsPrefix(Here, at)
    /\ \A i \in (Len(Here) + 1)..Len(e) :
          IF e[i] \in Params
          THEN \E l \in listed : l.at = SubSeq(at, 1, i - 1) /\ at[i] \in Range(l.names)
          ELSE at[i] = e[i]

Names == UNION {Range(names) : names \in Listings}

\* The paths that edge e may stand for below the directory of the request.
Concrete(e) ==
    {Here \o s : s \in {t \in [1..(Len(e) - Len(Here)) ->
                                 Names \cup Range(SubSeq(e, Len(Here) + 1, Len(e)))] :
        \A i \in DOMAIN t : t[i] = e[Len(Here) + i]
                            \/ (e[Len(Here) + i] \in Params /\ t[i] \in Names)}}

\* A recursive answer holds every value below the directory once for each name a
\* lister returned, and no token, whatever the shape of the tree.
RecursiveExact ==
    phase = "done" /\ status = <<"200">> /\ Recursive /\ EndsWithSlash(req)
    /\ (node = <<>> \/ value[node] = "dir") =>
        /\ body = UNION {{at \in Concrete(e) : Expected(e, at)} :
                           e \in {f \in DOMAIN value : Len(f) > Len(Here) /\ IsPrefix(node, f)}}
        /\ \A c \in called : value[c.edge] # "token"

\* The nodes on the way to an edge that it leaves along a parameter.
Above(e) == {Front(f) : f \in {g \in Range(PrefixesOf(e)) : IsParam(g)}}

\* Handlers and listers get the context of the listers above them, and of no other:
\* a request is attributed once, and nested values see the account their directory
\* was listed for.
ContextExact ==
    /\ \A c \in called : c.ctx = Above(c.edge)
    /\ \A l \in listed : l.ctx = Above(l.node)
=============================================================================
