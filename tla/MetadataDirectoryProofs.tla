---------------------- MODULE MetadataDirectoryProofs ----------------------
(***************************************************************************)
(* Proofs that the tree of metadata endpoints depends on what is           *)
(* registered and not on the order of the calls.                           *)
(***************************************************************************)
EXTENDS MetadataDirectory, FiniteSetTheorems, SequenceTheorems, WellFoundedInduction, TLAPS

Patterns == Seq(Words)

-----------------------------------------------------------------------------
(* Prefixes *)

\* The first k pieces of a pattern.
LEMMA PrefixProperties ==
    ASSUME NEW p \in Patterns, NEW k \in 0..Len(p)
    PROVE  /\ SubSeq(p, 1, k) \in Patterns /\ Len(SubSeq(p, 1, k)) = k
           /\ \A i \in 1..k : SubSeq(p, 1, k)[i] = p[i]
BY DEF Patterns

\* Two prefixes of the same length are equal when they agree piece by piece.
LEMMA PrefixesEqual ==
    ASSUME NEW p \in Patterns, NEW q \in Patterns, NEW k \in 0..Len(p), k <= Len(q)
    PROVE  SubSeq(p, 1, k) = SubSeq(q, 1, k) <=> \A i \in 1..k : p[i] = q[i]
<1>1. k \in 0..Len(q) /\ Len(p) \in Nat /\ Len(q) \in Nat
  BY DEF Patterns
<1>2. /\ SubSeq(p, 1, k) \in Patterns /\ Len(SubSeq(p, 1, k)) = k
      /\ SubSeq(q, 1, k) \in Patterns /\ Len(SubSeq(q, 1, k)) = k
      /\ \A i \in 1..k : SubSeq(p, 1, k)[i] = p[i] /\ SubSeq(q, 1, k)[i] = q[i]
  BY <1>1, PrefixProperties
<1>3. CASE \A i \in 1..k : p[i] = q[i]
  <2> DEFINE s == SubSeq(p, 1, k)
             t == SubSeq(q, 1, k)
  <2>1. s \in Seq(Words) /\ t \in Seq(Words) /\ Len(s) = Len(t)
    BY <1>2 DEF Patterns
  <2>2. \A i \in 1..Len(s) : s[i] = t[i]
    BY <1>2, <1>3
  <2> HIDE DEF s, t
  <2>3. s = t
    BY <2>1, <2>2, SeqEqual
  <2> QED BY <2>3, <1>3 DEF s, t
<1> QED BY <1>2, <1>3

\* A pattern that is a prefix of another is its first pieces.
LEMMA PrefixIsSubSeq ==
    ASSUME NEW e \in Patterns, NEW p \in Patterns
    PROVE  /\ IsPrefix(e, p) <=> Len(e) <= Len(p) /\ e = SubSeq(p, 1, Len(e))
           /\ IsPrefix(e, p) /\ e # p => Len(e) < Len(p)
<1>1. /\ SubSeq(e, 1, Len(e)) = e /\ SubSeq(p, 1, Len(p)) = p
      /\ Len(e) \in Nat /\ Len(p) \in Nat
  BY DEF Patterns
<1> QED BY <1>1 DEF IsPrefix

\* Prefixes with the same node above them have the same length.
LEMMA PrefixFront ==
    ASSUME NEW p \in Patterns, NEW k \in 1..Len(p)
    PROVE  /\ SubSeq(p, 1, k) \in Patterns /\ SubSeq(p, 1, k) # <<>>
           /\ Len(SubSeq(p, 1, k)) = k
           /\ Front(SubSeq(p, 1, k)) = SubSeq(p, 1, k - 1)
           /\ Len(Front(SubSeq(p, 1, k))) = k - 1
           /\ Last(SubSeq(p, 1, k)) = p[k]
           /\ IsParam(SubSeq(p, 1, k)) <=> p[k] \in Params
<1>1. k \in 0..Len(p) /\ k - 1 \in 0..Len(p) /\ k - 1 \in 0..k /\ Len(p) \in Nat
  BY DEF Patterns
<1> DEFINE e == SubSeq(p, 1, k)
<1>2. e \in Patterns /\ Len(e) = k /\ \A i \in 1..k : e[i] = p[i]
  BY <1>1, PrefixProperties
<1>3. SubSeq(p, 1, k - 1) \in Patterns /\ Len(SubSeq(p, 1, k - 1)) = k - 1
  BY <1>1, PrefixProperties
<1> HIDE DEF e
<1>4. SubSeq(e, 1, k - 1) = SubSeq(p, 1, k - 1)
  BY <1>1, <1>2, PrefixesEqual
<1>5. e # <<>>
  BY <1>2
<1> QED BY <1>2, <1>3, <1>4, <1>5 DEF e, Front, Last, IsParam

\* Two patterns part where they leave one node along different edges of which one
\* is a parameter.
LEMMA PartsAtNode ==
    ASSUME NEW p \in Patterns, NEW q \in Patterns
    PROVE  Part(p, q) <=>
             \E k \in 1..Len(p), j \in 1..Len(q) :
               /\ Front(SubSeq(p, 1, k)) = Front(SubSeq(q, 1, j))
               /\ SubSeq(p, 1, k) # SubSeq(q, 1, j)
               /\ IsParam(SubSeq(p, 1, k)) \/ IsParam(SubSeq(q, 1, j))
<1>0. Len(p) \in Nat /\ Len(q) \in Nat
  BY DEF Patterns
<1>1. ASSUME Part(p, q)
      PROVE  \E k \in 1..Len(p), j \in 1..Len(q) :
               /\ Front(SubSeq(p, 1, k)) = Front(SubSeq(q, 1, j))
               /\ SubSeq(p, 1, k) # SubSeq(q, 1, j)
               /\ IsParam(SubSeq(p, 1, k)) \/ IsParam(SubSeq(q, 1, j))
  <2>1. PICK k \in 1..Len(p) :
          /\ k <= Len(q) /\ SubSeq(p, 1, k - 1) = SubSeq(q, 1, k - 1) /\ p[k] # q[k]
          /\ p[k] \in Params \/ q[k] \in Params
    BY <1>1 DEF Part
  <2>2. k \in 1..Len(q)
    BY <1>0, <2>1
  <2>3. Front(SubSeq(p, 1, k)) = Front(SubSeq(q, 1, k))
    BY <2>1, <2>2, PrefixFront
  <2>4. SubSeq(p, 1, k) # SubSeq(q, 1, k)
    BY <2>1, <2>2, PrefixFront
  <2>5. IsParam(SubSeq(p, 1, k)) \/ IsParam(SubSeq(q, 1, k))
    BY <2>1, <2>2, PrefixFront
  <2> QED BY <2>2, <2>3, <2>4, <2>5
<1>2. ASSUME NEW k \in 1..Len(p), NEW j \in 1..Len(q),
             Front(SubSeq(p, 1, k)) = Front(SubSeq(q, 1, j)),
             SubSeq(p, 1, k) # SubSeq(q, 1, j),
             IsParam(SubSeq(p, 1, k)) \/ IsParam(SubSeq(q, 1, j))
      PROVE  Part(p, q)
  <2>1. k - 1 = j - 1
    BY <1>2, PrefixFront
  <2>2. k = j /\ k <= Len(q) /\ k \in 0..Len(p)
    BY <1>0, <2>1
  <2>3. SubSeq(p, 1, k - 1) = SubSeq(q, 1, k - 1)
    <3>1. Front(SubSeq(p, 1, k)) = SubSeq(p, 1, k - 1)
      BY PrefixFront
    <3>2. Front(SubSeq(q, 1, j)) = SubSeq(q, 1, j - 1)
      BY PrefixFront
    <3> QED BY <1>2, <2>2, <3>1, <3>2
  <2>4. \A i \in 1..(k - 1) : p[i] = q[i]
    BY <1>0, <2>2, <2>3, PrefixesEqual
  <2>5. p[k] # q[k]
    <3> SUFFICES ASSUME p[k] = q[k] PROVE FALSE
      OBVIOUS
    <3>1. \A i \in 1..k : p[i] = q[i]
      BY <2>4
    <3> QED BY <3>1, <2>2, <1>2, PrefixesEqual
  <2>6. p[k] \in Params \/ q[k] \in Params
    BY <1>2, <2>2, PrefixFront
  <2> QED BY <2>2, <2>3, <2>5, <2>6 DEF Part
<1> QED BY <1>1, <1>2

LEMMA PartSymmetric ==
    ASSUME NEW p \in Patterns, NEW q \in Patterns, Part(p, q)
    PROVE  Part(q, p)
BY PartsAtNode

-----------------------------------------------------------------------------
(* The tree *)

\* An edge leads to a directory or to a handler only where a registration asked
\* for it.
Origin ==
    \A e \in DOMAIN value :
        /\ value[e] \in {"nil", "dir", "meta", "token"}
        /\ value[e] = "dir" => \E g \in Range(made) : g.path # e /\ IsPrefix(e, g.path)
        /\ value[e] \in {"meta", "token"} => \E g \in Range(made) : g.path = e /\ g.kind # "lister"

TreeInv == /\ made \in Seq(Registrations)
           /\ RegistrationOrderFree
           /\ phase # "panicked" => Origin

\* The registrations made, seen as a set.
LEMMA MadeProperties ==
    ASSUME made \in Seq(Registrations)
    PROVE  /\ Range(made) \subseteq Registrations
           /\ \A g \in Range(made) : g \in Registrations /\ g.path \in Patterns
           /\ \A h \in Range(made) : \E i \in DOMAIN made : made[i] = h
<1>1. \A i \in DOMAIN made : made[i] \in Registrations
  OBVIOUS
<1>2. \A h \in Range(made) : \E i \in DOMAIN made : made[i] = h
  BY DEF Range
<1> QED BY <1>1, <1>2, DirectoryAssumption DEF Patterns

\* The edges of the tree are the prefixes of the patterns registered.
LEMMA EdgeProperties ==
    ASSUME TreeInv, phase # "panicked"
    PROVE  /\ \A h \in Range(made) : \A k \in 1..Len(h.path) : SubSeq(h.path, 1, k) \in DOMAIN value
           /\ \A e \in DOMAIN value : \E h \in Range(made) : \E k \in 1..Len(h.path) : e = SubSeq(h.path, 1, k)
           /\ \A e \in DOMAIN value : e \in Patterns /\ e # <<>>
<1>1. DOMAIN value = UNION {Range(PrefixesOf(g.path)) : g \in Range(made)}
  BY DEF TreeInv, RegistrationOrderFree
<1>2. \A g \in Range(made) : Range(PrefixesOf(g.path)) = {SubSeq(g.path, 1, k) : k \in 1..Len(g.path)}
  BY DEF PrefixesOf, Range
<1>3. \A e \in DOMAIN value : \E h \in Range(made) : \E k \in 1..Len(h.path) : e = SubSeq(h.path, 1, k)
  BY <1>1, <1>2
<1>4. \A h \in Range(made) : \A k \in 1..Len(h.path) : SubSeq(h.path, 1, k) \in DOMAIN value
  BY <1>1, <1>2
<1>5. \A h \in Range(made) : h.path \in Patterns
  BY MadeProperties DEF TreeInv
<1>6. \A e \in DOMAIN value : e \in Patterns /\ e # <<>>
  <2> SUFFICES ASSUME NEW e \in DOMAIN value PROVE e \in Patterns /\ e # <<>>
    OBVIOUS
  <2>1. PICK h \in Range(made) : \E k \in 1..Len(h.path) : e = SubSeq(h.path, 1, k)
    BY <1>3
  <2>2. PICK k \in 1..Len(h.path) : e = SubSeq(h.path, 1, k)
    BY <2>1
  <2>3. h.path \in Patterns
    BY <1>5
  <2> QED BY <2>2, <2>3, PrefixFront
<1> QED BY <1>3, <1>4, <1>6

\* A call panics exactly when it is malformed or excludes one made before.
LEMMA PanicsExact ==
    ASSUME TreeInv, phase # "panicked", NEW g \in Registrations
    PROVE  Panics(g) <=> \/ Malformed(g)
                         \/ \E h \in Range(made) : Conflict(g, h) \/ Conflict(h, g)
<1> DEFINE excluded == \E h \in Range(made) : Conflict(g, h) \/ Conflict(h, g)
<1>0. /\ g.path \in Patterns /\ Len(g.path) \in Nat
      /\ \A h \in Range(made) : h \in Registrations /\ h.path \in Patterns /\ Len(h.path) \in Nat
      /\ g.kind \in {"meta", "token", "lister"}
      /\ \A h \in Range(made) : h.kind \in {"meta", "token", "lister"}
  BY MadeProperties, DirectoryAssumption DEF TreeInv, Patterns
<1>1. \A h \in Range(made) : ~Malformed(h)
  BY MadeProperties DEF TreeInv, RegistrationOrderFree
<1>2. /\ \A h \in Range(made) : \A k \in 1..Len(h.path) : SubSeq(h.path, 1, k) \in DOMAIN value
      /\ \A e \in DOMAIN value : \E h \in Range(made) : \E k \in 1..Len(h.path) : e = SubSeq(h.path, 1, k)
      /\ \A e \in DOMAIN value : e \in Patterns /\ e # <<>>
  BY EdgeProperties
<1>3. \A e \in DOMAIN value, h \in Range(made) :
        /\ h.path # e /\ IsPrefix(e, h.path) => value[e] = "dir"
        /\ h.path = e /\ h.kind # "lister" => value[e] = h.kind
  BY DEF TreeInv, RegistrationOrderFree
<1>4. listers = {Front(h.path) : h \in {f \in Range(made) : f.kind = "lister"}}
  BY DEF TreeInv, RegistrationOrderFree
<1>5. Origin
  BY DEF TreeInv
<1>6. \A p \in Patterns : p # <<>> =>
        /\ Len(p) \in 1..Len(p) /\ SubSeq(p, 1, Len(p)) = p
        /\ Front(p) = SubSeq(p, 1, Len(p) - 1)
  BY DEF Patterns, Front
<1>7. \A h \in Range(made) : h.path # <<>> /\ h.path \in DOMAIN value
  BY <1>0, <1>1, <1>2, <1>6 DEF Malformed
\* The edges of the pattern clash with the tree where it parts with another.
<1>8. (\E k \in 1..Len(g.path) : Clashes(SubSeq(g.path, 1, k)))
        <=> \E h \in Range(made) : Part(g.path, h.path)
  <2>1. ASSUME NEW k \in 1..Len(g.path), Clashes(SubSeq(g.path, 1, k))
        PROVE  \E h \in Range(made) : Part(g.path, h.path)
    <3>1. PICK f \in DOMAIN value :
            /\ Front(f) = Front(SubSeq(g.path, 1, k)) /\ f # SubSeq(g.path, 1, k)
            /\ IsParam(SubSeq(g.path, 1, k)) \/ IsParam(f)
      BY <2>1 DEF Clashes
    <3>2. PICK h \in Range(made) : \E j \in 1..Len(h.path) : f = SubSeq(h.path, 1, j)
      BY <1>2
    <3>3. Part(g.path, h.path)
      BY <1>0, <3>1, <3>2, PartsAtNode
    <3> QED BY <3>3
  <2>2. ASSUME NEW h \in Range(made), Part(g.path, h.path)
        PROVE  \E k \in 1..Len(g.path) : Clashes(SubSeq(g.path, 1, k))
    <3>1. PICK k \in 1..Len(g.path), j \in 1..Len(h.path) :
            /\ Front(SubSeq(g.path, 1, k)) = Front(SubSeq(h.path, 1, j))
            /\ SubSeq(g.path, 1, k) # SubSeq(h.path, 1, j)
            /\ IsParam(SubSeq(g.path, 1, k)) \/ IsParam(SubSeq(h.path, 1, j))
      BY <1>0, <2>2, PartsAtNode
    <3>2. Clashes(SubSeq(g.path, 1, k))
      BY <1>2, <3>1 DEF Clashes
    <3> QED BY <3>2
  <2> QED BY <2>1, <2>2
\* The way down passes a handler where a handled pattern is a prefix.
<1>9. (\E k \in 1..(Len(g.path) - 1) : HasHandler(SubSeq(g.path, 1, k)))
        <=> \E h \in Range(made) : h.kind # "lister" /\ h.path # g.path /\ IsPrefix(h.path, g.path)
  <2>1. ASSUME NEW k \in 1..(Len(g.path) - 1), HasHandler(SubSeq(g.path, 1, k))
        PROVE  \E h \in Range(made) : h.kind # "lister" /\ h.path # g.path /\ IsPrefix(h.path, g.path)
    <3>1. PICK h \in Range(made) : h.path = SubSeq(g.path, 1, k) /\ h.kind # "lister"
      BY <1>5, <2>1 DEF Origin, HasHandler
    <3>2. k \in 1..Len(g.path) /\ k < Len(g.path)
      BY <1>0, <2>1
    <3>3. Len(h.path) = k
      BY <1>0, <3>1, <3>2, PrefixFront
    <3>4. h.path # g.path
      BY <3>2, <3>3
    <3>5. IsPrefix(h.path, g.path)
      <4>1. h.path \in Patterns /\ g.path \in Patterns
        BY <1>0
      <4>2. h.path = SubSeq(g.path, 1, Len(h.path))
        BY <3>1, <3>3
      <4>3. Len(h.path) <= Len(g.path)
        BY <3>2, <3>3
      <4> QED BY <4>1, <4>2, <4>3, PrefixIsSubSeq
    <3> QED BY <3>1, <3>4, <3>5
  <2>2. ASSUME NEW h \in Range(made), h.kind # "lister", h.path # g.path, IsPrefix(h.path, g.path)
        PROVE  \E k \in 1..(Len(g.path) - 1) : HasHandler(SubSeq(g.path, 1, k))
    <3>1. Len(h.path) < Len(g.path) /\ h.path = SubSeq(g.path, 1, Len(h.path))
      BY <1>0, <2>2, PrefixIsSubSeq
    <3>2. Len(h.path) \in 1..(Len(g.path) - 1)
      BY <1>0, <1>6, <1>7, <3>1
    <3>3. HasHandler(h.path)
      BY <1>0, <1>3, <1>7, <2>2 DEF HasHandler
    <3> QED BY <3>1, <3>2, <3>3
  <2> QED BY <2>1, <2>2
<1>10. ASSUME Panics(g) PROVE Malformed(g) \/ excluded
  <2> SUFFICES ASSUME ~Malformed(g), ~excluded PROVE FALSE
    OBVIOUS
  <2>1. g.path # <<>> /\ (g.kind = "lister" => IsParam(g.path))
    BY DEF Malformed
  <2>2. ~(\E k \in 1..Len(g.path) : Clashes(SubSeq(g.path, 1, k)))
    BY <1>8 DEF Conflict
  <2>3. ~(\E k \in 1..(Len(g.path) - 1) : HasHandler(SubSeq(g.path, 1, k)))
    BY <1>9 DEF Conflict
  <2>4. CASE g.kind = "lister"
    <3>1. Front(g.path) \in listers
      BY <1>10, <2>1, <2>2, <2>3, <2>4 DEF Panics
    <3>2. PICK h \in Range(made) : h.kind = "lister" /\ Front(h.path) = Front(g.path)
      BY <1>4, <3>1
    <3>3. IsParam(h.path) /\ h.path # <<>>
      BY <1>1, <3>2 DEF Malformed
    <3>4. h.path # g.path
      BY <2>4, <3>2 DEF Conflict
    <3>5. Part(g.path, h.path)
      <4>1. Len(g.path) \in 1..Len(g.path) /\ SubSeq(g.path, 1, Len(g.path)) = g.path
        BY <1>0, <1>6, <2>1
      <4>2. Len(h.path) \in 1..Len(h.path) /\ SubSeq(h.path, 1, Len(h.path)) = h.path
        BY <1>0, <1>6, <3>3
      <4>3. /\ Front(SubSeq(g.path, 1, Len(g.path))) = Front(SubSeq(h.path, 1, Len(h.path)))
            /\ SubSeq(g.path, 1, Len(g.path)) # SubSeq(h.path, 1, Len(h.path))
            /\ IsParam(SubSeq(h.path, 1, Len(h.path)))
        BY <3>2, <3>3, <3>4, <4>1, <4>2
      <4>4. g.path \in Patterns /\ h.path \in Patterns
        BY <1>0
      <4> QED BY <4>1, <4>2, <4>3, <4>4, PartsAtNode
    <3> QED BY <3>5 DEF Conflict
  <2>5. CASE g.kind # "lister"
    <3>1. g.path \in DOMAIN value /\ value[g.path] # "nil"
      BY <1>10, <2>1, <2>2, <2>3, <2>5 DEF Panics
    <3>2. CASE value[g.path] = "dir"
      BY <1>5, <2>5, <3>1, <3>2 DEF Origin, Conflict
    <3>3. CASE value[g.path] \in {"meta", "token"}
      BY <1>5, <2>5, <3>1, <3>3 DEF Origin, Conflict
    <3> QED BY <1>5, <3>1, <3>2, <3>3 DEF Origin
  <2> QED BY <2>4, <2>5
<1>11. ASSUME Malformed(g) PROVE Panics(g)
  BY <1>11 DEF Malformed, Panics
<1>12. ASSUME NEW h \in Range(made), Conflict(g, h) \/ Conflict(h, g), ~Malformed(g)
       PROVE  Panics(g)
  <2>0. g.path # <<>>
    BY <1>12 DEF Malformed
  <2>1. CASE Part(g.path, h.path) \/ Part(h.path, g.path)
    BY <1>0, <1>8, <2>1, PartSymmetric DEF Panics
  <2>2. CASE h.kind # "lister" /\ h.path # g.path /\ IsPrefix(h.path, g.path)
    BY <1>9, <2>2 DEF Panics
  <2>3. CASE g.kind # "lister" /\ h.path # g.path /\ IsPrefix(g.path, h.path)
    <3>1. g.path = SubSeq(h.path, 1, Len(g.path)) /\ Len(g.path) \in 1..Len(h.path)
      BY <1>0, <1>6, <2>0, <2>3, PrefixIsSubSeq
    <3>2. g.path \in DOMAIN value
      BY <1>2, <3>1
    <3> QED BY <1>3, <2>3, <3>2 DEF Panics
  <2>4. CASE g.path = h.path /\ (g.kind = "lister" <=> h.kind = "lister")
    <3>1. CASE g.kind = "lister"
      BY <1>4, <2>4, <3>1 DEF Panics
    <3>2. CASE g.kind # "lister"
      BY <1>0, <1>3, <1>7, <2>4, <3>2 DEF Panics
    <3> QED BY <3>1, <3>2
  <2> QED BY <1>12, <2>1, <2>2, <2>3, <2>4 DEF Conflict
<1> QED BY <1>10, <1>11, <1>12

LEMMA RangeOfAppended ==
    ASSUME NEW S, NEW s \in Seq(S), NEW x \in S
    PROVE  /\ Append(s, x) \in Seq(S) /\ Range(Append(s, x)) = Range(s) \cup {x}
           /\ DOMAIN Append(s, x) = DOMAIN s \cup {Len(s) + 1}
           /\ \A i \in DOMAIN s : Append(s, x)[i] = s[i]
           /\ Append(s, x)[Len(s) + 1] = x /\ Len(s) + 1 \notin DOMAIN s
<1>1. /\ Append(s, x) \in Seq(S) /\ DOMAIN s = 1..Len(s) /\ Len(s) \in Nat
      /\ DOMAIN Append(s, x) = 1..(Len(s) + 1)
      /\ \A i \in 1..Len(s) : Append(s, x)[i] = s[i]
      /\ Append(s, x)[Len(s) + 1] = x
  OBVIOUS
<1>2. 1..(Len(s) + 1) = 1..Len(s) \cup {Len(s) + 1} /\ Len(s) + 1 \notin 1..Len(s)
  BY <1>1
<1> DEFINE t == Append(s, x)
<1>3. t = Append(s, x)
  OBVIOUS
<1> HIDE DEF t
<1>4. Range(t) = Range(s) \cup {x}
  BY <1>1, <1>2, <1>3 DEF Range
<1> QED BY <1>1, <1>2, <1>3, <1>4

\* A registration keeps the tree what the registrations make of it.
LEMMA HandlePreservesTree ==
    ASSUME TreeInv, NEW g \in Registrations, Handle(g)
    PROVE  TreeInv'
<1>0. /\ phase = "setup" /\ made' = Append(made, g) /\ made \in Seq(Registrations)
      /\ phase # "panicked"
  BY DEF Handle, TreeInv
<1>1. /\ made' \in Seq(Registrations) /\ Range(made') = Range(made) \cup {g}
      /\ DOMAIN made' = DOMAIN made \cup {Len(made) + 1}
      /\ \A i \in DOMAIN made : made'[i] = made[i]
      /\ made'[Len(made) + 1] = g /\ Len(made) + 1 \notin DOMAIN made
  BY <1>0, RangeOfAppended
<1>2. /\ \A i \in DOMAIN made : ~Malformed(made[i]) /\ made[i] \in Range(made)
      /\ \A i, j \in DOMAIN made : i # j => ~Conflict(made[i], made[j])
  BY <1>0 DEF TreeInv, RegistrationOrderFree, Range
<1>3. Panics(g) <=>
         \/ \E i \in DOMAIN made' : Malformed(made'[i])
         \/ \E i, j \in DOMAIN made' : i # j /\ Conflict(made'[i], made'[j])
  <2>1. Panics(g) <=> \/ Malformed(g)
                      \/ \E h \in Range(made) : Conflict(g, h) \/ Conflict(h, g)
    BY <1>0, PanicsExact
  <2>2. (\E i \in DOMAIN made' : Malformed(made'[i])) <=> Malformed(g)
    BY <1>1, <1>2
  <2>3. ASSUME NEW h \in Range(made), Conflict(g, h) \/ Conflict(h, g)
        PROVE  \E i, j \in DOMAIN made' : i # j /\ Conflict(made'[i], made'[j])
    <3>1. PICK i \in DOMAIN made : made[i] = h
      BY <1>0, MadeProperties
    <3> QED BY <1>1, <2>3, <3>1
  <2>4. ASSUME NEW i \in DOMAIN made', NEW j \in DOMAIN made', i # j, Conflict(made'[i], made'[j])
        PROVE  \E h \in Range(made) : Conflict(g, h) \/ Conflict(h, g)
    <3>1. CASE i \in DOMAIN made /\ j \in DOMAIN made
      BY <1>1, <1>2, <2>4, <3>1
    <3>2. CASE i = Len(made) + 1
      BY <1>1, <1>2, <2>4, <3>2
    <3>3. CASE j = Len(made) + 1
      BY <1>1, <1>2, <2>4, <3>3
    <3> QED BY <1>1, <3>1, <3>2, <3>3
  <2> QED BY <2>1, <2>2, <2>3, <2>4
<1>4. CASE Panics(g)
  <2>1. phase' = "panicked"
    BY <1>4 DEF Handle
  <2> QED BY <1>1, <1>3, <1>4, <2>1 DEF TreeInv, RegistrationOrderFree, Malformed, IsParam, Conflict, Part
<1>5. CASE ~Panics(g)
  <2>0. /\ value' = ValueWith(g) /\ phase' = phase
        /\ listers' = IF g.kind = "lister" THEN listers \cup {Front(g.path)} ELSE listers
    BY <1>5 DEF Handle
  <2>1. /\ g.path \in Patterns /\ g.path # <<>> /\ Len(g.path) \in Nat
        /\ g.kind \in {"meta", "token", "lister"}
        /\ \A h \in Range(made) : h.path \in Patterns /\ h.kind \in {"meta", "token", "lister"}
    BY <1>0, <1>5, MadeProperties, DirectoryAssumption DEF Panics, Patterns
  <2>2. listers' = {Front(h.path) : h \in {f \in Range(made') : f.kind = "lister"}}
    BY <1>0, <1>1, <2>0 DEF TreeInv, RegistrationOrderFree
  <2>3. DOMAIN value' = DOMAIN value \cup Range(PrefixesOf(g.path))
    BY <2>0 DEF ValueWith
  <2>4. DOMAIN value' = UNION {Range(PrefixesOf(h.path)) : h \in Range(made')}
    BY <1>0, <1>1, <2>3 DEF TreeInv, RegistrationOrderFree
  \* Every edge of the new tree is of one of three sorts.
  <2>5. \A e \in DOMAIN value' :
          /\ e = g.path /\ g.kind # "lister" => value'[e] = g.kind
          /\ e # g.path /\ IsPrefix(e, g.path) => value'[e] = "dir"
          /\ ~(e = g.path /\ g.kind # "lister") /\ ~(e # g.path /\ IsPrefix(e, g.path))
               => value'[e] = IF e \in DOMAIN value THEN value[e] ELSE "nil"
    BY <2>0, <2>3 DEF ValueWith
  <2>6. \A e \in DOMAIN value : e = g.path /\ g.kind # "lister" => value[e] = "nil"
    BY <1>5 DEF Panics
  <2>7. \A e \in DOMAIN value : e # g.path /\ IsPrefix(e, g.path) => value[e] \notin {"meta", "token"}
    <3> SUFFICES ASSUME NEW e \in DOMAIN value, e # g.path, IsPrefix(e, g.path),
                        value[e] \in {"meta", "token"}
                 PROVE  FALSE
      OBVIOUS
    <3>1. e \in Patterns /\ e # <<>>
      BY <1>0, EdgeProperties
    <3>2. Len(e) < Len(g.path) /\ e = SubSeq(g.path, 1, Len(e))
      BY <2>1, <3>1, PrefixIsSubSeq
    <3>3. Len(e) \in 1..(Len(g.path) - 1)
      BY <2>1, <3>1, <3>2 DEF Patterns
    <3>4. HasHandler(SubSeq(g.path, 1, Len(e)))
      BY <3>2 DEF HasHandler
    <3> QED BY <1>5, <3>3, <3>4 DEF Panics
  <2>8. ASSUME NEW e \in DOMAIN value', NEW h \in Range(made')
        PROVE  /\ h.path # e /\ IsPrefix(e, h.path) => value'[e] = "dir"
               /\ h.path = e /\ h.kind # "lister" => value'[e] = h.kind
    <3>1. CASE h = g
      BY <2>5, <3>1
    <3>2. CASE h \in Range(made)
      <4>1. ASSUME h.path # e, IsPrefix(e, h.path) PROVE value'[e] = "dir"
        <5>1. e \in DOMAIN value
          <6>1. e \in Patterns /\ e # <<>>
            <7>1. PICK f \in Range(made') : e \in Range(PrefixesOf(f.path))
              BY <2>4
            <7>2. PICK k \in 1..Len(f.path) : e = SubSeq(f.path, 1, k)
              BY <7>1 DEF PrefixesOf, Range
            <7>3. f.path \in Patterns
              BY <1>1, <2>1
            <7> QED BY <7>2, <7>3, PrefixFront
          <6>2. Len(e) \in 1..Len(h.path) /\ e = SubSeq(h.path, 1, Len(e))
            <7>1. Len(e) \in Nat /\ Len(e) # 0 /\ Len(h.path) \in Nat
              BY <2>1, <3>2, <6>1 DEF Patterns
            <7>2. Len(e) <= Len(h.path) /\ e = SubSeq(h.path, 1, Len(e))
              BY <2>1, <3>2, <4>1, <6>1, PrefixIsSubSeq
            <7> QED BY <7>1, <7>2
          <6> QED BY <1>0, <3>2, <6>2, EdgeProperties
        <5>2. value[e] = "dir"
          BY <1>0, <3>2, <4>1, <5>1 DEF TreeInv, RegistrationOrderFree
        <5> QED BY <2>5, <2>6, <5>1, <5>2
      <4>2. ASSUME h.path = e, h.kind # "lister" PROVE value'[e] = h.kind
        <5>1. e \in DOMAIN value
          <6>1. h.path # <<>>
            BY <1>0, <1>2, <3>2, MadeProperties DEF Malformed
          <6>2. Len(h.path) \in 1..Len(h.path) /\ SubSeq(h.path, 1, Len(h.path)) = h.path
            BY <2>1, <3>2, <6>1 DEF Patterns
          <6>3. SubSeq(h.path, 1, Len(h.path)) \in DOMAIN value
            BY <1>0, <3>2, <6>2, EdgeProperties
          <6> QED BY <4>2, <6>2, <6>3
        <5>2. value[e] = h.kind /\ h.kind \in {"meta", "token"}
          BY <1>0, <2>1, <3>2, <4>2, <5>1 DEF TreeInv, RegistrationOrderFree
        <5> QED BY <2>5, <2>6, <2>7, <5>1, <5>2
      <4> QED BY <4>1, <4>2
    <3> QED BY <1>1, <3>1, <3>2
  <2>9. Origin'
    <3> SUFFICES ASSUME NEW e \in DOMAIN value'
                 PROVE  /\ value'[e] \in {"nil", "dir", "meta", "token"}
                        /\ value'[e] = "dir" =>
                             \E h \in Range(made') : h.path # e /\ IsPrefix(e, h.path)
                        /\ value'[e] \in {"meta", "token"} =>
                             \E h \in Range(made') : h.path = e /\ h.kind # "lister"
      BY DEF Origin
    <3>1. g \in Range(made') /\ Range(made) \subseteq Range(made')
      BY <1>1
    <3>2. CASE e = g.path /\ g.kind # "lister"
      BY <2>1, <2>5, <3>1, <3>2
    <3>3. CASE e # g.path /\ IsPrefix(e, g.path)
      BY <2>5, <3>1, <3>3
    <3>4. CASE ~(e = g.path /\ g.kind # "lister") /\ ~(e # g.path /\ IsPrefix(e, g.path))
      <4>1. CASE e \in DOMAIN value
        BY <1>0, <2>5, <3>1, <3>4, <4>1 DEF TreeInv, Origin
      <4>2. CASE e \notin DOMAIN value
        BY <2>5, <3>4, <4>2
      <4> QED BY <4>1, <4>2
    <3> QED BY <3>2, <3>3, <3>4
  <2>10. phase' # "panicked"
    BY <1>0, <2>0
  <2> QED BY <1>1, <1>3, <1>5, <2>2, <2>4, <2>8, <2>9, <2>10
         DEF TreeInv, RegistrationOrderFree, Malformed, IsParam, Conflict, Part
<1> QED BY <1>4, <1>5

\* Nothing but a registration changes the tree, or panics while it is built.
LEMMA ServingKeepsTree ==
    ASSUME \/ Start \/ (\E r \in Requests : Receive(r)) \/ ServeHTTP \/ UNCHANGED vars
    PROVE  UNCHANGED treeVars /\ (phase = "panicked" <=> phase' = "panicked")
<1>1. CASE UNCHANGED vars
  BY <1>1 DEF vars, treeVars
<1>2. CASE Start
  BY <1>2 DEF Start, treeVars
<1>3. CASE \E r \in Requests : Receive(r)
  BY <1>3 DEF Receive, treeVars
<1>4. CASE WalkStatic
  BY <1>4 DEF WalkStatic, Follow, Respond, treeVars
<1>5. CASE WalkParam
  BY <1>5 DEF WalkParam, Follow, Respond, treeVars
<1>6. CASE WalkParamFails \/ WalkParamAborts \/ ServeMetadata
  BY <1>6 DEF WalkParamFails, WalkParamAborts, ServeMetadata, Respond, treeVars
<1>7. CASE Redirect \/ List \/ BuildRecursive \/ BuildReturns
  BY <1>7 DEF Redirect, List, BuildRecursive, BuildReturns, Respond, treeVars
<1>8. CASE BuildValue
  BY <1>8 DEF BuildValue, Builds, Fails, Respond, treeVars
<1>9. CASE BuildList
  BY <1>9 DEF BuildList, Builds, Fails, Respond, treeVars
<1> QED BY <1>1, <1>2, <1>3, <1>4, <1>5, <1>6, <1>7, <1>8, <1>9 DEF ServeHTTP

LEMMA TreeInvariance == Spec => []TreeInv
<1>1. Init => TreeInv
  BY DEF Init, TreeInv, RegistrationOrderFree, Origin, Range, PrefixesOf
<1>2. TreeInv /\ [Next]_vars => TreeInv'
  <2> SUFFICES ASSUME TreeInv, [Next]_vars PROVE TreeInv'
    OBVIOUS
  <2>1. CASE \E g \in Registrations : Handle(g)
    BY <2>1, HandlePreservesTree
  <2>2. CASE Start \/ (\E r \in Requests : Receive(r)) \/ ServeHTTP \/ UNCHANGED vars
    <3>1. UNCHANGED treeVars /\ (phase = "panicked" <=> phase' = "panicked")
      BY <2>2, ServingKeepsTree
    <3> QED BY <3>1 DEF treeVars, TreeInv, RegistrationOrderFree, Origin, Malformed, IsParam,
                        Conflict, Part
  <2> QED BY <2>1, <2>2 DEF Next
<1> QED BY <1>1, <1>2, PTL DEF Spec

\* Whatever is registered, in whatever order, HandleMetadata and HandleDirectory
\* panic for the same sets of registrations and build the same tree from the others.
THEOREM AlwaysRegistrationOrderFree == Spec => []RegistrationOrderFree
<1>1. TreeInv => RegistrationOrderFree
  BY DEF TreeInv
<1> QED BY <1>1, TreeInvariance, PTL

-----------------------------------------------------------------------------
(* The shape of the tree *)

\* Only what an edge leads to says which nodes there are; an edge that is a
\* parameter has no siblings.
ShapeInv ==
    /\ \A e \in DOMAIN value :
         /\ e \in Patterns /\ e # <<>> /\ Front(e) \in DOMAIN children
         /\ value[e] \in {"nil", "dir", "meta", "token"}
    /\ \A e, f \in DOMAIN value : Front(e) = Front(f) /\ e # f => ~IsParam(e)
    /\ DOMAIN children = {<<>>} \cup {e \in DOMAIN value : value[e] = "dir"}
    /\ \A n \in DOMAIN children :
         /\ children[n] \in Seq(DOMAIN value) /\ IsInjective(children[n])
         /\ Range(children[n]) = {e \in DOMAIN value : Front(e) = n /\ ~IsParam(e)}
    /\ \A n \in listers : ParamEdges(n) # {}

\* A registration that does not panic keeps the shape.
LEMMA HandlePreservesShape ==
    ASSUME ShapeInv, NEW g \in Registrations, Handle(g)
    PROVE  ShapeInv'
<1>1. CASE Panics(g)
  BY <1>1 DEF Handle, ShapeInv, IsParam, ParamEdges
<1>2. CASE ~Panics(g)
  <2> DEFINE p == g.path
             above(k) == SubSeq(p, 1, k - 1)
             edge(k) == SubSeq(p, 1, k)
  <2>0. /\ value' = ValueWith(g) /\ children' = ChildrenWith(g)
        /\ listers' = IF g.kind = "lister" THEN listers \cup {Front(p)} ELSE listers
    BY <1>2 DEF Handle
  <2>1. /\ p \in Patterns /\ p # <<>> /\ Len(p) \in Nat /\ Len(p) >= 1
        /\ edge(Len(p)) = p /\ Len(p) \in 1..Len(p)
        /\ g.kind \in {"meta", "token", "lister"}
    BY <1>2, DirectoryAssumption DEF Panics, Patterns
  <2>2. \A k \in 1..Len(p) :
          /\ edge(k) \in Patterns /\ edge(k) # <<>> /\ Len(edge(k)) = k
          /\ Front(edge(k)) = above(k) /\ Len(above(k)) = k - 1
    BY <2>1, PrefixFront
  <2>3. Range(PrefixesOf(p)) = {edge(k) : k \in 1..Len(p)}
    BY DEF PrefixesOf, Range
  <2>4. /\ DOMAIN value' = DOMAIN value \cup {edge(k) : k \in 1..Len(p)}
        /\ DOMAIN children' = DOMAIN children \cup {above(k) : k \in 1..Len(p)}
    <3>1. DOMAIN value' = DOMAIN value \cup Range(PrefixesOf(p))
      BY <2>0 DEF ValueWith
    <3>2. DOMAIN children' = DOMAIN children \cup {Front(e) : e \in Range(PrefixesOf(p))}
      BY <2>0 DEF ChildrenWith
    <3>3. {Front(e) : e \in Range(PrefixesOf(p))} = {above(k) : k \in 1..Len(p)}
      <4>1. \A k \in 1..Len(p) : Front(edge(k)) = above(k)
        BY <2>2
      <4> HIDE DEF above, edge, p
      <4>2. {Front(e) : e \in {edge(k) : k \in 1..Len(p)}} = {above(k) : k \in 1..Len(p)}
        BY <4>1
      <4> QED BY <2>3, <4>2
    <3> QED BY <2>3, <3>1, <3>2, <3>3
  <2>5. \A e \in DOMAIN value' :
          /\ e = p /\ g.kind # "lister" => value'[e] = g.kind
          /\ e # p /\ IsPrefix(e, p) => value'[e] = "dir"
          /\ ~(e = p /\ g.kind # "lister") /\ ~(e # p /\ IsPrefix(e, p))
               => value'[e] = IF e \in DOMAIN value THEN value[e] ELSE "nil"
    <3>1. DOMAIN value' = DOMAIN value \cup Range(PrefixesOf(p))
      BY <2>0 DEF ValueWith
    <3> QED BY <2>0, <3>1 DEF ValueWith
  <2>6. \A e \in DOMAIN value : e = p /\ g.kind # "lister" => value[e] = "nil"
    BY <1>2 DEF Panics
  <2>7. \A e \in DOMAIN value' :
          /\ e \in Patterns /\ e # <<>> /\ Front(e) \in DOMAIN children'
          /\ value'[e] \in {"nil", "dir", "meta", "token"}
    <3> SUFFICES ASSUME NEW e \in DOMAIN value'
                 PROVE  /\ e \in Patterns /\ e # <<>> /\ Front(e) \in DOMAIN children'
                        /\ value'[e] \in {"nil", "dir", "meta", "token"}
      OBVIOUS
    <3>1. e \in Patterns /\ e # <<>> /\ Front(e) \in DOMAIN children'
      <4>1. CASE e \in DOMAIN value
        BY <2>4, <4>1 DEF ShapeInv
      <4>2. CASE \E k \in 1..Len(p) : e = edge(k)
        BY <2>2, <2>4, <4>2
      <4> QED BY <2>4, <4>1, <4>2
    <3>2. \A f \in DOMAIN value : value[f] \in {"nil", "dir", "meta", "token"}
      BY DEF ShapeInv
    <3>3. value'[e] \in {"nil", "dir", "meta", "token"}
      BY <2>1, <2>5, <3>2
    <3> QED BY <3>1, <3>3
  <2>8. \A e, f \in DOMAIN value' : Front(e) = Front(f) /\ e # f => ~IsParam(e)
    <3> SUFFICES ASSUME NEW e \in DOMAIN value', NEW f \in DOMAIN value',
                        Front(e) = Front(f), e # f
                 PROVE  ~IsParam(e)
      OBVIOUS
    <3>1. CASE e \in DOMAIN value /\ f \in DOMAIN value
      BY <3>1 DEF ShapeInv
    <3>2. ASSUME NEW k \in 1..Len(p), e = edge(k), f \in DOMAIN value
          PROVE  ~IsParam(e)
      <4>1. ~Clashes(edge(k))
        BY <1>2 DEF Panics
      <4> QED BY <3>2, <4>1 DEF Clashes
    <3>3. ASSUME NEW k \in 1..Len(p), f = edge(k), e \in DOMAIN value
          PROVE  ~IsParam(e)
      <4>1. ~Clashes(edge(k))
        BY <1>2 DEF Panics
      <4> QED BY <3>3, <4>1 DEF Clashes
    <3>4. ASSUME NEW k \in 1..Len(p), NEW j \in 1..Len(p), e = edge(k), f = edge(j)
          PROVE  FALSE
      <4>1. k - 1 = j - 1
        BY <2>2, <3>4
      <4>2. k = j
        BY <4>1
      <4> QED BY <3>4, <4>2
    <3> QED BY <2>4, <3>1, <3>2, <3>3, <3>4
  \* The nodes of the pattern are its prefixes, and those that are edges lead on.
  <2>9. \A k \in 1..Len(p) : above(k) = <<>> \/ (above(k) \in DOMAIN value' /\ value'[above(k)] = "dir")
    <3> SUFFICES ASSUME NEW k \in 1..Len(p), k # 1
                 PROVE  above(k) \in DOMAIN value' /\ value'[above(k)] = "dir"
      <4>1. above(1) = <<>>
        BY <2>1 DEF Patterns
      <4> QED BY <4>1
    <3>1. k - 1 \in 1..Len(p) /\ above(k) = edge(k - 1)
      BY <2>1
    <3>2. above(k) \in Patterns /\ Len(above(k)) = k - 1 /\ above(k) \in DOMAIN value'
      BY <2>2, <2>4, <3>1
    <3>3. above(k) # p /\ IsPrefix(above(k), p)
      <4>1. k - 1 < Len(p) /\ k - 1 <= Len(p)
        BY <2>1
      <4>2. above(k) # p
        BY <2>1, <3>2, <4>1
      <4>3. above(k) = SubSeq(p, 1, Len(above(k))) /\ Len(above(k)) <= Len(p)
        BY <3>2, <4>1
      <4> HIDE DEF above, p
      <4> QED BY <2>1, <3>2, <4>2, <4>3, PrefixIsSubSeq
    <3> QED BY <2>5, <3>2, <3>3
  <2>10. \A n \in Patterns : IsStrictPrefix(n, p) => Len(n) + 1 \in 1..Len(p) /\ above(Len(n) + 1) = n
    <3> SUFFICES ASSUME NEW n \in Patterns, IsStrictPrefix(n, p)
                 PROVE  Len(n) + 1 \in 1..Len(p) /\ above(Len(n) + 1) = n
      OBVIOUS
    <3>1. Len(n) < Len(p) /\ n = SubSeq(p, 1, Len(n)) /\ Len(n) \in Nat
      BY <2>1, PrefixIsSubSeq DEF IsStrictPrefix, Patterns
    <3>2. Len(n) + 1 - 1 = Len(n) /\ Len(n) + 1 \in 1..Len(p)
      BY <2>1, <3>1
    <3> QED BY <3>1, <3>2
  <2>11. DOMAIN children' = {<<>>} \cup {e \in DOMAIN value' : value'[e] = "dir"}
    <3>1. ASSUME NEW n \in DOMAIN children'
          PROVE  n = <<>> \/ (n \in DOMAIN value' /\ value'[n] = "dir")
      <4>1. CASE n \in DOMAIN children
        <5>1. n = <<>> \/ (n \in DOMAIN value /\ value[n] = "dir")
          BY <4>1 DEF ShapeInv
        <5> QED BY <2>4, <2>5, <2>6, <5>1
      <4> QED BY <2>4, <2>9, <3>1, <4>1
    <3>2. <<>> \in DOMAIN children'
      BY <2>4 DEF ShapeInv
    <3>3. ASSUME NEW e \in DOMAIN value', value'[e] = "dir"
          PROVE  e \in DOMAIN children'
      <4>1. CASE e # p /\ IsPrefix(e, p)
        BY <2>4, <2>7, <2>10, <4>1 DEF IsStrictPrefix
      <4>2. CASE ~(e # p /\ IsPrefix(e, p))
        <5>1. ~(e = p /\ g.kind # "lister")
          BY <2>1, <2>5, <3>3
        <5>2. e \in DOMAIN value /\ value[e] = "dir"
          BY <2>5, <3>3, <4>2, <5>1
        <5> QED BY <2>4, <5>2 DEF ShapeInv
      <4> QED BY <4>1, <4>2
    <3> QED BY <3>1, <3>2, <3>3
  <2>12. ASSUME NEW n \in DOMAIN children'
         PROVE  /\ children'[n] \in Seq(DOMAIN value') /\ IsInjective(children'[n])
                /\ Range(children'[n]) = {e \in DOMAIN value' : Front(e) = n /\ ~IsParam(e)}
    <3> DEFINE siblings == IF n \in DOMAIN children THEN children[n] ELSE <<>>
               next == SubSeq(p, 1, Len(n) + 1)
    <3>1. children'[n] = IF IsStrictPrefix(n, p) /\ Creates(next, siblings)
                         THEN Append(siblings, next) ELSE siblings
      <4>1. n \in DOMAIN children \cup {Front(e) : e \in Range(PrefixesOf(p))}
        BY <2>0, <2>12 DEF ChildrenWith
      <4> QED BY <2>0, <4>1 DEF ChildrenWith
    <3>2. /\ siblings \in Seq(DOMAIN value) /\ IsInjective(siblings)
          /\ Range(siblings) = {e \in DOMAIN value : Front(e) = n /\ ~IsParam(e)}
      <4>1. CASE n \in DOMAIN children
        BY <4>1 DEF ShapeInv
      <4>2. CASE n \notin DOMAIN children
        BY <4>2 DEF ShapeInv, Range, IsInjective
      <4> QED BY <4>1, <4>2
    <3>3. n \in Patterns
      <4>1. <<>> \in Patterns
        BY DEF Patterns
      <4> QED BY <2>7, <2>11, <2>12, <4>1
    <3>4. siblings \in Seq(DOMAIN value')
      BY <2>4, <3>2
    <3> HIDE DEF siblings
    <3>5. CASE IsStrictPrefix(n, p)
      <4>1. Len(n) + 1 \in 1..Len(p) /\ above(Len(n) + 1) = n /\ next = edge(Len(n) + 1)
        BY <2>10, <3>3, <3>5
      <4>2. Front(next) = n /\ next \in DOMAIN value'
        BY <2>2, <2>4, <4>1
      <4>3. \A e \in DOMAIN value' : Front(e) = n => e \in DOMAIN value \/ e = next
        <5> SUFFICES ASSUME NEW k \in 1..Len(p), Front(edge(k)) = n PROVE edge(k) = next
          BY <2>4
        <5>1. k - 1 = Len(n)
          BY <2>2
        <5>2. k = Len(n) + 1
          BY <5>1
        <5> QED BY <5>2
      <4> HIDE DEF next
      <4>4. CASE Creates(next, siblings)
        <5>1. children'[n] = Append(siblings, next)
          BY <3>1, <3>5, <4>4
        <5>2. ~IsParam(next) /\ next \notin Range(siblings)
          BY <4>4 DEF Creates
        <5>3. /\ Append(siblings, next) \in Seq(DOMAIN value')
              /\ Range(Append(siblings, next)) = Range(siblings) \cup {next}
          BY <3>4, <4>2, RangeOfAppended
        <5>4. IsInjective(Append(siblings, next))
          <6>1. /\ DOMAIN Append(siblings, next) = DOMAIN siblings \cup {Len(siblings) + 1}
                /\ \A i \in DOMAIN siblings : Append(siblings, next)[i] = siblings[i]
                /\ Append(siblings, next)[Len(siblings) + 1] = next
            BY <3>4, <4>2, RangeOfAppended
          <6>2. \A i \in DOMAIN siblings : siblings[i] # next
            BY <5>2 DEF Range
          <6> DEFINE t == Append(siblings, next)
          <6>3. t = Append(siblings, next)
            OBVIOUS
          <6> HIDE DEF t
          <6>4. IsInjective(t)
            BY <3>2, <6>1, <6>2, <6>3 DEF IsInjective
          <6> QED BY <6>3, <6>4
        <5>5. Range(siblings) \cup {next} = {e \in DOMAIN value' : Front(e) = n /\ ~IsParam(e)}
          BY <2>4, <3>2, <4>2, <4>3, <5>2
        <5> QED BY <5>1, <5>3, <5>4, <5>5
      <4>5. CASE ~Creates(next, siblings)
        <5>1. children'[n] = siblings
          BY <3>1, <4>5
        <5>2. IsParam(next) \/ next \in Range(siblings)
          BY <4>5 DEF Creates
        <5>3. Range(siblings) = {e \in DOMAIN value' : Front(e) = n /\ ~IsParam(e)}
          BY <2>4, <3>2, <4>2, <4>3, <5>2
        <5> QED BY <3>2, <3>4, <5>1, <5>3
      <4> QED BY <4>4, <4>5
    <3>6. CASE ~IsStrictPrefix(n, p)
      <4>1. children'[n] = siblings
        BY <3>1, <3>6
      <4>2. \A e \in DOMAIN value' : Front(e) = n => e \in DOMAIN value
        <5> SUFFICES ASSUME NEW k \in 1..Len(p), Front(edge(k)) = n PROVE FALSE
          BY <2>4
        <5>1. n = SubSeq(p, 1, k - 1) /\ Len(n) = k - 1
          BY <2>2
        <5>2. n = SubSeq(p, 1, Len(n)) /\ Len(n) < Len(p) /\ Len(n) <= Len(p)
          BY <2>1, <5>1
        <5>3. IsPrefix(n, p) /\ n # p
          BY <2>1, <3>3, <5>2, PrefixIsSubSeq
        <5> QED BY <3>6, <5>3 DEF IsStrictPrefix
      <4>3. Range(siblings) = {e \in DOMAIN value' : Front(e) = n /\ ~IsParam(e)}
        BY <2>4, <3>2, <4>2
      <4> QED BY <3>2, <3>4, <4>1, <4>3
    <3> QED BY <3>5, <3>6
  <2>13. \A n \in listers' : {e \in DOMAIN value' : Front(e) = n /\ IsParam(e)} # {}
    <3>1. \A n \in listers : {e \in DOMAIN value : Front(e) = n /\ IsParam(e)} # {}
      BY DEF ShapeInv, ParamEdges
    <3>2. g.kind = "lister" => IsParam(p)
      BY <1>2 DEF Panics
    <3>3. p \in DOMAIN value'
      BY <2>1, <2>4
    <3> QED BY <2>0, <2>4, <3>1, <3>2, <3>3
  <2> QED BY <2>7, <2>8, <2>11, <2>12, <2>13 DEF ShapeInv, IsParam, ParamEdges
<1> QED BY <1>1, <1>2

-----------------------------------------------------------------------------
(* The walk and the recursion *)

\* All that the pieces of a path can be.
AllNames == Words \cup Names \cup (UNION {Range(r.segments) : r \in Requests})

Work == [do : {"value", "list"}, edge : Patterns, at : Seq(AllNames), ctx : SUBSET Patterns]

\* What waits on the agenda is below the directory of the request, and has the
\* context of the listers above it.
AgendaInv ==
    /\ agenda \in Seq(Work)
    /\ \A w \in Range(agenda) :
         /\ w.ctx = Above(w.edge)
         /\ w.do = "value" => w.edge \in DOMAIN value
         /\ w.do = "list" => w.edge \in listers
         /\ phase = "build" => Len(w.at) >= Len(Here)

\* Where the walk has got to.
NodeInv ==
    /\ phase \in {"setup", "panicked", "idle", "walk", "call", "serve", "build", "done", "aborted"}
    /\ req \in Requests /\ ctx \subseteq listers
    /\ node = <<>> \/ node \in DOMAIN value
    /\ phase \in {"walk", "serve", "build"} => node \in DOMAIN children
    /\ phase = "call" => node \in DOMAIN value /\ value[node] \in {"meta", "token"}
    /\ phase \in {"walk", "call", "serve", "build"} => ctx = Above(node)

ServeInv == NodeInv /\ AgendaInv /\ ContextExact

LEMMA RangeOfConcat ==
    ASSUME NEW S, NEW s \in Seq(S), NEW t \in Seq(S)
    PROVE  s \o t \in Seq(S) /\ Range(s \o t) = Range(s) \cup Range(t)
<1> DEFINE u == s \o t
<1>1. /\ u \in Seq(S) /\ Len(s) \in Nat /\ Len(t) \in Nat
      /\ DOMAIN s = 1..Len(s) /\ DOMAIN t = 1..Len(t) /\ DOMAIN u = 1..(Len(s) + Len(t))
      /\ \A i \in 1..(Len(s) + Len(t)) : u[i] = IF i <= Len(s) THEN s[i] ELSE t[i - Len(s)]
  OBVIOUS
<1>0. u = s \o t
  OBVIOUS
<1> HIDE DEF u
<1>2. ASSUME NEW i \in DOMAIN u PROVE u[i] \in Range(s) \cup Range(t)
  <2>1. CASE i <= Len(s)
    <3>1. i \in DOMAIN s /\ u[i] = s[i]
      BY <1>1, <2>1
    <3> QED BY <3>1 DEF Range
  <2>2. CASE ~(i <= Len(s))
    <3>1. i - Len(s) \in DOMAIN t /\ u[i] = t[i - Len(s)]
      BY <1>1, <2>2
    <3> QED BY <3>1 DEF Range
  <2> QED BY <2>1, <2>2
<1>3. \A i \in DOMAIN s : i \in DOMAIN u /\ u[i] = s[i]
  BY <1>1
<1>4. \A i \in DOMAIN t : Len(s) + i \in DOMAIN u /\ u[Len(s) + i] = t[i]
  BY <1>1
<1>5. Range(u) \subseteq Range(s) \cup Range(t)
  BY <1>2 DEF Range
<1>6. Range(s) \subseteq Range(u)
  BY <1>3 DEF Range
<1>7. Range(t) \subseteq Range(u)
  BY <1>4 DEF Range
<1>8. Range(u) = Range(s) \cup Range(t)
  BY <1>5, <1>6, <1>7
<1> QED BY <1>0, <1>1, <1>8

LEMMA RangeOfTail ==
    ASSUME NEW S, NEW s \in Seq(S), s # <<>>
    PROVE  /\ Tail(s) \in Seq(S) /\ Range(s) = {Head(s)} \cup Range(Tail(s))
           /\ Head(s) \in Range(s) /\ Head(s) \in S
<1> DEFINE u == Tail(s)
<1>1. /\ u \in Seq(S) /\ Len(s) \in Nat /\ Len(s) >= 1 /\ Head(s) = s[1] /\ Head(s) \in S
      /\ DOMAIN s = 1..Len(s) /\ DOMAIN u = 1..(Len(s) - 1)
      /\ \A i \in 1..(Len(s) - 1) : u[i] = s[i + 1]
  OBVIOUS
<1> HIDE DEF u
<1>2. \A i \in DOMAIN u : i + 1 \in DOMAIN s /\ u[i] = s[i + 1]
  BY <1>1
<1>3. \A i \in DOMAIN s : i = 1 \/ (i - 1 \in DOMAIN u /\ s[i] = u[i - 1])
  BY <1>1
<1>4. 1 \in DOMAIN s
  BY <1>1
<1>5. Range(u) \subseteq Range(s)
  BY <1>2 DEF Range
<1>6. Head(s) \in Range(s)
  BY <1>1, <1>4 DEF Range
<1>7. Range(s) \subseteq {Head(s)} \cup Range(u)
  BY <1>1, <1>3 DEF Range
<1> QED BY <1>1, <1>5, <1>6, <1>7 DEF u

\* The listers above an edge are those above its node, and the one of the node if
\* the edge is a parameter.
LEMMA AboveProperties ==
    /\ Above(<<>>) = {}
    /\ \A e \in Patterns : Above(e) \subseteq Patterns
    /\ \A e \in Patterns : e # <<>> =>
         Above(e) = Above(Front(e)) \cup (IF IsParam(e) THEN {Front(e)} ELSE {})
<1>1. Above(<<>>) = {}
  BY DEF Above, PrefixesOf, Range
<1>2. \A p : Range(PrefixesOf(p)) = {SubSeq(p, 1, k) : k \in 1..Len(p)}
  BY DEF PrefixesOf, Range
<1>3. ASSUME NEW e \in Patterns PROVE Above(e) \subseteq Patterns
  <2>1. \A k \in 1..Len(e) : Front(SubSeq(e, 1, k)) \in Patterns
    <3> SUFFICES ASSUME NEW k \in 1..Len(e) PROVE Front(SubSeq(e, 1, k)) \in Patterns
      OBVIOUS
    <3>1. k - 1 \in 0..Len(e)
      BY DEF Patterns
    <3>2. SubSeq(e, 1, k - 1) \in Patterns
      BY <3>1, PrefixProperties
    <3> QED BY <3>2, PrefixFront
  <2>2. \A f \in Range(PrefixesOf(e)) : Front(f) \in Patterns
    BY <1>2, <2>1
  <2> QED BY <2>2 DEF Above
<1>4. ASSUME NEW e \in Patterns, e # <<>>
      PROVE  Above(e) = Above(Front(e)) \cup (IF IsParam(e) THEN {Front(e)} ELSE {})
  <2> DEFINE n == Front(e)
             m == Len(e)
  <2>1. m \in Nat /\ m \in 1..m /\ SubSeq(e, 1, m) = e /\ n = SubSeq(e, 1, m - 1)
    BY <1>4 DEF Patterns, Front
  <2>2. n \in Patterns /\ Len(n) = m - 1 /\ \A i \in 1..(m - 1) : n[i] = e[i]
    <3>1. m - 1 \in 0..Len(e)
      BY <2>1
    <3> QED BY <2>1, <3>1, PrefixProperties
  <2>3. \A k \in 1..(m - 1) : SubSeq(n, 1, k) = SubSeq(e, 1, k)
    <3> HIDE DEF n
    <3> SUFFICES ASSUME NEW k \in 1..(m - 1) PROVE SubSeq(n, 1, k) = SubSeq(e, 1, k)
      OBVIOUS
    <3>1. k \in 0..Len(n) /\ k <= Len(e) /\ \A i \in 1..k : n[i] = e[i]
      BY <2>1, <2>2
    <3> QED BY <2>2, <3>1, PrefixesEqual
  <2>4. 1..m = 1..(m - 1) \cup {m}
    BY <2>1
  <2> HIDE DEF n, m
  <2>5. {SubSeq(e, 1, k) : k \in 1..m} = {SubSeq(n, 1, k) : k \in 1..(m - 1)} \cup {e}
    BY <2>1, <2>3, <2>4
  <2>6. Range(PrefixesOf(e)) = Range(PrefixesOf(n)) \cup {e}
    BY <1>2, <2>2, <2>5 DEF m
  <2>7. Above(e) = Above(n) \cup (IF IsParam(e) THEN {Front(e)} ELSE {})
    BY <2>6 DEF Above
  <2> QED BY <2>7 DEF n
<1> QED BY <1>1, <1>3, <1>4

\* What buildRecursive has to do at a node.
LEMMA VisitProperties ==
    ASSUME ShapeInv, NEW n \in DOMAIN children, NEW at \in Seq(AllNames)
    PROVE  /\ Visit(n, at, Above(n)) \in Seq(Work)
           /\ \A w \in Range(Visit(n, at, Above(n))) :
                /\ w.ctx = Above(w.edge)
                /\ w.do = "value" => w.edge \in DOMAIN value
                /\ w.do = "list" => w.edge \in listers
                /\ Len(w.at) >= Len(at)
<1> DEFINE c == Above(n)
           below == children[n]
           values == [i \in DOMAIN below |->
                        [do |-> "value", edge |-> below[i], at |-> Append(at, Last(below[i])), ctx |-> c]]
           list == IF n \in listers THEN <<[do |-> "list", edge |-> n, at |-> at, ctx |-> c]>> ELSE <<>>
           Good(w) == /\ w.ctx = Above(w.edge)
                      /\ w.do = "value" => w.edge \in DOMAIN value
                      /\ w.do = "list" => w.edge \in listers
                      /\ Len(w.at) >= Len(at)
<1>1. Visit(n, at, c) = values \o list
  BY DEF Visit
<1>2. n \in Patterns
  <2>1. <<>> \in Patterns
    BY DEF Patterns
  <2> QED BY <2>1 DEF ShapeInv
<1>3. c \in SUBSET Patterns
  BY <1>2, AboveProperties
<1>4. below \in Seq(DOMAIN value) /\ \A i \in DOMAIN below : below[i] \in DOMAIN value /\ Front(below[i]) = n /\ ~IsParam(below[i])
  <2>1. below \in Seq(DOMAIN value) /\ Range(below) = {e \in DOMAIN value : Front(e) = n /\ ~IsParam(e)}
    BY DEF ShapeInv
  <2> QED BY <2>1 DEF Range
<1>5. \A i \in DOMAIN below : values[i] \in Work /\ Good(values[i])
  <2> SUFFICES ASSUME NEW i \in DOMAIN below PROVE values[i] \in Work /\ Good(values[i])
    OBVIOUS
  <2> DEFINE e == below[i]
             v == [do |-> "value", edge |-> e, at |-> Append(at, Last(e)), ctx |-> c]
  <2>1. e \in DOMAIN value /\ e \in Patterns /\ e # <<>> /\ Front(e) = n /\ ~IsParam(e)
    BY <1>4 DEF ShapeInv
  <2>2. Above(e) = c
    BY <2>1, AboveProperties
  <2>3. Last(e) \in AllNames
    <3>1. Last(e) \in Words
      BY <2>1 DEF Patterns, Last
    <3> QED BY <3>1 DEF AllNames
  <2>4. Append(at, Last(e)) \in Seq(AllNames) /\ Len(Append(at, Last(e))) >= Len(at)
    BY <2>3
  <2>5. values[i] = v
    OBVIOUS
  <2> HIDE DEF e, c, values
  <2>6. v \in Work
    BY <1>3, <2>1, <2>4 DEF Work
  <2>7. Good(v)
    BY <2>1, <2>2, <2>4
  <2> QED BY <2>5, <2>6, <2>7
<1>6. values \in Seq(Work) /\ \A w \in Range(values) : Good(w)
  <2>1. DOMAIN below = 1..Len(below) /\ Len(below) \in Nat /\ DOMAIN values = DOMAIN below
    BY <1>4
  <2> HIDE DEF values, below, Good
  <2>2. \A w \in Range(values) : Good(w)
    BY <1>5, <2>1 DEF Range
  <2>3. values \in [1..Len(below) -> Work]
    <3>1. values = [i \in DOMAIN below |-> values[i]]
      BY DEF values
    <3> QED BY <1>5, <2>1, <3>1
  <2> QED BY <2>1, <2>2, <2>3
<1>7. list \in Seq(Work) /\ \A w \in Range(list) : Good(w)
  <2> DEFINE v == [do |-> "list", edge |-> n, at |-> at, ctx |-> c]
  <2>1. v \in Work
    BY <1>2, <1>3 DEF Work
  <2>2. n \in listers => Good(v)
    BY DEF c
  <2>3. list = IF n \in listers THEN <<v>> ELSE <<>>
    OBVIOUS
  <2> HIDE DEF v, list, Good
  <2>4. list \in Seq(Work)
    BY <2>1, <2>3
  <2>5. \A w \in Range(list) : Good(w)
    BY <2>2, <2>3 DEF Range
  <2> QED BY <2>4, <2>5
<1> HIDE DEF c, values, list, Good
<1>8. values \o list \in Seq(Work) /\ Range(values \o list) \subseteq Range(values) \cup Range(list)
  BY <1>6, <1>7, RangeOfConcat
<1>9. \A w \in Range(values \o list) : Good(w)
  BY <1>6, <1>7, <1>8
<1> QED BY <1>1, <1>8, <1>9 DEF Good, c

\* Steps that leave the agenda alone.
LEMMA KeepsAgenda ==
    ASSUME AgendaInv, UNCHANGED <<treeVars, req, agenda>>, phase' = "build" => phase = "build"
    PROVE  AgendaInv'
<1>1. Here' = Here /\ agenda' = agenda /\ listers' = listers /\ value' = value
  BY DEF Here, treeVars
<1>2. agenda \in Seq(Work)
  BY DEF AgendaInv
<1>3. \A w \in Range(agenda) :
         /\ w.ctx = Above(w.edge)
         /\ w.do = "value" => w.edge \in DOMAIN value
         /\ w.do = "list" => w.edge \in listers
         /\ phase' = "build" => Len(w.at) >= Len(Here)
  BY DEF AgendaInv
<1> QED BY <1>1, <1>2, <1>3 DEF AgendaInv, Above, IsParam

\* One step of the walk along an edge, with the context of the listers above it.
LEMMA FollowPreservesNode ==
    ASSUME ShapeInv, NodeInv, phase = "walk", NEW e \in DOMAIN value, Follow(e),
           ctx' = Above(e), ctx' \subseteq listers, UNCHANGED <<treeVars, req>>
    PROVE  NodeInv' /\ phase' # "build"
<1>1. /\ listers' = listers /\ children' = children /\ value' = value /\ req' = req
      /\ req \in Requests /\ value[e] \in {"nil", "dir", "meta", "token"}
      /\ value[e] = "dir" => e \in DOMAIN children
      /\ node = <<>> \/ node \in DOMAIN value
  BY DEF treeVars, NodeInv, ShapeInv
<1>2. CASE Len(e) < Len(Pieces(req))
  <2>1. CASE value[e] = "dir"
    <3>1. node' = e /\ phase' = "walk"
      BY <1>2, <2>1 DEF Follow
    <3> QED BY <1>1, <2>1, <3>1 DEF NodeInv, Above, IsParam
  <2>2. CASE value[e] # "dir"
    <3>1. node' = node /\ phase' = "done"
      BY <1>2, <2>2 DEF Follow, Respond
    <3> QED BY <1>1, <3>1 DEF NodeInv, Above, IsParam
  <2> QED BY <2>1, <2>2
<1>3. CASE ~(Len(e) < Len(Pieces(req)))
  <2>1. /\ node' = e
        /\ phase' = CASE value[e] = "dir" -> "serve" [] value[e] = "nil" -> "aborted" [] OTHER -> "call"
    BY <1>3 DEF Follow
  <2>2. CASE value[e] = "dir"
    <3>1. phase' = "serve"
      BY <2>1, <2>2
    <3> QED BY <1>1, <2>1, <2>2, <3>1 DEF NodeInv, Above, IsParam
  <2>3. CASE value[e] = "nil"
    <3>1. phase' = "aborted"
      BY <2>1, <2>3
    <3> QED BY <1>1, <2>1, <3>1 DEF NodeInv, Above, IsParam
  <2>4. CASE value[e] \in {"meta", "token"}
    <3>1. phase' = "call"
      BY <2>1, <2>4
    <3> QED BY <1>1, <2>1, <2>4, <3>1 DEF NodeInv, Above, IsParam
  <2> QED BY <1>1, <2>2, <2>3, <2>4
<1> QED BY <1>2, <1>3

\* A registration finds nothing to disturb: no request is served yet.
LEMMA HandlePreservesServe ==
    ASSUME ServeInv, ShapeInv, NEW g \in Registrations, Handle(g)
    PROVE  ServeInv'
<1>1. /\ UNCHANGED <<req, node, ctx, agenda, listed, called>>
      /\ phase = "setup" /\ phase' \in {"setup", "panicked"}
  BY DEF Handle
<1>2. listers \subseteq listers' /\ DOMAIN value \subseteq DOMAIN value'
  <2>1. CASE Panics(g)
    BY <2>1 DEF Handle
  <2>2. CASE ~Panics(g)
    <3>1. value' = ValueWith(g) /\ listers \subseteq listers'
      BY <2>2 DEF Handle
    <3>2. DOMAIN value' = DOMAIN value \cup Range(PrefixesOf(g.path))
      BY <3>1 DEF ValueWith
    <3> QED BY <3>1, <3>2
  <2> QED BY <2>1, <2>2
<1>3. NodeInv'
  BY <1>1, <1>2 DEF ServeInv, NodeInv
<1>4. AgendaInv'
  BY <1>1, <1>2 DEF ServeInv, AgendaInv, Above, IsParam
<1>5. ContextExact'
  BY <1>1 DEF ServeInv, ContextExact, Above, IsParam
<1> QED BY <1>3, <1>4, <1>5 DEF ServeInv

LEMMA WalkPreservesServe ==
    ASSUME ServeInv, ShapeInv, WalkStatic \/ WalkParam \/ WalkParamFails \/ WalkParamAborts
    PROVE  ServeInv'
<1>0. /\ phase = "walk" /\ UNCHANGED <<treeVars, req, agenda, called>>
      /\ node \in DOMAIN children /\ ctx = Above(node) /\ ctx \subseteq listers /\ node \in Patterns
  <2>1. phase = "walk" /\ UNCHANGED <<treeVars, req, agenda, called>>
    BY DEF WalkStatic, WalkParam, WalkParamFails, WalkParamAborts
  <2>2. <<>> \in Patterns
    BY DEF Patterns
  <2> QED BY <2>1, <2>2 DEF ServeInv, NodeInv, ShapeInv
<1>1. \A e \in DOMAIN value : e \in Patterns /\ e # <<>>
  BY DEF ShapeInv
<1>2. CASE WalkStatic
  <2> DEFINE e == Append(node, Piece)
  <2>0. listed' = listed /\ ctx' = ctx
    BY <1>2 DEF WalkStatic
  <2>1. NodeInv' /\ phase' # "build"
    <3>1. CASE e \in Range(children[node])
      <4>1. Follow(e)
        BY <1>2, <3>1 DEF WalkStatic
      <4> HIDE DEF e
      <4>2. e \in DOMAIN value /\ Front(e) = node /\ ~IsParam(e)
        BY <1>0, <3>1 DEF ShapeInv
      <4>3. ctx' = Above(e)
        BY <1>0, <1>1, <2>0, <4>2, AboveProperties
      <4> QED BY <1>0, <2>0, <4>1, <4>2, <4>3, FollowPreservesNode DEF ServeInv
    <3>2. CASE e \notin Range(children[node])
      <4>1. phase' = "done" /\ node' = node
        BY <1>2, <3>2 DEF WalkStatic, Respond
      <4> QED BY <1>0, <2>0, <4>1 DEF ServeInv, NodeInv, treeVars
    <3> QED BY <3>1, <3>2
  <2>2. AgendaInv'
    BY <1>0, <2>1, KeepsAgenda DEF ServeInv
  <2>3. ContextExact'
    BY <1>0, <2>0 DEF ServeInv, ContextExact, Above, IsParam
  <2> QED BY <2>1, <2>2, <2>3 DEF ServeInv
<1>3. CASE WalkParam
  <2>1. PICK names \in Listings, e \in ParamEdges(node) :
          /\ Lists(node, SubSeq(Pieces(req), 1, Len(node)), ctx, names)
          /\ ctx' = ctx \cup {node}
          /\ IF HasEntry(names) THEN Follow(e) ELSE Respond("404") /\ UNCHANGED node
    BY <1>3 DEF WalkParam
  <2>2. e \in DOMAIN value /\ Front(e) = node /\ IsParam(e) /\ node \in listers
    BY <1>3 DEF ParamEdges, WalkParam
  <2>3. ctx' = Above(e) /\ ctx' \subseteq listers
    BY <1>0, <1>1, <2>1, <2>2, AboveProperties
  <2>4. NodeInv' /\ phase' # "build"
    <3>1. CASE HasEntry(names)
      BY <1>0, <2>1, <2>2, <2>3, <3>1, FollowPreservesNode DEF ServeInv
    <3>2. CASE ~HasEntry(names)
      <4>1. phase' = "done" /\ node' = node
        BY <2>1, <3>2 DEF Respond
      <4> QED BY <1>0, <2>3, <4>1 DEF ServeInv, NodeInv, treeVars
    <3> QED BY <3>1, <3>2
  <2>5. AgendaInv'
    BY <1>0, <2>4, KeepsAgenda DEF ServeInv
  <2>6. ContextExact'
    <3> DEFINE l == [node |-> node, at |-> SubSeq(Pieces(req), 1, Len(node)), ctx |-> ctx, names |-> names]
    <3>1. listed' = listed \cup {l} /\ called' = called
      BY <1>0, <2>1 DEF Lists
    <3>2. l.ctx = Above(l.node)
      BY <1>0
    <3> HIDE DEF l
    <3> QED BY <3>1, <3>2 DEF ServeInv, ContextExact, Above, IsParam
  <2> QED BY <2>4, <2>5, <2>6 DEF ServeInv
<1>4. CASE WalkParamFails \/ WalkParamAborts
  <2>1. phase' \in {"done", "aborted"} /\ UNCHANGED <<node, ctx, listed>>
    BY <1>4 DEF WalkParamFails, WalkParamAborts, Respond
  <2>2. NodeInv'
    BY <1>0, <2>1 DEF ServeInv, NodeInv, treeVars
  <2>3. AgendaInv'
    BY <1>0, <2>1, KeepsAgenda DEF ServeInv
  <2>4. ContextExact'
    BY <1>0, <2>1 DEF ServeInv, ContextExact, Above, IsParam
  <2> QED BY <2>2, <2>3, <2>4 DEF ServeInv
<1> QED BY <1>2, <1>3, <1>4

\* The directory of the request is a sequence of names.
LEMMA HereProperties ==
    ASSUME NodeInv
    PROVE  Here \in Seq(AllNames) /\ Len(Here) \in Nat
<1>1. req \in Requests /\ Pieces(req) \in Seq(Range(req.segments))
  BY PiecesAssumption DEF NodeInv
<1>2. Range(req.segments) \subseteq AllNames
  BY <1>1 DEF AllNames
<1> DEFINE h == Pieces(req)
<1> HIDE DEF h
<1>3. h \in Seq(AllNames) /\ Len(h) \in Nat
  BY <1>1, <1>2 DEF h
<1> QED BY <1>3 DEF h, Here

LEMMA ListingPreservesServe ==
    ASSUME ServeInv, ShapeInv,
           ServeMetadata \/ Redirect \/ List \/ BuildRecursive \/ BuildReturns
    PROVE  ServeInv'
<1>0. UNCHANGED <<treeVars, req, node>>
  BY DEF ServeMetadata, Redirect, List, BuildRecursive, BuildReturns
<1>1. CASE ServeMetadata
  <2>1. /\ phase = "call" /\ phase' = "done" /\ UNCHANGED <<ctx, agenda, listed>>
        /\ called' = called \cup {[edge |-> node, ctx |-> ctx]}
    BY <1>1 DEF ServeMetadata, Respond, Calls
  <2>2. ctx = Above(node)
    BY <2>1 DEF ServeInv, NodeInv
  <2>3. NodeInv'
    BY <1>0, <2>1 DEF ServeInv, NodeInv, treeVars
  <2>4. AgendaInv'
    BY <1>0, <2>1, KeepsAgenda DEF ServeInv
  <2>5. ContextExact'
    BY <2>1, <2>2 DEF ServeInv, ContextExact, Above, IsParam
  <2> QED BY <2>3, <2>4, <2>5 DEF ServeInv
<1>2. CASE Redirect \/ BuildReturns
  <2>1. phase' = "done" /\ UNCHANGED <<ctx, agenda, listed, called>>
    BY <1>2 DEF Redirect, BuildReturns, Respond
  <2>2. NodeInv'
    BY <1>0, <2>1 DEF ServeInv, NodeInv, treeVars
  <2>3. AgendaInv'
    BY <1>0, <2>1, KeepsAgenda DEF ServeInv
  <2>4. ContextExact'
    BY <2>1 DEF ServeInv, ContextExact, Above, IsParam
  <2> QED BY <2>2, <2>3, <2>4 DEF ServeInv
<1>3. CASE List
  <2>1. /\ phase = "serve" /\ phase' = "done" /\ UNCHANGED <<agenda, called>>
        /\ ctx' = ctx \/ (node \in listers /\ ctx' = ctx \cup {node})
        /\ listed' = listed \/ \E names \in Listings :
             listed' = listed \cup {[node |-> node, at |-> Here, ctx |-> ctx, names |-> names]}
    BY <1>3 DEF List, Respond, Lists
  <2>2. ctx = Above(node)
    BY <2>1 DEF ServeInv, NodeInv
  <2>3. NodeInv'
    <3>1. ctx' \subseteq listers'
      BY <1>0, <2>1 DEF ServeInv, NodeInv, treeVars
    <3> QED BY <1>0, <2>1, <3>1 DEF ServeInv, NodeInv, treeVars
  <2>4. AgendaInv'
    BY <1>0, <2>1, KeepsAgenda DEF ServeInv
  <2>5. ContextExact'
    <3>1. \A c \in called' : c.ctx = Above(c.edge)
      BY <2>1 DEF ServeInv, ContextExact
    <3>2. \A l \in listed' : l.ctx = Above(l.node)
      BY <2>1, <2>2 DEF ServeInv, ContextExact
    <3> QED BY <3>1, <3>2 DEF ContextExact, Above, IsParam
  <2> QED BY <2>3, <2>4, <2>5 DEF ServeInv
<1>4. CASE BuildRecursive
  <2>1. /\ phase = "serve" /\ phase' = "build" /\ agenda' = Visit(node, Here, ctx)
        /\ UNCHANGED <<ctx, listed, called>>
    BY <1>4 DEF BuildRecursive
  <2>2. ctx = Above(node) /\ node \in DOMAIN children
    BY <2>1 DEF ServeInv, NodeInv
  <2>3. NodeInv'
    BY <1>0, <2>1, <2>2 DEF ServeInv, NodeInv, treeVars, Above, IsParam
  <2>4. AgendaInv'
    <3>1. Here \in Seq(AllNames)
      BY HereProperties DEF ServeInv
    <3>2. Here' = Here /\ value' = value /\ listers' = listers
      BY <1>0 DEF Here, treeVars
    <3>3. /\ Visit(node, Here, Above(node)) \in Seq(Work)
          /\ \A w \in Range(Visit(node, Here, Above(node))) :
               /\ w.ctx = Above(w.edge)
               /\ w.do = "value" => w.edge \in DOMAIN value
               /\ w.do = "list" => w.edge \in listers
               /\ Len(w.at) >= Len(Here)
      BY <2>2, <3>1, VisitProperties
    <3>4. agenda' = Visit(node, Here, Above(node))
      BY <2>1, <2>2
    <3>5. /\ agenda' \in Seq(Work)
          /\ \A w \in Range(agenda') :
               /\ w.ctx = Above(w.edge)
               /\ w.do = "value" => w.edge \in DOMAIN value
               /\ w.do = "list" => w.edge \in listers
               /\ Len(w.at) >= Len(Here)
      BY <3>3, <3>4
    <3> QED BY <3>2, <3>5 DEF AgendaInv, Above, IsParam
  <2>5. ContextExact'
    BY <2>1 DEF ServeInv, ContextExact, Above, IsParam
  <2> QED BY <2>3, <2>4, <2>5 DEF ServeInv
<1> QED BY <1>1, <1>2, <1>3, <1>4

\* Work that is as it should be.
Proper(w) ==
    /\ w.ctx = Above(w.edge)
    /\ w.do = "value" => w.edge \in DOMAIN value
    /\ w.do = "list" => w.edge \in listers
    /\ Len(w.at) >= Len(Here)

\* The first item of the agenda is replaced by what is below it.
LEMMA AgendaStep ==
    ASSUME AgendaInv, phase = "build", agenda # <<>>, UNCHANGED <<treeVars, req>>,
           NEW new \in Seq(Work), \A w \in Range(new) : Proper(w),
           agenda' = new \o Tail(agenda) \/ agenda' = Tail(agenda)
    PROVE  AgendaInv'
<1>1. Here' = Here /\ value' = value /\ listers' = listers
  BY DEF Here, treeVars
<1>2. agenda \in Seq(Work) /\ \A w \in Range(agenda) : Proper(w)
  BY DEF AgendaInv, Proper
<1>3. Tail(agenda) \in Seq(Work) /\ Range(Tail(agenda)) \subseteq Range(agenda)
  BY <1>2, RangeOfTail
<1>4. /\ new \o Tail(agenda) \in Seq(Work)
      /\ Range(new \o Tail(agenda)) = Range(new) \cup Range(Tail(agenda))
  BY <1>3, RangeOfConcat
<1>5. agenda' \in Seq(Work) /\ Range(agenda') \subseteq Range(new) \cup Range(agenda)
  BY <1>3, <1>4
<1>6. \A w \in Range(agenda') : Proper(w)
  BY <1>2, <1>5
<1> QED BY <1>1, <1>5, <1>6 DEF AgendaInv, Proper, Above, IsParam

\* The values for the names that a lister returned.
Named(names, e, at, c) ==
    [i \in DOMAIN names |-> [do |-> "value", edge |-> e, at |-> Append(at, names[i]), ctx |-> c]]

LEMMA NamedWork ==
    ASSUME NEW names \in Listings, NEW e \in Patterns, NEW at \in Seq(AllNames),
           NEW c \in SUBSET Patterns
    PROVE  /\ Named(names, e, at, c) \in Seq(Work)
           /\ \A w \in Range(Named(names, e, at, c)) :
                /\ w.do = "value" /\ w.edge = e /\ w.ctx = c /\ Len(w.at) >= Len(at)
<1> DEFINE item(i) == [do |-> "value", edge |-> e, at |-> Append(at, names[i]), ctx |-> c]
           new == [i \in DOMAIN names |-> item(i)]
<1>0. Range(names) \subseteq Names
  BY DEF Names
<1>1. Range(names) \subseteq AllNames
  BY <1>0 DEF AllNames
<1>2. DOMAIN names = 1..Len(names) /\ Len(names) \in Nat
  <2>1. names \in Seq(Range(names))
    BY DirectoryAssumption
  <2> QED BY <2>1
<1>3. \A i \in DOMAIN names : names[i] \in AllNames
  BY <1>1 DEF Range
<1>4. \A i \in DOMAIN names :
        Append(at, names[i]) \in Seq(AllNames) /\ Len(Append(at, names[i])) >= Len(at)
  BY <1>3
<1>5. \A i \in DOMAIN names : item(i) \in Work
  BY <1>4 DEF Work
<1>6. \A i \in DOMAIN names :
        /\ item(i).do = "value" /\ item(i).edge = e /\ item(i).ctx = c /\ Len(item(i).at) >= Len(at)
  BY <1>4
<1>7. Named(names, e, at, c) = new
  BY DEF Named
<1> HIDE DEF item
<1>8. new \in Seq(Work)
  BY <1>2, <1>5
<1>9. \A w \in Range(new) :
        /\ w.do = "value" /\ w.edge = e /\ w.ctx = c /\ Len(w.at) >= Len(at)
  BY <1>6 DEF Range
<1> HIDE DEF new
<1> QED BY <1>7, <1>8, <1>9

LEMMA BuildPreservesServe ==
    ASSUME ServeInv, ShapeInv, BuildValue \/ BuildList
    PROVE  ServeInv'
<1> DEFINE w == Head(agenda)
<1>0. /\ phase = "build" /\ agenda # <<>> /\ UNCHANGED <<treeVars, req, node, ctx>>
      /\ phase' \in {"build", "done"}
  BY DEF BuildValue, BuildList, Builds, Fails, Respond
<1>1. NodeInv'
  BY <1>0 DEF ServeInv, NodeInv, treeVars, Above, IsParam
<1>2. w \in Work /\ w \in Range(agenda) /\ Proper(w)
  <2>1. agenda \in Seq(Work) /\ \A v \in Range(agenda) : Proper(v)
    BY <1>0 DEF ServeInv, AgendaInv, Proper
  <2> QED BY <1>0, <2>1, RangeOfTail
<1>3. /\ w.edge \in Patterns /\ w.at \in Seq(AllNames) /\ w.ctx = Above(w.edge)
      /\ Len(w.at) >= Len(Here)
  BY <1>2 DEF Work, Proper
<1>4. AgendaInv
  BY DEF ServeInv
<1>5. Len(Here) \in Nat
  BY HereProperties DEF ServeInv
<1>6. CASE BuildValue
  <2>0. w.do = "value" /\ w.edge \in DOMAIN value /\ listed' = listed
    BY <1>2, <1>6 DEF BuildValue, Builds, Proper
  <2>1. \/ agenda' = Tail(agenda)
        \/ value[w.edge] = "dir" /\ agenda' = Visit(w.edge, w.at, w.ctx) \o Tail(agenda)
        \/ agenda' = agenda /\ phase' = "done"
    BY <1>6 DEF BuildValue, Fails, Respond
  <2>2. called' = called \/ called' = called \cup {[edge |-> w.edge, ctx |-> w.ctx]}
    BY <1>6 DEF BuildValue, Calls
  <2> HIDE DEF w
  <2>3. AgendaInv'
    <3>1. CASE agenda' = Tail(agenda)
      <4>1. <<>> \in Seq(Work) /\ \A v \in Range(<<>>) : Proper(v)
        BY DEF Range
      <4> QED BY <1>0, <1>4, <3>1, <4>1, AgendaStep
    <3>2. CASE value[w.edge] = "dir" /\ agenda' = Visit(w.edge, w.at, w.ctx) \o Tail(agenda)
      <4> DEFINE new == Visit(w.edge, w.at, Above(w.edge))
      <4>1. w.edge \in DOMAIN children
        BY <2>0, <3>2 DEF ShapeInv
      <4>2. new \in Seq(Work) /\ \A v \in Range(new) :
                /\ v.ctx = Above(v.edge)
                /\ v.do = "value" => v.edge \in DOMAIN value
                /\ v.do = "list" => v.edge \in listers
                /\ Len(v.at) >= Len(w.at)
        BY <1>3, <4>1, VisitProperties
      <4>3. agenda' = new \o Tail(agenda)
        BY <1>3, <3>2
      <4> HIDE DEF new
      <4>4. \A v \in Range(new) : Len(v.at) \in Nat
        <5>1. \A v \in Range(new) : v \in Work
          BY <4>2 DEF Range
        <5> QED BY <5>1 DEF Work
      <4>5. \A v \in Range(new) : Proper(v)
        <5>1. Len(w.at) \in Nat
          BY <1>3
        <5> QED BY <1>3, <1>5, <4>2, <4>4, <5>1 DEF Proper
      <4> QED BY <1>0, <1>4, <4>2, <4>3, <4>5, AgendaStep
    <3>3. CASE agenda' = agenda /\ phase' = "done"
      BY <1>0, <1>4, <3>3, KeepsAgenda
    <3> QED BY <2>1, <3>1, <3>2, <3>3
  <2>4. ContextExact'
    <3>1. \A c \in called' : c.ctx = Above(c.edge)
      BY <1>3, <2>2 DEF ServeInv, ContextExact
    <3>2. \A l \in listed' : l.ctx = Above(l.node)
      BY <2>0 DEF ServeInv, ContextExact
    <3> QED BY <3>1, <3>2 DEF ContextExact, Above, IsParam
  <2> QED BY <1>1, <2>3, <2>4 DEF ServeInv
<1>7. CASE BuildList
  <2>0. w.do = "list" /\ w.edge \in listers /\ called' = called
    BY <1>2, <1>7 DEF BuildList, Builds, Proper
  <2>1. CASE Fails /\ listed' = listed
    <3>1. agenda' = agenda /\ phase' = "done"
      BY <2>1 DEF Fails, Respond
    <3>2. AgendaInv'
      BY <1>0, <1>4, <3>1, KeepsAgenda
    <3>3. ContextExact'
      BY <2>0, <2>1 DEF ServeInv, ContextExact, Above, IsParam
    <3> QED BY <1>1, <3>2, <3>3 DEF ServeInv
  <2>2. ASSUME NEW names \in Listings, NEW e \in ParamEdges(w.edge),
               Lists(w.edge, w.at, w.ctx, names),
               agenda' = [i \in DOMAIN names |->
                            [do |-> "value", edge |-> e, at |-> Append(w.at, names[i]),
                             ctx |-> Enriched(w)]] \o Tail(agenda)
        PROVE  ServeInv'
    <3> DEFINE new == Named(names, e, w.at, Enriched(w))
    <3> HIDE DEF w
    <3>1. e \in DOMAIN value /\ e \in Patterns /\ e # <<>> /\ Front(e) = w.edge /\ IsParam(e)
      BY DEF ParamEdges, ShapeInv
    <3>2. Enriched(w) = Above(e) /\ Enriched(w) \in SUBSET Patterns
      BY <1>3, <3>1, AboveProperties DEF Enriched
    <3>3. /\ new \in Seq(Work)
          /\ \A v \in Range(new) :
               /\ v.do = "value" /\ v.edge = e /\ v.ctx = Enriched(w) /\ Len(v.at) >= Len(w.at)
      BY <1>3, <3>1, <3>2, NamedWork
    <3>4. agenda' = new \o Tail(agenda)
      BY <2>2 DEF Named
    <3> HIDE DEF new
    <3>5. \A v \in Range(new) : Len(v.at) \in Nat
      <4>1. \A v \in Range(new) : v \in Work
        BY <3>3 DEF Range
      <4> QED BY <4>1 DEF Work
    <3>6. \A v \in Range(new) : Proper(v)
      <4>1. Len(w.at) \in Nat
        BY <1>3
      <4> QED BY <1>3, <1>5, <3>1, <3>2, <3>3, <3>5, <4>1 DEF Proper
    <3>7. AgendaInv'
      BY <1>0, <1>4, <3>3, <3>4, <3>6, AgendaStep
    <3>8. ContextExact'
      <4>1. listed' = listed \cup {[node |-> w.edge, at |-> w.at, ctx |-> w.ctx, names |-> names]}
        BY <2>2 DEF Lists
      <4>2. \A l \in listed' : l.ctx = Above(l.node)
        BY <1>3, <4>1 DEF ServeInv, ContextExact
      <4>3. \A c \in called' : c.ctx = Above(c.edge)
        BY <2>0 DEF ServeInv, ContextExact
      <4> QED BY <4>2, <4>3 DEF ContextExact, Above, IsParam
    <3> QED BY <1>1, <3>7, <3>8 DEF ServeInv
  <2> QED BY <1>7, <2>1, <2>2 DEF BuildList
<1> QED BY <1>6, <1>7

LEMMA ReceivePreservesServe ==
    ASSUME ServeInv, ShapeInv, NEW r \in Requests, Receive(r)
    PROVE  ServeInv'
<1>1. /\ req' = r /\ node' = <<>> /\ ctx' = {} /\ agenda' = <<>> /\ listed' = {} /\ called' = {}
      /\ phase' \in {"done", "serve", "walk"} /\ UNCHANGED treeVars
  BY DEF Receive
<1>2. Above(<<>>) = {}
  BY AboveProperties
<1>3. NodeInv'
  <2>1. <<>> \in DOMAIN children /\ children' = children
    BY <1>1 DEF ShapeInv, treeVars
  <2> QED BY <1>1, <1>2, <2>1 DEF NodeInv, Above, IsParam
<1>4. AgendaInv'
  <2>1. agenda' \in Seq(Work) /\ Range(agenda') = {}
    BY <1>1 DEF Range
  <2> QED BY <2>1 DEF AgendaInv
<1>5. ContextExact'
  BY <1>1 DEF ContextExact
<1> QED BY <1>3, <1>4, <1>5 DEF ServeInv

LEMMA StutterPreservesServe ==
    ASSUME ServeInv, Start \/ UNCHANGED vars
    PROVE  ServeInv'
<1>1. /\ UNCHANGED <<treeVars, req, node, ctx, agenda, listed, called>>
      /\ phase' = phase \/ phase' = "idle"
  BY DEF Start, vars, treeVars
<1>2. NodeInv'
  BY <1>1 DEF ServeInv, NodeInv, treeVars, Above, IsParam
<1>3. AgendaInv'
  <2>1. phase' = "build" => phase = "build"
    BY <1>1
  <2> QED BY <1>1, <2>1, KeepsAgenda DEF ServeInv
<1>4. ContextExact'
  BY <1>1 DEF ServeInv, ContextExact, Above, IsParam
<1> QED BY <1>2, <1>3, <1>4 DEF ServeInv

LEMMA ServeInvariance == Spec => [](ShapeInv /\ ServeInv)
<1>1. Init => ShapeInv /\ ServeInv
  <2> SUFFICES ASSUME Init PROVE ShapeInv /\ ServeInv
    OBVIOUS
  <2>1. /\ phase = "setup" /\ DOMAIN value = {} /\ children = [n \in {<<>>} |-> <<>>]
        /\ listers = {} /\ node = <<>> /\ ctx = {} /\ agenda = <<>> /\ listed = {} /\ called = {}
        /\ req \in Requests
    BY DirectoryAssumption DEF Init
  <2>2. ShapeInv
    <3>1. /\ DOMAIN children = {<<>>} /\ children[<<>>] = <<>>
          /\ <<>> \in Seq(DOMAIN value) /\ Range(<<>>) = {} /\ IsInjective(<<>>)
      BY <2>1 DEF Range, IsInjective
    <3> QED BY <2>1, <3>1 DEF ShapeInv
  <2>3. AgendaInv
    <3>1. agenda \in Seq(Work) /\ Range(agenda) = {}
      BY <2>1 DEF Range
    <3> QED BY <3>1 DEF AgendaInv
  <2>4. NodeInv /\ ContextExact
    BY <2>1 DEF NodeInv, ContextExact
  <2> QED BY <2>2, <2>3, <2>4 DEF ServeInv
<1>2. ShapeInv /\ ServeInv /\ [Next]_vars => (ShapeInv /\ ServeInv)'
  <2> SUFFICES ASSUME ShapeInv, ServeInv, [Next]_vars PROVE ShapeInv' /\ ServeInv'
    OBVIOUS
  <2>1. CASE \E g \in Registrations : Handle(g)
    BY <2>1, HandlePreservesShape, HandlePreservesServe
  <2>2. CASE Start \/ (\E r \in Requests : Receive(r)) \/ ServeHTTP \/ UNCHANGED vars
    <3>1. ShapeInv'
      <4>1. UNCHANGED treeVars
        BY <2>2, ServingKeepsTree
      <4> QED BY <4>1 DEF treeVars, ShapeInv, IsParam, ParamEdges
    <3>2. ServeInv'
      BY <2>2, StutterPreservesServe, ReceivePreservesServe, WalkPreservesServe,
         ListingPreservesServe, BuildPreservesServe DEF ServeHTTP
    <3> QED BY <3>1, <3>2
  <2> QED BY <2>1, <2>2 DEF Next
<1> QED BY <1>1, <1>2, PTL DEF Spec

\* The tree of directories is well formed after every registration, and a walk of
\* ServeHTTP or an item of buildRecursive never leaves it.
THEOREM DirTypeCorrect == Spec => []DirTypeOK
<1>1. TreeInv /\ ShapeInv /\ ServeInv => DirTypeOK
  <2> SUFFICES ASSUME TreeInv, ShapeInv, ServeInv PROVE DirTypeOK
    OBVIOUS
  <2>1. made \in Seq(Registrations)
    BY DEF TreeInv
  <2>2. Range(value) \subseteq {"nil", "dir", "meta", "token"}
    BY DEF ShapeInv, Range
  <2>3. \A w \in Range(agenda) : w.do = "list" \/ w.edge \in DOMAIN value
    <3>1. \A w \in Range(agenda) : w \in Work
      BY DEF ServeInv, AgendaInv, Range
    <3>2. \A w \in Work : w.do \in {"value", "list"}
      BY DEF Work
    <3> QED BY <3>1, <3>2 DEF ServeInv, AgendaInv
  <2> QED BY <2>1, <2>2, <2>3 DEF DirTypeOK, ShapeInv, ServeInv, NodeInv
<1> QED BY <1>1, TreeInvariance, ServeInvariance, PTL

\* Handlers and listers get the context of the listers above them and of no other,
\* in the walk and in recursive answers, for every tree and every request.
THEOREM AlwaysContextExact == Spec => []ContextExact
<1>1. ServeInv => ContextExact
  BY DEF ServeInv
<1> QED BY <1>1, ServeInvariance, PTL

-----------------------------------------------------------------------------
(* Patterns and paths *)

LEMMA LeastElement ==
    ASSUME NEW T \in SUBSET Nat, T # {}
    PROVE  \E x \in T : \A y \in T : x <= y
<1> DEFINE R == {ss \in Nat \X Nat : ss[1] < ss[2]}
<1>1. IsWellFoundedOn(R, Nat)
  BY NatLessThanWellFounded DEF OpToRel
<1>2. \A x, y \in Nat : y < x => <<y, x>> \in R
  OBVIOUS
<1> HIDE DEF R
<1>3. PICK x \in T : \A y \in T : ~(<<y, x>> \in R)
  BY <1>1, WFMin
<1>4. \A y \in T : ~(y < x)
  BY <1>2, <1>3
<1>5. \A y \in T : x <= y
  BY <1>4
<1> QED BY <1>5

\* The tree holds every prefix of its edges.
LEMMA EdgePrefixes ==
    ASSUME TreeInv, phase # "panicked", NEW e \in DOMAIN value, NEW k \in 1..Len(e)
    PROVE  SubSeq(e, 1, k) \in DOMAIN value
<1>1. PICK h \in Range(made) : \E j \in 1..Len(h.path) : e = SubSeq(h.path, 1, j)
  BY EdgeProperties
<1>2. PICK j \in 1..Len(h.path) : e = SubSeq(h.path, 1, j)
  BY <1>1
<1>3. h.path \in Patterns /\ Len(h.path) \in Nat
  BY MadeProperties DEF TreeInv, Patterns
<1>4. e \in Patterns /\ Len(e) = j /\ \A i \in 1..j : e[i] = h.path[i]
  <2>1. j \in 0..Len(h.path)
    BY <1>3
  <2> QED BY <1>2, <1>3, <2>1, PrefixProperties
<1>5. k \in 0..Len(e) /\ k <= Len(h.path) /\ k \in 1..Len(h.path)
  BY <1>3, <1>4
<1>6. SubSeq(e, 1, k) = SubSeq(h.path, 1, k)
  <2>1. \A i \in 1..k : e[i] = h.path[i]
    BY <1>3, <1>4, <1>5
  <2> QED BY <1>3, <1>4, <1>5, <2>1, PrefixesEqual
<1> QED BY <1>5, <1>6, EdgeProperties

\* No path matches two edges.
LEMMA MatchUnique ==
    ASSUME TreeInv, ShapeInv, phase # "panicked",
           NEW e \in DOMAIN value, NEW f \in DOMAIN value, NEW p,
           Matches(e, p), Matches(f, p)
    PROVE  e = f
<1>1. /\ e \in Patterns /\ f \in Patterns /\ Len(e) = Len(f) /\ Len(e) \in Nat
      /\ DOMAIN e = 1..Len(e) /\ DOMAIN f = 1..Len(e)
      /\ \A i \in 1..Len(e) : e[i] \in Params \/ e[i] = p[i]
      /\ \A i \in 1..Len(e) : f[i] \in Params \/ f[i] = p[i]
  BY DEF ShapeInv, Patterns, Matches
<1> SUFFICES ASSUME e # f PROVE FALSE
  OBVIOUS
<1> DEFINE T == {i \in 1..Len(e) : e[i] # f[i]}
<1>2. T # {}
  <2> SUFFICES ASSUME T = {} PROVE FALSE
    OBVIOUS
  <2>1. \A i \in 1..Len(e) : e[i] = f[i]
    OBVIOUS
  <2> QED BY <1>1, <2>1, SeqEqual DEF Patterns
<1>3. T \in SUBSET Nat
  BY <1>1
<1>4. PICK k \in T : \A i \in T : k <= i
  BY <1>2, <1>3, LeastElement
<1>5. k \in 1..Len(e) /\ k \in 1..Len(f) /\ e[k] # f[k] /\ \A i \in 1..(k - 1) : e[i] = f[i]
  BY <1>1, <1>4
<1>6. SubSeq(e, 1, k - 1) = SubSeq(f, 1, k - 1)
  <2>1. k - 1 \in 0..Len(e) /\ k - 1 <= Len(f)
    BY <1>1, <1>5
  <2> QED BY <1>1, <1>5, <2>1, PrefixesEqual
<1> HIDE DEF T
<1>7. /\ SubSeq(e, 1, k) \in DOMAIN value /\ SubSeq(f, 1, k) \in DOMAIN value
  BY <1>5, EdgePrefixes
<1>8. /\ Front(SubSeq(e, 1, k)) = SubSeq(e, 1, k - 1) /\ Last(SubSeq(e, 1, k)) = e[k]
      /\ IsParam(SubSeq(e, 1, k)) <=> e[k] \in Params
  BY <1>1, <1>5, PrefixFront
<1>9. /\ Front(SubSeq(f, 1, k)) = SubSeq(f, 1, k - 1) /\ Last(SubSeq(f, 1, k)) = f[k]
      /\ IsParam(SubSeq(f, 1, k)) <=> f[k] \in Params
  BY <1>1, <1>5, PrefixFront
<1>10. SubSeq(e, 1, k) # SubSeq(f, 1, k)
  BY <1>5, <1>8, <1>9
<1>11. e[k] \notin Params /\ f[k] \notin Params
  BY <1>6, <1>7, <1>8, <1>9, <1>10 DEF ShapeInv
<1> QED BY <1>1, <1>5, <1>11

LEMMA MatchesPrefix ==
    ASSUME NEW e \in Patterns, NEW p \in Seq(AllNames), Matches(e, p), NEW k \in 0..Len(e)
    PROVE  Matches(SubSeq(e, 1, k), SubSeq(p, 1, k))
<1>1. /\ Len(e) = Len(p) /\ Len(e) \in Nat /\ DOMAIN e = 1..Len(e)
      /\ \A i \in 1..Len(e) : e[i] \in Params \/ e[i] = p[i]
  BY DEF Matches, Patterns
<1> DEFINE s == SubSeq(e, 1, k)
           t == SubSeq(p, 1, k)
<1>2. Len(s) = k /\ DOMAIN s = 1..k /\ \A i \in 1..k : s[i] = e[i]
  BY <1>1 DEF Patterns
<1>3. Len(t) = k /\ \A i \in 1..k : t[i] = p[i]
  BY <1>1
<1> HIDE DEF s, t
<1>4. Matches(s, t)
  BY <1>1, <1>2, <1>3 DEF Matches
<1> QED BY <1>4 DEF s, t

\* The walk may have followed the path of the request to e.
Walked(e) == Len(e) <= Len(Here) /\ Matches(e, SubSeq(Here, 1, Len(e)))

Matching == {e \in DOMAIN value : Matches(e, Here)}
NeedsHeader == UnderPrefix(req) /\ ~req.flavor

\* It goes on along an edge of the node.
LEMMA WalkedEdge ==
    ASSUME ShapeInv, NodeInv, NEW n, Walked(n), Len(n) < Len(Here),
           NEW e \in DOMAIN value, Front(e) = n, IsParam(e) \/ Last(e) = Here[Len(n) + 1]
    PROVE  Walked(e) /\ Len(e) = Len(n) + 1
<1>1. Here \in Seq(AllNames) /\ Len(Here) \in Nat
  BY HereProperties
<1>2. e \in Patterns /\ e # <<>> /\ Len(e) \in Nat /\ Len(e) >= 1 /\ DOMAIN e = 1..Len(e)
  BY DEF ShapeInv, Patterns
<1>3. /\ n = SubSeq(e, 1, Len(e) - 1) /\ Len(n) = Len(e) - 1 /\ DOMAIN n = 1..Len(n)
      /\ \A i \in 1..Len(n) : n[i] = e[i]
  <2>1. n = SubSeq(e, 1, Len(e) - 1)
    BY DEF Front
  <2>2. Len(e) - 1 \in 0..Len(e)
    BY <1>2
  <2>3. n \in Patterns /\ Len(n) = Len(e) - 1 /\ \A i \in 1..(Len(e) - 1) : n[i] = e[i]
    BY <1>2, <2>1, <2>2, PrefixProperties
  <2>4. DOMAIN n = 1..Len(n)
    BY <2>3 DEF Patterns
  <2> QED BY <2>1, <2>3, <2>4
<1> DEFINE s == SubSeq(Here, 1, Len(n))
           t == SubSeq(Here, 1, Len(e))
           h == Here
<1>4. \A i \in 1..Len(n) : s[i] = h[i]
  BY <1>1, <1>2, <1>3
<1>5. Len(e) <= Len(h) /\ Len(t) = Len(e) /\ \A i \in 1..Len(e) : t[i] = h[i]
  BY <1>1, <1>2, <1>3
<1>6. \A i \in 1..Len(n) : n[i] \in Params \/ n[i] = s[i]
  BY <1>3 DEF Walked, Matches
<1>7. e[Len(e)] \in Params \/ e[Len(e)] = h[Len(e)]
  BY <1>2, <1>3 DEF IsParam, Last
<1> HIDE DEF s, t, h
<1>8. \A i \in 1..Len(e) : e[i] \in Params \/ e[i] = t[i]
  BY <1>2, <1>3, <1>4, <1>5, <1>6, <1>7
<1>9. Matches(e, t)
  BY <1>2, <1>5, <1>8 DEF Matches
<1> QED BY <1>2, <1>3, <1>5, <1>9 DEF Walked, t, h

\* An edge that matches the path goes through every node that the walk may reach.
LEMMA MatchPasses ==
    ASSUME TreeInv, ShapeInv, NodeInv, phase # "panicked",
           NEW n, n = <<>> \/ n \in DOMAIN value, Walked(n), Len(n) < Len(Here),
           NEW f \in Matching
    PROVE  \E e \in DOMAIN value : Front(e) = n /\ (IsParam(e) \/ Last(e) = Here[Len(n) + 1])
<1>1. Here \in Seq(AllNames) /\ Len(Here) \in Nat
  BY HereProperties
<1>2. /\ f \in DOMAIN value /\ f \in Patterns /\ Matches(f, Here)
      /\ Len(f) = Len(Here) /\ Len(f) \in Nat /\ DOMAIN f = 1..Len(f)
  BY DEF Matching, Matches, ShapeInv, Patterns
<1>3. Len(n) \in Nat /\ Len(n) \in 0..Len(f) /\ Len(n) + 1 \in 1..Len(f)
  <2>1. Len(n) \in Nat
    BY DEF ShapeInv, Patterns
  <2> QED BY <1>2, <2>1
<1>4. SubSeq(f, 1, Len(n)) = n
  <2>1. CASE n = <<>>
    <3>1. Len(n) = 0 /\ SubSeq(f, 1, 0) = <<>>
      BY <1>2, <2>1 DEF Patterns
    <3> QED BY <2>1, <3>1
  <2>2. CASE n \in DOMAIN value
    <3>1. Len(n) \in 1..Len(f)
      <4>1. Len(n) # 0
        BY <2>2 DEF ShapeInv, Patterns
      <4> QED BY <1>3, <4>1
    <3>2. SubSeq(f, 1, Len(n)) \in DOMAIN value
      BY <1>2, <3>1, EdgePrefixes
    <3>3. Matches(SubSeq(f, 1, Len(n)), SubSeq(Here, 1, Len(n)))
      BY <1>1, <1>2, <1>3, MatchesPrefix
    <3>4. Matches(n, SubSeq(Here, 1, Len(n)))
      BY DEF Walked
    <3> QED BY <2>2, <3>2, <3>3, <3>4, MatchUnique
  <2> QED BY <2>1, <2>2
<1> DEFINE k == Len(n) + 1
           e == SubSeq(f, 1, k)
<1>5. e \in DOMAIN value
  BY <1>2, <1>3, EdgePrefixes
<1>6. Front(e) = SubSeq(f, 1, k - 1) /\ Last(e) = f[k] /\ (IsParam(e) <=> f[k] \in Params)
  BY <1>2, <1>3, PrefixFront
<1>7. k - 1 = Len(n)
  BY <1>3
<1>8. f[k] \in Params \/ f[k] = Here[k]
  BY <1>2, <1>3 DEF Matches
<1> QED BY <1>4, <1>5, <1>6, <1>7, <1>8

\* What the walk has followed to the end is the one edge that matches.
LEMMA WalkedMatches ==
    ASSUME TreeInv, ShapeInv, NodeInv, phase # "panicked",
           node = <<>> \/ node \in DOMAIN value, Walked(node), Len(node) = Len(Here)
    PROVE  /\ node = <<>> => Here = <<>> /\ Matching = {}
           /\ node # <<>> => Matching = {node}
<1>1. Here \in Seq(AllNames) /\ Len(Here) \in Nat
  BY HereProperties
<1>2. CASE node = <<>>
  <2>1. Len(Here) = 0
    BY <1>2
  <2>2. Here = <<>>
    BY <1>1, <2>1
  <2>3. \A e \in DOMAIN value : Len(e) # 0
    BY DEF ShapeInv, Patterns
  <2> QED BY <1>2, <2>1, <2>2, <2>3 DEF Matching, Matches
<1>3. CASE node # <<>>
  <2>1. SubSeq(Here, 1, Len(node)) = Here
    BY <1>1
  <2>2. node \in DOMAIN value /\ Matches(node, Here)
    BY <1>3, <2>1 DEF Walked
  <2>3. \A e \in DOMAIN value : Matches(e, Here) => e = node
    BY <2>2, MatchUnique
  <2> QED BY <1>3, <2>2, <2>3 DEF Matching
<1> QED BY <1>2, <1>3

\* Until the response, the walk has followed the pieces of the path, and all the
\* names it needed were listed.
WalkInv ==
    phase \in {"walk", "call", "serve", "build"} =>
        /\ status = <<>> /\ ~NeedsHeader
        /\ Walked(node) /\ (phase = "walk" <=> Len(node) < Len(Here))
        /\ Absent = {}
        /\ phase # "build" => called = {}

\* The response the request should get, as far as it is found or not.
Right(code) ==
    /\ code = "403" <=> NeedsHeader
    /\ code = "404" <=> Here # <<>> /\ ~NeedsHeader /\ code # "error" /\ (Matching = {} \/ Absent # {})
    /\ code \in {"403", "404"} => called = {}
    /\ code = "403" => listed = {}
    /\ code = "200" /\ (\E e \in Matching : value[e] # "dir") => {c.edge : c \in called} = Matching

DoneInv ==
    /\ phase = "aborted" => ~Complete /\ status = <<>>
    /\ phase = "done" => Len(status) = 1 /\ Right(status[1])

AnswerInv == WalkInv /\ DoneInv

\* What depends on the request and the tree only.
LEMMA SameRequest ==
    ASSUME UNCHANGED <<treeVars, req>>
    PROVE  /\ Here' = Here /\ Matching' = Matching /\ (NeedsHeader' <=> NeedsHeader)
           /\ (Complete' <=> Complete) /\ value' = value
<1>1. value' = value /\ listers' = listers /\ req' = req
  BY DEF treeVars
<1>2. Here' = Here
  BY <1>1 DEF Here
<1>3. Matching' = Matching
  BY <1>1, <1>2 DEF Matching, Matches
<1>4. NeedsHeader' <=> NeedsHeader
  BY <1>1 DEF NeedsHeader, UnderPrefix
<1>5. Complete' <=> Complete
  BY <1>1 DEF Complete, IsParam
<1> QED BY <1>1, <1>2, <1>3, <1>4, <1>5

\* A response that is the first one, and not one that says the path was not found
\* or the header is missing.
LEMMA Responds ==
    ASSUME WalkInv, UNCHANGED <<treeVars, req>>, phase \in {"walk", "call", "serve", "build"},
           NEW code, Respond(code), Right(code)'
    PROVE  AnswerInv'
<1>1. phase' = "done" /\ status' = Append(<<>>, code)
  BY DEF Respond, WalkInv
<1>2. Len(status') = 1 /\ status'[1] = code
  BY <1>1
<1>3. DoneInv'
  BY <1>1, <1>2 DEF DoneInv
<1>4. WalkInv'
  BY <1>1 DEF WalkInv
<1> QED BY <1>3, <1>4 DEF AnswerInv

LEMMA FollowAnswers ==
    ASSUME TreeInv, ShapeInv, NodeInv, WalkInv, phase = "walk", NEW e \in DOMAIN value,
           Front(e) = node, IsParam(e) \/ Last(e) = Here[Len(node) + 1],
           Follow(e), UNCHANGED <<treeVars, req, called>>, Absent' = {}
    PROVE  AnswerInv'
<1>0. /\ Here' = Here /\ Matching' = Matching /\ (NeedsHeader' <=> NeedsHeader)
      /\ (Complete' <=> Complete) /\ value' = value
  BY SameRequest
<1>1. /\ status = <<>> /\ ~NeedsHeader /\ called = {} /\ called' = {}
      /\ Walked(node) /\ Len(node) < Len(Here)
  BY DEF WalkInv
<1>2. Walked(e) /\ Len(e) = Len(node) + 1 /\ Len(e) \in Nat /\ Len(Here) \in Nat /\ Len(e) <= Len(Here)
  <2>1. Walked(e) /\ Len(e) = Len(node) + 1
    BY <1>1, WalkedEdge
  <2>2. Len(e) \in Nat
    BY DEF ShapeInv, Patterns
  <2> QED BY <2>1, <2>2, HereProperties DEF Walked
<1>3. CASE Len(e) < Len(Here) /\ value[e] = "dir"
  <2>1. node' = e /\ phase' = "walk" /\ status' = status
    BY <1>3 DEF Follow, Here
  <2>2. Walked(node)'
    BY <1>0, <1>2, <2>1 DEF Walked, Matches
  <2>3. WalkInv'
    BY <1>0, <1>1, <1>3, <2>1, <2>2 DEF WalkInv
  <2>4. DoneInv'
    BY <2>1 DEF DoneInv
  <2> QED BY <2>3, <2>4 DEF AnswerInv
<1>4. CASE Len(e) < Len(Here) /\ value[e] # "dir"
  <2>1. Respond("404")
    BY <1>4 DEF Follow, Here
  <2>2. Matching = {}
    <3> SUFFICES ASSUME NEW f \in Matching PROVE FALSE
      OBVIOUS
    <3>1. PICK d \in DOMAIN value : Front(d) = e
      BY <1>2, <1>4, MatchPasses
    <3> QED BY <1>4, <3>1 DEF ShapeInv
  <2>3. Here # <<>>
    BY <1>2, <1>4
  <2>4. Right("404")'
    BY <1>0, <1>1, <2>2, <2>3 DEF Right
  <2> QED BY <2>1, <2>4, Responds
<1>5. CASE ~(Len(e) < Len(Here))
  <2>0. Len(e) = Len(Here)
    BY <1>2, <1>5
  <2>1. /\ node' = e /\ status' = status
        /\ phase' = CASE value[e] = "dir" -> "serve" [] value[e] = "nil" -> "aborted" [] OTHER -> "call"
    BY <1>5 DEF Follow, Here
  <2>2. Walked(node)'
    BY <1>0, <1>2, <2>1 DEF Walked, Matches
  <2>3. CASE value[e] = "nil"
    <3>1. phase' = "aborted"
      BY <2>1, <2>3
    <3>2. ~Complete
      BY <2>3 DEF Complete
    <3> QED BY <1>0, <1>1, <2>1, <3>1, <3>2 DEF AnswerInv, WalkInv, DoneInv
  <2>4. CASE value[e] # "nil"
    <3>1. phase' \in {"serve", "call"}
      BY <2>1, <2>4
    <3>2. WalkInv'
      BY <1>0, <1>1, <2>0, <2>1, <2>2, <3>1, <1>2 DEF WalkInv
    <3>3. DoneInv'
      BY <3>1 DEF DoneInv
    <3> QED BY <3>2, <3>3 DEF AnswerInv
  <2> QED BY <2>3, <2>4
<1> QED BY <1>3, <1>4, <1>5

\* A pattern is its node and its last piece.
LEMMA FrontAndLast ==
    ASSUME NEW e \in Patterns, e # <<>>
    PROVE  e = Append(Front(e), Last(e))
<1> DEFINE m == Len(e)
           n == SubSeq(e, 1, m - 1)
           t == Append(n, e[m])
<1>1. m \in Nat /\ m >= 1 /\ e[m] \in Words /\ m - 1 \in 0..m /\ e \in Seq(Words)
  BY DEF Patterns
<1>2. n \in Seq(Words) /\ Len(n) = m - 1 /\ \A i \in 1..(m - 1) : n[i] = e[i]
  BY <1>1, PrefixProperties DEF Patterns
<1> HIDE DEF n
<1>3. /\ t \in Seq(Words) /\ Len(t) = m /\ t[m] = e[m]
      /\ \A i \in 1..(m - 1) : t[i] = e[i]
  BY <1>1, <1>2
<1> HIDE DEF t
<1>4. \A i \in 1..Len(e) : t[i] = e[i]
  BY <1>1, <1>3
<1>5. t = e
  BY <1>1, <1>3, <1>4, SeqEqual
<1> QED BY <1>5 DEF t, n, Front, Last

LEMMA WalkAnswers ==
    ASSUME TreeInv, ShapeInv, ServeInv, AnswerInv,
           WalkStatic \/ WalkParam \/ WalkParamFails \/ WalkParamAborts
    PROVE  AnswerInv'
<1>0. phase = "walk" /\ UNCHANGED <<treeVars, req, called>> /\ NodeInv /\ WalkInv /\ phase # "panicked"
  BY DEF WalkStatic, WalkParam, WalkParamFails, WalkParamAborts, ServeInv, AnswerInv
<1>1. /\ Here' = Here /\ Matching' = Matching /\ (NeedsHeader' <=> NeedsHeader)
      /\ (Complete' <=> Complete) /\ value' = value
  BY <1>0, SameRequest
<1>2. /\ status = <<>> /\ ~NeedsHeader /\ called = {} /\ called' = {} /\ Absent = {}
      /\ Walked(node) /\ Len(node) < Len(Here)
  BY <1>0 DEF WalkInv
<1>3. /\ node \in DOMAIN children /\ (node = <<>> \/ node \in DOMAIN value)
      /\ node \in Patterns /\ Len(node) \in Nat
  <2>1. <<>> \in Patterns
    BY DEF Patterns
  <2>2. node \in DOMAIN children /\ (node = <<>> \/ node \in DOMAIN value) /\ node \in Patterns
    BY <1>0, <2>1 DEF NodeInv, ShapeInv
  <2> QED BY <2>2 DEF Patterns
<1>4. Here \in Seq(AllNames) /\ Len(Here) \in Nat /\ Here # <<>>
  BY <1>0, <1>2, <1>3, HereProperties
<1>5. Piece = Here[Len(node) + 1] /\ Piece \in AllNames
  <2>1. Len(node) + 1 \in 1..Len(Here)
    BY <1>2, <1>3, <1>4
  <2>2. Piece = Here[Len(node) + 1]
    BY DEF Piece, Here
  <2> HIDE DEF Piece
  <2> QED BY <1>4, <2>1, <2>2
<1>6. CASE WalkStatic
  <2> DEFINE e == Append(node, Piece)
  <2>0. ParamEdges(node) = {} /\ listed' = listed
    BY <1>6 DEF WalkStatic
  <2>1. Absent' = {}
    BY <1>1, <1>2, <2>0 DEF Absent
  <2>2. CASE e \in Range(children[node])
    <3>1. Follow(e)
      BY <1>6, <2>2 DEF WalkStatic
    <3>2. Last(e) = Here[Len(node) + 1]
      <4>1. node \in Seq(AllNames)
        <5>1. Words \subseteq AllNames
          BY DEF AllNames
        <5> QED BY <1>3, <5>1 DEF Patterns
      <4>2. Len(e) = Len(node) + 1 /\ e[Len(node) + 1] = Piece
        BY <1>5, <4>1
      <4> QED BY <1>5, <4>2 DEF Last
    <3> HIDE DEF e
    <3>3. e \in DOMAIN value /\ Front(e) = node
      BY <1>3, <2>2 DEF ShapeInv
    <3> QED BY <1>0, <2>1, <3>1, <3>2, <3>3, FollowAnswers
  <2>3. CASE e \notin Range(children[node])
    <3>1. Respond("404")
      BY <1>6, <2>3 DEF WalkStatic
    <3>2. Matching = {}
      <4> SUFFICES ASSUME NEW f \in Matching PROVE FALSE
        OBVIOUS
      <4>1. PICK d \in DOMAIN value : Front(d) = node /\ (IsParam(d) \/ Last(d) = Here[Len(node) + 1])
        BY <1>0, <1>2, <1>3, MatchPasses
      <4>2. ~IsParam(d)
        BY <2>0, <4>1 DEF ParamEdges
      <4>3. d \in Range(children[node])
        BY <1>3, <4>1, <4>2 DEF ShapeInv
      <4>4. d = Append(Front(d), Last(d))
        BY FrontAndLast DEF ShapeInv
      <4> QED BY <1>5, <2>3, <4>1, <4>2, <4>3, <4>4
    <3>3. Right("404")'
      BY <1>1, <1>2, <1>4, <3>2 DEF Right
    <3> QED BY <1>0, <3>1, <3>3, Responds
  <2> QED BY <2>2, <2>3
<1>7. CASE WalkParam
  <2>1. PICK names \in Listings, e \in ParamEdges(node) :
          /\ Lists(node, SubSeq(Pieces(req), 1, Len(node)), ctx, names)
          /\ IF HasEntry(names) THEN Follow(e) ELSE Respond("404") /\ UNCHANGED node
    BY <1>7 DEF WalkParam
  <2> DEFINE l == [node |-> node, at |-> SubSeq(Here, 1, Len(node)), ctx |-> ctx, names |-> names]
  <2>2. listed' = listed \cup {l}
    BY <2>1 DEF Lists, Here
  <2>3. e \in DOMAIN value /\ Front(e) = node /\ IsParam(e)
    BY DEF ParamEdges
  <2>4. l.at = SubSeq(Here, 1, Len(node)) /\ l.names = names
    OBVIOUS
  <2>5. Len(l.at) = Len(node) /\ IsPrefix(l.at, Here)
    <3> DEFINE h == Here
               k == Len(node)
               at == SubSeq(h, 1, k)
    <3>1. h \in Seq(AllNames) /\ k \in 0..Len(h)
      BY <1>2, <1>3, <1>4
    <3> HIDE DEF h, k
    <3>2. at \in Seq(AllNames) /\ Len(at) = k
      BY <3>1
    <3>3. SubSeq(at, 1, k) = at /\ k <= Len(h)
      BY <3>1, <3>2
    <3>4. IsPrefix(at, h)
      BY <3>2, <3>3 DEF IsPrefix
    <3> QED BY <2>4, <3>2, <3>4 DEF h, k
  <2>6. Absent' = {x \in listed' : /\ Len(x.at) < Len(Here) /\ IsPrefix(x.at, Here)
                                   /\ Here[Len(x.at) + 1] \notin Range(x.names)}
    BY <1>1 DEF Absent
  <2> HIDE DEF l
  <2>7. CASE HasEntry(names)
    <3>1. Here[Len(l.at) + 1] \in Range(l.names)
      BY <1>5, <2>4, <2>5, <2>7 DEF HasEntry
    <3>2. Absent' = {}
      BY <1>2, <2>2, <2>6, <3>1 DEF Absent
    <3> QED BY <1>0, <2>1, <2>3, <2>7, <3>2, FollowAnswers
  <2>8. CASE ~HasEntry(names)
    <3>1. Here[Len(l.at) + 1] \notin Range(l.names)
      BY <1>5, <2>4, <2>5, <2>8 DEF HasEntry
    <3>2. l \in Absent'
      BY <1>2, <2>2, <2>5, <2>6, <3>1
    <3>3. Right("404")'
      BY <1>1, <1>2, <1>4, <3>2 DEF Right
    <3>4. Respond("404")
      BY <2>1, <2>8
    <3> QED BY <1>0, <3>3, <3>4, Responds
  <2> QED BY <2>7, <2>8
<1>8. CASE WalkParamFails
  <2>1. Respond("error")
    BY <1>8 DEF WalkParamFails
  <2>2. Right("error")'
    BY <1>1, <1>2 DEF Right
  <2> QED BY <1>0, <2>1, <2>2, Responds
<1>9. CASE WalkParamAborts
  <2>1. phase' = "aborted" /\ status' = status /\ ParamEdges(node) # {} /\ node \notin listers
    BY <1>9 DEF WalkParamAborts
  <2>2. ~Complete
    BY <2>1 DEF Complete, ParamEdges
  <2> QED BY <1>1, <1>2, <2>1, <2>2 DEF AnswerInv, WalkInv, DoneInv
<1> QED BY <1>6, <1>7, <1>8, <1>9

\* At the end of the walk.
LEMMA WalkEnded ==
    ASSUME TreeInv, ShapeInv, ServeInv, AnswerInv, phase \in {"call", "serve", "build"}
    PROVE  /\ NodeInv /\ WalkInv /\ phase # "panicked" /\ Len(Here) \in Nat
           /\ status = <<>> /\ ~NeedsHeader /\ Absent = {}
           /\ Here = <<>> \/ Matching # {}
           /\ phase = "call" => Matching = {node} /\ called = {}
           /\ phase # "call" => \A e \in Matching : value[e] = "dir"
<1>1. NodeInv /\ WalkInv /\ phase # "panicked"
  BY DEF ServeInv, AnswerInv
<1>2. /\ status = <<>> /\ ~NeedsHeader /\ Absent = {}
      /\ Walked(node) /\ ~(Len(node) < Len(Here)) /\ (phase = "call" => called = {})
  BY <1>1 DEF WalkInv
<1>3. Len(Here) \in Nat
  BY <1>1, HereProperties
<1>4. node = <<>> \/ node \in DOMAIN value
  BY <1>1 DEF NodeInv
<1>5. Len(node) = Len(Here)
  <2>1. Len(node) \in Nat
    BY <1>4 DEF ShapeInv, Patterns
  <2> QED BY <1>2, <1>3, <2>1 DEF Walked
<1>6. /\ node = <<>> => Here = <<>> /\ Matching = {}
      /\ node # <<>> => Matching = {node}
  BY <1>1, <1>2, <1>4, <1>5, WalkedMatches
<1>7. phase = "call" => node # <<>>
  BY <1>1 DEF NodeInv, ShapeInv
<1>8. phase # "call" /\ node # <<>> => value[node] = "dir"
  BY <1>1 DEF NodeInv, ShapeInv
<1> QED BY <1>1, <1>2, <1>3, <1>6, <1>7, <1>8

LEMMA ListingAnswers ==
    ASSUME TreeInv, ShapeInv, ServeInv, AnswerInv,
           ServeMetadata \/ Redirect \/ List \/ BuildRecursive \/ BuildReturns
    PROVE  AnswerInv'
<1>0. UNCHANGED <<treeVars, req, node>> /\ phase \in {"call", "serve", "build"}
  BY DEF ServeMetadata, Redirect, List, BuildRecursive, BuildReturns
<1>1. /\ Here' = Here /\ Matching' = Matching /\ (NeedsHeader' <=> NeedsHeader) /\ value' = value
  BY <1>0, SameRequest
<1>2. /\ NodeInv /\ WalkInv /\ phase # "panicked" /\ Len(Here) \in Nat
      /\ status = <<>> /\ ~NeedsHeader /\ Absent = {}
      /\ Here = <<>> \/ Matching # {}
      /\ phase = "call" => Matching = {node} /\ called = {}
      /\ phase # "call" => \A e \in Matching : value[e] = "dir"
  BY <1>0, WalkEnded
<1>3. listed' = listed => Absent' = {}
  BY <1>1, <1>2 DEF Absent
<1>4. CASE ServeMetadata
  <2>1. /\ phase = "call" /\ listed' = listed
        /\ called' = called \cup {[edge |-> node, ctx |-> ctx]}
        /\ \E code \in {"200", "500", "error"} : Respond(code)
    BY <1>4 DEF ServeMetadata, Calls
  <2>2. called' = {[edge |-> node, ctx |-> ctx]} /\ Matching = {node}
    BY <1>2, <2>1
  <2>3. {c.edge : c \in called'} = Matching
    BY <2>2
  <2>4. \A code \in {"200", "500", "error"} : Right(code)'
    BY <1>1, <1>2, <1>3, <2>1, <2>3 DEF Right
  <2> QED BY <1>0, <1>2, <2>1, <2>4, Responds
<1>5. CASE Redirect \/ BuildReturns
  <2>1. phase # "call" /\ listed' = listed /\ \E code \in {"200", "301"} : Respond(code)
    BY <1>5 DEF Redirect, BuildReturns
  <2>2. \A code \in {"200", "301"} : Right(code)'
    BY <1>1, <1>2, <1>3, <2>1 DEF Right
  <2> QED BY <1>0, <1>2, <2>1, <2>2, Responds
<1>6. CASE List
  <2>1. /\ phase # "call" /\ \E code \in {"200", "error"} : Respond(code)
        /\ listed' = listed \/ \E names \in Listings :
             listed' = listed \cup {[node |-> node, at |-> Here, ctx |-> ctx, names |-> names]}
    BY <1>6 DEF List, Lists
  <2>2. Absent' = {}
    <3>1. CASE listed' = listed
      BY <1>3, <3>1
    <3>2. ASSUME NEW names \in Listings,
                 listed' = listed \cup {[node |-> node, at |-> Here, ctx |-> ctx, names |-> names]}
          PROVE  Absent' = {}
      <4> DEFINE l == [node |-> node, at |-> Here, ctx |-> ctx, names |-> names]
      <4>1. ~(Len(l.at) < Len(Here))
        BY <1>2
      <4>2. listed' = listed \cup {l}
        BY <3>2
      <4> HIDE DEF l
      <4> QED BY <1>1, <1>2, <4>1, <4>2 DEF Absent
    <3> QED BY <2>1, <3>1, <3>2
  <2>3. \A code \in {"200", "error"} : Right(code)'
    BY <1>1, <1>2, <2>1, <2>2 DEF Right
  <2> QED BY <1>0, <1>2, <2>1, <2>3, Responds
<1>7. CASE BuildRecursive
  <2>1. phase = "serve" /\ phase' = "build" /\ UNCHANGED <<status, listed>>
    BY <1>7 DEF BuildRecursive
  <2>2. Walked(node)' /\ ~(Len(node') < Len(Here'))
    <3>1. Walked(node) /\ ~(Len(node) < Len(Here))
      BY <1>2, <2>1 DEF WalkInv
    <3> QED BY <1>0, <1>1, <3>1 DEF Walked, Matches
  <2>3. WalkInv'
    BY <1>1, <1>2, <1>3, <2>1, <2>2 DEF WalkInv
  <2>4. DoneInv'
    BY <2>1 DEF DoneInv
  <2> QED BY <2>3, <2>4 DEF AnswerInv
<1> QED BY <1>4, <1>5, <1>6, <1>7

LEMMA BuildAnswers ==
    ASSUME TreeInv, ShapeInv, ServeInv, AnswerInv, BuildValue \/ BuildList
    PROVE  AnswerInv'
<1> DEFINE w == Head(agenda)
<1>0. phase = "build" /\ agenda # <<>> /\ UNCHANGED <<treeVars, req, node>>
  BY DEF BuildValue, BuildList, Builds
<1>1. /\ Here' = Here /\ Matching' = Matching /\ (NeedsHeader' <=> NeedsHeader) /\ value' = value
  BY <1>0, SameRequest
<1>2. /\ NodeInv /\ WalkInv /\ Len(Here) \in Nat
      /\ status = <<>> /\ ~NeedsHeader /\ Absent = {}
  BY <1>0, WalkEnded
<1>3. \/ Respond("error")
      \/ phase' = phase /\ status' = status
  BY DEF BuildValue, BuildList, Fails
<1>4. CASE Respond("error")
  <2>1. Right("error")'
    BY <1>1, <1>2 DEF Right
  <2> QED BY <1>0, <1>2, <1>4, <2>1, Responds
<1>5. CASE phase' = phase /\ status' = status
  <2>1. Absent' = {}
    <3>1. CASE listed' = listed
      BY <1>1, <1>2, <3>1 DEF Absent
    <3>2. ASSUME NEW names \in Listings,
                 listed' = listed \cup {[node |-> w.edge, at |-> w.at, ctx |-> w.ctx, names |-> names]}
          PROVE  Absent' = {}
      <4> DEFINE l == [node |-> w.edge, at |-> w.at, ctx |-> w.ctx, names |-> names]
      <4>1. w \in Work /\ w \in Range(agenda)
        BY <1>0, RangeOfTail DEF ServeInv, AgendaInv
      <4>2. Len(w.at) >= Len(Here) /\ Len(w.at) \in Nat
        BY <1>0, <4>1 DEF ServeInv, AgendaInv, Work
      <4>3. ~(Len(l.at) < Len(Here))
        BY <1>2, <4>2
      <4>4. listed' = listed \cup {l}
        BY <3>2
      <4> HIDE DEF l
      <4> QED BY <1>1, <1>2, <4>3, <4>4 DEF Absent
    <3>3. listed' = listed \/ \E names \in Listings :
            listed' = listed \cup {[node |-> w.edge, at |-> w.at, ctx |-> w.ctx, names |-> names]}
      BY DEF BuildValue, BuildList, Lists
    <3> QED BY <3>1, <3>2, <3>3
  <2>2. Walked(node)' /\ ~(Len(node') < Len(Here'))
    <3>1. Walked(node) /\ ~(Len(node) < Len(Here))
      BY <1>0, <1>2 DEF WalkInv
    <3> QED BY <1>0, <1>1, <3>1 DEF Walked, Matches
  <2>3. WalkInv'
    BY <1>0, <1>1, <1>2, <1>5, <2>1, <2>2 DEF WalkInv
  <2>4. DoneInv'
    BY <1>0, <1>5 DEF DoneInv
  <2> QED BY <2>3, <2>4 DEF AnswerInv
<1> QED BY <1>3, <1>4, <1>5

LEMMA ReceiveAnswers ==
    ASSUME NEW r \in Requests, Receive(r)
    PROVE  AnswerInv'
<1>0. req' = r /\ node' = <<>> /\ listed' = {} /\ called' = {}
  BY DEF Receive
<1>1. Absent' = {} /\ Here' = Pieces(r) /\ (NeedsHeader' <=> UnderPrefix(r) /\ ~r.flavor)
  BY <1>0 DEF Absent, Here, NeedsHeader, UnderPrefix
<1>2. CASE UnderPrefix(r) /\ ~r.flavor
  <2>1. phase' = "done" /\ status' = <<"403">>
    BY <1>2 DEF Receive
  <2>2. Right("403")'
    BY <1>0, <1>1, <1>2 DEF Right
  <2>3. Len(status') = 1 /\ status'[1] = "403"
    BY <2>1
  <2> QED BY <2>1, <2>2, <2>3 DEF AnswerInv, WalkInv, DoneInv
<1>3. CASE ~(UnderPrefix(r) /\ ~r.flavor)
  <2>1. status' = <<>> /\ phase' = IF Pieces(r) = <<>> THEN "serve" ELSE "walk"
    BY <1>3 DEF Receive
  <2>2. Pieces(r) \in Seq(Range(r.segments))
    BY PiecesAssumption
  <2> DEFINE h == Pieces(r)
  <2>3. h \in Seq(Range(r.segments))
    BY <2>2
  <2> HIDE DEF h
  <2>4. (h = <<>> <=> ~(0 < Len(h))) /\ 0 <= Len(h)
    BY <2>3
  <2>5. Len(<<>>) = 0 /\ \A t : Matches(<<>>, SubSeq(t, 1, 0))
    BY DEF Matches
  <2>6. Walked(node)' /\ (phase' = "walk" <=> Len(node') < Len(Here'))
    <3>1. Here' = h /\ phase' = IF h = <<>> THEN "serve" ELSE "walk"
      BY <1>1, <2>1 DEF h
    <3>2. Len(node') <= Len(Here') /\ (phase' = "walk" <=> Len(node') < Len(Here'))
      BY <1>0, <2>4, <2>5, <3>1
    <3>3. Matches(node', SubSeq(Here', 1, Len(node')))
      BY <1>0, <2>5
    <3> QED BY <3>2, <3>3 DEF Walked, Matches
  <2>7. WalkInv'
    BY <1>0, <1>1, <1>3, <2>1, <2>6 DEF WalkInv
  <2>8. DoneInv'
    BY <2>1 DEF DoneInv
  <2> QED BY <2>7, <2>8 DEF AnswerInv
<1> QED BY <1>2, <1>3

LEMMA StutterAnswers ==
    ASSUME AnswerInv, UNCHANGED vars
    PROVE  AnswerInv'
<1>1. /\ UNCHANGED <<treeVars, req>>
      /\ UNCHANGED <<phase, node, status, listed, called>>
  BY DEF vars, treeVars
<1>2. /\ Here' = Here /\ Matching' = Matching /\ (NeedsHeader' <=> NeedsHeader)
      /\ (Complete' <=> Complete) /\ value' = value
  BY <1>1, SameRequest
<1>3. Absent' = Absent
  BY <1>1, <1>2 DEF Absent
<1>4. Walked(node)' <=> Walked(node)
  BY <1>1, <1>2 DEF Walked, Matches
<1>5. WalkInv'
  BY <1>1, <1>2, <1>3, <1>4 DEF AnswerInv, WalkInv
<1>6. DoneInv'
  BY <1>1, <1>2, <1>3 DEF AnswerInv, DoneInv, Right
<1> QED BY <1>5, <1>6 DEF AnswerInv

LEMMA AnswerInvariance == Spec => []AnswerInv
<1>1. Init => AnswerInv
  BY DEF Init, AnswerInv, WalkInv, DoneInv
<1>2. TreeInv /\ ShapeInv /\ ServeInv /\ AnswerInv /\ [Next]_vars => AnswerInv'
  <2> SUFFICES ASSUME TreeInv, ShapeInv, ServeInv, AnswerInv, [Next]_vars PROVE AnswerInv'
    OBVIOUS
  <2>1. CASE (\E g \in Registrations : Handle(g)) \/ Start
    <3>1. phase' \in {"setup", "panicked", "idle"}
      BY <2>1 DEF Handle, Start
    <3> QED BY <3>1 DEF AnswerInv, WalkInv, DoneInv
  <2>2. CASE \E r \in Requests : Receive(r)
    BY <2>2, ReceiveAnswers
  <2>3. CASE ServeHTTP
    BY <2>3, WalkAnswers, ListingAnswers, BuildAnswers DEF ServeHTTP
  <2>4. CASE UNCHANGED vars
    BY <2>4, StutterAnswers
  <2> QED BY <2>1, <2>2, <2>3, <2>4 DEF Next
<1> QED BY <1>1, <1>2, TreeInvariance, ServeInvariance, PTL DEF Spec

\* A request gets exactly one response, and it is found exactly when the one pattern
\* that matches its path is registered and its names are listed, for every tree that
\* can be built, every request and every listing.
THEOREM AlwaysAnswerExact == Spec => []AnswerExact
<1>1. TreeInv /\ ShapeInv /\ ServeInv /\ AnswerInv => AnswerExact
  <2> SUFFICES ASSUME TreeInv, ShapeInv, ServeInv, AnswerInv PROVE AnswerExact
    OBVIOUS
  <2>1. phase = "done" => Cardinality(Matching) <= 1
    <3> SUFFICES ASSUME phase = "done" PROVE Cardinality(Matching) <= 1
      OBVIOUS
    <3>1. \A e, f \in Matching : e = f
      BY MatchUnique DEF Matching
    <3>2. CASE Matching = {}
      BY <3>2, FS_EmptySet
    <3>3. CASE Matching # {}
      <4>1. PICK e \in Matching : Matching = {e}
        BY <3>1, <3>3
      <4>2. Cardinality({e}) = 1
        BY FS_Singleton
      <4> QED BY <4>1, <4>2
    <3> QED BY <3>2, <3>3
  <2>2. DoneInv
    BY DEF AnswerInv
  <2>3. NeedsHeader <=> IsPrefix(Prefix, Here) /\ NoGap(req) /\ ~req.flavor
    <3>1. req \in Requests
      BY DEF ServeInv, NodeInv
    <3> QED BY <3>1, PiecesAssumption DEF NeedsHeader, Here
  <2> QED BY <2>1, <2>2, <2>3 DEF DoneInv, Right, Matching, AnswerExact
<1> QED BY <1>1, TreeInvariance, ServeInvariance, AnswerInvariance, PTL

-----------------------------------------------------------------------------
(* Recursive answers *)

\* The names at lead along edge e from the directory of the request, and those of
\* parameters are in the listings L.
Justified(L, e, at) ==
    /\ IsPrefix(node, e) /\ Len(at) = Len(e) /\ IsPrefix(Here, at)
    /\ \A i \in (Len(Here) + 1)..Len(e) :
          IF e[i] \in Params
          THEN \E l \in L : l.at = SubSeq(at, 1, i - 1) /\ at[i] \in Range(l.names)
          ELSE at[i] = e[i]

\* The work w finds the value at the names at of edge e without another lister.
Covers(w, e, at) ==
    /\ w.do = "value" /\ IsPrefix(w.edge, e) /\ IsPrefix(w.at, at)
    /\ \A i \in (Len(w.edge) + 1)..Len(e) : e[i] \notin Params

\* The listings made for the request.
ListedInv ==
    /\ \A l \in listed : l.names \in Listings /\ l.at \in Seq(AllNames)
    /\ phase \in {"walk", "call", "serve"} => body = {} /\ \A l \in listed : Len(l.at) < Len(Here)
    /\ phase = "build" =>
         \A l \in listed : Len(l.at) >= Len(Here) =>
            l.node \in DOMAIN children /\ Justified(listed, l.node, l.at)

\* What is found is expected, and what is expected is found or will be.
FoundInv ==
    phase = "build" =>
        /\ \A w \in Range(agenda) :
             Justified(listed, w.edge, w.at) /\ (w.do = "value" => Len(w.edge) > Len(Here))
        /\ \A at \in body : at \in Seq(AllNames) /\ \E e \in DOMAIN value : Expected(e, at)
        /\ \A e \in DOMAIN value, at \in Seq(AllNames) :
             Expected(e, at) => at \in body \/ \E w \in Range(agenda) : Covers(w, e, at)
        /\ \A c \in called : value[c.edge] # "token"

RecursiveInv == ListedInv /\ FoundInv /\ RecursiveExact

LEMMA PrefixIndex ==
    ASSUME NEW S, NEW s \in Seq(S), NEW t \in Seq(S)
    PROVE  IsPrefix(s, t) <=> Len(s) <= Len(t) /\ \A i \in 1..Len(s) : s[i] = t[i]
<1>1. Len(s) \in Nat /\ Len(t) \in Nat /\ SubSeq(s, 1, Len(s)) = s
  OBVIOUS
<1> DEFINE u == SubSeq(t, 1, Len(s))
<1>2. ASSUME Len(s) <= Len(t) PROVE u \in Seq(S) /\ Len(u) = Len(s) /\ \A i \in 1..Len(s) : u[i] = t[i]
  BY <1>1, <1>2
<1>3. IsPrefix(s, t) <=> Len(s) <= Len(t) /\ s = u
  BY <1>1 DEF IsPrefix
<1> HIDE DEF u
<1>4. ASSUME Len(s) <= Len(t), \A i \in 1..Len(s) : s[i] = t[i] PROVE s = u
  BY <1>2, <1>4, SeqEqual
<1> QED BY <1>2, <1>3, <1>4

\* Patterns are sequences of names as well.
LEMMA PatternsAreNames ==
    /\ Patterns \subseteq Seq(AllNames) /\ <<>> \in Patterns
<1>1. Words \subseteq AllNames
  BY DEF AllNames
<1> QED BY <1>1 DEF Patterns

LEMMA ExpectedJustified ==
    ASSUME NEW e, NEW at
    PROVE  Expected(e, at) <=>
             Len(e) > Len(Here) /\ value[e] \in {"nil", "meta"} /\ Justified(listed, e, at)
BY DEF Expected, Justified

\* More listings justify more.
LEMMA JustifiedMonotone ==
    ASSUME NEW L, NEW M, L \subseteq M, NEW e, NEW at, Justified(L, e, at)
    PROVE  Justified(M, e, at)
BY DEF Justified

\* The directory of the request, at the end of the walk.
LEMMA DirectoryProperties ==
    ASSUME TreeInv, ShapeInv, ServeInv, AnswerInv, phase \in {"serve", "build"}
    PROVE  /\ node \in DOMAIN children /\ node \in Patterns /\ Len(node) = Len(Here)
           /\ Here \in Seq(AllNames) /\ Len(Here) \in Nat /\ Matches(node, Here)
<1>1. NodeInv /\ WalkInv
  BY DEF ServeInv, AnswerInv
<1>2. Here \in Seq(AllNames) /\ Len(Here) \in Nat
  BY <1>1, HereProperties
<1>3. node \in DOMAIN children /\ node \in Patterns
  BY <1>1, PatternsAreNames DEF NodeInv, ShapeInv
<1>4. Walked(node) /\ ~(Len(node) < Len(Here)) /\ Len(node) \in Nat
  BY <1>1, <1>3 DEF WalkInv, Patterns
<1>5. Len(node) = Len(Here)
  BY <1>2, <1>4 DEF Walked
<1>6. SubSeq(Here, 1, Len(node)) = Here
  BY <1>2, <1>5
<1> QED BY <1>2, <1>3, <1>4, <1>5, <1>6 DEF Walked

\* Names that lead along an edge match it.
LEMMA JustifiedMatches ==
    ASSUME TreeInv, ShapeInv, ServeInv, AnswerInv, phase \in {"serve", "build"},
           NEW L, NEW e \in Patterns, NEW at \in Seq(AllNames), Justified(L, e, at)
    PROVE  Matches(e, at)
<1>1. /\ node \in Patterns /\ Len(node) = Len(Here)
      /\ Here \in Seq(AllNames) /\ Len(Here) \in Nat /\ Matches(node, Here)
  BY DirectoryProperties
<1>2. /\ Len(at) = Len(e) /\ Len(e) \in Nat /\ DOMAIN e = 1..Len(e)
      /\ \A i \in (Len(Here) + 1)..Len(e) : e[i] \in Params \/ at[i] = e[i]
  BY DEF Justified, Patterns
<1>3. \A i \in 1..Len(Here) : node[i] = e[i]
  BY <1>1, PatternsAreNames, PrefixIndex DEF Justified
<1>4. \A i \in 1..Len(Here) : Here[i] = at[i]
  BY <1>1, PrefixIndex DEF Justified
<1>5. \A i \in 1..Len(Here) : node[i] \in Params \/ node[i] = Here[i]
  BY <1>1 DEF Matches, Patterns
<1>6. \A i \in 1..Len(e) : e[i] \in Params \/ e[i] = at[i]
  <2> SUFFICES ASSUME NEW i \in 1..Len(e) PROVE e[i] \in Params \/ e[i] = at[i]
    OBVIOUS
  <2>1. CASE i \in 1..Len(Here)
    BY <1>3, <1>4, <1>5, <2>1
  <2>2. CASE i \notin 1..Len(Here)
    <3>1. i \in (Len(Here) + 1)..Len(e)
      BY <1>1, <1>2, <2>2
    <3> QED BY <1>2, <3>1
  <2> QED BY <2>1, <2>2
<1> QED BY <1>2, <1>6 DEF Matches

\* The next edge on the way from a node to an edge below it.
LEMMA NextEdge ==
    ASSUME TreeInv, ShapeInv, phase # "panicked", NEW n \in Patterns, NEW e \in DOMAIN value,
           IsPrefix(n, e), n # e
    PROVE  LET c == SubSeq(e, 1, Len(n) + 1)
           IN  /\ Len(n) + 1 \in 1..Len(e) /\ c \in DOMAIN value /\ c \in Patterns
               /\ Len(c) = Len(n) + 1 /\ Front(c) = n /\ Last(c) = e[Len(n) + 1]
               /\ (IsParam(c) <=> e[Len(n) + 1] \in Params) /\ IsPrefix(c, e)
               /\ n \in DOMAIN children
<1> DEFINE k == Len(n) + 1
           c == SubSeq(e, 1, k)
<1>1. e \in Patterns /\ Len(e) \in Nat /\ Len(n) \in Nat
  BY DEF ShapeInv, Patterns
<1>2. Len(n) < Len(e) /\ n = SubSeq(e, 1, Len(n))
  BY <1>1, PrefixIsSubSeq
<1>3. k \in 1..Len(e) /\ k - 1 = Len(n) /\ k <= Len(e)
  BY <1>1, <1>2
<1>4. c \in DOMAIN value
  BY <1>3, EdgePrefixes
<1>5. /\ c \in Patterns /\ Len(c) = k /\ Front(c) = SubSeq(e, 1, k - 1) /\ Last(c) = e[k]
      /\ IsParam(c) <=> e[k] \in Params
  BY <1>1, <1>3, PrefixFront
<1>6. Front(c) = n
  BY <1>2, <1>3, <1>5
<1>7. IsPrefix(c, e)
  <2>1. c = SubSeq(e, 1, Len(c)) /\ Len(c) <= Len(e)
    BY <1>3, <1>5
  <2> HIDE DEF c
  <2> QED BY <1>1, <1>5, <2>1, PrefixIsSubSeq
<1>8. n \in DOMAIN children
  BY <1>4, <1>6 DEF ShapeInv
<1> QED BY <1>3, <1>4, <1>5, <1>6, <1>7, <1>8

\* A name more on both sides.
LEMMA JustifiedChild ==
    ASSUME TreeInv, ShapeInv, ServeInv, AnswerInv, phase \in {"serve", "build"},
           NEW L, NEW n \in Patterns, NEW at \in Seq(AllNames), Justified(L, n, at),
           NEW c \in DOMAIN value, Front(c) = n, NEW x \in AllNames,
           IF IsParam(c) THEN \E l \in L : l.at = at /\ x \in Range(l.names) ELSE x = Last(c)
    PROVE  /\ Justified(L, c, Append(at, x)) /\ Len(c) > Len(Here)
           /\ Append(at, x) \in Seq(AllNames)
<1>1. /\ node \in Patterns /\ Len(node) = Len(Here)
      /\ Here \in Seq(AllNames) /\ Len(Here) \in Nat
  BY DirectoryProperties
<1>2. c \in Patterns /\ c # <<>>
  BY DEF ShapeInv
<1> DEFINE m == Len(n)
           t == Append(at, x)
<1>3. /\ Len(c) = m + 1 /\ m \in Nat /\ Last(c) = c[m + 1]
      /\ \A i \in 1..m : c[i] = n[i]
  <2>1. Len(c) \in Nat /\ Len(c) - 1 \in 0..Len(c) /\ Len(c) >= 1
    BY <1>2 DEF Patterns
  <2>2. n = SubSeq(c, 1, Len(c) - 1)
    BY DEF Front
  <2>3. Len(n) = Len(c) - 1 /\ \A i \in 1..(Len(c) - 1) : n[i] = c[i]
    BY <1>2, <2>1, <2>2, PrefixProperties
  <2> QED BY <2>1, <2>3 DEF Last
<1>4. Len(at) = m /\ Len(Here) <= m
  <2>1. Len(node) <= Len(n)
    BY DEF Justified, IsPrefix
  <2> QED BY <1>1, <2>1 DEF Justified
<1>5. /\ t \in Seq(AllNames) /\ Len(t) = m + 1 /\ t[m + 1] = x
      /\ \A i \in 1..m : t[i] = at[i]
  BY <1>4
<1>6. \A k \in 0..m : SubSeq(t, 1, k) = SubSeq(at, 1, k)
  BY <1>3, <1>4, <1>5
<1>7. SubSeq(at, 1, m) = at
  BY <1>4
<1> HIDE DEF t, m
<1>8. IsPrefix(node, c)
  <2>1. node \in Seq(AllNames) /\ n \in Seq(AllNames) /\ c \in Seq(AllNames)
    BY <1>1, <1>2, PatternsAreNames
  <2>2. Len(node) <= Len(n) /\ \A i \in 1..Len(node) : node[i] = n[i]
    BY <2>1, PrefixIndex DEF Justified
  <2>3. Len(node) <= Len(c) /\ \A i \in 1..Len(node) : node[i] = c[i]
    BY <1>1, <1>3, <1>4, <2>2
  <2> QED BY <2>1, <2>3, PrefixIndex
<1>9. IsPrefix(Here, t)
  <2>1. \A i \in 1..Len(Here) : Here[i] = at[i]
    BY <1>1, PrefixIndex DEF Justified
  <2>2. Len(Here) <= Len(t) /\ \A i \in 1..Len(Here) : Here[i] = t[i]
    BY <1>1, <1>3, <1>4, <1>5, <2>1
  <2> QED BY <1>1, <1>5, <2>2, PrefixIndex
<1>10. ASSUME NEW i \in (Len(Here) + 1)..Len(c)
       PROVE  IF c[i] \in Params
              THEN \E l \in L : l.at = SubSeq(t, 1, i - 1) /\ t[i] \in Range(l.names)
              ELSE t[i] = c[i]
  <2>1. CASE i \in 1..m
    <3>1. c[i] = n[i] /\ t[i] = at[i] /\ SubSeq(t, 1, i - 1) = SubSeq(at, 1, i - 1)
      BY <1>3, <1>5, <1>6, <2>1
    <3>2. i \in (Len(Here) + 1)..Len(n)
      BY <1>1, <2>1 DEF m
    <3>3. IF n[i] \in Params
          THEN \E l \in L : l.at = SubSeq(at, 1, i - 1) /\ at[i] \in Range(l.names)
          ELSE at[i] = n[i]
      BY <3>2 DEF Justified
    <3> QED BY <3>1, <3>3
  <2>2. CASE i \notin 1..m
    <3>1. i = m + 1 /\ i - 1 = m
      BY <1>1, <1>3, <1>4, <2>2
    <3>2. SubSeq(t, 1, i - 1) = at /\ t[i] = x /\ c[i] = Last(c)
      BY <1>3, <1>5, <1>6, <1>7, <3>1
    <3> QED BY <3>2 DEF IsParam
  <2> QED BY <2>1, <2>2
<1>11. Justified(L, c, t)
  BY <1>3, <1>5, <1>8, <1>9, <1>10 DEF Justified
<1> QED BY <1>1, <1>3, <1>4, <1>5, <1>11 DEF t, m

LEMMA AppendPrefix ==
    ASSUME NEW S, NEW s \in Seq(S), NEW t \in Seq(S), IsPrefix(s, t), Len(s) < Len(t)
    PROVE  LET u == Append(s, t[Len(s) + 1]) IN u \in Seq(S) /\ IsPrefix(u, t)
<1> DEFINE u == Append(s, t[Len(s) + 1])
<1>1. Len(s) \in Nat /\ Len(t) \in Nat /\ t[Len(s) + 1] \in S
  OBVIOUS
<1>2. /\ u \in Seq(S) /\ Len(u) = Len(s) + 1
      /\ \A i \in 1..(Len(s) + 1) : u[i] = IF i <= Len(s) THEN s[i] ELSE t[Len(s) + 1]
  BY <1>1
<1>3. \A i \in 1..Len(s) : s[i] = t[i]
  BY PrefixIndex
<1> HIDE DEF u
<1>4. Len(u) <= Len(t) /\ \A i \in 1..Len(u) : u[i] = t[i]
  BY <1>1, <1>2, <1>3
<1>5. IsPrefix(u, t)
  BY <1>2, <1>4, PrefixIndex
<1> QED BY <1>2, <1>5 DEF u

\* Work on a value.
ValueWork(f, at, c) == [do |-> "value", edge |-> f, at |-> at, ctx |-> c]

LEMMA VisitMembers ==
    ASSUME ShapeInv, NEW n \in DOMAIN children, NEW at, NEW c
    PROVE  /\ \A w \in Range(Visit(n, at, c)) :
                \/ \E f \in Range(children[n]) : w = ValueWork(f, Append(at, Last(f)), c)
                \/ w.do = "list" /\ w.edge = n /\ w.at = at
           /\ \A f \in Range(children[n]) :
                ValueWork(f, Append(at, Last(f)), c) \in Range(Visit(n, at, c))
<1> DEFINE below == children[n]
           item(f) == ValueWork(f, Append(at, Last(f)), c)
           values == [i \in DOMAIN below |-> item(below[i])]
           last == [do |-> "list", edge |-> n, at |-> at, ctx |-> c]
           list == IF n \in listers THEN <<last>> ELSE <<>>
           S == {last} \cup {item(f) : f \in Range(below)}
<1>1. Visit(n, at, c) = values \o list
  BY DEF Visit, ValueWork
<1>2. below \in Seq(DOMAIN value) /\ DOMAIN below = 1..Len(below) /\ Len(below) \in Nat
  BY DEF ShapeInv
<1>3. last.do = "list" /\ last.edge = n /\ last.at = at
  OBVIOUS
<1>4. DOMAIN values = DOMAIN below /\ \A i \in DOMAIN below : values[i] = item(below[i])
  OBVIOUS
<1>5. values = [i \in 1..Len(below) |-> values[i]]
  BY <1>2
<1> HIDE DEF below, item, values, last
<1>6. \A i \in DOMAIN below : below[i] \in Range(below)
  BY DEF Range
<1>7. values \in Seq(S) /\ list \in Seq(S)
  <2>1. \A i \in 1..Len(below) : values[i] \in S
    BY <1>2, <1>4, <1>6
  <2>2. values \in [1..Len(below) -> S]
    BY <1>5, <2>1
  <2>3. last \in S
    OBVIOUS
  <2> HIDE DEF S
  <2>4. list \in Seq(S)
    BY <2>3
  <2> QED BY <1>2, <2>2, <2>4
<1>8. Range(values) = {item(f) : f \in Range(below)}
  <2>1. Range(values) = {values[i] : i \in DOMAIN below}
    BY <1>4 DEF Range
  <2>2. Range(below) = {below[i] : i \in DOMAIN below}
    BY DEF Range
  <2> QED BY <1>4, <2>1, <2>2
<1>9. Range(list) \subseteq {last}
  BY DEF Range
<1>10. Range(values \o list) = Range(values) \cup Range(list)
  <2> HIDE DEF S, list
  <2> QED BY <1>7, RangeOfConcat
<1>11. \A w \in Range(values \o list) : (\E f \in Range(below) : w = item(f)) \/ w = last
  BY <1>8, <1>9, <1>10
<1>12. \A f \in Range(below) : item(f) \in Range(values \o list)
  BY <1>8, <1>10
<1> QED BY <1>1, <1>3, <1>11, <1>12 DEF below, item

LEMMA NamedMembers ==
    ASSUME NEW names, NEW e, NEW at, NEW c
    PROVE  Range(Named(names, e, at, c)) = {ValueWork(e, Append(at, x), c) : x \in Range(names)}
BY DEF Named, ValueWork, Range

\* What a node has to visit is justified when the node is.
LEMMA VisitJustified ==
    ASSUME TreeInv, ShapeInv, ServeInv, AnswerInv, phase \in {"serve", "build"},
           NEW L, NEW n \in DOMAIN children, NEW at \in Seq(AllNames), Justified(L, n, at), NEW c
    PROVE  \A w \in Range(Visit(n, at, c)) :
              Justified(L, w.edge, w.at) /\ (w.do = "value" => Len(w.edge) > Len(Here))
<1>1. n \in Patterns
  BY PatternsAreNames DEF ShapeInv
<1>2. SUFFICES ASSUME NEW f \in Range(children[n])
               PROVE  /\ Justified(L, f, Append(at, Last(f))) /\ Len(f) > Len(Here)
  <2> SUFFICES ASSUME NEW w \in Range(Visit(n, at, c))
               PROVE  Justified(L, w.edge, w.at) /\ (w.do = "value" => Len(w.edge) > Len(Here))
    OBVIOUS
  <2>1. CASE \E f \in Range(children[n]) : w = ValueWork(f, Append(at, Last(f)), c)
    <3>1. PICK f \in Range(children[n]) : w = ValueWork(f, Append(at, Last(f)), c)
      BY <2>1
    <3>2. w.edge = f /\ w.at = Append(at, Last(f))
      BY <3>1 DEF ValueWork
    <3> QED BY <1>2, <3>2
  <2>2. CASE w.do = "list" /\ w.edge = n /\ w.at = at
    BY <2>2
  <2> QED BY <2>1, <2>2, VisitMembers
<1>3. f \in DOMAIN value /\ Front(f) = n /\ ~IsParam(f) /\ f \in Patterns /\ f # <<>>
  BY DEF ShapeInv
<1>4. Last(f) \in AllNames
  <2>1. Last(f) \in Words
    BY <1>3 DEF Patterns, Last
  <2> QED BY <2>1 DEF AllNames
<1> QED BY <1>1, <1>3, <1>4, JustifiedChild

\* It finds every value below the node that needs no other lister.
LEMMA VisitCovers ==
    ASSUME TreeInv, ShapeInv, phase # "panicked",
           NEW n \in DOMAIN children, NEW at \in Seq(AllNames), NEW c,
           NEW e \in DOMAIN value, NEW p \in Seq(AllNames), Len(at) = Len(n), Len(p) = Len(e),
           IsPrefix(n, e), n # e, IsPrefix(at, p),
           \A i \in (Len(n) + 1)..Len(e) : e[i] \notin Params /\ p[i] = e[i]
    PROVE  \E w \in Range(Visit(n, at, c)) : Covers(w, e, p)
<1> DEFINE f == SubSeq(e, 1, Len(n) + 1)
           w == ValueWork(f, Append(at, Last(f)), c)
<1>1. n \in Patterns /\ Len(n) \in Nat /\ e \in Patterns /\ Len(e) \in Nat
  BY PatternsAreNames DEF ShapeInv, Patterns
<1>2. /\ Len(n) + 1 \in 1..Len(e) /\ f \in DOMAIN value
      /\ Len(f) = Len(n) + 1 /\ Front(f) = n /\ Last(f) = e[Len(n) + 1]
      /\ (IsParam(f) <=> e[Len(n) + 1] \in Params) /\ IsPrefix(f, e)
  BY <1>1, NextEdge
<1>3. e[Len(n) + 1] \notin Params /\ p[Len(n) + 1] = e[Len(n) + 1]
  BY <1>1, <1>2
<1> HIDE DEF f
<1>4. f \in Range(children[n])
  BY <1>2, <1>3 DEF ShapeInv
<1>5. IsPrefix(Append(at, Last(f)), p)
  <2>1. Len(at) < Len(p) /\ p[Len(at) + 1] = Last(f)
    BY <1>1, <1>2, <1>3
  <2> QED BY <2>1, AppendPrefix
<1>6. \A i \in (Len(f) + 1)..Len(e) : e[i] \notin Params
  BY <1>1, <1>2
<1>7. w.do = "value" /\ w.edge = f /\ w.at = Append(at, Last(f))
  BY DEF ValueWork
<1>8. w \in Range(Visit(n, at, c))
  BY <1>4, VisitMembers
<1> HIDE DEF w
<1>9. Covers(w, e, p)
  BY <1>2, <1>5, <1>6, <1>7 DEF Covers
<1> QED BY <1>8, <1>9

\* The values for the names that a lister returned.
LEMMA NamedJustified ==
    ASSUME TreeInv, ShapeInv, ServeInv, AnswerInv, phase \in {"serve", "build"},
           NEW L, NEW n \in Patterns, NEW at \in Seq(AllNames), Justified(L, n, at),
           NEW names \in Listings, \E l \in L : l.at = at /\ l.names = names,
           NEW e \in ParamEdges(n), NEW c
    PROVE  \A w \in Range(Named(names, e, at, c)) :
              Justified(L, w.edge, w.at) /\ Len(w.edge) > Len(Here)
<1>1. e \in DOMAIN value /\ Front(e) = n /\ IsParam(e)
  BY DEF ParamEdges
<1>2. Range(names) \subseteq AllNames
  <2>1. Range(names) \subseteq Names
    BY DEF Names
  <2> QED BY <2>1 DEF AllNames
<1>3. \A x \in Range(names) : Justified(L, e, Append(at, x)) /\ Len(e) > Len(Here)
  <2> SUFFICES ASSUME NEW x \in Range(names)
               PROVE  Justified(L, e, Append(at, x)) /\ Len(e) > Len(Here)
    OBVIOUS
  <2>1. \E l \in L : l.at = at /\ x \in Range(l.names)
    OBVIOUS
  <2> QED BY <1>1, <1>2, <2>1, JustifiedChild
<1> SUFFICES ASSUME NEW w \in Range(Named(names, e, at, c))
             PROVE  Justified(L, w.edge, w.at) /\ Len(w.edge) > Len(Here)
  OBVIOUS
<1>4. PICK x \in Range(names) : w = ValueWork(e, Append(at, x), c)
  BY NamedMembers
<1>5. w.edge = e /\ w.at = Append(at, x)
  BY <1>4 DEF ValueWork
<1> QED BY <1>3, <1>5

\* The node at the names of a path is the only one.
LEMMA NodeUnique ==
    ASSUME TreeInv, ShapeInv, phase # "panicked", NEW e \in DOMAIN value, NEW p \in Seq(AllNames),
           Matches(e, p), NEW k \in 0..Len(e), NEW n \in DOMAIN children,
           Matches(n, SubSeq(p, 1, k))
    PROVE  n = SubSeq(e, 1, k)
<1> DEFINE f == SubSeq(e, 1, k)
           q == SubSeq(p, 1, k)
<1>1. e \in Patterns /\ Len(e) \in Nat
  BY DEF ShapeInv, Patterns
<1>2. f \in Patterns /\ Len(f) = k
  BY <1>1, PrefixProperties
<1>3. Matches(f, q)
  BY <1>1, MatchesPrefix
<1> HIDE DEF f, q
<1>4. Len(n) = k
  BY <1>2, <1>3 DEF Matches, q
<1>5. n \in Patterns
  BY PatternsAreNames DEF ShapeInv
<1>6. CASE k = 0
  <2>1. f = <<>> /\ n = <<>>
    BY <1>2, <1>4, <1>5, <1>6 DEF Patterns
  <2> QED BY <2>1 DEF f
<1>7. CASE k # 0
  <2>1. k \in 1..Len(e) /\ n # <<>>
    BY <1>1, <1>4, <1>7
  <2>2. f \in DOMAIN value
    BY <2>1, EdgePrefixes DEF f
  <2>3. n \in DOMAIN value
    BY <2>1 DEF ShapeInv
  <2>4. n = f
    BY <1>3, <2>2, <2>3, MatchUnique DEF q
  <2> QED BY <2>4 DEF f
<1> QED BY <1>6, <1>7

\* What a new listing makes known is covered by the values for its names, because
\* the last parameter on the way decides.
LEMMA ListCovers ==
    ASSUME TreeInv, ShapeInv, ServeInv, AnswerInv, ListedInv, phase = "build",
           NEW n \in DOMAIN children, NEW at \in Seq(AllNames), Justified(listed, n, at),
           NEW new, new.at = at, NEW f \in ParamEdges(n), NEW c,
           NEW e \in DOMAIN value, NEW p \in Seq(AllNames), Len(e) > Len(Here),
           Justified(listed \cup {new}, e, p)
    PROVE  \/ Justified(listed, e, p)
           \/ \E w \in Range(Named(new.names, f, at, c)) : Covers(w, e, p)
<1>0. Len(Here) \in Nat
  BY DirectoryProperties
<1>1. e \in Patterns /\ Len(e) \in Nat /\ n \in Patterns /\ Len(p) = Len(e)
  BY PatternsAreNames DEF ShapeInv, Patterns, Justified
<1> DEFINE T == {k \in Len(Here)..Len(e) : \A i \in (k + 1)..Len(e) : e[i] \notin Params}
<1>2. Len(e) \in T /\ T \in SUBSET Nat
  BY <1>0, <1>1
<1>3. PICK j \in T : \A k \in T : j <= k
  BY <1>2, LeastElement
<1>4. j \in Len(Here)..Len(e) /\ \A i \in (j + 1)..Len(e) : e[i] \notin Params
  OBVIOUS
<1>5. j > Len(Here) => e[j] \in Params
  <2> SUFFICES ASSUME j > Len(Here), e[j] \notin Params PROVE FALSE
    OBVIOUS
  <2>1. j - 1 \in T
    BY <1>0, <1>1, <1>4
  <2>2. j <= j - 1
    BY <1>3, <2>1
  <2>3. j \in Int
    BY <1>0, <1>1, <1>4
  <2> QED BY <2>2, <2>3
<1> HIDE DEF T
<1>6. \A i \in (Len(Here) + 1)..Len(e) : e[i] \notin Params => p[i] = e[i]
  BY DEF Justified
<1>7. CASE j = Len(Here)
  BY <1>4, <1>7 DEF Justified
<1>8. CASE j > Len(Here)
  <2>1. j \in 1..Len(e) /\ j - 1 \in 0..Len(e) /\ j \in (Len(Here) + 1)..Len(e) /\ e[j] \in Params
    BY <1>0, <1>1, <1>4, <1>5, <1>8
  <2>2. PICK l \in listed \cup {new} : l.at = SubSeq(p, 1, j - 1) /\ p[j] \in Range(l.names)
    BY <2>1 DEF Justified
  <2>3. Matches(e, p)
    BY <1>1, JustifiedMatches
  <2>4. Len(SubSeq(p, 1, j - 1)) = j - 1 /\ \A i \in 1..(j - 1) : SubSeq(p, 1, j - 1)[i] = p[i]
    BY <1>1, <2>1
  <2>5. CASE l = new
    <3>1. at = SubSeq(p, 1, j - 1) /\ p[j] \in Range(new.names)
      BY <2>2, <2>5
    <3>2. Matches(n, at)
      BY <1>1, JustifiedMatches
    <3>3. n = SubSeq(e, 1, j - 1)
      BY <2>1, <2>3, <3>1, <3>2, NodeUnique
    <3> DEFINE g == SubSeq(e, 1, j)
               w == ValueWork(f, Append(at, p[j]), c)
    <3>4. /\ g \in DOMAIN value /\ g \in Patterns /\ Len(g) = j /\ Front(g) = n /\ IsParam(g)
      <4>1. g \in DOMAIN value
        BY <2>1, EdgePrefixes
      <4>2. g \in Patterns /\ Len(g) = j /\ Front(g) = SubSeq(e, 1, j - 1) /\ (IsParam(g) <=> e[j] \in Params)
        BY <1>1, <2>1, PrefixFront
      <4> QED BY <2>1, <3>3, <4>1, <4>2
    <3>5. IsPrefix(g, e)
      <4>1. g = SubSeq(e, 1, Len(g)) /\ Len(g) <= Len(e)
        BY <1>1, <2>1, <3>4
      <4> HIDE DEF g
      <4> QED BY <1>1, <3>4, <4>1, PrefixIsSubSeq
    <3> HIDE DEF g
    <3>6. f = g
      BY <3>4 DEF ParamEdges, ShapeInv
    <3>7. IsPrefix(Append(at, p[j]), p)
      <4>1. Len(at) = j - 1 /\ \A i \in 1..(j - 1) : at[i] = p[i]
        BY <2>4, <3>1
      <4>2. IsPrefix(at, p)
        BY <1>1, <2>1, <4>1, PrefixIndex
      <4>3. Len(at) < Len(p) /\ Len(at) + 1 = j
        BY <1>1, <2>1, <4>1
      <4> QED BY <4>2, <4>3, AppendPrefix
    <3>8. w \in Range(Named(new.names, f, at, c))
      BY <3>1, NamedMembers
    <3>9. w.do = "value" /\ w.edge = g /\ w.at = Append(at, p[j])
      BY <3>6 DEF ValueWork
    <3> HIDE DEF w
    <3>10. Covers(w, e, p)
      BY <1>4, <3>4, <3>5, <3>7, <3>9 DEF Covers
    <3> QED BY <3>8, <3>10
  <2>6. CASE l \in listed
    <3>1. /\ l.node \in DOMAIN children /\ Justified(listed, l.node, l.at) /\ l.at \in Seq(AllNames)
      <4>1. Len(l.at) = j - 1 /\ Len(l.at) >= Len(Here)
        BY <1>0, <1>8, <2>1, <2>2, <2>4
      <4> QED BY <2>6, <4>1 DEF ListedInv
    <3>2. l.node \in Patterns
      BY <3>1, PatternsAreNames DEF ShapeInv
    <3>3. Matches(l.node, l.at)
      BY <3>1, <3>2, JustifiedMatches
    <3>4. l.node = SubSeq(e, 1, j - 1)
      BY <2>1, <2>2, <2>3, <3>1, <3>3, NodeUnique
    <3>5. Len(l.node) = j - 1 /\ \A i \in 1..(j - 1) : l.node[i] = e[i]
      BY <1>1, <2>1, <3>4, PrefixProperties
    <3>6. \A i \in 1..(j - 1) : l.at[i] = p[i] /\ SubSeq(l.at, 1, i - 1) = SubSeq(p, 1, i - 1)
      <4> SUFFICES ASSUME NEW i \in 1..(j - 1)
                   PROVE  l.at[i] = p[i] /\ SubSeq(l.at, 1, i - 1) = SubSeq(p, 1, i - 1)
        OBVIOUS
      <4>1. l.at[i] = p[i]
        BY <2>2, <2>4
      <4>2. Len(l.at) = j - 1 /\ i - 1 \in 0..Len(l.at) /\ i - 1 <= Len(p)
        BY <1>1, <2>1, <2>2, <2>4
      <4>3. \A k \in 1..(i - 1) : l.at[k] = p[k]
        BY <2>1, <2>2, <2>4
      <4> DEFINE u == SubSeq(l.at, 1, i - 1)
                 v == SubSeq(p, 1, i - 1)
      <4>4. /\ u \in Seq(AllNames) /\ Len(u) = i - 1 /\ \A k \in 1..(i - 1) : u[k] = l.at[k]
        BY <3>1, <4>2
      <4>5. /\ v \in Seq(AllNames) /\ Len(v) = i - 1 /\ \A k \in 1..(i - 1) : v[k] = p[k]
        BY <2>1, <4>2
      <4> HIDE DEF u, v
      <4>6. u = v
        BY <4>3, <4>4, <4>5, SeqEqual
      <4> QED BY <4>1, <4>6 DEF u, v
    <3>7. ASSUME NEW i \in (Len(Here) + 1)..Len(e), e[i] \in Params
          PROVE  \E m \in listed : m.at = SubSeq(p, 1, i - 1) /\ p[i] \in Range(m.names)
      <4>1. CASE i < j
        <5>1. i \in 1..(j - 1) /\ i \in (Len(Here) + 1)..Len(l.node)
          BY <1>0, <1>1, <2>1, <3>5, <4>1
        <5>2. l.node[i] \in Params
          BY <3>5, <3>7, <5>1
        <5>3. \E m \in listed : m.at = SubSeq(l.at, 1, i - 1) /\ l.at[i] \in Range(m.names)
          BY <3>1, <5>1, <5>2 DEF Justified
        <5> QED BY <3>6, <5>1, <5>3
      <4>2. CASE i = j
        BY <2>2, <2>6, <4>2
      <4>3. CASE i > j
        <5>1. i \in (j + 1)..Len(e)
          BY <1>0, <1>1, <2>1, <4>3
        <5> QED BY <1>4, <3>7, <5>1
      <4>4. i \in Nat /\ j \in Nat
        BY <1>0, <1>1, <2>1
      <4> QED BY <4>1, <4>2, <4>3, <4>4
    <3>8. Justified(listed, e, p)
      BY <1>6, <3>7 DEF Justified
    <3> QED BY <3>8
  <2> QED BY <2>2, <2>5, <2>6
<1> QED BY <1>0, <1>1, <1>4, <1>7, <1>8

\* The first item of the agenda is done, and what it leaves to do replaces it.
LEMMA FoundStep ==
    ASSUME AgendaInv, FoundInv, phase = "build", agenda # <<>>, UNCHANGED <<treeVars, req, node>>,
           listed \subseteq listed', body \subseteq body',
           NEW new \in Seq(Work), agenda' = new \o Tail(agenda),
           \A w \in Range(new) :
              Justified(listed', w.edge, w.at) /\ (w.do = "value" => Len(w.edge) > Len(Here)),
           \A at \in body' : at \in body \/ (at \in Seq(AllNames) /\ \E e \in DOMAIN value : Expected(e, at)),
           \A c \in called' : value[c.edge] # "token",
           \A e \in DOMAIN value, at \in Seq(AllNames) :
              Len(e) > Len(Here) /\ value[e] \in {"nil", "meta"} /\ Justified(listed', e, at) =>
                 \/ Justified(listed, e, at) /\ ~Covers(Head(agenda), e, at)
                 \/ at \in body'
                 \/ \E w \in Range(new) : Covers(w, e, at)
    PROVE  FoundInv'
<1>1. Here' = Here /\ value' = value /\ node' = node
  BY DEF Here, treeVars
<1>2. \A e, at : Justified(listed, e, at)' <=> Justified(listed', e, at)
  BY <1>1 DEF Justified
<1>3. \A e, at : Expected(e, at)' <=>
        Len(e) > Len(Here) /\ value[e] \in {"nil", "meta"} /\ Justified(listed', e, at)
  BY <1>1 DEF Expected, Justified
<1>4. \A e, at : Expected(e, at) <=>
        Len(e) > Len(Here) /\ value[e] \in {"nil", "meta"} /\ Justified(listed, e, at)
  BY DEF Expected, Justified
<1>5. \A e, at : Justified(listed, e, at) => Justified(listed', e, at)
  BY JustifiedMonotone
<1>6. /\ Tail(agenda) \in Seq(Work)
      /\ Range(agenda) = {Head(agenda)} \cup Range(Tail(agenda))
  BY RangeOfTail DEF AgendaInv
<1>7. Range(agenda') = Range(new) \cup Range(Tail(agenda))
  <2> DEFINE rest == Tail(agenda)
  <2>1. rest \in Seq(Work) /\ agenda' = new \o rest
    BY <1>6
  <2> HIDE DEF rest
  <2>2. Range(new \o rest) = Range(new) \cup Range(rest)
    BY ONLY <2>1, new \in Seq(Work), RangeOfConcat
  <2> QED BY <2>1, <2>2 DEF rest
<1>8. \A w \in Range(agenda') :
        Justified(listed', w.edge, w.at) /\ (w.do = "value" => Len(w.edge) > Len(Here))
  BY <1>5, <1>6, <1>7 DEF FoundInv
<1>9. \A at \in body' : at \in Seq(AllNames) /\ \E e \in DOMAIN value :
        Len(e) > Len(Here) /\ value[e] \in {"nil", "meta"} /\ Justified(listed', e, at)
  BY <1>4, <1>5 DEF FoundInv
<1>10. ASSUME NEW e \in DOMAIN value, NEW at \in Seq(AllNames),
              Len(e) > Len(Here) /\ value[e] \in {"nil", "meta"} /\ Justified(listed', e, at)
       PROVE  at \in body' \/ \E w \in Range(agenda') : Covers(w, e, at)
  <2>1. CASE Justified(listed, e, at) /\ ~Covers(Head(agenda), e, at)
    <3>1. at \in body \/ \E w \in Range(agenda) : Covers(w, e, at)
      BY <1>4, <1>10, <2>1 DEF FoundInv
    <3> QED BY <1>6, <1>7, <2>1, <3>1
  <2>2. CASE at \in body' \/ \E w \in Range(new) : Covers(w, e, at)
    BY <1>7, <2>2
  <2> QED BY <1>10, <2>1, <2>2
<1>11. \A w, e, at : Covers(w, e, at)' <=> Covers(w, e, at)
  BY DEF Covers
<1> QED BY <1>1, <1>2, <1>3, <1>8, <1>9, <1>10, <1>11 DEF FoundInv

\* A response that is not a recursive answer.
LEMMA OtherAnswer ==
    ASSUME phase' \notin {"walk", "call", "serve", "build"},
           \A l \in listed' : l.names \in Listings /\ l.at \in Seq(AllNames),
           \/ phase' # "done" \/ status' # <<"200">> \/ ~Recursive'
           \/ (node' # <<>> /\ value'[node'] # "dir")
    PROVE  RecursiveInv'
BY DEF RecursiveInv, ListedInv, FoundInv, RecursiveExact

\* So is every error.
LEMMA ErrorAnswer ==
    ASSUME ListedInv, WalkInv, phase \in {"walk", "call", "serve", "build"},
           NEW code \in {"301", "404", "500", "error"}, Respond(code),
           \A l \in listed' : l.names \in Listings /\ l.at \in Seq(AllNames)
    PROVE  RecursiveInv'
<1>1. phase' = "done" /\ status' = Append(<<>>, code)
  BY DEF Respond, WalkInv
<1>2. status'[1] = code /\ <<"200">>[1] = "200"
  BY <1>1
<1>3. status' # <<"200">>
  BY <1>2
<1> QED BY <1>1, <1>3, OtherAnswer

LEMMA WalkRecursive ==
    ASSUME TreeInv, ShapeInv, ServeInv, AnswerInv, RecursiveInv,
           WalkStatic \/ WalkParam \/ WalkParamFails \/ WalkParamAborts
    PROVE  RecursiveInv'
<1>0. phase = "walk" /\ UNCHANGED <<treeVars, req, body>>
  BY DEF WalkStatic, WalkParam, WalkParamFails, WalkParamAborts
<1>1. /\ Here' = Here /\ Here \in Seq(AllNames) /\ Len(Here) \in Nat
  BY <1>0, HereProperties DEF ServeInv, Here
<1>2. /\ ListedInv /\ WalkInv /\ body = {} /\ \A l \in listed : Len(l.at) < Len(Here)
  BY <1>0 DEF RecursiveInv, ListedInv, AnswerInv
<1>3. Len(node) < Len(Here) /\ Len(node) \in Nat
  <2>1. node \in Patterns
    BY PatternsAreNames DEF ServeInv, NodeInv, ShapeInv
  <2> QED BY <1>0, <1>2, <2>1 DEF WalkInv, Patterns
<1>4. \A l \in listed' : l.names \in Listings /\ l.at \in Seq(AllNames) /\ Len(l.at) < Len(Here)
  <2>1. CASE listed' = listed
    BY <1>2, <2>1 DEF ListedInv
  <2>2. CASE WalkParam
    <3>1. PICK names \in Listings :
            listed' = listed \cup {[node |-> node, at |-> SubSeq(Here, 1, Len(node)),
                                    ctx |-> ctx, names |-> names]}
      BY <2>2 DEF WalkParam, Lists, Here
    <3> DEFINE at == SubSeq(Here, 1, Len(node))
    <3>2. at \in Seq(AllNames) /\ Len(at) = Len(node)
      BY <1>1, <1>3
    <3> HIDE DEF at
    <3>3. listed' = listed \cup {[node |-> node, at |-> at, ctx |-> ctx, names |-> names]}
      BY <3>1 DEF at
    <3> QED BY <1>2, <1>3, <3>2, <3>3 DEF ListedInv
  <2> QED BY <2>1, <2>2 DEF WalkStatic, WalkParamFails, WalkParamAborts
<1>5. \/ \E code \in {"404", "error"} : Respond(code)
      \/ phase' \in {"walk", "call", "serve", "aborted"}
  <2>1. ASSUME NEW e, Follow(e)
        PROVE  Respond("404") \/ phase' \in {"walk", "call", "serve", "aborted"}
    BY <1>0, <2>1 DEF Follow
  <2> QED BY <2>1 DEF WalkStatic, WalkParam, WalkParamFails, WalkParamAborts
<1>6. CASE \E code \in {"404", "error"} : Respond(code)
  BY <1>0, <1>2, <1>4, <1>6, ErrorAnswer
<1>7. CASE phase' \in {"walk", "call", "serve", "aborted"}
  BY <1>0, <1>1, <1>2, <1>4, <1>7 DEF RecursiveInv, ListedInv, FoundInv, RecursiveExact
<1> QED BY <1>5, <1>6, <1>7

LEMMA ListingRecursive ==
    ASSUME TreeInv, ShapeInv, ServeInv, AnswerInv, RecursiveInv, ServeMetadata \/ Redirect \/ List
    PROVE  RecursiveInv'
<1>0. UNCHANGED <<treeVars, req, node>> /\ phase \in {"call", "serve"} /\ phase' = "done"
  BY DEF ServeMetadata, Redirect, List, Respond
<1>1. ListedInv /\ WalkInv /\ Here \in Seq(AllNames)
  BY HereProperties DEF RecursiveInv, AnswerInv, ServeInv
<1>2. \A l \in listed' : l.names \in Listings /\ l.at \in Seq(AllNames)
  <2>1. CASE listed' = listed
    BY <1>1, <2>1 DEF ListedInv
  <2>2. ASSUME NEW names \in Listings,
               listed' = listed \cup {[node |-> node, at |-> Here, ctx |-> ctx, names |-> names]}
        PROVE  \A l \in listed' : l.names \in Listings /\ l.at \in Seq(AllNames)
    BY <1>1, <2>2 DEF ListedInv
  <2> QED BY <2>1, <2>2 DEF ServeMetadata, Redirect, List, Lists
<1>3. CASE ServeMetadata
  <2>1. node' # <<>> /\ value'[node'] # "dir"
    BY <1>0, <1>3 DEF ServeMetadata, ServeInv, NodeInv, ShapeInv, treeVars
  <2> QED BY <1>0, <1>2, <2>1, OtherAnswer
<1>4. CASE Redirect
  BY <1>0, <1>1, <1>2, <1>4, ErrorAnswer DEF Redirect
<1>5. CASE List
  <2>1. ~Recursive'
    BY <1>0, <1>5 DEF List, Recursive, UnderPrefix
  <2> QED BY <1>0, <1>2, <2>1, OtherAnswer
<1> QED BY <1>3, <1>4, <1>5

LEMMA BuildRecursiveStarts ==
    ASSUME TreeInv, ShapeInv, ServeInv, AnswerInv, RecursiveInv, BuildRecursive
    PROVE  RecursiveInv'
<1>0. /\ phase = "serve" /\ phase' = "build" /\ agenda' = Visit(node, Here, ctx)
      /\ UNCHANGED <<treeVars, req, node, body, listed, called>>
  BY DEF BuildRecursive
<1>1. /\ Here' = Here /\ value' = value /\ node' = node /\ phase # "panicked"
  BY <1>0 DEF Here, treeVars
<1>2. /\ body = {} /\ called = {} /\ \A l \in listed : Len(l.at) < Len(Here)
  BY <1>0 DEF RecursiveInv, ListedInv, AnswerInv, WalkInv
<1>3. /\ node \in DOMAIN children /\ node \in Patterns /\ Len(node) = Len(Here)
      /\ Here \in Seq(AllNames) /\ Len(Here) \in Nat
  BY <1>0, DirectoryProperties
<1>4. Justified(listed, node, Here)
  <2>1. IsPrefix(node, node) /\ IsPrefix(Here, Here)
    BY <1>3, PatternsAreNames, PrefixIndex
  <2> QED BY <1>3, <2>1 DEF Justified
<1>5. \A w \in Range(Visit(node, Here, ctx)) :
        Justified(listed, w.edge, w.at) /\ (w.do = "value" => Len(w.edge) > Len(Here))
  BY <1>0, <1>3, <1>4, VisitJustified
<1>6. ASSUME NEW e \in DOMAIN value, NEW at \in Seq(AllNames), Expected(e, at)
      PROVE  \E w \in Range(Visit(node, Here, ctx)) : Covers(w, e, at)
  <2>1. e \in Patterns /\ Len(e) \in Nat
    BY DEF ShapeInv, Patterns
  <2>2. ASSUME NEW i \in (Len(node) + 1)..Len(e) PROVE e[i] \notin Params /\ at[i] = e[i]
    <3>1. i \in (Len(Here) + 1)..Len(e) /\ i - 1 \in 0..Len(at) /\ ~(i - 1 < Len(Here))
      BY <1>3, <1>6, <2>1, <2>2 DEF Expected
    <3>2. Len(SubSeq(at, 1, i - 1)) = i - 1
      BY <3>1
    <3>3. \A l \in listed : l.at # SubSeq(at, 1, i - 1)
      BY <1>2, <3>1, <3>2
    <3> QED BY <1>6, <3>1, <3>3 DEF Expected
  <2>3. /\ Len(at) = Len(e) /\ IsPrefix(node, e) /\ IsPrefix(Here, at) /\ node # e
    BY <1>3, <1>6, <2>1 DEF Expected
  <2> QED BY <1>1, <1>3, <2>2, <2>3, VisitCovers
<1>7. \A e, at : Justified(listed, e, at)' <=> Justified(listed, e, at)
  BY <1>0, <1>1 DEF Justified
<1>8. \A e, at : Expected(e, at)' <=> Expected(e, at)
  BY <1>0, <1>1 DEF Expected
<1>9. \A w, e, at : Covers(w, e, at)' <=> Covers(w, e, at)
  BY DEF Covers
<1>10. FoundInv'
  BY <1>0, <1>1, <1>2, <1>5, <1>6, <1>7, <1>8, <1>9 DEF FoundInv
<1>11. ListedInv'
  <2>1. \A l \in listed : ~(Len(l.at) >= Len(Here))
    <3>1. \A l \in listed : Len(l.at) \in Nat
      BY DEF RecursiveInv, ListedInv
    <3> QED BY <1>2, <1>3, <3>1
  <2> QED BY <1>0, <1>1, <2>1 DEF RecursiveInv, ListedInv
<1> QED BY <1>0, <1>10, <1>11 DEF RecursiveInv, RecursiveExact

\* Nothing is below an edge that leads to no directory.
LEMMA LeafEdge ==
    ASSUME TreeInv, ShapeInv, phase # "panicked", NEW f \in DOMAIN value, value[f] # "dir",
           NEW e \in DOMAIN value, IsPrefix(f, e)
    PROVE  e = f
<1> SUFFICES ASSUME e # f PROVE FALSE
  OBVIOUS
<1>1. f \in Patterns /\ f # <<>>
  BY DEF ShapeInv
<1>2. f \in DOMAIN children
  BY <1>1, NextEdge
<1> QED BY <1>1, <1>2 DEF ShapeInv

LEMMA BuildValueRecursive ==
    ASSUME TreeInv, ShapeInv, ServeInv, AnswerInv, RecursiveInv, BuildValue
    PROVE  RecursiveInv'
<1> DEFINE w == Head(agenda)
<1>0. /\ phase = "build" /\ agenda # <<>> /\ w.do = "value"
      /\ UNCHANGED <<treeVars, req, node, listed>>
  BY DEF BuildValue, Builds
<1>1. /\ Here' = Here /\ value' = value /\ node' = node /\ phase # "panicked"
  BY <1>0 DEF Here, treeVars
<1>2. ListedInv /\ FoundInv /\ AgendaInv /\ WalkInv /\ agenda \in Seq(Work) /\ Len(Here) \in Nat
  BY HereProperties DEF RecursiveInv, ServeInv, AgendaInv, AnswerInv
<1>3. w \in Work /\ w \in Range(agenda) /\ Tail(agenda) \in Seq(Work)
  BY <1>0, <1>2, RangeOfTail
<1>4. /\ w.edge \in DOMAIN value /\ w.edge \in Patterns /\ w.at \in Seq(AllNames)
      /\ Len(w.edge) \in Nat
      /\ Justified(listed, w.edge, w.at) /\ Len(w.edge) > Len(Here)
  BY <1>0, <1>2, <1>3 DEF AgendaInv, FoundInv, Work, ShapeInv, Patterns
<1>5. \/ Respond("error")
      \/ /\ value[w.edge] = "token" /\ agenda' = Tail(agenda)
         /\ UNCHANGED <<phase, status, body, called>>
      \/ /\ value[w.edge] \in {"nil", "meta"} /\ agenda' = Tail(agenda) /\ body' = body \cup {w.at}
         /\ \A c \in called' : c \in called \/ c.edge = w.edge
         /\ UNCHANGED <<phase, status>>
      \/ /\ value[w.edge] = "dir"
         /\ agenda' = Visit(w.edge, w.at, w.ctx) \o Tail(agenda)
         /\ UNCHANGED <<phase, status, body, called>>
  <2>1. \/ Respond("error")
        \/ /\ value[w.edge] = "token" /\ agenda' = Tail(agenda)
           /\ UNCHANGED <<phase, status, body, called>>
        \/ /\ value[w.edge] = "nil" /\ agenda' = Tail(agenda) /\ body' = body \cup {w.at}
           /\ UNCHANGED <<phase, status, called>>
        \/ /\ value[w.edge] = "dir"
           /\ agenda' = Visit(w.edge, w.at, w.ctx) \o Tail(agenda)
           /\ UNCHANGED <<phase, status, body, called>>
        \/ /\ value[w.edge] \in {"meta", "token"} /\ value[w.edge] # "token" /\ Calls(w.edge, w.ctx)
           /\ agenda' = Tail(agenda) /\ body' = body \cup {w.at} /\ UNCHANGED <<phase, status>>
    BY Zenon DEF BuildValue, Skips, Fails
  <2>2. Calls(w.edge, w.ctx) => \A c \in called' : c \in called \/ c.edge = w.edge
    BY DEF Calls
  <2> HIDE DEF w
  <2> QED BY <2>1, <2>2
<1>6. \A c \in called : value[c.edge] # "token"
  BY <1>0, <1>2 DEF FoundInv
<1>7. /\ <<>> \in Seq(Work) /\ <<>> \o Tail(agenda) = Tail(agenda) /\ Range(<<>>) = {}
  BY <1>3 DEF Range
<1> HIDE DEF w
<1>8. phase' = phase => ListedInv'
  <2>1. \A e, at : Justified(listed, e, at)' <=> Justified(listed, e, at)
    BY <1>0, <1>1 DEF Justified
  <2> QED BY <1>0, <1>1, <1>2, <2>1 DEF ListedInv, treeVars
<1>9. phase' = phase /\ FoundInv' => RecursiveInv'
  BY <1>0, <1>8 DEF RecursiveInv, RecursiveExact
<1>10. CASE Respond("error")
  BY <1>0, <1>2, <1>10, ErrorAnswer DEF ListedInv
<1>11. CASE /\ value[w.edge] = "token" /\ agenda' = Tail(agenda)
            /\ UNCHANGED <<phase, status, body, called>>
  <2>1. \A e \in DOMAIN value, at \in Seq(AllNames) :
          value[e] \in {"nil", "meta"} => ~Covers(w, e, at)
    BY <1>1, <1>4, <1>11, LeafEdge DEF Covers
  <2>2. \A e \in DOMAIN value, at \in Seq(AllNames) :
          Len(e) > Len(Here) /\ value[e] \in {"nil", "meta"} /\ Justified(listed', e, at) =>
             Justified(listed, e, at) /\ ~Covers(Head(agenda), e, at)
    BY <1>0, <2>1 DEF w
  <2>3. FoundInv'
    BY <1>0, <1>2, <1>6, <1>7, <1>11, <2>2, FoundStep
  <2> QED BY <1>9, <1>11, <2>3
<1>12. CASE /\ value[w.edge] \in {"nil", "meta"} /\ agenda' = Tail(agenda) /\ body' = body \cup {w.at}
            /\ \A c \in called' : c \in called \/ c.edge = w.edge
            /\ UNCHANGED <<phase, status>>
  <2>1. ASSUME NEW e \in DOMAIN value, NEW at \in Seq(AllNames),
               Justified(listed, e, at), Covers(w, e, at)
        PROVE  at = w.at
    <3>1. e = w.edge
      BY <1>1, <1>4, <1>12, <2>1, LeafEdge DEF Covers
    <3>2. Len(at) = Len(w.at) /\ \A i \in 1..Len(w.at) : w.at[i] = at[i]
      BY <1>4, <2>1, <3>1, PrefixIndex DEF Covers, Justified
    <3> QED BY <1>4, <3>2, SeqEqual
  <2>2. \A e \in DOMAIN value, at \in Seq(AllNames) :
          Len(e) > Len(Here) /\ value[e] \in {"nil", "meta"} /\ Justified(listed', e, at) =>
             \/ Justified(listed, e, at) /\ ~Covers(Head(agenda), e, at)
             \/ at \in body'
    BY <1>0, <1>12, <2>1 DEF w
  <2>3. Expected(w.edge, w.at)
    BY <1>4, <1>12, ExpectedJustified
  <2>4. \A at \in body' : at \in body \/ (at \in Seq(AllNames) /\ \E e \in DOMAIN value : Expected(e, at))
    BY <1>4, <1>12, <2>3
  <2>5. \A c \in called' : value[c.edge] # "token"
    BY <1>6, <1>12
  <2>6. FoundInv'
    BY <1>0, <1>2, <1>7, <1>12, <2>2, <2>4, <2>5, FoundStep
  <2> QED BY <1>9, <1>12, <2>6
<1>13. CASE /\ value[w.edge] = "dir"
            /\ agenda' = Visit(w.edge, w.at, w.ctx) \o Tail(agenda)
            /\ UNCHANGED <<phase, status, body, called>>
  <2> DEFINE new == Visit(w.edge, w.at, w.ctx)
  <2>1. w.edge \in DOMAIN children /\ Len(w.at) = Len(w.edge)
    BY <1>4, <1>13 DEF ShapeInv, Justified
  <2>2. new \in Seq(Work)
    <3>1. w.ctx = Above(w.edge)
      BY <1>2, <1>3 DEF AgendaInv
    <3> QED BY <1>4, <2>1, <3>1, VisitProperties
  <2>3. \A v \in Range(new) :
          Justified(listed, v.edge, v.at) /\ (v.do = "value" => Len(v.edge) > Len(Here))
    BY <1>0, <1>4, <2>1, VisitJustified
  <2>4. ASSUME NEW e \in DOMAIN value, NEW at \in Seq(AllNames), value[e] \in {"nil", "meta"},
               Justified(listed, e, at), Covers(w, e, at)
        PROVE  \E v \in Range(new) : Covers(v, e, at)
    <3>1. Len(e) \in Nat /\ Len(at) = Len(e) /\ e # w.edge
      BY <1>13, <2>4 DEF ShapeInv, Patterns, Justified
    <3>2. \A i \in (Len(w.edge) + 1)..Len(e) : i \in (Len(Here) + 1)..Len(e)
      BY <1>2, <1>4, <3>1
    <3>3. \A i \in (Len(w.edge) + 1)..Len(e) : e[i] \notin Params /\ at[i] = e[i]
      BY <2>4, <3>2 DEF Covers, Justified
    <3> QED BY <1>1, <1>4, <2>1, <2>4, <3>1, <3>3, VisitCovers DEF Covers
  <2>5. agenda' = new \o Tail(agenda)
    BY <1>13
  <2> HIDE DEF new
  <2>6. \A e \in DOMAIN value, at \in Seq(AllNames) :
          Len(e) > Len(Here) /\ value[e] \in {"nil", "meta"} /\ Justified(listed', e, at) =>
             \/ Justified(listed, e, at) /\ ~Covers(Head(agenda), e, at)
             \/ \E v \in Range(new) : Covers(v, e, at)
    BY <1>0, <2>4 DEF w
  <2>7. \A v \in Range(new) :
          Justified(listed', v.edge, v.at) /\ (v.do = "value" => Len(v.edge) > Len(Here))
    BY <1>0, <2>3
  <2>8. FoundInv'
    BY <1>0, <1>2, <1>6, <1>13, <2>2, <2>5, <2>6, <2>7, FoundStep
  <2> QED BY <1>9, <1>13, <2>8
<1> QED BY <1>5, <1>10, <1>11, <1>12, <1>13 DEF w

LEMMA BuildListRecursive ==
    ASSUME TreeInv, ShapeInv, ServeInv, AnswerInv, RecursiveInv, BuildList
    PROVE  RecursiveInv'
<1> DEFINE w == Head(agenda)
<1>0. /\ phase = "build" /\ agenda # <<>> /\ w.do = "list"
      /\ UNCHANGED <<treeVars, req, node, body, called>>
  BY DEF BuildList, Builds
<1>1. /\ Here' = Here /\ value' = value /\ node' = node /\ children' = children
  BY <1>0 DEF Here, treeVars
<1>2. ListedInv /\ FoundInv /\ AgendaInv /\ WalkInv /\ agenda \in Seq(Work)
  BY DEF RecursiveInv, ServeInv, AgendaInv, AnswerInv
<1>3. w \in Work /\ w \in Range(agenda)
  BY <1>0, <1>2, RangeOfTail
<1>4. /\ w.edge \in listers /\ w.edge \in Patterns /\ w.at \in Seq(AllNames)
      /\ w.ctx \in SUBSET Patterns /\ Justified(listed, w.edge, w.at)
  BY <1>0, <1>2, <1>3 DEF AgendaInv, FoundInv, Work
<1>5. CASE Fails /\ listed' = listed
  BY <1>0, <1>2, <1>5, ErrorAnswer DEF Fails, ListedInv
<1>6. ASSUME NEW names \in Listings, NEW f \in ParamEdges(w.edge),
             Lists(w.edge, w.at, w.ctx, names),
             agenda' = [i \in DOMAIN names |->
                          [do |-> "value", edge |-> f, at |-> Append(w.at, names[i]),
                           ctx |-> Enriched(w)]] \o Tail(agenda),
             UNCHANGED <<phase, status>>
      PROVE  RecursiveInv'
  <2> DEFINE l == [node |-> w.edge, at |-> w.at, ctx |-> w.ctx, names |-> names]
             new == Named(names, f, w.at, Enriched(w))
  <2>1. agenda' = new \o Tail(agenda) /\ listed' = listed \cup {l}
    BY <1>6 DEF Named, Lists
  <2> HIDE DEF w
  <2>2. l.node = w.edge /\ l.at = w.at /\ l.names = names
    OBVIOUS
  <2>3. f \in DOMAIN value /\ f \in Patterns /\ Front(f) = w.edge /\ w.edge \in DOMAIN children
    BY DEF ParamEdges, ShapeInv
  <2>4. new \in Seq(Work)
    <3>1. Enriched(w) \in SUBSET Patterns
      BY <1>4 DEF Enriched
    <3> QED BY <1>4, <2>3, <3>1, NamedWork
  <2> HIDE DEF l
  <2>5. listed \subseteq listed' /\ Justified(listed', w.edge, w.at)
    BY <1>4, <2>1, JustifiedMonotone
  <2>6. \A v \in Range(new) : Justified(listed', v.edge, v.at) /\ Len(v.edge) > Len(Here)
    <3>1. \E m \in listed' : m.at = w.at /\ m.names = names
      BY <2>1, <2>2
    <3> DEFINE L == listed'
    <3>2. Justified(L, w.edge, w.at) /\ \E m \in L : m.at = w.at /\ m.names = names
      BY <2>5, <3>1
    <3> HIDE DEF L
    <3>3. \A v \in Range(Named(names, f, w.at, Enriched(w))) :
            Justified(L, v.edge, v.at) /\ Len(v.edge) > Len(Here)
      BY <1>0, <1>4, <3>2, NamedJustified
    <3> QED BY <3>3 DEF L
  <2>7. ASSUME NEW e \in DOMAIN value, NEW at \in Seq(AllNames), Len(e) > Len(Here),
               value[e] \in {"nil", "meta"}, Justified(listed', e, at)
        PROVE  \/ Justified(listed, e, at) /\ ~Covers(w, e, at)
               \/ \E v \in Range(new) : Covers(v, e, at)
    <3>1. Justified(listed \cup {l}, e, at)
      BY <2>1, <2>7
    <3>2. \/ Justified(listed, e, at)
          \/ \E v \in Range(Named(l.names, f, w.at, Enriched(w))) : Covers(v, e, at)
      BY <1>0, <1>2, <1>4, <2>2, <2>3, <2>7, <3>1, ListCovers
    <3>3. ~Covers(w, e, at)
      BY <1>0 DEF Covers, w
    <3> QED BY <2>2, <3>2, <3>3
  <2> HIDE DEF new
  <2>8. \A c \in called' : value[c.edge] # "token"
    BY <1>0, <1>2 DEF FoundInv
  <2>9. \A e \in DOMAIN value, at \in Seq(AllNames) :
          Len(e) > Len(Here) /\ value[e] \in {"nil", "meta"} /\ Justified(listed', e, at) =>
             \/ Justified(listed, e, at) /\ ~Covers(Head(agenda), e, at)
             \/ \E v \in Range(new) : Covers(v, e, at)
    BY <2>7 DEF w
  <2>10. FoundInv'
    BY <1>0, <1>2, <2>1, <2>4, <2>5, <2>6, <2>8, <2>9, FoundStep
  <2>11. ListedInv'
    <3>1. \A m \in listed' : m.names \in Listings /\ m.at \in Seq(AllNames)
      BY <1>2, <1>4, <2>1, <2>2 DEF ListedInv
    <3>2. \A m \in listed' : Len(m.at) >= Len(Here) =>
            m.node \in DOMAIN children /\ Justified(listed, m.node, m.at)
      BY <1>0, <1>2, <1>4, <2>1, <2>2, <2>3 DEF ListedInv
    <3>3. \A e, at : Justified(listed, e, at) => Justified(listed, e, at)'
      BY <1>1, <2>5 DEF Justified
    <3> QED BY <1>0, <1>1, <1>6, <3>1, <3>2, <3>3 DEF ListedInv
  <2> QED BY <1>0, <1>6, <2>10, <2>11 DEF RecursiveInv, RecursiveExact
<1> QED BY <1>5, <1>6 DEF BuildList

LEMMA PrefixAndRest ==
    ASSUME NEW S, NEW h \in Seq(S), NEW at \in Seq(S), NEW k \in Nat, k + Len(h) = Len(at),
           NEW t \in [1..k -> S],
           \A i \in 1..Len(h) : h[i] = at[i], \A i \in 1..k : t[i] = at[Len(h) + i]
    PROVE  h \o t = at
<1>1. t \in Seq(S) /\ Len(t) = k /\ Len(h) \in Nat
  OBVIOUS
<1> DEFINE u == h \o t
<1>2. /\ u \in Seq(S) /\ Len(u) = Len(h) + k
      /\ \A i \in 1..(Len(h) + k) : u[i] = IF i <= Len(h) THEN h[i] ELSE t[i - Len(h)]
  <2>1. /\ u \in Seq(S) /\ Len(u) = Len(h) + Len(t)
        /\ \A i \in 1..(Len(h) + Len(t)) : u[i] = IF i <= Len(h) THEN h[i] ELSE t[i - Len(h)]
    BY ONLY <1>1, h \in Seq(S), ConcatProperties
  <2> QED BY <1>1, <2>1
<1> HIDE DEF u
<1>3. ASSUME NEW i \in 1..Len(at) PROVE u[i] = at[i]
  <2>1. CASE i <= Len(h)
    BY <1>1, <1>2, <2>1
  <2>2. CASE ~(i <= Len(h))
    <3> DEFINE j == i - Len(h)
    <3>1. j \in 1..k /\ Len(h) + j = i /\ u[i] = t[j]
      BY <1>1, <1>2, <2>2
    <3> HIDE DEF j
    <3>2. t[j] = at[Len(h) + j]
      BY <3>1
    <3> QED BY <3>1, <3>2
  <2> QED BY <2>1, <2>2
<1>4. u = at
  BY <1>1, <1>2, <1>3, SeqEqual
<1> QED BY <1>4 DEF u

\* The paths an edge may stand for include all that is expected.
LEMMA ExpectedConcrete ==
    ASSUME ShapeInv, ServeInv, ListedInv, NEW e \in DOMAIN value, NEW at \in Seq(AllNames),
           Expected(e, at)
    PROVE  at \in Concrete(e)
<1>0. Here \in Seq(AllNames) /\ Len(Here) \in Nat
  BY HereProperties DEF ServeInv
<1>1. /\ e \in Patterns /\ Len(e) \in Nat /\ Len(e) > Len(Here) /\ Len(at) = Len(e)
      /\ \A i \in 1..Len(Here) : Here[i] = at[i]
  <2>1. IsPrefix(Here, at)
    BY DEF Expected
  <2>2. \A i \in 1..Len(Here) : Here[i] = at[i]
    BY <1>0, <2>1, PrefixIndex
  <2> QED BY <2>2 DEF ShapeInv, Patterns, Expected
<1> DEFINE h == Here
           k == Len(e) - Len(h)
           rest == SubSeq(e, Len(h) + 1, Len(e))
           S == Names \cup Range(rest)
           t == [i \in 1..k |-> at[Len(h) + i]]
<1>2. \A i \in 1..k : Len(h) + i \in (Len(h) + 1)..Len(e)
  BY <1>0, <1>1
<1>3. \A i \in 1..k : e[Len(h) + i] \in Range(rest)
  <2>1. k \in Nat /\ DOMAIN rest = 1..k /\ \A i \in 1..k : rest[i] = e[Len(h) + i]
    BY <1>0, <1>1 DEF Patterns
  <2> HIDE DEF rest
  <2> QED BY <2>1 DEF Range
<1>4. \A l \in listed : Range(l.names) \subseteq Names
  BY DEF ListedInv, Names
<1>5. \A i \in 1..k : t[i] = e[Len(h) + i] \/ (e[Len(h) + i] \in Params /\ t[i] \in Names)
  BY <1>2, <1>4 DEF Expected
<1>6. t \in [1..k -> S]
  BY <1>3, <1>5
<1>7. h \o t = at
  <2>1. k \in Nat /\ k + Len(h) = Len(at)
    BY <1>0, <1>1
  <2>2. t \in [1..k -> AllNames]
    BY <1>0, <1>1
  <2>3. \A i \in 1..k : t[i] = at[Len(h) + i]
    OBVIOUS
  <2> HIDE DEF t, k, h
  <2>4. h \in Seq(AllNames) /\ \A i \in 1..Len(h) : h[i] = at[i]
    BY <1>0, <1>1 DEF h
  <2> QED BY <2>1, <2>2, <2>3, <2>4, PrefixAndRest
<1>8. DOMAIN t = 1..k
  OBVIOUS
<1> HIDE DEF t
<1> QED BY <1>5, <1>6, <1>7, <1>8 DEF Concrete

LEMMA ConcreteNames ==
    ASSUME ShapeInv, ServeInv, NEW e \in DOMAIN value, Len(e) > Len(Here), NEW at \in Concrete(e)
    PROVE  at \in Seq(AllNames)
<1>0. Here \in Seq(AllNames) /\ Len(Here) \in Nat
  BY HereProperties DEF ServeInv
<1>1. e \in Patterns /\ Len(e) \in Nat /\ e \in Seq(AllNames)
  BY PatternsAreNames DEF ShapeInv, Patterns
<1> DEFINE k == Len(e) - Len(Here)
           rest == SubSeq(e, Len(Here) + 1, Len(e))
<1>2. k \in Nat /\ Names \subseteq AllNames
  BY <1>0, <1>1 DEF AllNames
<1>3. Range(rest) \subseteq AllNames
  <2>1. rest \in Seq(AllNames)
    BY <1>0, <1>1
  <2> HIDE DEF rest
  <2> QED BY <2>1 DEF Range
<1> HIDE DEF rest
<1>4. PICK t \in [1..k -> Names \cup Range(rest)] : at = Here \o t
  BY DEF Concrete, rest
<1> HIDE DEF k
<1>5. t \in [1..k -> AllNames]
  BY <1>2, <1>3, <1>4
<1>6. t \in Seq(AllNames)
  BY <1>2, <1>5
<1> QED BY <1>0, <1>4, <1>6

\* With nothing left to visit, what is found is what is expected.
LEMMA BuildReturnsRecursive ==
    ASSUME TreeInv, ShapeInv, ServeInv, AnswerInv, RecursiveInv, BuildReturns
    PROVE  RecursiveInv'
<1>0. /\ phase = "build" /\ agenda = <<>> /\ phase' = "done"
      /\ UNCHANGED <<treeVars, req, node, body, listed, called>>
  BY DEF BuildReturns, Respond
<1>1. /\ Here' = Here /\ value' = value /\ node' = node
  BY <1>0 DEF Here, treeVars
<1>2. /\ ListedInv /\ Range(agenda) = {}
      /\ \A at \in body : at \in Seq(AllNames) /\ \E e \in DOMAIN value : Expected(e, at)
      /\ \A e \in DOMAIN value, at \in Seq(AllNames) :
           Expected(e, at) => at \in body \/ \E w \in Range(agenda) : Covers(w, e, at)
      /\ \A c \in called : value[c.edge] # "token"
  BY <1>0 DEF RecursiveInv, FoundInv, Range
<1> DEFINE below == {f \in DOMAIN value : Len(f) > Len(Here) /\ IsPrefix(node, f)}
           found(e) == {at \in Concrete(e) : Expected(e, at)}
<1>3. ASSUME NEW at \in body PROVE \E e \in below : at \in found(e)
  <2>1. PICK e \in DOMAIN value : Expected(e, at)
    BY <1>2
  <2>2. at \in Concrete(e)
    BY <1>2, <2>1, ExpectedConcrete
  <2>3. Len(e) > Len(Here) /\ IsPrefix(node, e)
    BY <2>1 DEF Expected
  <2> QED BY <2>1, <2>2, <2>3
<1>4. ASSUME NEW e \in below, NEW at \in found(e) PROVE at \in body
  <2>1. at \in Seq(AllNames)
    BY ConcreteNames
  <2> QED BY <1>2, <2>1
<1>5. body = UNION {found(e) : e \in below}
  <2> HIDE DEF below, found
  <2> QED BY <1>3, <1>4
<1>6. body = UNION {{at \in Concrete(e) : Expected(e, at)} :
                      e \in {f \in DOMAIN value : Len(f) > Len(Here) /\ IsPrefix(node, f)}}
  BY <1>5
<1>7. \A e, at : Expected(e, at)' <=> Expected(e, at)
  BY <1>0, <1>1 DEF Expected
<1>8. \A e : Concrete(e)' = Concrete(e)
  BY <1>1 DEF Concrete
<1>9. \A e : {at \in Concrete(e) : Expected(e, at)}' = {at \in Concrete(e) : Expected(e, at)}
  BY <1>7, <1>8
<1>10. RecursiveExact'
  <2>1. body' = UNION {{at \in Concrete(e) : Expected(e, at)}' :
                      e \in {f \in DOMAIN value : Len(f) > Len(Here) /\ IsPrefix(node, f)}}
    BY <1>0, <1>6, <1>9
  <2>2. {f \in DOMAIN value : Len(f) > Len(Here) /\ IsPrefix(node, f)}' =
          {f \in DOMAIN value : Len(f) > Len(Here) /\ IsPrefix(node, f)}
    BY <1>1
  <2>3. \A c \in called' : value'[c.edge] # "token"
    BY <1>0, <1>1, <1>2
  <2> QED BY <2>1, <2>2, <2>3 DEF RecursiveExact
<1>11. ListedInv' /\ FoundInv'
  BY <1>0, <1>2 DEF ListedInv, FoundInv
<1> QED BY <1>10, <1>11 DEF RecursiveInv

LEMMA ReceiveRecursive ==
    ASSUME NEW r \in Requests, Receive(r)
    PROVE  RecursiveInv'
<1>1. listed' = {} /\ body' = {} /\ phase' \in {"done", "serve", "walk"}
      /\ (phase' = "done" => status' = <<"403">>)
  BY DEF Receive
<1>2. phase' = "done" => status'[1] # <<"200">>[1]
  BY <1>1
<1>3. phase' = "done" => status' # <<"200">>
  BY <1>2
<1> QED BY <1>1, <1>3 DEF RecursiveInv, ListedInv, FoundInv, RecursiveExact

LEMMA StutterRecursive ==
    ASSUME RecursiveInv, UNCHANGED vars
    PROVE  RecursiveInv'
<1>1. UNCHANGED <<phase, children, value, req, node, agenda, body, status, listed, called>>
  BY DEF vars, treeVars
<1>2. Here' = Here /\ (Recursive' <=> Recursive) /\ (EndsWithSlash(req)' <=> EndsWithSlash(req))
  BY <1>1 DEF Here, Recursive, UnderPrefix, EndsWithSlash
<1>3. \A e, at : Expected(e, at)' <=> Expected(e, at)
  BY <1>1, <1>2 DEF Expected
<1>4. \A e, at : Justified(listed, e, at)' <=> Justified(listed, e, at)
  BY <1>1, <1>2 DEF Justified
<1>5. \A w, e, at : Covers(w, e, at)' <=> Covers(w, e, at)
  BY DEF Covers
<1>6. \A e : {at \in Concrete(e) : Expected(e, at)}' = {at \in Concrete(e) : Expected(e, at)}
  <2>1. \A e : Concrete(e)' = Concrete(e)
    BY <1>2 DEF Concrete
  <2> QED BY <1>3, <2>1
<1>7. ListedInv'
  BY <1>1, <1>2, <1>4 DEF RecursiveInv, ListedInv
<1>8. FoundInv'
  BY <1>1, <1>2, <1>3, <1>4, <1>5 DEF RecursiveInv, FoundInv
<1>9. RecursiveExact'
  <2>1. {f \in DOMAIN value : Len(f) > Len(Here) /\ IsPrefix(node, f)}' =
          {f \in DOMAIN value : Len(f) > Len(Here) /\ IsPrefix(node, f)}
    BY <1>1, <1>2
  <2> QED BY <1>1, <1>2, <1>6, <2>1 DEF RecursiveInv, RecursiveExact
<1> QED BY <1>7, <1>8, <1>9 DEF RecursiveInv

\* A recursive answer holds every value below the directory of the request once for
\* each name a lister returned, and no token, for every tree that can be built and
\* whatever the listers return, the same node listed twice included.
THEOREM AlwaysRecursiveExact == Spec => []RecursiveExact
<1>1. Init => RecursiveInv
  BY DEF Init, RecursiveInv, ListedInv, FoundInv, RecursiveExact
<1>2. TreeInv /\ ShapeInv /\ ServeInv /\ AnswerInv /\ RecursiveInv /\ [Next]_vars => RecursiveInv'
  <2> SUFFICES ASSUME TreeInv, ShapeInv, ServeInv, AnswerInv, RecursiveInv, [Next]_vars
               PROVE  RecursiveInv'
    OBVIOUS
  <2>1. CASE (\E g \in Registrations : Handle(g)) \/ Start
    <3>1. phase' \in {"setup", "panicked", "idle"} /\ listed' = listed
      BY <2>1 DEF Handle, Start
    <3>2. \A l \in listed' : l.names \in Listings /\ l.at \in Seq(AllNames)
      BY <3>1 DEF RecursiveInv, ListedInv
    <3> QED BY <3>1, <3>2, OtherAnswer
  <2>2. CASE \E r \in Requests : Receive(r)
    BY <2>2, ReceiveRecursive
  <2>3. CASE ServeHTTP
    BY <2>3, WalkRecursive, ListingRecursive, BuildRecursiveStarts, BuildValueRecursive,
       BuildListRecursive, BuildReturnsRecursive DEF ServeHTTP
  <2>4. CASE UNCHANGED vars
    BY <2>4, StutterRecursive
  <2> QED BY <2>1, <2>2, <2>3, <2>4 DEF Next
<1>3. RecursiveInv => RecursiveExact
  BY DEF RecursiveInv
<1> QED BY <1>1, <1>2, <1>3, TreeInvariance, ServeInvariance, AnswerInvariance, PTL DEF Spec
=============================================================================
