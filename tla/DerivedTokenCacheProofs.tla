----------------------- MODULE DerivedTokenCacheProofs -----------------------
(***************************************************************************)
(* Theorems about DerivedTokenCache.  The invariant of a token that carries *)
(* the proof is Sound: by each clock that has not failed it has no more    *)
(* left than its issuer grants and the wall clock added when it arrived,   *)
(* and by the monotonic clock never more than the maximum.  The clocks preserve it, and a lookup or a store only      *)
(* copies tokens.                                                          *)
(***************************************************************************)
EXTENDS DerivedTokenCache, FiniteSetTheorems, TLAPS

-----------------------------------------------------------------------------
\* The semaphore.

Fetching == {c \in Callers : pc[c] = "fetch"}

SlotInv ==
    /\ pc \in [Callers -> {"idle", "check", "acquire", "fetch", "store"}]
    /\ semaphore \in Nat /\ workers \in Nat
    /\ SlotsExact

\* A step from fetch leaves the set of fetches, one to fetch joins it.
LEMMA FetchingChanges ==
    ASSUME SlotInv, NEW c \in Callers, NEW from, NEW to, Go(c, from, to)
    PROVE  /\ from # "fetch" /\ to # "fetch" => Fetching' = Fetching
           /\ from # "fetch" /\ to = "fetch" => Cardinality(Fetching') = Cardinality(Fetching) + 1
           /\ from = "fetch" /\ to # "fetch" => Cardinality(Fetching') = Cardinality(Fetching) - 1
<1>1. IsFiniteSet(Fetching)
  BY DerivedAssumption, FS_Subset DEF Fetching
<1>2. pc[c] = from /\ pc' = [pc EXCEPT ![c] = to]
  BY DEF Go
<1>3. CASE from # "fetch" /\ to # "fetch"
  BY <1>2, <1>3 DEF Fetching, SlotInv
<1>4. CASE from # "fetch" /\ to = "fetch"
  <2>1. Fetching' = Fetching \cup {c} /\ c \notin Fetching
    BY <1>2, <1>4 DEF Fetching, SlotInv
  <2> QED BY <1>1, <1>4, <2>1, FS_AddElement
<1>5. CASE from = "fetch" /\ to # "fetch"
  <2>1. Fetching' = Fetching \ {c} /\ c \in Fetching
    BY <1>2, <1>5 DEF Fetching, SlotInv
  <2> QED BY <1>1, <1>5, <2>1, FS_RemoveElement
<1> QED BY <1>3, <1>4, <1>5

LEMMA SlotStep == SlotInv /\ [Next]_vars => SlotInv'
<1> SUFFICES ASSUME SlotInv, [Next]_vars PROVE SlotInv'
  OBVIOUS
<1>1. Cardinality(Fetching) \in Nat
  BY DerivedAssumption, FS_Subset, FS_CardinalityType DEF Fetching
<1>2. semaphore = workers + Cardinality(Fetching) /\ semaphore <= Concurrency
  BY DEF SlotInv, SlotsExact, Fetching
<1>3. SUFFICES
        /\ pc' \in [Callers -> {"idle", "check", "acquire", "fetch", "store"}]
        /\ semaphore' \in Nat /\ workers' \in Nat
        /\ semaphore' = workers' + Cardinality(Fetching') /\ semaphore' <= Concurrency
  BY DEF SlotInv, SlotsExact, Fetching
<1>4. ASSUME NEW c \in Callers, Call(c) PROVE SlotInv'
  <2>1. CASE Lookup(c) \/ Hit(c) \/ Miss(c) \/ AcquireAborted(c) \/ Store(c)
    <3>1. PICK from \in {"idle", "check", "acquire", "store"}, to \in {"idle", "check", "acquire"} :
            Go(c, from, to)
      BY <2>1 DEF Lookup, Hit, Miss, AcquireAborted, Store
    <3>2. UNCHANGED <<semaphore, workers>>
      BY <2>1 DEF Lookup, Hit, Miss, AcquireAborted, Store
    <3>3. Fetching' = Fetching
      BY <3>1, FetchingChanges
    <3> QED BY <3>1, <3>2, <3>3 DEF SlotInv, SlotsExact, Fetching, Go
  <2>2. CASE Acquire(c)
    <3>1. Cardinality(Fetching') = Cardinality(Fetching) + 1
      BY <2>2, FetchingChanges DEF Acquire
    <3>2. /\ pc' \in [Callers -> {"idle", "check", "acquire", "fetch", "store"}]
          /\ semaphore < Concurrency /\ semaphore' = semaphore + 1 /\ workers' = workers
      BY <2>2 DEF Acquire, SemaphoreAccepts, Go, SlotInv
    <3> QED BY <1>1, <1>2, <3>1, <3>2, DerivedAssumption DEF SlotInv, SlotsExact, Fetching
  <2>3. CASE FetchReturns(c) \/ FetchFails(c)
    <3>1. PICK to \in {"idle", "store"} : Go(c, "fetch", to)
      BY <2>3 DEF FetchReturns, FetchFails
    <3>2. Cardinality(Fetching') = Cardinality(Fetching) - 1
      BY <3>1, FetchingChanges
    <3>3. Cardinality(Fetching') \in Nat
      BY DerivedAssumption, FS_Subset, FS_CardinalityType DEF Fetching
    <3>4. /\ pc' \in [Callers -> {"idle", "check", "acquire", "fetch", "store"}]
          /\ semaphore' = semaphore - 1 /\ workers' = workers
      BY <2>3, <3>1 DEF FetchReturns, FetchFails, Release, Go, SlotInv
    <3> QED BY <1>1, <1>2, <3>2, <3>3, <3>4, DerivedAssumption DEF SlotInv, SlotsExact, Fetching
  <2> QED BY <1>4, <2>1, <2>2, <2>3 DEF Call
<1>5. CASE WorkerAcquires
  BY <1>1, <1>2, <1>5, DerivedAssumption
     DEF WorkerAcquires, SemaphoreAccepts, SlotInv, callVars, Fetching
<1>6. CASE WorkerReleases
  BY <1>1, <1>2, <1>6, DerivedAssumption DEF WorkerReleases, SlotInv, callVars, Fetching
<1>7. CASE UNCHANGED <<semaphore, workers, callVars>>
  BY <1>2, <1>7 DEF SlotInv, callVars, Fetching
<1>8. [Next]_vars =>
        \/ \E c \in Callers : Call(c)
        \/ WorkerAcquires \/ WorkerReleases
        \/ UNCHANGED <<semaphore, workers, callVars>>
  BY DEF Next, CollectID, CollectScoped, CollectorStops, Close, Clocks, vars
<1> QED BY <1>4, <1>5, <1>6, <1>7, <1>8 DEF SlotInv, SlotsExact, Fetching

LEMMA SlotInit == Init => SlotInv
<1> SUFFICES ASSUME Init PROVE SlotInv
  OBVIOUS
<1>1. {c \in Callers : pc[c] = "fetch"} = {}
  BY DEF Init
<1>2. /\ pc \in [Callers -> {"idle", "check", "acquire", "fetch", "store"}]
      /\ semaphore = 0 /\ workers = 0
  BY DEF Init
<1> QED BY <1>1, <1>2, FS_EmptySet, DerivedAssumption DEF SlotInv, SlotsExact

LEMMA AlwaysSlotInv == Spec => []SlotInv
  BY SlotInit, SlotStep, PTL DEF Spec

\* The semaphore of the provider counts exactly the fetches of requests and the
\* refreshes of workers, and never exceeds Concurrency.
THEOREM SlotsAlwaysExact == Spec => []SlotsExact
<1>1. SlotInv => SlotsExact
  BY DEF SlotInv
<1> QED BY <1>1, AlwaysSlotInv, PTL

-----------------------------------------------------------------------------
\* The tokens.

\* What the issuer grants from now on, and what a slow wall clock added to it.
Granted(t) == IF t.life + t.excess > now THEN t.life + t.excess - now ELSE 0

Sound(t) ==
    /\ ~setBack => t.wall - wall <= Granted(t)
    /\ ~suspended => t.mono - mono <= Granted(t)
    /\ MaxTokenDuration > 0 => t.mono - mono <= MaxTokenDuration /\ t.mono - mono <= Hour

SoundTokens ==
    /\ \A r \in Refs : \A t \in tokens[r] : t.ref = r /\ Sound(t)
    /\ \A c \in Callers : \A t \in token[c] : t.ref = want[c] /\ Sound(t)

\* A token in a reply was sound when it was sent.
ReplyInv == OwnToken /\ ExpirationHonest /\ DurationCapped

Inv == DerivedTypeOK /\ SoundTokens /\ ReplyInv

\* A token is used for no longer than it has left, nor than the maximum.
LEMMA EffectiveDurationBounds ==
    ASSUME NEW d \in Int
    PROVE  /\ EffectiveDuration(d) \in Int
           /\ EffectiveDuration(d) <= (IF d > 0 THEN d ELSE 0)
           /\ d > 0 => 10 * EffectiveDuration(d) <= 8 * d
           /\ MaxTokenDuration > 0 => EffectiveDuration(d) <= MaxTokenDuration /\ EffectiveDuration(d) <= Hour
<1> DEFINE q == Quo(d * 8, 10)
<1>1. q \in Int /\ q <= (IF d > 0 THEN d ELSE 0) /\ (d > 0 => 10 * q <= 8 * d)
  <2>1. CASE d < 0
    BY <2>1 DEF Quo
  <2>2. CASE d >= 0
    BY <2>2 DEF Quo
  <2> QED BY <2>1, <2>2
<1> HIDE DEF q
<1>2. EffectiveDuration(d) =
        (IF (IF MaxTokenDuration > Hour THEN Hour ELSE MaxTokenDuration) > 0
              /\ q > (IF MaxTokenDuration > Hour THEN Hour ELSE MaxTokenDuration)
           THEN (IF MaxTokenDuration > Hour THEN Hour ELSE MaxTokenDuration) ELSE q)
  BY DEF EffectiveDuration, q
<1> QED BY <1>1, <1>2, DerivedAssumption

\* The clock that measures a token lengthens it by no more than its excess.
LEMMA MeasuredBounds ==
    ASSUME DerivedTypeOK, NEW r \in Refs, NEW left \in Int
    PROVE  LET e == EffectiveDuration(Measured(r, left))
               granted == left + Excess(r, left)
           IN  /\ e \in Int /\ Excess(r, left) \in Nat
               /\ e <= (IF granted > 0 THEN granted ELSE 0)
               /\ MaxTokenDuration > 0 => e <= MaxTokenDuration /\ e <= Hour
<1> DEFINE b == Behind(r)
           e == EffectiveDuration(left + b)
<1>1. b \in Int
  BY DEF Behind, DerivedTypeOK
<1>2. Measured(r, left) = left + b /\ left + b \in Int
  BY <1>1 DEF Measured
<1>3. Excess(r, left) = IF b <= 0 \/ 4 * b <= left THEN 0 ELSE b
  BY DEF Excess
<1> HIDE DEF b
<1>4. /\ e \in Int /\ e <= (IF left + b > 0 THEN left + b ELSE 0)
      /\ left + b > 0 => 10 * e <= 8 * (left + b)
      /\ MaxTokenDuration > 0 => e <= MaxTokenDuration /\ e <= Hour
  BY <1>2, EffectiveDurationBounds
<1> HIDE DEF e
<1>5. EffectiveDuration(Measured(r, left)) = e
  BY <1>2 DEF e
<1>6. Excess(r, left) \in Nat
  BY <1>1, <1>3
<1>7. e <= (IF left + Excess(r, left) > 0 THEN left + Excess(r, left) ELSE 0)
  <2>1. CASE b <= 0
    BY <1>1, <1>3, <1>4, <2>1
  <2>2. CASE b > 0 /\ 4 * b <= left
    BY <1>1, <1>3, <1>4, <2>2
  <2>3. CASE b > 0 /\ ~(4 * b <= left)
    BY <1>1, <1>3, <1>4, <2>3
  <2> QED BY <1>1, <2>1, <2>2, <2>3
<1> QED BY <1>4, <1>5, <1>6, <1>7

\* A new token is sound, and its wall clock's expiration is not rounded up.
LEMMA NewTokenSound ==
    ASSUME DerivedTypeOK, NEW r \in Refs, NEW left \in Int
    PROVE  NewToken(r, left) \in Token /\ NewToken(r, left).ref = r /\ Sound(NewToken(r, left))
<1> DEFINE e == EffectiveDuration(Measured(r, left))
           x == Excess(r, left)
<1>1. /\ e \in Int /\ x \in Nat /\ e <= (IF left + x > 0 THEN left + x ELSE 0)
      /\ MaxTokenDuration > 0 => e <= MaxTokenDuration /\ e <= Hour
  BY MeasuredBounds
<1> HIDE DEF e, x
<1> DEFINE w == ((wall + e) \div Second) * Second
<1>2. w \in Int /\ w <= wall + e
  <2>1. wall + e \in Int /\ Second \in Nat /\ Second > 0
    BY <1>1, DerivedAssumption DEF DerivedTypeOK
  <2>2. \A a \in Int, b \in Int : b > 0 => (a \div b) * b \in Int /\ (a \div b) * b <= a
    OBVIOUS
  <2> QED BY <2>1, <2>2
<1> HIDE DEF w
<1>3. NewToken(r, left) = [ref |-> r, mono |-> mono + e, wall |-> w, life |-> now + left, excess |-> x]
  BY DEF NewToken, e, w, x
<1> QED BY <1>1, <1>2, <1>3 DEF Sound, Granted, Token, DerivedTypeOK

\* Neither the passing of time nor an adjustment of the wall clock makes a sound
\* token unsound.
LEMMA ClocksKeepSound ==
    ASSUME DerivedTypeOK, NEW t \in Token, Sound(t), Elapse \/ AdjustWall
    PROVE  Sound(t)'
<1> t.wall \in Int /\ t.mono \in Int /\ t.life \in Int /\ t.excess \in Nat
  BY DEF Token
<1>1. CASE Elapse
  BY <1>1, DerivedAssumption DEF Elapse, Sound, Granted, DerivedTypeOK
<1>2. CASE AdjustWall
  <2>1. /\ ~setBack' => ~setBack /\ ~(wall' < wall)
        /\ ~suspended' => ~suspended
    BY <1>2, Zenon DEF AdjustWall, DerivedTypeOK
  <2>2. wall' \in Int /\ now' = now /\ mono' = mono
    BY <1>2, DerivedAssumption DEF AdjustWall, DerivedTypeOK
  <2>3. now \in Int /\ mono \in Int /\ wall \in Int
    BY DEF DerivedTypeOK
  <2> QED BY <2>1, <2>2, <2>3, DerivedAssumption DEF Sound, Granted
<1> QED BY <1>1, <1>2

\* A sound token, whose remaining time is the smaller of the two clocks', makes an
\* honest reply.
LEMMA SoundReply ==
    ASSUME DerivedTypeOK, ReplyInv, NEW c \in Callers, NEW t \in Token, NEW b \in BOOLEAN,
           Sound(t), t.ref = want[c], b => ~IsExpired(t), Reply(c, t, b),
           UNCHANGED <<want, clockVars>>
    PROVE  /\ ReplyInv'
           /\ reply' \in [Callers -> SUBSET Replies]
<1> DEFINE r == [ref |-> t.ref, left |-> Left(t), real |-> t.life - now,
                 excess |-> t.excess, cached |-> b]
<1>1. Left(t) \in Int
  BY DEF Left, Token, DerivedTypeOK
<1>2. r \in Replies
  BY <1>1 DEF Token, DerivedTypeOK, Replies
<1>3. reply' = [reply EXCEPT ![c] = {r}]
  BY DEF Reply
<1>4. /\ ~suspended \/ ~setBack => (r.left > 0 => r.left <= r.real + r.excess) /\ (b => r.real + r.excess > 0)
      /\ MaxTokenDuration > 0 => r.left <= MaxTokenDuration /\ r.left <= Hour
  BY DerivedAssumption DEF Sound, Granted, Left, IsExpired, Token, DerivedTypeOK
<1>5. r.ref = want[c] /\ r.cached = b
  OBVIOUS
<1> HIDE DEF r
<1>6. reply' \in [Callers -> SUBSET Replies]
  BY <1>2, <1>3 DEF DerivedTypeOK
<1>7. \A k \in Callers : \A x \in reply'[k] : (k = c /\ x = r) \/ x \in reply[k]
  BY <1>3 DEF DerivedTypeOK
<1>8. UNCHANGED <<want, suspended, setBack>>
  BY DEF clockVars
<1>9. OwnToken'
  BY <1>5, <1>7, <1>8 DEF OwnToken, ReplyInv
<1>10. ExpirationHonest'
  BY <1>4, <1>5, <1>7, <1>8 DEF ExpirationHonest, ReplyInv
<1>11. DurationCapped'
  BY <1>4, <1>7 DEF DurationCapped, ReplyInv
<1> QED BY <1>6, <1>9, <1>10, <1>11 DEF ReplyInv

LEMMA InitInv == Init => Inv
<1> SUFFICES ASSUME Init PROVE Inv
  OBVIOUS
<1>1. DerivedTypeOK
  <2>1. token \in [Callers -> SUBSET Token] /\ tokens \in [Refs -> SUBSET Token]
    BY DEF Init
  <2>2. reply \in [Callers -> SUBSET Replies]
    BY DEF Init
  <2>3. ctxDone \in BOOLEAN /\ suspended \in BOOLEAN /\ setBack \in BOOLEAN
    BY Zenon DEF Init
  <2>4. now \in Nat /\ mono \in Int /\ wall \in Int
    BY DerivedAssumption DEF Init
  <2>5. /\ semaphore \in Nat /\ workers \in Nat
        /\ gc \in {"sleep", "scoped", "exited"} /\ want \in [Callers -> Refs]
        /\ pc \in [Callers -> {"idle", "check", "acquire", "fetch", "store"}]
    BY DEF Init
  <2> QED BY <2>1, <2>2, <2>3, <2>4, <2>5 DEF DerivedTypeOK
<1>2. SoundTokens
  BY DEF Init, SoundTokens
<1>3. ReplyInv
  BY DEF Init, ReplyInv, OwnToken, ExpirationHonest, DurationCapped
<1> QED BY <1>1, <1>2, <1>3 DEF Inv

\* Steps that leave the clocks alone keep a token as sound as it was.
LEMMA SoundWithoutClocks ==
    ASSUME UNCHANGED clockVars, NEW t, Sound(t)
    PROVE  Sound(t)'
  BY DEF Sound, Granted, clockVars

\* Steps that leave the replies, their requests and the clocks alone.
LEMMA RepliesUnchanged ==
    ASSUME ReplyInv, UNCHANGED <<reply, want, clockVars>>
    PROVE  ReplyInv'
  BY DEF ReplyInv, OwnToken, ExpirationHonest, DurationCapped, clockVars

\* A step of a caller preserves the invariant.
LEMMA CallInv ==
    ASSUME Inv, SlotInv', NEW c \in Callers, Call(c)
    PROVE  Inv'
<1> USE DEF Inv
<1>1. CASE Lookup(c)
  <2>1. PICK r \in Refs : /\ want' = [want EXCEPT ![c] = r]
                          /\ token' = [token EXCEPT ![c] = tokens[r]]
    BY <1>1 DEF Lookup, Key
  <2>2. /\ pc' = [pc EXCEPT ![c] = "check"]
        /\ reply' = [reply EXCEPT ![c] = {}]
        /\ UNCHANGED <<tokens, semaphore, workers, gc, ctxDone, clockVars>>
    BY <1>1 DEF Lookup, Go, ReplyError
  <2>3. DerivedTypeOK'
    BY <2>1, <2>2 DEF DerivedTypeOK, clockVars
  <2>4. SoundTokens'
    BY <2>1, <2>2, SoundWithoutClocks DEF SoundTokens, DerivedTypeOK
  <2>5. ReplyInv'
    <3>1. \A k \in Callers : \A x \in reply'[k] : k # c /\ x \in reply[k] /\ want'[k] = want[k]
      BY <2>1, <2>2 DEF DerivedTypeOK
    <3> QED BY <3>1, <2>2 DEF ReplyInv, OwnToken, ExpirationHonest, DurationCapped, clockVars
  <2> QED BY <2>3, <2>4, <2>5
<1>2. CASE Hit(c)
  <2>1. PICK t \in token[c] : ~IsExpired(t) /\ Reply(c, t, TRUE)
    BY <1>2 DEF Hit
  <2>2. /\ pc' = [pc EXCEPT ![c] = "idle"]
        /\ token' = [token EXCEPT ![c] = {}]
        /\ UNCHANGED <<tokens, semaphore, workers, gc, ctxDone, want, clockVars>>
    BY <1>2 DEF Hit, Go
  <2>3. t \in Token /\ Sound(t) /\ t.ref = want[c]
    BY <2>1 DEF SoundTokens, DerivedTypeOK
  <2>4. /\ ReplyInv'
        /\ reply' \in [Callers -> SUBSET Replies]
    BY <2>1, <2>2, <2>3, SoundReply
  <2>5. DerivedTypeOK'
    BY <2>2, <2>4 DEF DerivedTypeOK, clockVars
  <2>6. SoundTokens'
    BY <2>2, SoundWithoutClocks DEF SoundTokens, DerivedTypeOK
  <2> QED BY <2>4, <2>5, <2>6
<1>3. CASE Miss(c)
  <2>1. /\ pc' = [pc EXCEPT ![c] = "acquire"]
        /\ token' = [token EXCEPT ![c] = {}]
        /\ UNCHANGED <<tokens, semaphore, workers, gc, ctxDone, want, reply, clockVars>>
    BY <1>3 DEF Miss, Go
  <2>2. DerivedTypeOK'
    BY <2>1 DEF DerivedTypeOK, clockVars
  <2>3. SoundTokens'
    BY <2>1, SoundWithoutClocks DEF SoundTokens, DerivedTypeOK
  <2> QED BY <2>1, <2>2, <2>3, RepliesUnchanged
<1>4. CASE Acquire(c) \/ AcquireAborted(c) \/ FetchFails(c)
  <2>1. /\ pc' \in [Callers -> {"idle", "check", "acquire", "fetch", "store"}]
        /\ UNCHANGED <<tokens, workers, gc, ctxDone, want, token, reply, clockVars>>
    BY <1>4 DEF Acquire, AcquireAborted, FetchFails, Go, DerivedTypeOK
  <2>2. semaphore' \in Nat
    BY DEF SlotInv
  <2>3. DerivedTypeOK'
    BY <2>1, <2>2 DEF DerivedTypeOK, clockVars
  <2>4. SoundTokens'
    BY <2>1, SoundWithoutClocks DEF SoundTokens
  <2> QED BY <2>1, <2>3, <2>4, RepliesUnchanged
<1>5. CASE FetchReturns(c)
  <2>1. PICK left \in Lifetimes : token' = [token EXCEPT ![c] = {NewToken(want[c], left)}]
    BY <1>5 DEF FetchReturns
  <2>2. /\ pc' = [pc EXCEPT ![c] = "store"]
        /\ UNCHANGED <<tokens, workers, gc, ctxDone, want, reply, clockVars>>
    BY <1>5 DEF FetchReturns, Go
  <2>3. left \in Int /\ want[c] \in Refs
    BY DerivedAssumption DEF DerivedTypeOK
  <2>4. /\ NewToken(want[c], left) \in Token /\ NewToken(want[c], left).ref = want[c]
        /\ Sound(NewToken(want[c], left))
    BY <2>3, NewTokenSound
  <2>5. DerivedTypeOK'
    BY <2>1, <2>2, <2>4 DEF DerivedTypeOK, clockVars, SlotInv
  <2>6. \A k \in Callers : \A t \in token'[k] : t.ref = want[k] /\ Sound(t)
    BY <2>1, <2>4 DEF SoundTokens, DerivedTypeOK
  <2>7. SoundTokens'
    BY <2>2, <2>6, SoundWithoutClocks DEF SoundTokens
  <2> QED BY <2>2, <2>5, <2>7, RepliesUnchanged
<1>6. CASE Store(c)
  <2>1. PICK t \in token[c] : Reply(c, t, FALSE)
    BY <1>6 DEF Store
  <2>2. /\ pc' = [pc EXCEPT ![c] = "idle"]
        /\ tokens' = [tokens EXCEPT ![want[c]] = token[c]]
        /\ token' = [token EXCEPT ![c] = {}]
        /\ UNCHANGED <<semaphore, workers, gc, ctxDone, want, clockVars>>
    BY <1>6 DEF Store, Go, Key
  <2>3. t \in Token /\ Sound(t) /\ t.ref = want[c]
    BY <2>1 DEF SoundTokens, DerivedTypeOK
  <2>4. /\ ReplyInv'
        /\ reply' \in [Callers -> SUBSET Replies]
    BY <2>1, <2>2, <2>3, SoundReply
  <2>5. DerivedTypeOK'
    BY <2>2, <2>4 DEF DerivedTypeOK, clockVars
  <2>6. /\ \A r \in Refs : \A x \in tokens'[r] : x.ref = r /\ Sound(x)
        /\ \A k \in Callers : \A x \in token'[k] : x.ref = want[k] /\ Sound(x)
    BY <2>2 DEF SoundTokens, DerivedTypeOK
  <2>7. SoundTokens'
    BY <2>2, <2>6, SoundWithoutClocks DEF SoundTokens
  <2> QED BY <2>4, <2>5, <2>7
<1> QED BY <1>1, <1>2, <1>3, <1>4, <1>5, <1>6 DEF Call

\* So does every other step.
LEMMA NextInv == Inv /\ SlotInv' /\ [Next]_vars => Inv'
<1> SUFFICES ASSUME Inv, SlotInv', [Next]_vars PROVE Inv'
  OBVIOUS
<1> USE DEF Inv
<1>1. CASE \E c \in Callers : Call(c)
  BY <1>1, CallInv
<1>2. CASE CollectID \/ CollectScoped
  <2>1. PICK refs : Sweep(refs)
    BY <1>2 DEF CollectID, CollectScoped
  <2>2. /\ gc' \in {"sleep", "scoped", "exited"}
        /\ UNCHANGED <<semaphore, workers, ctxDone, callVars, clockVars>>
    BY <1>2 DEF CollectID, CollectScoped
  <2>3. tokens' \in [Refs -> SUBSET Token] /\ \A r \in Refs : tokens'[r] \subseteq tokens[r]
    BY <2>1 DEF Sweep, DerivedTypeOK
  <2>4. DerivedTypeOK'
    BY <2>2, <2>3 DEF DerivedTypeOK, callVars, clockVars
  <2>5. SoundTokens'
    BY <2>2, <2>3, SoundWithoutClocks DEF SoundTokens, callVars
  <2> QED BY <2>2, <2>4, <2>5, RepliesUnchanged DEF callVars
<1>3. CASE CollectorStops \/ WorkerAcquires \/ WorkerReleases \/ Close \/ UNCHANGED vars
  <2>1. /\ gc' \in {"sleep", "scoped", "exited"} /\ ctxDone' \in BOOLEAN
        /\ UNCHANGED <<tokens, callVars, clockVars>>
    BY <1>3, Zenon DEF CollectorStops, WorkerAcquires, WorkerReleases, Close, vars, DerivedTypeOK
  <2>2. DerivedTypeOK'
    BY <2>1 DEF DerivedTypeOK, callVars, clockVars, SlotInv
  <2>3. SoundTokens'
    BY <2>1, SoundWithoutClocks DEF SoundTokens, callVars
  <2> QED BY <2>1, <2>2, <2>3, RepliesUnchanged DEF callVars
<1>4. CASE Clocks
  <2>1. Elapse \/ AdjustWall
    BY <1>4 DEF Clocks
  <2>2. UNCHANGED <<tokens, semaphore, workers, gc, ctxDone, callVars>>
    BY <1>4 DEF Clocks
  <2>3. suspended' \in BOOLEAN /\ setBack' \in BOOLEAN
    BY <2>1, Zenon DEF Elapse, AdjustWall, DerivedTypeOK
  <2>4. now' \in Nat /\ mono' \in Int /\ wall' \in Int
    BY <2>1, DerivedAssumption DEF Elapse, AdjustWall, DerivedTypeOK
  <2>5. (suspended => suspended') /\ (setBack => setBack')
    BY <2>1, Zenon DEF Elapse, AdjustWall, DerivedTypeOK
  <2>6. DerivedTypeOK'
    BY <2>2, <2>3, <2>4 DEF DerivedTypeOK, callVars
  <2>7. SoundTokens'
    <3>1. \A t \in Token : Sound(t) => Sound(t)'
      BY <2>1, ClocksKeepSound
    <3> QED BY <2>2, <3>1 DEF SoundTokens, callVars, DerivedTypeOK
  <2>8. ReplyInv'
    BY <2>2, <2>5 DEF ReplyInv, OwnToken, ExpirationHonest, DurationCapped, callVars
  <2> QED BY <2>6, <2>7, <2>8
<1> QED BY <1>1, <1>2, <1>3, <1>4 DEF Next

LEMMA AlwaysInv == Spec => []Inv
  BY InitInv, NextInv, AlwaysSlotInv, PTL DEF Spec

\* Every reply carries a token of the account and for the input of its request,
\* whatever the sets of callers, accounts and inputs.
THEOREM AlwaysOwnToken == Spec => []OwnToken
<1>1. Inv => OwnToken
  BY DEF Inv, ReplyInv
<1> QED BY <1>1, AlwaysInv, PTL

\* As long as not both clocks fail, no client is told a lifetime that the issuer
\* does not grant, for any lifetimes of tokens and any adjustments of the clock,
\* unless the wall clock was behind the timestamp's issuer by more than a quarter of
\* the lifetime when the token arrived; and then by no more than it was behind.
THEOREM ExpirationAlwaysHonest == Spec => []ExpirationHonest
<1>1. Inv => ExpirationHonest
  BY DEF Inv, ReplyInv
<1> QED BY <1>1, AlwaysInv, PTL

\* The maximum duration holds whatever happens to the clocks.
THEOREM DurationAlwaysCapped == Spec => []DurationCapped
<1>1. Inv => DurationCapped
  BY DEF Inv, ReplyInv
<1> QED BY <1>1, AlwaysInv, PTL

\* The types of the variables are the declared ones: tokens and replies are made
\* for references that exist, and clocks and times stay integers.
THEOREM DerivedTypeCorrect == Spec => []DerivedTypeOK
<1>1. Inv => DerivedTypeOK
  BY DEF Inv
<1> QED BY <1>1, AlwaysInv, PTL
=============================================================================
