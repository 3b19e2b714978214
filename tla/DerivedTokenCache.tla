-------------------------- MODULE DerivedTokenCache --------------------------
(***************************************************************************)
(* The caches of tokens that depend on what the client asks for: Google    *)
(* identity tokens (one for each audience) and access tokens with custom   *)
(* scopes, in internal/serviceaccounttokens/cache.  Unlike the tokens of   *)
(* module TokenCache they are fetched by the goroutine of the request, and *)
(* share the semaphore of the workers there.                               *)
(*                                                                         *)
(* A token expires by two clocks, the monotonic one (which stands still    *)
(* while the machine is suspended) and the wall clock (which is adjusted), *)
(* by whichever comes first.  What a token has left when it arrives is     *)
(* measured with the monotonic clock if the source computed its expiration *)
(* from a duration, and with the wall clock if the expiration is the       *)
(* timestamp that the issuer sent.  Time is counted in units of which      *)
(* Second and Hour are multiples; now is the time of the issuer.           *)
(***************************************************************************)
EXTENDS Integers, FiniteSets

CONSTANTS
    Callers,           \* goroutines of requests
    Accounts,          \* Kubernetes service accounts
    IDInputs,          \* pairs of email and audience
    ScopedInputs,      \* pairs of email, if any, and scopes
    TimestampInputs,   \* those with an email: impersonated tokens, which come with a timestamp
    Concurrency,       \* capacity of the semaphore
    MaxTokenDuration,  \* opts.MaxTokenDuration
    Second, Hour,      \* in units of time
    Lifetimes,         \* what a fetched token may have left
    MaxTime, MaxSkew   \* bounds on time and on the error of the wall clock

ASSUME DerivedAssumption ==
    /\ IsFiniteSet(Callers)
    /\ IDInputs \cap ScopedInputs = {}
    /\ TimestampInputs \subseteq ScopedInputs
    /\ Concurrency \in Nat \ {0}
    /\ MaxTokenDuration \in Int
    /\ Second \in Nat \ {0} /\ Hour \in Nat \ {0}
    /\ Lifetimes \subseteq Int
    /\ MaxTime \in Nat /\ MaxSkew \in Nat

IDRefs == [sa : Accounts, input : IDInputs]
ScopedRefs == [sa : Accounts, input : ScopedInputs]
Refs == IDRefs \cup ScopedRefs

VARIABLES
    tokens,     \* googleIDTokens and googleScopedAccessTokens: at most one token for each ref
    semaphore,  \* number of elements in the channel
    workers,    \* those of them sent by workers of module TokenCache
    gc,         \* control point of the garbage collector
    ctxDone,    \* p.ctx is done
    pc,         \* control point of each caller
    want,       \* the token each caller asks for
    token,      \* its local variable token
    reply,      \* what it returned, {} for an error
    now, mono, wall,     \* time, and the readings of the two clocks
    suspended, setBack   \* history: the clocks have stood still, been set back

clockVars == <<now, mono, wall, suspended, setBack>>
callVars == <<pc, want, token, reply>>
vars == <<tokens, semaphore, workers, gc, ctxDone, callVars, clockVars>>

\* The tokens: for which ref, when they expire by each clock, and (history) when
\* their issuer stops accepting them and what the wall clock may have added to
\* that when they arrived.
Token == [ref : Refs, mono : Int, wall : Int, life : Int, excess : Nat]

\* Division of Go, which rounds towards zero.
Quo(a, b) == IF a < 0 THEN -((-a) \div b) ELSE a \div b

\* How long a token that has d left is used: 80% of it, and not longer than the
\* configured maximum, itself not longer than an hour.
EffectiveUncapped(d) == Quo(d * 8, 10)
EffectiveDuration(d) ==
    LET max == IF MaxTokenDuration > Hour THEN Hour ELSE MaxTokenDuration
        eighty == Quo(d * 8, 10)
    IN  IF max > 0 /\ eighty > max THEN max ELSE eighty

\* How far the clock that measures a token of ref is behind the issuer's: the
\* monotonic one is read at both ends, the wall clock is compared with a timestamp.
Behind(ref) == IF ref.input \in TimestampInputs THEN now - wall ELSE 0

\* monotonicExpiration.Sub(now) for a token that has left left by the issuer's time.
Measured(ref, left) == left + Behind(ref)

\* The 20% that are cut off make up for an error of a quarter of what is left.
Excess(ref, left) == IF Behind(ref) <= 0 \/ 4 * Behind(ref) <= left THEN 0 ELSE Behind(ref)

\* The wall clock's expiration is cut to whole seconds.
NewToken(ref, left) ==
    LET effective == EffectiveDuration(Measured(ref, left))
    IN  [ref |-> ref,
         mono |-> mono + effective,
         wall |-> ((wall + effective) \div Second) * Second,
         life |-> now + left,
         excess |-> Excess(ref, left)]

\* time.Until(t.expiration()).
LeftByMonotonicClock(t) == t.mono - mono
Left(t) == IF t.mono - mono < t.wall - wall THEN t.mono - mono ELSE t.wall - wall

IsExpired(t) == Left(t) <= 0

Init ==
    /\ tokens = [r \in Refs |-> {}]
    /\ semaphore = 0 /\ workers = 0
    /\ gc = "sleep"
    /\ ctxDone = FALSE
    /\ pc = [c \in Callers |-> "idle"]
    /\ want \in [Callers -> Refs]
    /\ token = [c \in Callers |-> {}]
    /\ reply = [c \in Callers |-> {}]
    /\ now = 0 /\ mono = 0
    /\ wall \in -MaxSkew..MaxSkew
    /\ suspended = FALSE /\ setBack = FALSE

-----------------------------------------------------------------------------
\* GetGoogleIdentityToken, and GetGoogleAccessTokens with scopes.

\* The key of the map.
KeyOfInput(ref) == CHOOSE r \in Refs : r.input = ref.input
Key(ref) == ref

Go(c, from, to) == pc[c] = from /\ pc' = [pc EXCEPT ![c] = to]

\* The caller returns t and its expiration, or an error.
Reply(c, t, cached) ==
    reply' = [reply EXCEPT ![c] =
                {[ref |-> t.ref, left |-> Left(t), real |-> t.life - now,
                  excess |-> t.excess, cached |-> cached]}]
ReplyError(c) == reply' = [reply EXCEPT ![c] = {}]

\* The lookup in the map, under its mutex.
Lookup(c) ==
    /\ Go(c, "idle", "check")
    /\ \E r \in Refs :
         /\ want' = [want EXCEPT ![c] = r]
         /\ token' = [token EXCEPT ![c] = tokens[Key(r)]]
    /\ ReplyError(c)
    /\ UNCHANGED <<tokens, semaphore, workers, gc, ctxDone, clockVars>>

Hit(c) ==
    /\ Go(c, "check", "idle")
    /\ \E t \in token[c] : ~IsExpired(t) /\ Reply(c, t, TRUE)
    /\ token' = [token EXCEPT ![c] = {}]
    /\ UNCHANGED <<tokens, semaphore, workers, gc, ctxDone, want, clockVars>>

Miss(c) ==
    /\ Go(c, "check", "acquire")
    /\ \A t \in token[c] : IsExpired(t)
    /\ token' = [token EXCEPT ![c] = {}]
    /\ UNCHANGED <<tokens, semaphore, workers, gc, ctxDone, want, reply, clockVars>>

SemaphoreAccepts == semaphore < Concurrency

Acquire(c) ==
    /\ Go(c, "acquire", "fetch")
    /\ SemaphoreAccepts
    /\ semaphore' = semaphore + 1
    /\ UNCHANGED <<tokens, workers, gc, ctxDone, want, token, reply, clockVars>>

\* The context of the request, or the provider's, is done.
AcquireAborted(c) ==
    /\ Go(c, "acquire", "idle")
    /\ UNCHANGED <<tokens, semaphore, workers, gc, ctxDone, want, token, reply, clockVars>>

\* <-p.semaphore, before the check of the error.
ReleaseOnSuccess(err) == semaphore' = IF err THEN semaphore ELSE semaphore - 1
ReleaseTwice(err) == semaphore' = semaphore - 2
Release(err) == semaphore' = semaphore - 1

\* The source returns a token that its issuer accepts for another left units of time.
FetchReturns(c) ==
    /\ Go(c, "fetch", "store")
    /\ Release(FALSE)
    /\ \E left \in Lifetimes : token' = [token EXCEPT ![c] = {NewToken(want[c], left)}]
    /\ UNCHANGED <<tokens, workers, gc, ctxDone, want, reply, clockVars>>

FetchFails(c) ==
    /\ Go(c, "fetch", "idle")
    /\ Release(TRUE)
    /\ UNCHANGED <<tokens, workers, gc, ctxDone, want, token, reply, clockVars>>

\* The token is stored and returned, whatever others stored meanwhile.
Store(c) ==
    /\ Go(c, "store", "idle")
    /\ tokens' = [tokens EXCEPT ![Key(want[c])] = token[c]]
    /\ \E t \in token[c] : Reply(c, t, FALSE)
    /\ token' = [token EXCEPT ![c] = {}]
    /\ UNCHANGED <<semaphore, workers, gc, ctxDone, want, clockVars>>

Call(c) ==
    \/ Lookup(c) \/ Hit(c) \/ Miss(c)
    \/ Acquire(c) \/ AcquireAborted(c)
    \/ FetchReturns(c) \/ FetchFails(c) \/ Store(c)

-----------------------------------------------------------------------------
\* The rest of the provider, and the clocks.

\* A pass over the maps whose refs are given.
SweepNothing(refs) == UNCHANGED tokens
Sweep(refs) ==
    tokens' = [r \in Refs |-> IF r \in refs THEN {t \in tokens[r] : ~IsExpired(t)} ELSE tokens[r]]

\* The garbage collector: one map after the other, under their mutexes.
CollectID ==
    /\ gc = "sleep" /\ gc' = "scoped"
    /\ Sweep(IDRefs)
    /\ UNCHANGED <<semaphore, workers, ctxDone, callVars, clockVars>>

CollectScoped ==
    /\ gc = "scoped" /\ gc' = "sleep"
    /\ Sweep(ScopedRefs)
    /\ UNCHANGED <<semaphore, workers, ctxDone, callVars, clockVars>>

CollectorStops ==
    /\ gc = "sleep" /\ ctxDone /\ gc' = "exited"
    /\ UNCHANGED <<tokens, semaphore, workers, ctxDone, callVars, clockVars>>

\* Workers of module TokenCache take and release the semaphore too.
WorkerAcquires ==
    /\ SemaphoreAccepts
    /\ semaphore' = semaphore + 1 /\ workers' = workers + 1
    /\ UNCHANGED <<tokens, gc, ctxDone, callVars, clockVars>>

WorkerReleases ==
    /\ workers > 0
    /\ semaphore' = semaphore - 1 /\ workers' = workers - 1
    /\ UNCHANGED <<tokens, gc, ctxDone, callVars, clockVars>>

Close ==
    /\ ~ctxDone /\ ctxDone' = TRUE
    /\ UNCHANGED <<tokens, semaphore, workers, gc, callVars, clockVars>>

Elapse ==
    /\ now < MaxTime
    /\ now' = now + 1 /\ wall' = wall + 1
    /\ \/ mono' = mono + 1 /\ UNCHANGED suspended
       \/ mono' = mono /\ suspended' = TRUE
    /\ UNCHANGED setBack

\* The wall clock is adjusted, for instance by NTP.
AdjustWall ==
    /\ wall' \in (now - MaxSkew)..(now + MaxSkew)
    /\ setBack' = (setBack \/ wall' < wall)
    /\ UNCHANGED <<now, mono, suspended>>

Clocks == (Elapse \/ AdjustWall)
          /\ UNCHANGED <<tokens, semaphore, workers, gc, ctxDone, callVars>>

Next ==
    \/ \E c \in Callers : Call(c)
    \/ CollectID \/ CollectScoped \/ CollectorStops
    \/ WorkerAcquires \/ WorkerReleases
    \/ Close
    \/ Clocks

\* Goroutines run when they can, calls of the source and of the workers return,
\* and a goroutine that waits on a channel is served in its turn.
Fairness ==
    /\ \A c \in Callers :
         /\ WF_vars(Hit(c) \/ Miss(c) \/ FetchReturns(c) \/ FetchFails(c) \/ Store(c))
         /\ SF_vars(Acquire(c))
    /\ WF_vars(WorkerReleases)
    /\ WF_vars(CollectID \/ CollectScoped \/ CollectorStops)

Spec == Init /\ [][Next]_vars
FairSpec == Spec /\ Fairness

-----------------------------------------------------------------------------
Replies == [ref : Refs, left : Int, real : Int, excess : Nat, cached : BOOLEAN]

DerivedTypeOK ==
    /\ tokens \in [Refs -> SUBSET Token]
    /\ semaphore \in Nat /\ workers \in Nat
    /\ gc \in {"sleep", "scoped", "exited"}
    /\ ctxDone \in BOOLEAN
    /\ pc \in [Callers -> {"idle", "check", "acquire", "fetch", "store"}]
    /\ want \in [Callers -> Refs]
    /\ token \in [Callers -> SUBSET Token]
    /\ reply \in [Callers -> SUBSET Replies]
    /\ now \in Nat /\ mono \in Int /\ wall \in Int
    /\ suspended \in BOOLEAN /\ setBack \in BOOLEAN

\* A caller gets a token of the account and for the input it asked for: neither a
\* lookup nor a store that races with others mixes up identities.
OwnToken == \A c \in Callers : \A r \in reply[c] : r.ref = want[c]

\* The lifetime a client is told is not longer than what the issuer grants, and a
\* token from the cache is still good: once a token is in the cache, one of the
\* clocks may fail, by standing still or by being set back, since the other one
\* then decides.  When it arrives with a timestamp, the wall clock alone decides:
\* 80% of the measured duration absorb a clock that is behind by up to a quarter of
\* what the token has left, and a clock that is further behind lengthens the
\* lifetime by no more than it is behind.  (Tokens that come back from the source
\* without any time left are returned as such.)
ExpirationHonest ==
    (~suspended \/ ~setBack) =>
        \A c \in Callers : \A r \in reply[c] :
            /\ r.left > 0 => r.left <= r.real + r.excess
            /\ r.cached => r.real + r.excess > 0

\* Whatever happens to the clocks, no client is told a lifetime above the
\* configured maximum, and none above an hour when there is a maximum.
DurationCapped ==
    MaxTokenDuration > 0 =>
        \A c \in Callers : \A r \in reply[c] : r.left <= MaxTokenDuration /\ r.left <= Hour

\* The semaphore counts the fetches under way and the workers: no error path
\* leaks a slot and its capacity limits the calls of the source.
SlotsExact ==
    /\ semaphore = workers + Cardinality({c \in Callers : pc[c] = "fetch"})
    /\ semaphore <= Concurrency

\* Every call returns, however many wait for the semaphore and whatever fails.
CallsReturn == \A c \in Callers : pc[c] # "idle" ~> pc[c] = "idle"

\* An expired token does not stay in its map for good (until Close): the
\* collector finds it if no request replaces it.
ExpiredCollected ==
    \A ref \in Refs :
        (\E t \in tokens[ref] : IsExpired(t)) ~> (ctxDone \/ \A t \in tokens[ref] : ~IsExpired(t))
=============================================================================
