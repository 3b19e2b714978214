\* Two requests that compete for one slot with a worker, two accounts, tokens that
\* expire within one unit of time.
CONSTANTS
    Callers = {c1, c2}
    Accounts = {a1, a2}
    IDInputs = {}
    ScopedInputs = {s1}
    TimestampInputs = {}
    Concurrency = 1
    MaxTokenDuration = 0
    Second = 1
    Hour = 4
    Lifetimes = {2}
    MaxTime = 1
    MaxSkew = 0
SPECIFICATION FairSpec
INVARIANTS
    OwnToken
    SlotsExact
PROPERTIES
    CallsReturn
    ExpiredCollected
