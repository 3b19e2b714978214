\* One caller and one token with a timestamp, so that all histories of the clocks
\* fit: it arrives expired or with two, four or six units left; a maximum that the
\* hour cuts below 80% of what a slow clock measures for six; seconds of two units;
\* a wall clock that is wrong by up to two units from the start, of which the 20%
\* absorb one for a token of four units and none for one of two.
CONSTANTS
    Callers = {c1}
    Accounts = {a1}
    IDInputs = {}
    ScopedInputs = {s1}
    TimestampInputs = {s1}
    Concurrency = 1
    MaxTokenDuration = 6
    Second = 2
    Hour = 5
    Lifetimes <- MCLifetimes
    MaxTime = 4
    MaxSkew = 2
SPECIFICATION Spec
INVARIANTS
    DerivedTypeOK
    ExpirationHonest
    DurationCapped
