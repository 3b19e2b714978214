\* A refresh that fails while the cached tokens are still valid.
CONSTANTS
    Refs = {r1}
    Entries = {s1, s2}
    Requests = {q1}
    Emails = {e1}
    Invalid = Invalid
    Nil = Nil
    Nudge = Nudge
    Empty = Empty
    Concurrency = 1
    MaxPods = 1
    MaxLag = 1
SPECIFICATION Spec
CHECK_DEADLOCK FALSE
PROPERTY CachedUntilExpiration
