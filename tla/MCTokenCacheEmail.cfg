\* One account whose annotation changes between two emails, becomes invalid or goes,
\* and up to two changes the worker has not been told of: tokens of the old email
\* are cached while the nudge for the new one is drained.  Requests would only add
\* wake-ups.
CONSTANTS
    Refs = {r1}
    Entries = {s1}
    Requests = {}
    Emails = {e1, e2}
    Invalid = Invalid
    Nil = Nil
    Nudge = Nudge
    Empty = Empty
    Concurrency = 1
    MaxPods = 1
    MaxLag = 2
SPECIFICATION FairSpec
\* After Close the workers end: the system may stop.
CHECK_DEADLOCK FALSE
PROPERTIES
    EmailConverges
