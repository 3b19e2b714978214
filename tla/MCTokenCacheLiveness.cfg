\* One client, one account whose annotation may be valid, invalid or gone.
CONSTANTS
    Refs = {r1}
    Entries = {s1}
    Requests = {q1}
    Emails = {e1}
    Invalid = Invalid
    Nil = Nil
    Nudge = Nudge
    Empty = Empty
    Concurrency = 1
    MaxPods = 1
    MaxLag = 1
SPECIFICATION FairSpec
\* After Close the workers end and clients stop coming: the system may stop.
CHECK_DEADLOCK FALSE
PROPERTIES
    WaitAnswered
    UnusedReclaimed
    CloseReturns
