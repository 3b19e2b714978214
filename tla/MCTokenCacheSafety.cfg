\* One account that changes, disappears and comes back, one client, pods that come and go.
CONSTANTS
    Refs = {r1}
    Entries = {s1, s2}
    Requests = {q1}
    Emails = {e1}
    Invalid = Invalid
    Nil = Nil
    Nudge = Nudge
    Empty = Empty
    Concurrency = 1
    MaxPods = 1
    MaxLag = 1
SPECIFICATION Spec
SYMMETRY Symmetry
VIEW View
\* After Close the workers end and clients stop coming: the system may stop.
CHECK_DEADLOCK FALSE
INVARIANTS
    TypeOK
    RegistryExact
    SemaphoreExact
    AnsweredOnce
    NotLost
    PodCountCorrect
