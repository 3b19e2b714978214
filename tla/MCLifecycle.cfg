\* Three disruptions in all: a crash in Loopback mode, the next process, and its
\* orderly end or a failure on the way.
CONSTANTS
    Operations <- RemoveOperation
    Horizon = 3
    OwnTaints = {o1}
    ForeignTaints = {f1}
    MaxWrites = 1
    Enabled = {"pods", "cache"}
    Settings <- MCSettings
    Requests = {r1}
    MaxDisruptions = 3
SPECIFICATION LifeSpec
INVARIANTS
    LifecycleTypeOK
    OutcomeExact
    RequestsKeepResources
    CleanExit
PROPERTIES
    RemovesOwnTaints
    UntaintedWhenServing
    ServesAgain
