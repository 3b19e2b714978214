\* One taint of the emulator, two of others, three writes of the node.
\* Remove leaves the options of retry.Do at their defaults.
CONSTANTS
    Operations <- RemoveOperation
    Horizon = 5
    OwnTaints = {o1}
    ForeignTaints = {f1, f2}
    MaxWrites = 3
SPECIFICATION Spec
SYMMETRY Symmetry
\* Remove returns.
CHECK_DEADLOCK FALSE
INVARIANT BlocksUntilRemoved
