\* Two pods that share the only address, or the address of the node (other host
\* addresses are treated alike); up to two events are late.
CONSTANTS
    Pods = {p1, p2}
    IPs = {x}
    PodIP = node
    HostIPs = {node}
    Ports = {s1}
    Nil = Nil
    MaxLag = 2
    Operations <- MCOperations
    Horizon = 3
SPECIFICATION Spec
SYMMETRY Symmetry
VIEW View
\* All pods may have ended, and the process may have panicked.
CHECK_DEADLOCK FALSE
INVARIANTS
    PodTypeOK
    AttestedIsClient
    AddressIsClient
    KnownPodNotRefused
    OneIdentity
PROPERTY BackoffMonotone
