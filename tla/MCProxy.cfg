\* Two connections for a queue of one, reads of up to two pieces.
CONSTANTS
    Conns = {c1, c2}
    Streams <- MCStreams
    Chunk = 2
    SniffCap = 2
    QueueCap = 1
SPECIFICATION FairSpec
\* Once closed, the proxy stops.
CHECK_DEADLOCK FALSE
INVARIANTS
    ProxyTypeOK
    Verbatim
PROPERTIES
    ImplementsRelay
    MetadataServed
    HandlersEnd
