SPECIFICATION MCSpec
CONSTANTS
    Spaces = {s1, s2, s3}
    NFrames = 3
    NPages = 2
    Values = {zero, one}
    ZERO = zero
    REF_MAX = 3
    Buffers = {2}
    Observed = {1}
    MaxCalls = 3
    NIL = NIL
    NULL = NULL
    CAP_TABLE_SIZE = 3
    IdSpace = 7
    MaxLaps = 0
    MaxRef = 1
    MANAGE = MANAGE
    GRANT = GRANT
    Rights = {MANAGE, GRANT}
    Objects <- MCObjects
    Tasks = {srv, c1, c2}
    Servers = {srv}
    Clients = {c1, c2}
    IPC_MAX_PORTS = 3
    IPC_PORT_QUEUE_SIZE = 2
    MaxPortId = 5
    MaxSeq = 6
    Names = {n1, n2}
    SVCBUS_MAX_SERVICES = 2
INVARIANTS
    FramesHeld
    InOrder
    RepliesMatch
    PortsExact
    RegistryExact

    
SYMMETRY Symmetry
CHECK_DEADLOCK FALSE
