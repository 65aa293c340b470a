SPECIFICATION FairSpec
CONSTANTS
    c1 = c1
    c2 = c2
    Clients = {c1, c2}
    ListenSd = ListenSd
    NoFd = NoFd
    FdsSize = 3
    MaxMsgs = 2
    BufMsgs = 2
    AcceptedNonblocking = TRUE
    Pipelined = FALSE
INVARIANTS
    EchoPerMessage
PROPERTIES
    Served
    ClosedPeerReleased
