SPECIFICATION FairSpec
CONSTANTS
    c1 = c1
    Clients = {c1}
    ListenSd = ListenSd
    NoFd = NoFd
    FdsSize = 3
    MaxMsgs = 1
    BufMsgs = 2
    AcceptedNonblocking = TRUE
    Pipelined = TRUE
PROPERTIES
    ResetPeerReleased
