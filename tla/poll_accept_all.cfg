SPECIFICATION Spec
CONSTANTS
    c1 = c1
    c2 = c2
    Clients = {c1, c2}
    ListenSd = ListenSd
    NoFd = NoFd
    FdsSize = 3
    MaxMsgs = 1
    BufMsgs = 2
    AcceptedNonblocking = TRUE
    Pipelined = TRUE
PROPERTIES
    AcceptsAllQueued
