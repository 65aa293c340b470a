SPECIFICATION MCSpec
CONSTANTS
    Clients = {c1, c2, c3}
    NoFd = NoFd
    MaxFds = 3
    BufSize = 3
    Procs = {p1, p2, p3}
    None = None
    Earlier = Earlier
INVARIANTS
    NameHasItsUser
    NeitherAlone
    NoCrossClientData
PROPERTIES
    Delivered
    Answered
