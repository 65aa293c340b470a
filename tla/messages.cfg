SPECIFICATION MCSpec
CONSTANTS
    Procs = {p1, p2, p3}
    Inodes = {1, 2, 3}
    KeyMod = 2
    None = None
    Clients = {c1, c2, c3}
INVARIANTS
    TypeOK
    NoOrphanQueue
    OwnAnswer
PROPERTIES
    WaiterServed
    NobodyLeftWaiting
    Answered
