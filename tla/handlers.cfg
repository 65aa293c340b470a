SPECIFICATION MCSpec
CONSTANTS
    MaxBytes = 4
    PipeSize = 2
    MaxStops = 2
    Calamities = {"divide", "segfault", "assert", "illegal", "overflow", "loop"}
    Sent = {"INT", "TERM", "USR1"}
    AltFrames = 2
    MaxTrace = 2
INVARIANTS
    TypeOK
    EofMeansAll
    HandlerVerdict
    OrphanNotStuck
    Usr1Waits
    TraceIsItsOwn
PROPERTIES
    TrackerEnds
    FailsLoudly
