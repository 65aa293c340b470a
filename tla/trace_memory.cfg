SPECIFICATION SigSpec
CONSTANTS
    Calamities = {"divide", "segfault"}
    Sent = {"TERM"}
    AltFrames = 2
    MaxTrace = 1
INVARIANTS
    TraceNeverFaults
