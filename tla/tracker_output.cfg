SPECIFICATION Spec
CONSTANTS
    MaxBytes = 2
    PipeSize = 2
    MaxStops = 0
INVARIANTS
    OutputComplete
