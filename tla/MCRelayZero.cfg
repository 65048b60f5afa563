\* The program run with -b 0, which its option parser accepts.
CONSTANTS
    BufferSize = 0
    SndBuf = 1
    MaxBytes = 1
SPECIFICATION Spec
CHECK_DEADLOCK FALSE
INVARIANTS
    ClosesOnlyAtFin
