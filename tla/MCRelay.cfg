\* Three bytes each way through two-byte buffers and one-byte kernel buffers:
\* partial sends, a full buffer, and more data waiting than a buffer holds.
CONSTANTS
    BufferSize = 2
    SndBuf = 1
    MaxBytes = 3
SPECIFICATION FairSpec
CHECK_DEADLOCK FALSE
INVARIANTS
    TypeOK
    NothingLost
    NoStall
    EofDeliversEverything
PROPERTIES
    EveryByteHanded
    FinCloses
    ImplementsPipes
