\* Two indices, announced up to two at a time, repeatedly, and failing anywhere in between;
\* twice as many objects, so that every one of them can be replaced at once.
CONSTANTS
    Index = {i1, i2}
    Tunnel = {t1, t2, t3, t4}
    Bad = Bad
    MaxArrive = 2
    MaxInput = 2
    NoTunnel = NoTunnel
    Freed = Freed
SPECIFICATION FairSpec
INVARIANTS
    NeverFatal
    MapFindsTunnels
    OneAttempt
    RelayNeedsBothEnds
PROPERTIES
    RelayOutlivesLink
    ComesBack
    TunnelsSettle
\* exit ends the program.
CHECK_DEADLOCK FALSE
