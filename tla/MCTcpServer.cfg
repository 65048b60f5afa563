\* Three connections, two addresses and two visitors, and a counter that wraps: an address changes
\* hands while tunnels wait, are joined, and end.  No symmetry, because of the liveness properties.
CONSTANTS
    Bev = {b1, b2, b3}
    Addr = {a1, a2}
    Visitor = {v1, v2}
    MaxIndex = 2
    EarlyClose = TRUE
    NoBev = NoBev
    NoAddr = NoAddr
    NoVisitor = NoVisitor
SPECIFICATION Spec
CHECK_DEADLOCK FALSE
INVARIANTS
    Healthy
    OneOwner
    MapsAgree
    Guarded
    JoinReachesItsVisitor
    VisitorsOwned
    ReclaimPossible
PROPERTIES
    JoinedOnlyEndsByRelay
    WaitingEnds
    LeaverNoticed
