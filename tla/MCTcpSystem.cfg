\* Two visitors over two connections at a time, so that a request of an earlier connection is read
\* after that of the next one, and a tunnel is announced when the one before it has met its visitor.
CONSTANTS
    Bev = {b1, b2}
    Addr = {a1}
    Visitor = {v1, v2}
    MaxIndex = 2
    NoBev = NoBev
    NoAddr = NoAddr
    NoVisitor = NoVisitor
    Tunnel = {t1, t2}
    NoTunnel = NoTunnel
    FreedTunnel = FreedTunnel
    MaxArrive = 1
    MaxInput = 2
    Mapping = a1
    Control = Control
    NoPeer = NoPeer
    Map = Map
    NoRequest = NoRequest
SPECIFICATION FirstIndexSpec
CHECK_DEADLOCK FALSE
INVARIANT
    EachToItsOwn
PROPERTIES
    MetUndisturbed
    MappedAtLast
    TunnelsMeet
