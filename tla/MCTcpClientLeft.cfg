\* Two packages that arrive together, the first of which cannot be served.
CONSTANTS
    Index = {i1, i2}
    Tunnel = {t1, t2, t3, t4}
    Bad = Bad
    MaxArrive = 2
    MaxInput = 2
    NoTunnel = NoTunnel
    Freed = Freed
SPECIFICATION Spec
SYMMETRY Symmetry
INVARIANT NoPackageLeft
\* exit ends the program.
CHECK_DEADLOCK FALSE
