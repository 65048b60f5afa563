\* The lag of ipm_types.h, the longest delay it makes up for, the same -T on
\* both sides (a short one), and only packages of the host get lost.
CONSTANTS
    ServerTimeout = 6
    ClientTimeout = 6
    IPM_UDP_CLIENT_LAG = 10
    Delay = 4
    Lossy = FALSE
SPECIFICATION Spec
INVARIANTS
    ClientOutlives
PROPERTIES
    SamePort
