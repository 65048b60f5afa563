\* -T 30 on the client only, as in README.md; the server has its default.
CONSTANTS
    ServerTimeout = 180
    ClientTimeout = 30
    IPM_UDP_CLIENT_LAG = 10
    Delay = 1
    Lossy = FALSE
SPECIFICATION Spec
INVARIANTS
    ClientOutlives
