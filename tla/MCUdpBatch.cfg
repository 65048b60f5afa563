\* Four datagrams of up to three bytes, two sessions with numbers of one byte, with and without -G,
\* and groups of at most three packets or four bytes: both limits, short and empty packets occur.
CONSTANTS
    s1 = s1
    s2 = s2
    Session <- Sessions
    NoSession = NoSession
    Peer = Peer
    SessionLen = 1
    GsoMaxSegs = 3
    GsoMaxBytes = 4
    Incoming <- Datagrams
    MaxDatagrams = 4
SPECIFICATION FairSpec
CHECK_DEADLOCK FALSE
INVARIANTS
    SentAsCame
    InOrderOnce
    GroupFits
PROPERTIES
    ImplementsForwarding
