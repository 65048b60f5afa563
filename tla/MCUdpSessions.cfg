\* Two mappings with two visitors, three numbers that wrap, and tables with
\* room for two sessions.
CONSTANTS
    Agent = {p1, p2}
    Visitor = {v1, v2}
    MaxId = 3
    IPM_UDP_MAX_SESSION = 2
    NoVisitor = NoVisitor
    NoSession = NoSession
SPECIFICATION Spec
SYMMETRY Symmetry
INVARIANTS
    TablesAgree
    NoneAstray
