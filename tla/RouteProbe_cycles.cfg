\* Two routers, one of which stays; three ids, so that a late answer and two
\* pings can meet.  No symmetry under liveness.
CONSTANTS
    n1 = n1
    n2 = n2
    p1 = p1
    p2 = p2
    p3 = p3
    Nodes = {n1, n2}
    Unstable = {n1}
    PingIds = {p1, p2, p3}

SPECIFICATION FairSpec
INVARIANTS
    TypeOK
    NewSessionNotJudged
    NoPingLeft
PROPERTIES
    CycleEnds
