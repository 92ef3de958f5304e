CONSTANTS
    n1 = n1
    n2 = n2
    p1 = p1
    p2 = p2
    Nodes = {n1, n2}
    Unstable = {n1, n2}
    PingIds = {p1, p2}

SPECIFICATION Spec
PROPERTIES
    FreshSessionClean
