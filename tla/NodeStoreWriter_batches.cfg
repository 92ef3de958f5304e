\* A blocking caller and a task, batches of two.
CONSTANTS
    n1 = n1
    n2 = n2
    k1 = k1
    k2 = k2
    c1 = c1
    c2 = c2
    None = None
    Keys = {k1, k2}
    Nodes = {n1}
    Callers = {c1, c2}
    Async = {c2}
    BatchSize = 2
    Writes <- OneNode

SPECIFICATION FairSpec
INVARIANTS
    TypeOK
PROPERTIES
    WritesAtomic
    ToldIsTrue
    SessionsOfIncarnation
    TickNotNeeded
    CallsAnswered
