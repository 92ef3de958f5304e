\* Two blocking callers, batches of two.
CONSTANTS
    n1 = n1
    n2 = n2
    k1 = k1
    k2 = k2
    c1 = c1
    c2 = c2
    None = None
    Keys = {k1, k2}
    Nodes = {n1, n2}
    Callers = {c1, c2}
    Async = {}
    BatchSize = 2
    Writes <- Approvals

SPECIFICATION Spec
PROPERTIES
    ApprovalsSkipAbsent
