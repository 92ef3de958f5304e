CONSTANTS
    p = p
    q = q
    u = u
    v = v
    strict = strict
    lax = lax
    a1 = a1
    a2 = a2
    c1 = c1
    c2 = c2
    NoRule = NoRule
    None = None
    Pairs = {p, q}
    Users = {u, v}
    Clients = {c1, c2}
    AuthIds = {a1, a2}
    Docs = {strict, lax}
    Period <- MCPeriod
    MaxEpoch = 1
    MaxTime = 1
SPECIFICATION Spec
SYMMETRY Symmetry
PROPERTIES MemoryJustified FollowUpJustified
CHECK_DEADLOCK FALSE
