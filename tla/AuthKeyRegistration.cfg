\* Two requests of two machines over two node keys, a one-shot key and a
\* reusable one with tags, two rows.
CONSTANTS
    m1 = m1
    m2 = m2
    n1 = n1
    n2 = n2
    once = once
    many = many
    r1 = r1
    r2 = r2
    None = None
    Machines = {m1, m2}
    NodeKeys = {n1, n2}
    Keys = {once, many}
    Reusable = {many}
    Tagged = {many}
    Requests = {r1, r2}
    MaxId = 2

SPECIFICATION Spec
SYMMETRY Symmetry
INVARIANTS
    OneShotOnce
    RowsMatchLive
    NodeKeyOwned
    RegisteredIsSaved
