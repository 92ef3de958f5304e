SPECIFICATION EvictionSpec
CONSTANTS
    a1 = a1
    a2 = a2
    a3 = a3
    a4 = a4
    s1 = s1
    s2 = s2
    c1 = c1
    c2 = c2
    NoSource = NoSource
    AuthIds = {a1, a2, a3, a4}
    Sources = {s1, s2}
    Callers = {c1}
    MaxEntries = 3
    Quota = 1
    MaxCreated = 4
SYMMETRY IdSymmetry
PROPERTIES
    LimitsHold
    LoneEntrySurvives
