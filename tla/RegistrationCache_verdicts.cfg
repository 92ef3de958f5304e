SPECIFICATION VerdictSpec
CONSTANTS
    a1 = a1
    a2 = a2
    a3 = a3
    a4 = a4
    s1 = s1
    s2 = s2
    c1 = c1
    c2 = c2
    NoSource = NoSource
    AuthIds = {a1}
    Sources = {}
    Callers = {c1, c2}
    MaxEntries = 1
    Quota = 1
    MaxCreated = 2
INVARIANTS
    TypeOK
    NoOrphan
    NoLostWakeup
    OneVerdictPerEntry
    SshVerdictConsumedOnce
PROPERTIES
    CompletionNotRedirected
    WaiterAnswered
