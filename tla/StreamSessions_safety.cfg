\* An ephemeral node and another one, two streams.
\* Three timers: a claimed one, an installed one and the one replacing it.
\* Three epochs: the node's and those of streams of earlier incarnations.
CONSTANTS
    n1 = n1
    n2 = n2
    c1 = c1
    c2 = c2
    g1 = g1
    g2 = g2
    g3 = g3
    e1 = e1
    e2 = e2
    e3 = e3
    None = None
    Nodes = {n1, n2}
    Ephemeral = {n1}
    Conns = {c1, c2}
    Gens = {g1, g2, g3}
    Epochs = {e1, e2, e3}

SPECIFICATION Spec
SYMMETRY Symmetry
INVARIANTS
    TypeOK
    PresenceMatches
    StreamsToldToStop
    TimersOwned
    GcSparesConnected
    IdleEphemeralTracked
