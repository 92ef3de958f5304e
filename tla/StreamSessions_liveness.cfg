\* One ephemeral node, two streams; no symmetry under liveness.
\* Two timers, a claimed one and an installed one; two epochs, the node's and
\* that of the streams of an earlier incarnation.
CONSTANTS
    n1 = n1
    c1 = c1
    c2 = c2
    g1 = g1
    g2 = g2
    e1 = e1
    e2 = e2
    None = None
    Nodes = {n1}
    Ephemeral = {n1}
    Conns = {c1, c2}
    Gens = {g1, g2}
    Epochs = {e1, e2}

SPECIFICATION FairSpec
PROPERTIES
    ShutdownCompletes
    IdleEphemeralCollected
