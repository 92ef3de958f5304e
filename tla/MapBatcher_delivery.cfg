CONSTANTS
    a = a
    b = b
    s1 = s1
    s2 = s2
    None = None
    Nodes = {a, b}
    Streams = {s1}
    Owner <- MCOwner
    Writers = {w1}
    Policies = {0, 1, 2}
    Allows <- MCAllows
    EmptyAcl = {0}
    UpdateReasons = {"EndpointDerpUpdate"}
    BatchBuffer = 1
    MaxEdits = 2
    MaxPings = 1
    w1 = w1
    w2 = w2
SPECIFICATION FairSpec
INVARIANT NoChangeLost
PROPERTIES Converges PingTaken
CHECK_DEADLOCK FALSE
