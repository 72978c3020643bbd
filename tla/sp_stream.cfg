\* One client, a buffer smaller than what it writes; accept and send may fail, an empty or a long datagram comes back.
SPECIFICATION FairSpec
CONSTANTS
    c1 = c1
    c2 = c2
    k1 = k1
    k2 = k2
    None = None
    Conns = {c1}
    Keys = {k1}
    BufSize = 2
    MaxUnits = 3
    Replies <- TwoReplies
    MaxReplies = 2
    ReuseKeys = FALSE
    Faults = {"accept", "send"}
INVARIANTS TypeOK
PROPERTIES ForwardsInOrder DataIsTaken RepliesAreTaken StopReturns
