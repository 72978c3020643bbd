\* Two clients share the forwarder's buffer.
SPECIFICATION Spec
CONSTANTS
    c1 = c1
    c2 = c2
    k1 = k1
    k2 = k2
    None = None
    Conns = {c1, c2}
    Keys = {k1, k2}
    BufSize = 2
    MaxUnits = 2
    Replies <- OneReply
    MaxReplies = 0
    ReuseKeys = FALSE
    Faults = {}
INVARIANTS IntactDatagrams
