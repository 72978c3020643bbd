\* Two clients with endpoints of their own, one answer, which may fail to be received, be dropped for its checksum, or be written in part.
SPECIFICATION Spec
CONSTANTS
    c1 = c1
    c2 = c2
    k1 = k1
    k2 = k2
    None = None
    Conns = {c1, c2}
    Keys = {k1, k2}
    BufSize = 1
    MaxUnits = 1
    Replies <- OneReply
    MaxReplies = 1
    ReuseKeys = FALSE
    Faults = {"recv", "checksum", "partial"}
INVARIANTS MapAgreesWithThreads RaceNeedsALeaver QuietAfterStop
PROPERTIES NoReplyAfterHandlerRemoved
