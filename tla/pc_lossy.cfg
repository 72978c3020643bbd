\* One client, a network that loses datagrams.
SPECIFICATION ChainFairSpec
CONSTANTS
    None = None
    Conns = {c1}
    Keys = {k1}
    BufSize = 4
    MaxUnits = 2
    Replies <- AnyDatagram
    MaxReplies = 0
    ReuseKeys = FALSE
    Faults = {}
    Proxy = proxy
    AnyZero = any0
    Links = {l1}
    Net = {"loss"}
    EchoBufSize = 1
    EchoFaults = {"slow"}
INVARIANTS EchoIsFramed
PROPERTIES RoundTripIsOrdered EchoArrives TearDownEnds
