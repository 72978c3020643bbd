\* Three clients, two of them send, writes to the third may fail.
SPECIFICATION Spec
CONSTANTS
    Clients = {c1, c2, c3}
    Senders = {c1, c2}
    None = None
    BufSize = 1
    MaxUnits = 1
    Slow = {c3}
SYMMETRY Symmetric
INVARIANTS TypeOK ActiveHaveThreads NobodyMissed
PROPERTIES NotifiesInOneOrder
