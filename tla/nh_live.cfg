\* One client sends more than a read takes, one listens.
SPECIFICATION FairSpec
CONSTANTS
    Clients = {c1, c2}
    Senders = {c1}
    None = None
    BufSize = 2
    MaxUnits = 3
    Slow = {c2}
INVARIANTS EchoesAreTheStream
PROPERTIES StopEnds RequestsAreNotified
