\* The server closes a connection and goes on accepting.
SPECIFICATION Spec
CONSTANTS
    Sources = {s1}
    AnyZero = any0
    None = None
    Conns = {c1, c2}
    Units <- AllUnits
    BufSize = 1
    MaxUnits = 2
    Faults = {}
PROPERTIES ReconnectsAfterClose
