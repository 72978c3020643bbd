\* One source, every fault.
SPECIFICATION FairSpec
CONSTANTS
    Sources = {s1}
    AnyZero = any0
    None = None
    Conns = {c1, c2}
    Units <- AllUnits
    BufSize = 1
    MaxUnits = 2
    Faults = {"recv", "checksum", "connect", "register", "partial", "send", "restart"}
INVARIANTS BindingsAgree
PROPERTIES RelaysInOrder DatagramsAreTaken AnswersAreTaken StopReturns
