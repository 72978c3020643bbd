\* Two sources; connects may fail.
SPECIFICATION Spec
CONSTANTS
    Sources = {s1, s2}
    AnyZero = any0
    None = None
    Conns = {c1, c2, c3}
    Units <- AllUnits
    BufSize = 1
    MaxUnits = 2
    Faults = {"connect"}
INVARIANTS TypeOK OpenIsWatched SourcesSeparate AnswersGoHome
SYMMETRY Symmetric
