\* Reads that join messages and end inside them.
SPECIFICATION FairSpec
CONSTANTS
    Self = me
    Others = {a}
    None = None
    BufSize = 9
    SendCap = 1
    MaxSeq = 2
    MaxNum = 2
    MaxSaid = 3
    Net = {"join", "cut"}
INVARIANTS TypeOK FalseAlarmsComeFromCuts ValidatedInOrder SkippedForAReason
PROPERTIES StopReturns
