\* All programs, from their arguments to the end of their server.
SPECIFICATION ProgramFairSpec
CONSTANTS
    Wanted = {"pair", "listen", "client", "nothing"}
    Arguments <- ManyArguments
    Lines <- ManyLines
    Texts <- AnyText
    Flags <- AllFlags
    LocalAddresses <- Addresses
    MaxLines = 3
    NoColon = noColon
    NotANumber = notANumber
    None = None
    Kinds = {"tcp", "udp", "clientProxy", "serverProxy"}
    Modes = {"background", "foreground"}
    MaxInputs = 2
    BindFails = TRUE
    RegisterFails = TRUE
INVARIANTS ProgramTypeOK ConfiguredAsTyped  TasksAreStopped
PROPERTIES InputIsTaken EndsWhenTold
