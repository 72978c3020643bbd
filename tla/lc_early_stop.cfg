\* TcpServerProxy, stopped before it listens.
SPECIFICATION FairSpec
CONSTANTS
    Kinds = {"serverProxy"}
    Modes = {"background"}
    MaxInputs = 2
    BindFails = FALSE
    RegisterFails = FALSE
PROPERTIES StopEnds
