\* The test programs in reliable mode: the client ACKs every frame it
\* delivers, and nothing on the server reads those ACKs.
CONSTANTS
    Endpoints = {e1}
    NoEndpoint = NoEndpoint
    MaxSeq = 2
    SeqMod = 2
    SendMayFail = FALSE
    Fds = {3}
    Workers = {w1}
    MaxQueue = 1
    ReliableModes = {TRUE}
    MsgSizes = {16}
    MaxEchoes = 2
    Main = Main
SPECIFICATION FairSpec
CHECK_DEADLOCK FALSE
PROPERTY AckedEventuallyForgotten
