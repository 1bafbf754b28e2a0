\* Safety of the group table under every interleaving of one caller thread
\* with the io_service thread, with failing sends and ACK ingest enabled.
CONSTANTS
    Endpoints = {e1, e2}
    NoEndpoint = NoEndpoint
    MaxGroups = 2
    MaxSeq = 2
    SeqMod = 3
    Callers = {c1, c2}
    SendMayFail = TRUE
    AckIngest = TRUE
SPECIFICATION Spec
SYMMETRY Symmetry
CHECK_DEADLOCK FALSE
INVARIANT TypeOK
PROPERTY ImplementsChannel
