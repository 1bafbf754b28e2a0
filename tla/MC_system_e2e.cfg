\* The test programs with server argv[5] either way and client messages of
\* 5 and 8 bytes (the default 1024 scaled down): an empty echo payload,
\* which the server wrapper drops, and a 3-byte one, which goes out as a
\* reliable frame or as a raw payload too short to be parsed as one.  Two
\* echoes, one endpoint, one receive thread, a one-datagram receive buffer,
\* a network that loses and duplicates.
CONSTANTS
    Endpoints = {e1}
    NoEndpoint = NoEndpoint
    MaxSeq = 2
    SeqMod = 2
    SendMayFail = FALSE
    Fds = {3}
    Workers = {w1}
    MaxQueue = 1
    ReliableModes = {TRUE, FALSE}
    MsgSizes = {5, 8}
    MaxEchoes = 2
    Main = Main
SPECIFICATION FairSpec
CHECK_DEADLOCK FALSE
INVARIANT TypeOK
 
 
PROPERTY EchoDeliveredAtLeastOnce
PROPERTY ServerImplementsFairChannel
