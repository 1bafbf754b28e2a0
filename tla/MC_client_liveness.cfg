\* The receive loop and stop() under fair scheduling of the threads: one
\* group and one descriptor, two receive threads so that start/stop/start
\* leaves an older thread alive; a one-datagram buffer so that a full
\* socket drops arrivals and looped-back ACKs.
CONSTANTS
    GroupIds = {1}
    Fds = {3}
    Workers = {w1, w2}
    MaxSeq = 1
    MaxQueue = 1
    MaxArrivals = 2
    PortOf <- DistinctPorts
SPECIFICATION FairSpec
CHECK_DEADLOCK FALSE
INVARIANT TypeOK
PROPERTY  StopReturns
