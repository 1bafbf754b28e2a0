\* Two groups announced on one port: each joined socket is bound to
\* INADDR_ANY and that port.
CONSTANTS
    GroupIds = {1, 2}
    Fds = {3, 4}
    Workers = {w1}
    MaxSeq = 1
    MaxQueue = 1
    MaxArrivals = 1
    PortOf <- SharedPort
SPECIFICATION Spec
CHECK_DEADLOCK FALSE
INVARIANT AttributedToSourceGroup
