\* A retransmitted reliable frame reaches the callback twice.
CONSTANTS
    GroupIds = {1, 2}
    Fds = {3, 4}
    Workers = {w1, w2}
    MaxSeq = 2
    MaxQueue = 2
    MaxArrivals = 3
    PortOf <- DistinctPorts
SPECIFICATION Spec
SYMMETRY Symmetry
CHECK_DEADLOCK FALSE
PROPERTY DeliverOnce
