\* Every send_reliable_to_group re-arms the timer with expires_from_now,
\* which cancels the pending wait; the cancelled completion still runs
\* handle_retransmit, which re-arms and cancels again.
CONSTANTS
    Endpoints = {e1, e2}
    NoEndpoint = NoEndpoint
    MaxGroups = 1
    MaxSeq = 2
    SeqMod = 3
    Callers = {c1}
    SendMayFail = FALSE
    AckIngest = FALSE
SPECIFICATION Spec
CHECK_DEADLOCK FALSE
INVARIANT RetransmitPaced
