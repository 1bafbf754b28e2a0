------------------------- MODULE UdpMulticastManager -------------------------
(***************************************************************************)
(* kcp_svr::UdpMulticastManager (src/server_lib/udp_multicast_manager.cpp) *)
(*                                                                         *)
(* The server-side multicast group table: create/delete groups, best-effort *)
(* and reliable sends, the per-group retransmission timer and ACK ingest.  *)
(*                                                                         *)
(* Threads.  Callers are application threads that call the public API;    *)
(* every method takes mutex_ for its table work.  send_reliable_to_group   *)
(* releases the lock before it sends and re-arms the timer, so it is two   *)
(* steps.  The io_service thread runs timer completions: handle_retransmit *)
(* snapshots sent_msgs under the lock, then sends the burst and re-arms    *)
(* the timer outside it (two steps).                                       *)
(*                                                                         *)
(* Timer.  boost::asio::deadline_timer: expires_from_now() cancels every    *)
(* pending wait (its handler is queued with operation_aborted) and          *)
(* async_wait() adds a wait.  The handler is boost::bind(&handle_retransmit,*)
(* this, group_id), which drops the error code: an aborted completion runs  *)
(* handle_retransmit exactly like an expiry.  A group object outlives its   *)
(* table entry while a thread still holds its shared_ptr; its destructor   *)
(* cancels the pending wait.                                               *)
(*                                                                         *)
(* Data.  An endpoint is a model value; a reliable datagram is (group, seq);*)
(* payload bytes are left out.                                             *)
(***************************************************************************)
EXTENDS Naturals, FiniteSets

CONSTANTS
    Endpoints,    \* the (multicast address, port) pairs a group may get
    NoEndpoint,   \* the endpoint of a group never created
    MaxGroups,    \* bound on next_group_id_ (ids 1..MaxGroups)
    MaxSeq,       \* bound on reliable sends per group
    SeqMod,       \* the values of next_seq (2^32 for uint32_t, small here)
    Callers,      \* application threads calling the manager's API
    SendMayFail,  \* socket.send_to may throw (ENOBUFS, EHOSTUNREACH, ...)
    AckIngest     \* something calls handle_ack (no call site exists in src)

ASSUME /\ NoEndpoint \notin Endpoints
       /\ MaxGroups \in Nat \ {0}
       /\ MaxSeq \in Nat \ {0}
       /\ SeqMod \in Nat \ {0}
       /\ SendMayFail \in BOOLEAN
       /\ AckIngest \in BOOLEAN

GroupIds == 1..MaxGroups
Seqs     == 0..(SeqMod - 1)
NoGroup  == 0        \* create_group's failure result; never a group id

\* What a send on a group socket puts on the wire.  A best-effort datagram
\* carries no header ("raw"); a reliable one carries its sequence number.
Datagram == [gid : GroupIds, ep : Endpoints, kind : {"raw", "rel"}, seq : Seqs]
Raw(g, e)    == [gid |-> g, ep |-> e, kind |-> "raw", seq |-> 0]
Rel(g, e, s) == [gid |-> g, ep |-> e, kind |-> "rel", seq |-> s]

VARIABLES
    groups,       \* the keys of groups_: ids of live groups
    nextGroupId,  \* next_group_id_
    endpoint,     \* group->endpoint, per id
    generated,    \* ids whose endpoint came from generate_multicast_address
    sockOpen,     \* group->socket is open
    nextSeq,      \* group->next_seq, modulo SeqMod
    issued,       \* reliable sends each group has numbered (bounded by MaxSeq)
    sentMsgs,     \* the keys of group->sent_msgs
    armed,        \* group->retransmit_timer has a pending async_wait
    fired,        \* completions of expired waits queued on the io_service
    aborted,      \* completions of cancelled waits queued on the io_service
    caller,       \* each caller's position inside send_reliable_to_group
    io,           \* the io_service thread's position inside handle_retransmit
    out           \* datagrams emitted by the last step

vars == <<groups, nextGroupId, endpoint, generated, sockOpen, nextSeq,
          issued, sentMsgs, armed, fired, aborted, caller, io, out>>

TypeOK ==
    /\ groups \subseteq GroupIds
    /\ nextGroupId \in 1..(MaxGroups + 1)
    /\ endpoint \in [GroupIds -> Endpoints \cup {NoEndpoint}]
    /\ generated \subseteq GroupIds
    /\ sockOpen \in [GroupIds -> BOOLEAN]
    /\ nextSeq \in [GroupIds -> Seqs]
    /\ issued \in [GroupIds -> 0..MaxSeq]
    /\ sentMsgs \in [GroupIds -> SUBSET Seqs]
    /\ armed \in [GroupIds -> BOOLEAN]
    /\ fired \in [GroupIds -> Nat]
    /\ aborted \in [GroupIds -> Nat]
    /\ caller \in [Callers -> [pc : {"idle", "send"},
                               gid : GroupIds \cup {NoGroup}, seq : Seqs]]
    /\ io \in [pc : {"idle", "burst"}, gid : GroupIds \cup {NoGroup},
               snap : SUBSET Seqs, cause : {"expired", "aborted", "none"}]
    /\ out \subseteq Datagram

-----------------------------------------------------------------------------
(* Helpers                                                                 *)

\* The threads holding a shared_ptr to group g outside the lock.
Holders(g) ==
    {c \in Callers : caller[c].pc = "send" /\ caller[c].gid = g}
    \cup (IF io.pc = "burst" /\ io.gid = g THEN {"io"} ELSE {})

\* At most one thread is past its lookup of g and about to call g's
\* retransmit_timer (expires_from_now/async_wait, lines 168 and 229), which
\* deadline_timer does not allow from two threads at once.
TimerExclusive(g) == Cardinality(Holders(g)) <= 1

\* Dropping the last reference to a deleted group runs ~MulticastGroup,
\* whose deadline_timer destructor cancels the pending wait.
LastRef(g, self) == g \notin groups /\ Holders(g) = {self}

\* The addresses generate_multicast_address can return: any 239.255.X.Y and
\* any port in [30000, 40000], drawn at random with no check against the
\* endpoints of live groups.
GenerateMulticastAddress == Endpoints

\* retransmit_timer.expires_from_now(500ms); retransmit_timer.async_wait(..)
\* followed, when self drops the last reference of a deleted group, by the
\* destructor's cancel.
ArmTimer(g, self) ==
    LET cancelled == IF armed[g] THEN 1 ELSE 0
        destroyed == LastRef(g, self)
    IN /\ armed' = [armed EXCEPT ![g] = ~destroyed]
       /\ aborted' = [aborted EXCEPT ![g] = @ + cancelled
                                            + (IF destroyed THEN 1 ELSE 0)]

\* self drops its shared_ptr without touching the timer.
Release(g, self) ==
    IF LastRef(g, self) /\ armed[g]
    THEN /\ armed' = [armed EXCEPT ![g] = FALSE]
         /\ aborted' = [aborted EXCEPT ![g] = @ + 1]
    ELSE UNCHANGED <<armed, aborted>>

\* retransmit_timer.cancel(): the pending wait completes as aborted.
CancelTimers(S) ==
    /\ armed' = [g \in GroupIds |-> IF g \in S THEN FALSE ELSE armed[g]]
    /\ aborted' = [g \in GroupIds |->
                     aborted[g] + (IF g \in S /\ armed[g] THEN 1 ELSE 0)]

-----------------------------------------------------------------------------
(* Initial state: the constructor (next_group_id_ = 1, empty table).       *)

Init ==
    /\ groups = {}
    /\ nextGroupId = 1
    /\ endpoint = [g \in GroupIds |-> NoEndpoint]
    /\ generated = {}
    /\ sockOpen = [g \in GroupIds |-> FALSE]
    /\ nextSeq = [g \in GroupIds |-> 0]
    /\ issued = [g \in GroupIds |-> 0]
    /\ sentMsgs = [g \in GroupIds |-> {}]
    /\ armed = [g \in GroupIds |-> FALSE]
    /\ fired = [g \in GroupIds |-> 0]
    /\ aborted = [g \in GroupIds |-> 0]
    /\ caller = [c \in Callers |-> [pc |-> "idle", gid |-> NoGroup, seq |-> 0]]
    /\ io = [pc |-> "idle", gid |-> NoGroup, snap |-> {}, cause |-> "none"]
    /\ out = {}

-----------------------------------------------------------------------------
(* Public API, called by application threads                              *)

Idle(c) == caller[c].pc = "idle"

\* init_group_socket: address::from_string (which throws on a malformed
\* explicit address), socket open and three set_option calls, any of which
\* may throw; the socket is never bound.  create_group sees only whether
\* it returned true.
InitGroupSocket == BOOLEAN

\* create_group(addr, port): the id is taken before the socket is set up,
\* so a failed init_group_socket consumes it and returns 0.  Without
\* explicit coordinates the endpoint is generated.
CreateGroup(c) ==
    /\ Idle(c)
    /\ nextGroupId <= MaxGroups
    /\ \E gen \in BOOLEAN, ok \in InitGroupSocket, e \in Endpoints :
          LET id == nextGroupId IN
          /\ gen => e \in GenerateMulticastAddress
          /\ nextGroupId' = nextGroupId + 1
          /\ IF ok
             THEN /\ groups' = groups \cup {id}
                  /\ endpoint' = [endpoint EXCEPT ![id] = e]
                  /\ generated' = IF gen THEN generated \cup {id} ELSE generated
                  /\ sockOpen' = [sockOpen EXCEPT ![id] = TRUE]
             ELSE UNCHANGED <<groups, endpoint, generated, sockOpen>>
    /\ out' = {}
    /\ UNCHANGED <<nextSeq, issued, sentMsgs, armed, fired, aborted, caller,
                   io>>

\* Mutant: delete_group erases the entry but leaves the socket open.
DeleteGroupKeepSocket(c, g) ==
    /\ Idle(c)
    /\ g \in groups
    /\ CancelTimers({g})
    /\ groups' = groups \ {g}
    /\ out' = {}
    /\ UNCHANGED <<nextGroupId, endpoint, generated, sockOpen, nextSeq, issued,
                   sentMsgs, fired, caller, io>>

\* delete_group(g): cancel the timer, close the socket, erase the entry.
\* An unknown id returns false and changes nothing.
DeleteGroup(c, g) ==
    /\ Idle(c)
    /\ g \in groups
    /\ CancelTimers({g})
    /\ sockOpen' = [sockOpen EXCEPT ![g] = FALSE]
    /\ groups' = groups \ {g}
    /\ out' = {}
    /\ UNCHANGED <<nextGroupId, endpoint, generated, nextSeq, issued, sentMsgs,
                   fired, caller, io>>

\* send_to_group(g, msg): look the group up, then one send_to outside the
\* lock.  A send that throws, or a lookup that fails, changes nothing.
SendToGroup(c, g) ==
    /\ Idle(c)
    /\ g \in groups
    /\ sockOpen[g]
    /\ out' = {Raw(g, endpoint[g])}
    /\ UNCHANGED <<groups, nextGroupId, endpoint, generated, sockOpen, nextSeq,
                   issued, sentMsgs, armed, fired, aborted, caller, io>>

\* send_reliable_to_group(g, msg), under the lock: seq = next_seq++ on a
\* uint32_t, and sent_msgs[seq] = msg, which replaces an entry already
\* stored under seq.
SendReliableLock(c, g) ==
    /\ Idle(c)
    /\ g \in groups
    /\ issued[g] < MaxSeq
    /\ sentMsgs' = [sentMsgs EXCEPT ![g] = @ \cup {nextSeq[g]}]
    /\ nextSeq' = [nextSeq EXCEPT ![g] = (@ + 1) % SeqMod]
    /\ issued' = [issued EXCEPT ![g] = @ + 1]
    /\ caller' = [caller EXCEPT ![c] = [pc |-> "send", gid |-> g,
                                        seq |-> nextSeq[g]]]
    /\ out' = {}
    /\ UNCHANGED <<groups, nextGroupId, endpoint, generated, sockOpen, armed,
                   fired, aborted, io>>

\* send_reliable_to_group, after the lock: send [seq][msg], then re-arm the
\* timer.  Both sit in one try block: when send_to throws (closed socket
\* or a send error) the timer is not armed.
SendReliableSend(c) ==
    LET g == caller[c].gid
        s == caller[c].seq
    IN
    /\ caller[c].pc = "send"
    /\ \/ /\ sockOpen[g]
          /\ out' = {Rel(g, endpoint[g], s)}
          /\ ArmTimer(g, c)
       \/ /\ ~sockOpen[g] \/ SendMayFail
          /\ out' = {}
          /\ Release(g, c)
    /\ caller' = [caller EXCEPT ![c] = [pc |-> "idle", gid |-> NoGroup,
                                        seq |-> 0]]
    /\ UNCHANGED <<groups, nextGroupId, endpoint, generated, sockOpen, nextSeq,
                   issued, sentMsgs, fired, io>>

\* handle_ack(g, seq): erase seq from sent_msgs.  The timer is left alone.
\* An unknown group or seq changes nothing.
HandleAck(c, g, s) ==
    /\ AckIngest
    /\ Idle(c)
    /\ g \in groups
    /\ s \in sentMsgs[g]
    /\ sentMsgs' = [sentMsgs EXCEPT ![g] = @ \ {s}]
    /\ out' = {}
    /\ UNCHANGED <<groups, nextGroupId, endpoint, generated, sockOpen, nextSeq,
                   issued, armed, fired, aborted, caller, io>>

\* stop(): cancel every timer, close every socket, clear the table.
Stop(c) ==
    /\ Idle(c)
    /\ groups # {}
    /\ CancelTimers(groups)
    /\ sockOpen' = [g \in GroupIds |-> IF g \in groups THEN FALSE
                                                       ELSE sockOpen[g]]
    /\ groups' = {}
    /\ out' = {}
    /\ UNCHANGED <<nextGroupId, endpoint, generated, nextSeq, issued, sentMsgs,
                   fired, caller, io>>

-----------------------------------------------------------------------------
(* The retransmission timer and the io_service thread                     *)

\* 500 ms pass and the pending wait of g's timer expires.
Expire(g) ==
    /\ armed[g]
    /\ armed' = [armed EXCEPT ![g] = FALSE]
    /\ fired' = [fired EXCEPT ![g] = @ + 1]
    /\ out' = {}
    /\ UNCHANGED <<groups, nextGroupId, endpoint, generated, sockOpen, nextSeq,
                   issued, sentMsgs, aborted, caller, io>>

\* Mutant: a completion is dequeued whether or not one is queued.
HandleRetransmitUnqueued(g) ==
    /\ io.pc = "idle"
    /\ \E cause \in {"expired", "aborted"} :
          /\ IF cause = "expired"
             THEN /\ fired' = [fired EXCEPT ![g] = @ - 1]
                  /\ UNCHANGED aborted
             ELSE /\ aborted' = [aborted EXCEPT ![g] = @ - 1]
                  /\ UNCHANGED fired
          /\ io' = IF g \in groups /\ sentMsgs[g] # {}
                   THEN [pc |-> "burst", gid |-> g, snap |-> sentMsgs[g],
                         cause |-> cause]
                   ELSE io
    /\ out' = {}
    /\ UNCHANGED <<groups, nextGroupId, endpoint, generated, sockOpen, nextSeq,
                   issued, sentMsgs, armed, caller>>

\* The io_service runs one queued completion of g: handle_retransmit(g)
\* under the lock.  It returns when the group is gone or sent_msgs is
\* empty; otherwise it copies sent_msgs and goes on outside the lock.
HandleRetransmit(g) ==
    /\ io.pc = "idle"
    /\ \E cause \in {"expired", "aborted"} :
          /\ IF cause = "expired"
             THEN /\ fired[g] > 0
                  /\ fired' = [fired EXCEPT ![g] = @ - 1]
                  /\ UNCHANGED aborted
             ELSE /\ aborted[g] > 0
                  /\ aborted' = [aborted EXCEPT ![g] = @ - 1]
                  /\ UNCHANGED fired
          /\ io' = IF g \in groups /\ sentMsgs[g] # {}
                   THEN [pc |-> "burst", gid |-> g, snap |-> sentMsgs[g],
                         cause |-> cause]
                   ELSE io
    /\ out' = {}
    /\ UNCHANGED <<groups, nextGroupId, endpoint, generated, sockOpen, nextSeq,
                   issued, sentMsgs, armed, caller>>

\* Mutant: the burst is sent but the timer is not re-armed.
RetransmitBurstNoRearm ==
    LET g == io.gid IN
    /\ io.pc = "burst"
    /\ \E failed \in (IF SendMayFail THEN SUBSET io.snap ELSE {{}}) :
          out' = IF sockOpen[g]
                 THEN {Rel(g, endpoint[g], s) : s \in io.snap \ failed}
                 ELSE {}
    /\ Release(g, "io")
    /\ io' = [pc |-> "idle", gid |-> NoGroup, snap |-> {}, cause |-> "none"]
    /\ UNCHANGED <<groups, nextGroupId, endpoint, generated, sockOpen, nextSeq,
                   issued, sentMsgs, fired, caller>>

\* handle_retransmit outside the lock: send every snapshotted message (each
\* send_to has its own try block), then re-arm the timer unconditionally.
RetransmitBurst ==
    LET g == io.gid IN
    /\ io.pc = "burst"
    /\ \E failed \in (IF SendMayFail THEN SUBSET io.snap ELSE {{}}) :
          out' = IF sockOpen[g]
                 THEN {Rel(g, endpoint[g], s) : s \in io.snap \ failed}
                 ELSE {}
    /\ ArmTimer(g, "io")
    /\ io' = [pc |-> "idle", gid |-> NoGroup, snap |-> {}, cause |-> "none"]
    /\ UNCHANGED <<groups, nextGroupId, endpoint, generated, sockOpen, nextSeq,
                   issued, sentMsgs, fired, caller>>

-----------------------------------------------------------------------------

ApiStep ==
    \E c \in Callers :
        \/ CreateGroup(c)
        \/ SendReliableSend(c)
        \/ Stop(c)
        \/ \E g \in GroupIds :
              \/ DeleteGroup(c, g)
              \/ SendToGroup(c, g)
              \/ SendReliableLock(c, g)
              \/ \E s \in Seqs : HandleAck(c, g, s)

IoStep ==
    \/ RetransmitBurst
    \/ \E g \in GroupIds : Expire(g) \/ HandleRetransmit(g)

Next == ApiStep \/ IoStep

Spec == Init /\ [][Next]_vars

\* The io_service thread keeps running queued handlers, a pending wait
\* expires once its 500 ms are up, and a caller that has left the lock in
\* send_reliable_to_group finishes the call.  Callers are not obliged to
\* call anything.  The io_service dispatches ready handlers in FIFO order,
\* so a queued completion of g is not overtaken forever by those of other
\* groups: strong fairness, since the io thread's bursts disable it in
\* between.
Fairness ==
    /\ WF_vars(RetransmitBurst)
    /\ \A g \in GroupIds : WF_vars(Expire(g)) /\ SF_vars(HandleRetransmit(g))
    /\ \A c \in Callers : WF_vars(SendReliableSend(c))

FairSpec == Spec /\ Fairness


-----------------------------------------------------------------------------
(* Properties                                                              *)

Pending(g, s) == g \in groups /\ s \in sentMsgs[g]

RetransmitPaced ==
    io.pc = "burst" => io.cause = "expired"

\* The manager implements the group service of ReliableGroupChannel:
\* sent_msgs are its unacknowledged messages and the sequence numbers it
\* has handed out are the first issued[g] values of next_seq.  Among what
\* this asks of every interleaving of callers and the io thread:
\*  - spec 8.4: no datagram of g goes out once delete_group(g) or stop()
\*    removed g, although threads that looked g up before still hold its
\*    shared_ptr and send on it (send_reliable_to_group's second half, a
\*    burst): only the closed socket stops them;
\*  - spec 4.1 and 10.3: a reliable send takes a sequence number its group
\*    never used; next_seq is a uint32_t that seq = next_seq++ lets wrap,
\*    after which a new message replaces an unacknowledged one;
\*  - a frame carries its group's endpoint and a number it handed out.
RGC == INSTANCE ReliableGroupChannel
         WITH unacked <- sentMsgs,
              used <- [g \in GroupIds |->
                          {i % SeqMod : i \in 0..(issued[g] - 1)}]

ImplementsChannel == RGC!Spec

\* Spec 4.4, with the liveness of the group service: moreover, a message
\* that stays unacknowledged in a live group is sent again and again.  It
\* rests on send_reliable_to_group arming the timer and on
\* handle_retransmit re-arming it after every burst.
ImplementsFairChannel == RGC!FairSpec

=============================================================================
