---------------------------- MODULE MulticastClient ----------------------------
(***************************************************************************)
(* asio_kcp::kcp_multicast_client (src/client_lib/kcp_multicast_client.cpp)*)
(*                                                                         *)
(* The client-side receiver: join/leave a group on its own UDP socket, a   *)
(* receive thread that polls every joined socket, parses each datagram,    *)
(* calls the application callback and answers reliable frames with an ACK. *)
(*                                                                         *)
(* Threads.  One application thread calls the public API (join_group,      *)
(* leave_group, set_message_callback, start, stop); each takes mutex_.     *)
(* start() spawns a receive thread with pthread_create; stop() clears      *)
(* running_, joins the thread if thread_running_ is set, then leaves every *)
(* group.  Workers are the threads start() may spawn over a run.  A worker  *)
(* copies {group_id -> fd} under the lock, polls outside it, then for each *)
(* readable entry does one recvfrom, the callback, and send_ack, which      *)
(* locks again and looks the group up afresh.                              *)
(*                                                                         *)
(* Sockets.  socket() returns the lowest free descriptor, so a descriptor  *)
(* closed by leave_group is handed to the next join_group.  A socket joined *)
(* to a group's endpoint queues the datagrams sent to it, its own ACKs     *)
(* included (IP_MULTICAST_LOOP is left on), up to its buffer size.         *)
(*                                                                         *)
(* Data.  A datagram is tagged with the group it was sent to; "rel" is a   *)
(* [seq][payload] frame, "raw" an unreliable payload of at least 4 bytes    *)
(* whose first 4 bytes read as seq, "short" one under 4 bytes, "ack" an    *)
(* ACK:<seq> frame.                                                        *)
(***************************************************************************)
EXTENDS Naturals, Sequences, FiniteSets

CONSTANTS
    GroupIds,     \* the group ids the server may announce
    Fds,          \* the descriptors socket() may return (a set of naturals)
    Workers,      \* the receive threads start() may spawn
    MaxSeq,       \* sequence numbers 0..MaxSeq-1
    MaxQueue,     \* datagrams a socket's receive buffer holds
    MaxArrivals,  \* bound on datagrams the network delivers
    PortOf        \* the port announced for each group

NoGroup  == 0
NoFd     == 0
NoWorker == "none"

ASSUME /\ GroupIds \subseteq Nat \ {0}
       /\ Fds \subseteq Nat \ {0}
       /\ NoWorker \notin Workers

Seqs  == 0..(MaxSeq - 1)
Kinds == {"rel", "raw", "short", "ack"}
Datagram == [gid : GroupIds, kind : Kinds, seq : Seqs]

\* What the callback is handed: the group id the receive thread attributes
\* the datagram to, the datagram, and whether the first 4 bytes were
\* stripped as a sequence header.
Delivery == [cbGid : GroupIds, d : Datagram, stripped : BOOLEAN]
NoDelivery == [cbGid |-> NoGroup, d |-> [gid |-> NoGroup, kind |-> "rel",
               seq |-> 0], stripped |-> FALSE]

WorkerPcs == {"unstarted", "spawned", "top", "polled", "ack", "done"}

VARIABLES
    joined,        \* groups_: group id -> socket_fd (NoFd when not joined)
    fdOpen,        \* the descriptors currently open
    fdGroup,       \* the group whose endpoint an open descriptor joined
    queue,         \* each descriptor's receive buffer
    cbSet,         \* msg_callback_ is set
    running,       \* running_
    threadRunning, \* thread_running_
    receiveThread, \* receive_thread_: the worker last spawned
    worker,        \* each worker's position and locals
    app,           \* the application thread's position inside stop()
    stopped,       \* stop() has returned since the last start()
    event,         \* the callback invocation of the last step
    delivered,     \* history: (group, seq) of reliable frames delivered
    acks,          \* history: ACKs sent, as (group, seq)
    arrivals       \* datagrams delivered by the network so far

vars == <<joined, fdOpen, fdGroup, queue, cbSet, running, threadRunning,
          receiveThread, worker, app, stopped, event, delivered, acks,
          arrivals>>

Entry == [gid : GroupIds, fd : Fds]

TypeOK ==
    /\ joined \in [GroupIds -> Fds \cup {NoFd}]
    /\ fdOpen \subseteq Fds
    /\ fdGroup \in [Fds -> GroupIds \cup {NoGroup}]
    /\ queue \in [Fds -> Seq(Datagram)]
    /\ \A fd \in Fds : Len(queue[fd]) <= MaxQueue
    /\ cbSet \in BOOLEAN
    /\ running \in BOOLEAN
    /\ threadRunning \in BOOLEAN
    /\ receiveThread \in Workers \cup {NoWorker}
    /\ worker \in [Workers -> [pc : WorkerPcs, list : SUBSET Entry,
                               ackGid : GroupIds \cup {NoGroup}, ackSeq : Seqs]]
    /\ app \in {"idle", "check", "joining", "leaving"}
    /\ stopped \in BOOLEAN
    /\ event \in Delivery \cup {NoDelivery}
    /\ delivered \subseteq [gid : GroupIds, seq : Seqs]
    /\ acks \subseteq [gid : GroupIds, seq : Seqs]
    /\ arrivals \in 0..MaxArrivals

-----------------------------------------------------------------------------
(* Helpers                                                                 *)

Joined == {g \in GroupIds : joined[g] # NoFd}

\* socket(): the lowest descriptor not in use.
LowestFreeFd == CHOOSE fd \in Fds \ fdOpen : \A f \in Fds \ fdOpen : fd <= f

\* The open descriptors whose socket joined group g's endpoint.
Members(g) == {fd \in fdOpen : fdGroup[fd] = g}

\* The sockets a datagram sent to group g's endpoint reaches.  join_group
\* binds each socket to INADDR_ANY and its group's port, and leaves
\* IP_MULTICAST_ALL on: once the host is a member of g (some socket joined
\* it), every socket bound to g's port receives g's datagrams, whichever
\* group it joined.
Receivers(g) ==
    IF Members(g) = {} THEN {}
    ELSE {fd \in fdOpen : PortOf[fdGroup[fd]] = PortOf[g]}

\* Mutant: the receive buffer has no limit.
MulticastUnbounded(q, g, d) ==
    [fd \in Fds |-> IF fd \in Receivers(g) THEN Append(q[fd], d) ELSE q[fd]]

\* A datagram sent to group g's endpoint lands in every receiving socket
\* whose buffer has room; the others drop it.
Multicast(q, g, d) ==
    [fd \in Fds |-> IF fd \in Receivers(g) /\ Len(q[fd]) < MaxQueue
                    THEN Append(q[fd], d) ELSE q[fd]]

\* The datagrams waiting in descriptor fd's receive buffer.
QueuedIn(fd) == {queue[fd][i] : i \in 1..Len(queue[fd])}

\* close() of a set of descriptors: their buffers go with them.
CloseFds(S) ==
    /\ fdOpen' = fdOpen \ S
    /\ fdGroup' = [fd \in Fds |-> IF fd \in S THEN NoGroup ELSE fdGroup[fd]]
    /\ queue' = [fd \in Fds |-> IF fd \in S THEN <<>> ELSE queue[fd]]

IdleWorker == [pc |-> "top", list |-> {}, ackGid |-> NoGroup, ackSeq |-> 0]

-----------------------------------------------------------------------------

Init ==
    /\ joined = [g \in GroupIds |-> NoFd]
    /\ fdOpen = {}
    /\ fdGroup = [fd \in Fds |-> NoGroup]
    /\ queue = [fd \in Fds |-> <<>>]
    /\ cbSet = FALSE
    /\ running = FALSE
    /\ threadRunning = FALSE
    /\ receiveThread = NoWorker
    /\ worker = [w \in Workers |-> [IdleWorker EXCEPT !.pc = "unstarted"]]
    /\ app = "idle"
    /\ stopped = FALSE
    /\ event = NoDelivery
    /\ delivered = {}
    /\ acks = {}
    /\ arrivals = 0

-----------------------------------------------------------------------------
(* Public API, on the application thread                                   *)

\* join_group(addr, port, g): a second join of g returns -1.  The socket
\* setup errors (-2..-6) close the descriptor and change nothing.
JoinGroup(g) ==
    /\ app = "idle"
    /\ joined[g] = NoFd
    /\ fdOpen # Fds
    /\ LET fd == LowestFreeFd IN
       /\ joined' = [joined EXCEPT ![g] = fd]
       /\ fdOpen' = fdOpen \cup {fd}
       /\ fdGroup' = [fdGroup EXCEPT ![fd] = g]
    /\ event' = NoDelivery
    /\ UNCHANGED <<queue, cbSet, running, threadRunning, receiveThread, worker,
                   app, stopped, delivered, acks, arrivals>>

\* leave_group(g): IP_DROP_MEMBERSHIP, close, erase.  Unknown g returns -1.
LeaveGroup(g) ==
    /\ app = "idle"
    /\ joined[g] # NoFd
    /\ CloseFds({joined[g]})
    /\ joined' = [joined EXCEPT ![g] = NoFd]
    /\ event' = NoDelivery
    /\ UNCHANGED <<cbSet, running, threadRunning, receiveThread, worker, app,
                   stopped, delivered, acks, arrivals>>

\* set_message_callback(cb).
SetMessageCallback ==
    /\ app = "idle"
    /\ ~cbSet
    /\ cbSet' = TRUE
    /\ event' = NoDelivery
    /\ UNCHANGED <<joined, fdOpen, fdGroup, queue, running, threadRunning,
                   receiveThread, worker, app, stopped, delivered, acks,
                   arrivals>>

\* start(): fails while running_; otherwise sets running_ and spawns a new
\* receive thread, recorded in receive_thread_.
Start(w) ==
    /\ app = "idle"
    /\ ~running
    /\ worker[w].pc = "unstarted"
    /\ running' = TRUE
    /\ receiveThread' = w
    /\ worker' = [worker EXCEPT ![w].pc = "spawned"]
    /\ stopped' = FALSE
    /\ event' = NoDelivery
    /\ UNCHANGED <<joined, fdOpen, fdGroup, queue, cbSet, threadRunning, app,
                   delivered, acks, arrivals>>

\* Mutant: stop() leaves running_ set.
StopBeginKeepRunning ==
    /\ app = "idle"
    /\ running
    /\ app' = "check"
    /\ event' = NoDelivery
    /\ UNCHANGED <<joined, fdOpen, fdGroup, queue, cbSet, running,
                   threadRunning, receiveThread, worker, stopped, delivered,
                   acks, arrivals>>

\* stop(), under the lock: return if not running, else clear running_.
StopBegin ==
    /\ app = "idle"
    /\ running
    /\ running' = FALSE
    /\ app' = "check"
    /\ event' = NoDelivery
    /\ UNCHANGED <<joined, fdOpen, fdGroup, queue, cbSet, threadRunning,
                   receiveThread, worker, stopped, delivered, acks, arrivals>>

\* stop(): pthread_join(receive_thread_) only if thread_running_ is set.
StopCheck ==
    /\ app = "check"
    /\ app' = IF threadRunning THEN "joining" ELSE "leaving"
    /\ event' = NoDelivery
    /\ UNCHANGED <<joined, fdOpen, fdGroup, queue, cbSet, running,
                   threadRunning, receiveThread, worker, stopped, delivered,
                   acks, arrivals>>

\* pthread_join returns once receive_thread_ has exited.
StopJoin ==
    /\ app = "joining"
    /\ worker[receiveThread].pc = "done"
    /\ app' = "leaving"
    /\ event' = NoDelivery
    /\ UNCHANGED <<joined, fdOpen, fdGroup, queue, cbSet, running,
                   threadRunning, receiveThread, worker, stopped, delivered,
                   acks, arrivals>>

\* stop(), under the lock again: drop membership and close every socket.
StopLeave ==
    /\ app = "leaving"
    /\ CloseFds({joined[g] : g \in Joined})
    /\ joined' = [g \in GroupIds |-> NoFd]
    /\ app' = "idle"
    /\ stopped' = TRUE
    /\ event' = NoDelivery
    /\ UNCHANGED <<cbSet, running, threadRunning, receiveThread, worker,
                   delivered, acks, arrivals>>

-----------------------------------------------------------------------------
(* The receive thread: receive_thread_func                                 *)

\* The thread begins: thread_running_ = true.
WorkerBegin(w) ==
    /\ worker[w].pc = "spawned"
    /\ threadRunning' = TRUE
    /\ worker' = [worker EXCEPT ![w].pc = "top"]
    /\ event' = NoDelivery
    /\ UNCHANGED <<joined, fdOpen, fdGroup, queue, cbSet, running,
                   receiveThread, app, stopped, delivered, acks, arrivals>>

WorkerExit(w) ==
    /\ worker[w].pc = "top"
    /\ ~running
    /\ threadRunning' = FALSE
    /\ worker' = [worker EXCEPT ![w].pc = "done"]
    /\ event' = NoDelivery
    /\ UNCHANGED <<joined, fdOpen, fdGroup, queue, cbSet, running,
                   receiveThread, app, stopped, delivered, acks, arrivals>>

\* One loop iteration up to poll: copy {group_id -> fd} under the lock,
\* then poll outside it.  An empty copy sleeps and a poll that times out
\* goes round again; both change nothing.  The entries whose descriptor
\* has data are kept for the recvfrom loop.
WorkerPoll(w) ==
    /\ worker[w].pc = "top"
    /\ running
    /\ LET snap  == {[gid |-> g, fd |-> joined[g]] : g \in Joined}
           ready == {e \in snap : queue[e.fd] # <<>>}
       IN /\ ready # {}
          /\ worker' = [worker EXCEPT ![w].pc = "polled", ![w].list = ready]
    /\ event' = NoDelivery
    /\ UNCHANGED <<joined, fdOpen, fdGroup, queue, cbSet, running,
                   threadRunning, receiveThread, app, stopped, delivered,
                   acks, arrivals>>

\* handle_multicast_message: msg_callback_ is copied under the lock and
\* called when it is set.
HandleMulticastMessage(g, d, stripped) ==
    IF cbSet THEN [cbGid |-> g, d |-> d, stripped |-> stripped]
    ELSE NoDelivery

\* handle_reliable_message: looks the group up under the lock, does nothing
\* with it (last_seq is never read or written), and hands the payload on.
HandleReliableMessage(g, d) == HandleMulticastMessage(g, d, TRUE)

\* One readable entry, in group-id order: recvfrom on the copied
\* descriptor, whatever socket it now names.  EAGAIN or EBADF skip it.
\* An ACK: frame is dropped; 4 bytes or more are taken as [seq][payload],
\* handed to the callback with the header stripped, and answered with an
\* ACK; anything shorter goes to the callback whole.
WorkerRecv(w) ==
    /\ worker[w].pc = "polled"
    /\ worker[w].list # {}
    /\ LET e    == CHOOSE x \in worker[w].list :
                      \A y \in worker[w].list : x.gid <= y.gid
           rest == worker[w].list \ {e}
           next == IF rest = {} THEN "top" ELSE "polled"
       IN IF e.fd \in fdOpen /\ queue[e.fd] # <<>>
          THEN LET d      == Head(queue[e.fd])
                   framed == d.kind \in {"rel", "raw"}
               IN /\ queue' = [queue EXCEPT ![e.fd] = Tail(@)]
                  /\ event' = CASE d.kind = "ack" -> NoDelivery
                                 [] framed -> HandleReliableMessage(e.gid, d)
                                 [] OTHER  -> HandleMulticastMessage(e.gid, d,
                                                                     FALSE)
                  /\ delivered' = IF framed /\ cbSet
                                  THEN delivered \cup {[gid |-> e.gid,
                                                        seq |-> d.seq]}
                                  ELSE delivered
                  /\ worker' = [worker EXCEPT ![w] =
                                  IF framed
                                  THEN [pc |-> "ack", list |-> rest,
                                        ackGid |-> e.gid, ackSeq |-> d.seq]
                                  ELSE [@ EXCEPT !.pc = next, !.list = rest]]
          ELSE /\ worker' = [worker EXCEPT ![w].pc = next, ![w].list = rest]
               /\ event' = NoDelivery
               /\ UNCHANGED <<queue, delivered>>
    /\ UNCHANGED <<joined, fdOpen, fdGroup, cbSet, running, threadRunning,
                   receiveThread, app, stopped, acks, arrivals>>

\* send_ack(group_id, seq): under the lock, look the group up afresh; if
\* it is still joined, send ACK:<seq> to its endpoint through its socket.
\* The frame loops back to every local member of that endpoint.
WorkerAck(w) ==
    LET g == worker[w].ackGid
        s == worker[w].ackSeq
    IN
    /\ worker[w].pc = "ack"
    /\ IF joined[g] # NoFd
       THEN /\ acks' = acks \cup {[gid |-> g, seq |-> s]}
            /\ queue' = Multicast(queue, g, [gid |-> g, kind |-> "ack",
                                             seq |-> s])
       ELSE UNCHANGED <<acks, queue>>
    /\ worker' = [worker EXCEPT ![w].pc =
                     IF worker[w].list = {} THEN "top" ELSE "polled"]
    /\ event' = NoDelivery
    /\ UNCHANGED <<joined, fdOpen, fdGroup, cbSet, running, threadRunning,
                   receiveThread, app, stopped, delivered, arrivals>>

-----------------------------------------------------------------------------
(* The network: a datagram sent to group g's endpoint                      *)

Arrive(g, k, s) ==
    /\ arrivals < MaxArrivals
    /\ arrivals' = arrivals + 1
    /\ queue' = Multicast(queue, g, [gid |-> g, kind |-> k, seq |-> s])
    /\ event' = NoDelivery
    /\ UNCHANGED <<joined, fdOpen, fdGroup, cbSet, running, threadRunning,
                   receiveThread, worker, app, stopped, delivered, acks>>

-----------------------------------------------------------------------------

AppStep ==
    \/ SetMessageCallback \/ StopBegin \/ StopCheck \/ StopJoin \/ StopLeave
    \/ \E w \in Workers : Start(w)
    \/ \E g \in GroupIds : JoinGroup(g) \/ LeaveGroup(g)

WorkerStep(w) ==
    WorkerBegin(w) \/ WorkerExit(w) \/ WorkerPoll(w) \/ WorkerRecv(w)
    \/ WorkerAck(w)

Next ==
    \/ AppStep
    \/ \E w \in Workers : WorkerStep(w)
    \/ \E g \in GroupIds, k \in Kinds, s \in Seqs : Arrive(g, k, s)

Spec == Init /\ [][Next]_vars

\* Each spawned thread is scheduled, and a stop() under way finishes its
\* steps.  The application and the network are not obliged to act.
Fairness ==
    /\ \A w \in Workers : WF_vars(WorkerStep(w))
    /\ WF_vars(StopCheck) /\ WF_vars(StopJoin) /\ WF_vars(StopLeave)

FairSpec == Spec /\ Fairness


-----------------------------------------------------------------------------
(* Properties                                                              *)

\* Spec 4.5: the callback receives (group_id, payload) for the group the
\* datagram was sent to.  The receive thread reads from descriptors it
\* copied before poll; leave_group may close one and join_group reuse it
\* for another group in between.  And a socket bound to a port that two
\* joined groups share receives the datagrams of both.
AttributedToSourceGroup ==
    event # NoDelivery => event.cbGid = event.d.gid

\* Spec 8.1 and scenario 5: with duplicate suppression, a reliable frame is
\* handed to the callback once, however often it arrives (retransmission).
\* The code keeps last_seq but never reads or updates it.
DeliverOnce ==
    [][event'.d.kind = "rel" =>
          [gid |-> event'.cbGid, seq |-> event'.d.seq] \notin delivered]_vars

\* Spec 4.3 and scenario 1: an unreliable payload reaches the callback as
\* the identical byte string, and draws no ACK.  The receive thread treats
\* every datagram of 4 bytes or more as a reliable frame.
RawDeliveredWhole ==
    event.d.kind = "raw" => ~event.stripped

\* Spec 5: stop() is synchronous: when it returns, no receive thread it
\* started is still alive.  stop() joins only if thread_running_ is set,
\* which the new thread sets only once it has been scheduled.
NoWorkerAfterStop ==
    stopped => \A w \in Workers : worker[w].pc \in {"unstarted", "done"}

StopReturns ==
    (app # "idle") ~> (app = "idle")

=============================================================================
