---------------------------- MODULE MulticastSystem ----------------------------
(***************************************************************************)
(* The deployed UDP multicast path: the test server                        *)
(* (src/udp_multicast_test_server/multicast_server.cpp) on kcp_svr::server *)
(* and its UdpMulticastManager, and the test client                        *)
(* (src/udp_multicast_test_client/multicast_client.cpp) with its           *)
(* kcp_multicast_client, joined by a KCP session and an IP multicast       *)
(* network that loses and duplicates datagrams.                            *)
(*                                                                         *)
(* Server.  main() creates one group and exits when create_group returns  *)
(* 0; then io_service.run() runs, on the one thread, the KCP event        *)
(* callback (the MULTICAST:addr:port:gid announcement on eConnect, the     *)
(* echo: forwarding on eRcvMsg) and the retransmission handlers, so the    *)
(* manager's caller and its io_service thread never run at the same time.  *)
(*                                                                         *)
(* Client.  main() connects, then loops: send "echo:" plus MsgSize-5       *)
(* characters, sleep, update().  update() delivers the announcement, on    *)
(* which the callback creates the multicast client once, sets its message *)
(* callback, joins the announced group and starts it.  On eDisconnect the  *)
(* loop ends and main() stops the multicast client.                       *)
(*                                                                         *)
(* The KCP session (kcp_client, connection_manager: not in this source     *)
(* tree) is a reliable ordered channel: its handshake is one step and its  *)
(* messages are counted.  The server's ACK-less socket never reads the     *)
(* client's ACKs, so they matter only as loopback into the client.         *)
(***************************************************************************)
EXTENDS Naturals, FiniteSets, Sequences

CONSTANTS
    Endpoints, NoEndpoint,  \* multicast endpoints create_group may pick
    MaxSeq,                 \* bound on reliable sends
    SeqMod,                 \* values of next_seq
    SendMayFail,            \* socket.send_to may throw
    Fds,                    \* descriptors the client's socket() may return
    Workers,                \* receive threads (start() runs once here)
    MaxQueue,               \* client socket receive buffer, in datagrams
    ReliableModes,          \* the values of server argv[5] == "1" to explore
    MsgSizes,               \* the client's argv[4] values (g_msg_size)
    MaxEchoes,              \* bound on echo messages the client sends
    Main                    \* the server's io_service thread, as a caller

ASSUME /\ ReliableModes \subseteq BOOLEAN
       /\ MsgSizes \subseteq Nat
       /\ MaxEchoes \in Nat /\ MaxEchoes <= MaxSeq

Gid == 1     \* the one group main() creates: next_group_id_ starts at 1

VARIABLES
    \* UdpMulticastManager
    groups, nextGroupId, endpoint, generated, sockOpen, nextSeq, issued,
    sentMsgs, armed, fired, aborted, caller, io, out,
    \* kcp_multicast_client
    joined, fdOpen, fdGroup, queue, cbSet, running, threadRunning,
    receiveThread, worker, app, stopped, event, delivered, acks, arrivals,
    \* the programs and the networks
    srvPc,       \* server main(): "init", "run" (io_service.run), "exit"
    connected,   \* the KCP session is up (both sides saw eConnect)
    annPending,  \* the MULTICAST announcement is in flight to the client
    upEchoes,    \* echo messages in flight to the server
    echoesLeft,  \* echo messages the client main loop may still send
    cliPc,       \* client main() and its event callback
    mcCreated,   \* g_multicast_client is non-null
    msgSize,     \* g_msg_size
    reliable,    \* g_reliable_multicast
    wire         \* multicast datagrams in flight to the client's group

mvars == <<groups, nextGroupId, endpoint, generated, sockOpen, nextSeq, issued,
           sentMsgs, armed, fired, aborted, caller, io, out>>
cvars == <<joined, fdOpen, fdGroup, queue, cbSet, running, threadRunning,
           receiveThread, worker, app, stopped, event, delivered, acks,
           arrivals>>
gvars == <<srvPc, connected, annPending, upEchoes, echoesLeft, cliPc,
           mcCreated, msgSize, reliable, wire>>
vars == <<mvars, cvars, gvars>>

M == INSTANCE UdpMulticastManager
        WITH MaxGroups <- 1, Callers <- {Main}, AckIngest <- FALSE

C == INSTANCE MulticastClient
        WITH GroupIds <- {Gid}, MaxSeq <- SeqMod, MaxArrivals <- 0,
             PortOf <- [g \in {Gid} |-> 30000]

CliPcs == {"connecting", "loop", "setcb", "join", "start", "stopping",
           "stopwait", "done"}

TypeOK ==
    /\ M!TypeOK
    /\ C!TypeOK
    /\ srvPc \in {"init", "run", "exit"}
    /\ connected \in BOOLEAN
    /\ annPending \in BOOLEAN
    /\ upEchoes \in 0..MaxEchoes
    /\ echoesLeft \in 0..MaxEchoes
    /\ cliPc \in CliPcs
    /\ mcCreated \in BOOLEAN
    /\ msgSize \in MsgSizes
    /\ reliable \in ReliableModes
    /\ wire \subseteq C!Datagram

-----------------------------------------------------------------------------
(* Wire format                                                             *)

\* generate_random_message: "echo:" followed by size-5 characters; the
\* server forwards msg->substr(5).
EchoLen == IF msgSize > 5 THEN msgSize - 5 ELSE 0

\* server::send_msg_to_multicast_group and send_reliable_msg_to_multicast_group
\* pass a message on only when it is non-null and non-empty.
WrapperForwards == EchoLen > 0

\* Mutant: the header carries next_seq, read after the increment.
ToWireNextSeq(d) ==
    [gid |-> d.gid, seq |-> d.seq + 1,
     kind |-> IF d.kind = "rel" THEN "rel"
              ELSE IF EchoLen >= 4 THEN "raw" ELSE "short"]

ToWire(d) ==
    [gid |-> d.gid, seq |-> d.seq,
     kind |-> IF d.kind = "rel" THEN "rel"
              ELSE IF EchoLen >= 4 THEN "raw" ELSE "short"]

-----------------------------------------------------------------------------

Init ==
    /\ M!Init
    /\ C!Init
    /\ srvPc = "init"
    /\ connected = FALSE
    /\ annPending = FALSE
    /\ upEchoes = 0
    /\ echoesLeft = MaxEchoes
    /\ cliPc = "connecting"
    /\ mcCreated = FALSE
    /\ msgSize \in MsgSizes
    /\ reliable \in ReliableModes
    /\ wire = {}

\* A step of the manager puts what it sent on the wire.
Emit == wire' = wire \cup {ToWire(d) : d \in out'}

SrvIdle == caller[Main].pc = "idle" /\ io.pc = "idle"

-----------------------------------------------------------------------------
(* Server                                                                  *)

\* server::create_multicast_group forwards to the manager's create_group.
CreateMulticastGroup == M!CreateGroup(Main)

\* main(): create_multicast_group(addr, port); a 0 result ends main().
SrvCreate ==
    /\ srvPc = "init"
    /\ CreateMulticastGroup
    /\ srvPc' = IF Gid \in groups' THEN "run" ELSE "exit"
    /\ UNCHANGED <<cvars, connected, annPending, upEchoes, echoesLeft, cliPc,
                   mcCreated, msgSize, reliable, wire>>

\* The KCP handshake; the server's eConnect handler sends the announcement
\* (g_multicast_group_id is non-zero once main() reached run()).
Connect ==
    /\ srvPc = "run"
    /\ SrvIdle
    /\ cliPc = "connecting"
    /\ connected' = TRUE
    /\ annPending' = TRUE
    /\ cliPc' = "loop"
    /\ UNCHANGED <<mvars, cvars, srvPc, upEchoes, echoesLeft, mcCreated,
                   msgSize, reliable, wire>>

\* main() returns 1 when connect_async fails or no eConnect comes within
\* the 5 s wait.
ConnectTimeout ==
    /\ cliPc = "connecting"
    /\ cliPc' = "done"
    /\ UNCHANGED <<mvars, cvars, srvPc, connected, annPending, upEchoes,
                   echoesLeft, mcCreated, msgSize, reliable, wire>>

\* eRcvMsg with "echo:<payload>": forward the payload to the group, reliably
\* or not; server::send_*_msg_to_multicast_group drops an empty payload.
SrvEcho ==
    /\ srvPc = "run"
    /\ SrvIdle
    /\ upEchoes > 0
    /\ upEchoes' = upEchoes - 1
    /\ \/ ~WrapperForwards /\ UNCHANGED <<mvars, wire>>
       \/ WrapperForwards /\ reliable /\ M!SendReliableLock(Main, Gid)
          /\ UNCHANGED wire
       \/ WrapperForwards /\ ~reliable /\ M!SendToGroup(Main, Gid) /\ Emit
    /\ UNCHANGED <<cvars, srvPc, connected, annPending, echoesLeft, cliPc,
                   mcCreated, msgSize, reliable>>

\* A step of the manager alone.
MgrStep(A) ==
    /\ A
    /\ Emit
    /\ UNCHANGED <<cvars, srvPc, connected, annPending, upEchoes, echoesLeft,
                   cliPc, mcCreated, msgSize, reliable>>

\* The rest of send_reliable_to_group, right after the lookup on the same
\* thread: send the frame, re-arm the timer.
SrvSendReliable == MgrStep(M!SendReliableSend(Main))

\* The 500 ms wait expires.
SrvExpire == MgrStep(M!Expire(Gid))

\* handle_retransmit runs when the thread is between handlers.
SrvRetransmit == caller[Main].pc = "idle" /\ MgrStep(M!HandleRetransmit(Gid))

SrvBurst == caller[Main].pc = "idle" /\ MgrStep(M!RetransmitBurst)

-----------------------------------------------------------------------------
(* Client main thread                                                      *)

\* The main loop: send an echo message.
CliEcho ==
    /\ cliPc = "loop"
    /\ echoesLeft > 0
    /\ echoesLeft' = echoesLeft - 1
    /\ upEchoes' = upEchoes + 1
    /\ UNCHANGED <<mvars, cvars, srvPc, connected, annPending, cliPc,
                   mcCreated, msgSize, reliable, wire>>

\* update() delivers the announcement; the callback parses it and, the
\* first time, creates the multicast client.
CliAnnounce ==
    /\ cliPc = "loop"
    /\ annPending
    /\ annPending' = FALSE
    /\ mcCreated' = TRUE
    /\ cliPc' = IF mcCreated THEN "loop" ELSE "setcb"
    /\ UNCHANGED <<mvars, cvars, srvPc, connected, upEchoes, echoesLeft,
                   msgSize, reliable, wire>>

\* set_message_callback(multicast_message_callback).
CliSetCallback ==
    /\ cliPc = "setcb"
    /\ C!SetMessageCallback
    /\ cliPc' = "join"
    /\ UNCHANGED <<mvars, srvPc, connected, annPending, upEchoes, echoesLeft,
                   mcCreated, msgSize, reliable, wire>>

\* join_group(addr, port, gid) == 0 goes on to start(); a failed join
\* (socket, bind or membership error) prints and returns to the loop.
CliJoin ==
    /\ cliPc = "join"
    /\ \/ C!JoinGroup(Gid) /\ cliPc' = "start"
       \/ UNCHANGED cvars /\ cliPc' = "loop"
    /\ UNCHANGED <<mvars, srvPc, connected, annPending, upEchoes, echoesLeft,
                   mcCreated, msgSize, reliable, wire>>

\* start(); a failed pthread_create resets running_ and changes nothing.
CliStart ==
    /\ cliPc = "start"
    /\ \/ \E w \in Workers : C!Start(w)
       \/ UNCHANGED cvars
    /\ cliPc' = "loop"
    /\ UNCHANGED <<mvars, srvPc, connected, annPending, upEchoes, echoesLeft,
                   mcCreated, msgSize, reliable, wire>>

\* eDisconnect (the session timed out): g_running = false ends the loop.
Disconnect ==
    /\ connected
    /\ cliPc = "loop"
    /\ connected' = FALSE
    /\ cliPc' = "stopping"
    /\ UNCHANGED <<mvars, cvars, srvPc, annPending, upEchoes, echoesLeft,
                   mcCreated, msgSize, reliable, wire>>

\* After client.stop(): g_multicast_client->stop() if it exists; stop()
\* returns at once when the client is not running.
CliStop ==
    /\ \/ cliPc = "stopping" /\ mcCreated /\ running /\ C!StopBegin
          /\ cliPc' = "stopwait"
       \/ cliPc = "stopping" /\ ~(mcCreated /\ running) /\ UNCHANGED cvars
          /\ cliPc' = "done"
       \/ cliPc = "stopwait" /\ (C!StopCheck \/ C!StopJoin)
          /\ UNCHANGED cliPc
       \/ cliPc = "stopwait" /\ C!StopLeave /\ cliPc' = "done"
    /\ UNCHANGED <<mvars, srvPc, connected, annPending, upEchoes, echoesLeft,
                   mcCreated, msgSize, reliable, wire>>

-----------------------------------------------------------------------------
(* Receive thread and network                                              *)

Receive(w) ==
    /\ C!WorkerStep(w)
    /\ UNCHANGED <<mvars, gvars>>

\* The network hands a datagram to every socket joined to the group; it
\* may keep a copy (duplication) or drop it instead.
Deliver(d) ==
    /\ d \in wire
    /\ queue' = C!Multicast(queue, d.gid, d)
    /\ \E dup \in BOOLEAN : wire' = IF dup THEN wire ELSE wire \ {d}
    /\ UNCHANGED <<mvars, joined, fdOpen, fdGroup, cbSet, running,
                   threadRunning, receiveThread, worker, app, stopped, event,
                   delivered, acks, arrivals, srvPc, connected, annPending,
                   upEchoes, echoesLeft, cliPc, mcCreated, msgSize, reliable>>

Lose(d) ==
    /\ d \in wire
    /\ wire' = wire \ {d}
    /\ UNCHANGED <<mvars, cvars, srvPc, connected, annPending, upEchoes,
                   echoesLeft, cliPc, mcCreated, msgSize, reliable>>

-----------------------------------------------------------------------------

Next ==
    \/ SrvCreate \/ Connect \/ ConnectTimeout \/ SrvEcho
    \/ SrvSendReliable \/ SrvExpire \/ SrvRetransmit \/ SrvBurst
    \/ CliEcho \/ CliAnnounce \/ CliSetCallback \/ CliJoin \/ CliStart
    \/ Disconnect \/ CliStop
    \/ \E w \in Workers : Receive(w)
    \/ \E d \in wire : Deliver(d) \/ Lose(d)

Spec == Init /\ [][Next]_vars

\* The server's io_service thread runs every ready handler, in FIFO order
\* (strong fairness for handle_retransmit, which the echo handler disables
\* in between); a pending wait expires; the client's main thread keeps
\* calling update() and finishes stop(); each receive thread is scheduled.
\* The peers are not obliged to connect, send echoes or disconnect, and
\* the network to deliver anything: what it must deliver is stated as the
\* hypothesis FairLossLink of the properties that need it.
Fairness ==
    /\ WF_vars(SrvEcho) /\ WF_vars(SrvSendReliable) /\ WF_vars(SrvExpire)
    /\ SF_vars(SrvRetransmit) /\ WF_vars(SrvBurst)
    /\ WF_vars(CliAnnounce \/ CliSetCallback \/ CliJoin \/ CliStart \/ CliStop)
    /\ \A w \in Workers : WF_vars(Receive(w))

FairSpec == Spec /\ Fairness

-----------------------------------------------------------------------------
(* Properties                                                              *)

\* The receiver is up: joined to the announced group and running.
Listening == Gid \in C!Joined /\ running /\ app = "idle"

\* Fair-loss link: a reliable frame that is on the wire again and again
\* lands in the receive buffer again and again (neither the network nor a
\* full buffer drops every copy).
FairLossLink ==
    \A d \in {x \in C!Datagram : x.kind = "rel"} :
        []<>(d \in wire) => []<>(\E fd \in Fds : d \in C!QueuedIn(fd))

\* Spec 10.1 and scenario 3: a reliable echo the server has sent reaches
\* the test client's callback at least once while the client listens,
\* across losses, duplicates, a full receive buffer and echoes sent before
\* the client joined; it rests on the retransmission timer being re-armed
\* and on the announcement being acted on.
EchoDeliveredAtLeastOnce ==
    FairLossLink =>
    \A s \in M!Seqs :
        (s \in sentMsgs[Gid] /\ Listening)
            ~> ([gid |-> Gid, seq |-> s] \in delivered \/ ~running)

\* Spec scenario 2: once the receiver has ACKed seq s, the server drops s
\* from its unacknowledged set and stops retransmitting it.  Nothing in
\* the server reads the ACKs the client sends to the group.
AckedEventuallyForgotten ==
    \A s \in M!Seqs :
        ([gid |-> Gid, seq |-> s] \in acks) ~> (s \notin sentMsgs[Gid])

ServerImplementsFairChannel == M!ImplementsFairChannel

=============================================================================
