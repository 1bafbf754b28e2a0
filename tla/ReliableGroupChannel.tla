------------------------- MODULE ReliableGroupChannel -------------------------
(***************************************************************************)
(* What the server's multicast group service promises (spec sections 4    *)
(* and 10), with no threads, locks or timers.  A group, once created, has *)
(* one endpoint for good; a best-effort send puts one datagram on it; a   *)
(* reliable send numbers the message with a sequence number the group has *)
(* never used and keeps it unacknowledged until an ACK removes it.        *)
(* Datagrams of a group go out only while the group is live, only for     *)
(* sequence numbers it has handed out, and a message that stays           *)
(* unacknowledged in a live group is sent again and again.                *)
(***************************************************************************)
EXTENDS Naturals

CONSTANTS GroupIds, Endpoints, NoEndpoint, Seqs

VARIABLES
    groups,     \* the live groups
    endpoint,   \* each group's endpoint; NoEndpoint before its creation
    unacked,    \* unacked[g]: the reliable messages g still retransmits
    used,       \* used[g]: the sequence numbers g has handed out
    out         \* the datagrams the last step put on the wire

vars == <<groups, endpoint, unacked, used, out>>

Raw(g, e)    == [gid |-> g, ep |-> e, kind |-> "raw", seq |-> 0]
Rel(g, e, s) == [gid |-> g, ep |-> e, kind |-> "rel", seq |-> s]

Init ==
    /\ groups = {}
    /\ endpoint = [g \in GroupIds |-> NoEndpoint]
    /\ unacked = [g \in GroupIds |-> {}]
    /\ used = [g \in GroupIds |-> {}]
    /\ out = {}

\* A step of the service that puts nothing on the wire and changes none of
\* what it promises.
Quiet ==
    /\ out' = {}
    /\ UNCHANGED <<groups, endpoint, unacked, used>>

\* An id is never handed out twice.
Create(g, e) ==
    /\ endpoint[g] = NoEndpoint
    /\ e # NoEndpoint
    /\ groups' = groups \cup {g}
    /\ endpoint' = [endpoint EXCEPT ![g] = e]
    /\ out' = {}
    /\ UNCHANGED <<unacked, used>>

Delete(S) ==
    /\ S # {}
    /\ S \subseteq groups
    /\ groups' = groups \ S
    /\ out' = {}
    /\ UNCHANGED <<endpoint, unacked, used>>

Post(g) ==
    /\ g \in groups
    /\ out' = {Raw(g, endpoint[g])}
    /\ UNCHANGED <<groups, endpoint, unacked, used>>

Store(g, s) ==
    /\ g \in groups
    /\ s \notin used[g]
    /\ used' = [used EXCEPT ![g] = @ \cup {s}]
    /\ unacked' = [unacked EXCEPT ![g] = @ \cup {s}]
    /\ out' = {}
    /\ UNCHANGED <<groups, endpoint>>

\* Frames of g's messages, acknowledged ones included (a send or a burst
\* that read them before the ACK).
Emit(g, S) ==
    /\ g \in groups
    /\ S # {}
    /\ S \subseteq used[g]
    /\ out' = {Rel(g, endpoint[g], s) : s \in S}
    /\ UNCHANGED <<groups, endpoint, unacked, used>>

Ack(g, s) ==
    /\ g \in groups
    /\ s \in unacked[g]
    /\ unacked' = [unacked EXCEPT ![g] = @ \ {s}]
    /\ out' = {}
    /\ UNCHANGED <<groups, endpoint, used>>

Next ==
    \/ Quiet
    \/ \E g \in GroupIds, e \in Endpoints : Create(g, e)
    \/ \E S \in SUBSET groups : Delete(S)
    \/ \E g \in groups :
        \/ Post(g)
        \/ \E s \in Seqs : Store(g, s) \/ Ack(g, s)
        \/ \E S \in SUBSET used[g] : Emit(g, S)

Spec == Init /\ [][Next]_vars

\* A frame of an unacknowledged message of a live group goes out.
Resend(g, s) ==
    /\ s \in unacked[g]
    /\ \E S \in SUBSET used[g] : s \in S /\ Emit(g, S)

FairSpec == Spec /\ \A g \in GroupIds, s \in Seqs : WF_vars(Resend(g, s))

=============================================================================
