--------------------------- MODULE MulticastManager ---------------------------
(***************************************************************************)
(* kcp_svr::MulticastManager (src/server_lib/multicast_manager.cpp): the  *)
(* fan-out of a message to the KCP connections of a group.  A table      *)
(* group_members_ guarded by mutex_; every call but send_to_group runs    *)
(* whole under the lock and is one step.  send_to_group copies the member *)
(* set under the lock, then, unlocked, locks the weak_ptr to the          *)
(* ConnectionManager and sends to each copied conv, in std::set order,    *)
(* whose connection it still finds: one step per phase and per member.    *)
(* The ConnectionManager (not under src/) is the environment: the set of  *)
(* convs with a live connection, and whether the weak_ptr is empty, set   *)
(* or expired.                                                            *)
(***************************************************************************)
EXTENDS Naturals, FiniteSets

CONSTANTS
    Convs,      \* kcp_conv_t values (numbers: std::set iterates in order)
    Callers,    \* threads calling the manager
    Msgs,       \* message contents
    MaxGroups,  \* bound on create_group calls
    IdMod       \* the values of next_group_id_ (2^32 for uint32_t)

ASSUME Convs \subseteq Nat /\ MaxGroups \in Nat /\ IdMod \in Nat \ {0}

\* next_group_id_ starts at 1 and ++ wraps it modulo IdMod: the ids handed
\* out by the first n create_group calls.
IdsOf(n) == {k % IdMod : k \in 1..n}
GroupIds == IdsOf(MaxGroups)

VARIABLES
    groups,         \* the keys of group_members_
    groupMembers,   \* groupMembers[g]: group_members_[g]
    nextGroupId,    \* next_group_id_, before its reduction modulo IdMod
    connMgr,        \* connection_manager_: "empty", "set" or "expired"
    conns,          \* convs get_connection_by_conv finds
    caller,         \* each thread's progress in send_to_group
    sent            \* the conn->send_msg calls made

vars == <<groups, groupMembers, nextGroupId, connMgr, conns, caller, sent>>

Idle == [pc |-> "idle", gid |-> 0, msg |-> CHOOSE m \in Msgs : TRUE,
         members |-> {}]

TypeOK ==
    /\ nextGroupId \in 1..(MaxGroups + 1)
    /\ groups \subseteq IdsOf(nextGroupId - 1)
    /\ groupMembers \in [GroupIds -> SUBSET Convs]
    /\ \A g \in GroupIds \ groups : groupMembers[g] = {}
    /\ connMgr \in {"empty", "set", "expired"}
    /\ conns \subseteq Convs
    /\ caller \in [Callers -> [pc : {"idle", "copied", "loop"},
                               gid : GroupIds \cup {0}, msg : Msgs,
                               members : SUBSET Convs]]
    /\ sent \subseteq [conv : Convs, gid : GroupIds, msg : Msgs]

\* The constructor: next_group_id_(1), an empty table and weak_ptr.
Init ==
    /\ groups = {}
    /\ groupMembers = [g \in GroupIds |-> {}]
    /\ nextGroupId = 1
    /\ connMgr = "empty"
    /\ conns = {}
    /\ caller = [c \in Callers |-> Idle]
    /\ sent = {}

-----------------------------------------------------------------------------
(* Calls that run whole under mutex_                                       *)

\* Mutant: group_id = ++next_group_id_.
CreateGroupPreIncrement(c) ==
    /\ caller[c].pc = "idle"
    /\ nextGroupId <= MaxGroups
    /\ groups' = groups \cup {(nextGroupId + 1) % IdMod}
    /\ groupMembers' = [groupMembers EXCEPT ![(nextGroupId + 1) % IdMod] = {}]
    /\ nextGroupId' = nextGroupId + 1
    /\ UNCHANGED <<connMgr, conns, caller, sent>>

\* group_id = next_group_id_++; group_members_[group_id] = {}, which
\* empties a live group when the counter has wrapped onto its id.
CreateGroup(c) ==
    /\ caller[c].pc = "idle"
    /\ nextGroupId <= MaxGroups
    /\ groups' = groups \cup {nextGroupId % IdMod}
    /\ groupMembers' = [groupMembers EXCEPT ![nextGroupId % IdMod] = {}]
    /\ nextGroupId' = nextGroupId + 1
    /\ UNCHANGED <<connMgr, conns, caller, sent>>

\* Mutant: group_members_[group_id].insert(conv), with no find: operator[]
\* creates the entry.
AddMemberToGroupUnchecked(c, g, v) ==
    /\ caller[c].pc = "idle"
    /\ groups' = groups \cup {g}
    /\ groupMembers' = [groupMembers EXCEPT ![g] = @ \cup {v}]
    /\ UNCHANGED <<nextGroupId, connMgr, conns, caller, sent>>

\* false for an unknown group; otherwise insert.
AddMemberToGroup(c, g, v) ==
    /\ caller[c].pc = "idle"
    /\ g \in groups
    /\ groupMembers' = [groupMembers EXCEPT ![g] = @ \cup {v}]
    /\ UNCHANGED <<groups, nextGroupId, connMgr, conns, caller, sent>>

\* false for an unknown group or a conv that was not a member.
RemoveMemberFromGroup(c, g, v) ==
    /\ caller[c].pc = "idle"
    /\ g \in groups
    /\ v \in groupMembers[g]
    /\ groupMembers' = [groupMembers EXCEPT ![g] = @ \ {v}]
    /\ UNCHANGED <<groups, nextGroupId, connMgr, conns, caller, sent>>

\* group_members_.erase(group_id); false when there was nothing to erase.
DeleteGroup(c, g) ==
    /\ caller[c].pc = "idle"
    /\ g \in groups
    /\ groups' = groups \ {g}
    /\ groupMembers' = [groupMembers EXCEPT ![g] = {}]
    /\ UNCHANGED <<nextGroupId, connMgr, conns, caller, sent>>

-----------------------------------------------------------------------------
(* send_to_group                                                           *)

\* Under the lock: return if the group is unknown, else copy its members.
SendToGroup(c, g, m) ==
    /\ caller[c].pc = "idle"
    /\ g \in groups
    /\ caller' = [caller EXCEPT ![c] = [pc |-> "copied", gid |-> g,
                                         msg |-> m,
                                         members |-> groupMembers[g]]]
    /\ UNCHANGED <<groups, groupMembers, nextGroupId, connMgr, conns, sent>>

\* connection_manager_.lock(); return when it yields nothing.
SendLockConnMgr(c) ==
    /\ caller[c].pc = "copied"
    /\ caller' = [caller EXCEPT ![c] = IF connMgr = "set"
                                        THEN [@ EXCEPT !.pc = "loop"]
                                        ELSE Idle]
    /\ UNCHANGED <<groups, groupMembers, nextGroupId, connMgr, conns, sent>>

SendMember(c) ==
    LET v == CHOOSE x \in caller[c].members :
                 \A y \in caller[c].members : x <= y
        r == caller[c]
    IN  /\ r.pc = "loop"
        /\ r.members # {}
        /\ sent' = IF v \in conns
                   THEN sent \cup {[conv |-> v, gid |-> r.gid, msg |-> r.msg]}
                   ELSE sent
        /\ caller' = [caller EXCEPT ![c].members = @ \ {v}]
        /\ UNCHANGED <<groups, groupMembers, nextGroupId, connMgr, conns>>

\* The loop is over; send_to_group returns.
SendDone(c) ==
    /\ caller[c].pc = "loop"
    /\ caller[c].members = {}
    /\ caller' = [caller EXCEPT ![c] = Idle]
    /\ UNCHANGED <<groups, groupMembers, nextGroupId, connMgr, conns, sent>>

\* set_connection_manager: assigns the weak_ptr, without the lock.
SetConnectionManager ==
    /\ connMgr' = "set"
    /\ UNCHANGED <<groups, groupMembers, nextGroupId, conns, caller, sent>>

-----------------------------------------------------------------------------
(* Environment: the ConnectionManager                                      *)

\* The last shared_ptr to the ConnectionManager goes away.
ExpireConnMgr ==
    /\ connMgr = "set"
    /\ connMgr' = "expired"
    /\ UNCHANGED <<groups, groupMembers, nextGroupId, conns, caller, sent>>

\* A KCP connection of conv v opens or closes.
ToggleConn(v) ==
    /\ conns' = IF v \in conns THEN conns \ {v} ELSE conns \cup {v}
    /\ UNCHANGED <<groups, groupMembers, nextGroupId, connMgr, caller, sent>>

Next ==
    \/ \E c \in Callers :
        \/ CreateGroup(c)
        \/ \E g \in GroupIds :
            \/ DeleteGroup(c, g)
            \/ \E v \in Convs :
                AddMemberToGroup(c, g, v) \/ RemoveMemberFromGroup(c, g, v)
            \/ \E m \in Msgs : SendToGroup(c, g, m)
        \/ SendLockConnMgr(c) \/ SendMember(c) \/ SendDone(c)
    \/ SetConnectionManager \/ ExpireConnMgr
    \/ \E v \in Convs : ToggleConn(v)

Spec == Init /\ [][Next]_vars

\* Each calling thread keeps running until its call returns.
FairSpec ==
    /\ Spec
    /\ \A c \in Callers :
        WF_vars(SendLockConnMgr(c) \/ SendMember(c) \/ SendDone(c))

-----------------------------------------------------------------------------
(* Properties                                                              *)

\* The member set copied under the lock is what a send promises: each send
\* takes effect at the copy, reaches only convs that were members then, and
\* serves each of them once (or drops it); an add or remove on an unknown
\* group changes nothing and ids are never handed out twice, which a wrap
\* of next_group_id_ onto a live id breaks.
GD == INSTANCE GroupDirectory
        WITH Threads <- Callers,
             members <- groupMembers,
             issued <- IdsOf(nextGroupId - 1),
             pending <- UNION {{[thread |-> c, conv |-> v,
                                 gid |-> caller[c].gid, msg |-> caller[c].msg] :
                                v \in caller[c].members} : c \in Callers}

ImplementsGroupDirectory == GD!Spec

=============================================================================
