---------------------------- MODULE GroupDirectory ----------------------------
(***************************************************************************)
(* What a group-membership fan-out service promises, with no threads and  *)
(* no lock: a directory of groups, each a set of connections, changed by  *)
(* atomic calls, and a send that takes effect at one instant.  A send of  *)
(* message m to group g by thread t fixes its recipients at that instant  *)
(* (the members of g then) as obligations of t; each obligation is later  *)
(* either delivered or dropped (the recipient has no connection any more).*)
(* Nothing is ever delivered to a connection that was not a member when   *)
(* the send took effect, and an id is never handed out twice.             *)
(***************************************************************************)
EXTENDS Naturals, FiniteSets

CONSTANTS
    Convs,      \* connection ids
    Threads,    \* calling threads
    Msgs,       \* messages
    GroupIds    \* the ids create may hand out

VARIABLES
    groups,     \* the live groups
    members,    \* members[g]: the connections of group g
    issued,     \* every id create has handed out
    pending,    \* recipients fixed by a send and not yet served
    sent        \* what has been handed to a connection

vars == <<groups, members, issued, pending, sent>>

Delivery == [thread : Threads, conv : Convs, gid : GroupIds, msg : Msgs]

TypeOK ==
    /\ groups \subseteq issued
    /\ issued \subseteq GroupIds
    /\ members \in [GroupIds -> SUBSET Convs]
    /\ pending \subseteq Delivery
    /\ sent \subseteq [conv : Convs, gid : GroupIds, msg : Msgs]

Init ==
    /\ groups = {}
    /\ members = [g \in GroupIds |-> {}]
    /\ issued = {}
    /\ pending = {}
    /\ sent = {}

Create(g) ==
    /\ g \notin issued
    /\ groups' = groups \cup {g}
    /\ issued' = issued \cup {g}
    /\ members' = [members EXCEPT ![g] = {}]
    /\ UNCHANGED <<pending, sent>>

\* A call on an unknown group changes nothing.
Add(g, v) ==
    /\ g \in groups
    /\ members' = [members EXCEPT ![g] = @ \cup {v}]
    /\ UNCHANGED <<groups, issued, pending, sent>>

Remove(g, v) ==
    /\ g \in groups
    /\ members' = [members EXCEPT ![g] = @ \ {v}]
    /\ UNCHANGED <<groups, issued, pending, sent>>

Delete(g) ==
    /\ groups' = groups \ {g}
    /\ members' = [members EXCEPT ![g] = {}]
    /\ UNCHANGED <<issued, pending, sent>>

\* The instant a send of thread t takes effect; t has nothing pending.
Send(t, g, m) ==
    /\ \A p \in pending : p.thread # t
    /\ g \in groups
    /\ pending' = {[thread |-> t, conv |-> v, gid |-> g, msg |-> m] :
                   v \in members[g]} \cup pending
    /\ UNCHANGED <<groups, members, issued, sent>>

Deliver(p) ==
    /\ p \in pending
    /\ pending' = pending \ {p}
    /\ sent' = sent \cup {[conv |-> p.conv, gid |-> p.gid, msg |-> p.msg]}
    /\ UNCHANGED <<groups, members, issued>>

\* Obligations given up: the connection is gone, or the send gave up.
Drop(P) ==
    /\ P # {}
    /\ P \subseteq pending
    /\ pending' = pending \ P
    /\ UNCHANGED <<groups, members, issued, sent>>

Next ==
    \/ \E g \in GroupIds : Create(g) \/ Delete(g)
    \/ \E g \in GroupIds, v \in Convs : Add(g, v) \/ Remove(g, v)
    \/ \E t \in Threads, g \in GroupIds, m \in Msgs : Send(t, g, m)
    \/ \E p \in pending : Deliver(p)
    \/ \E P \in SUBSET pending : Drop(P)

Spec == Init /\ [][Next]_vars

=============================================================================
