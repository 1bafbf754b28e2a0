\* Two threads calling the unicast manager on one group of up to two convs,
\* with two distinct messages: a delete, remove or add of one thread lands
\* between the copy and the sends of the other, an add reaches the group
\* before it exists and after it is deleted, and connections open and close
\* mid-loop.  A second group would only add calls independent of these.
CONSTANTS
    Convs = {1, 2}
    Callers = {c1, c2}
    Msgs = {m1, m2}
    MaxGroups = 1
    IdMod = 2
SPECIFICATION FairSpec
INVARIANT TypeOK
PROPERTY ImplementsGroupDirectory
 
