\* Three nodes, two namenodes, one process that stops, one snapshot.
SPECIFICATION FairSpec
CONSTANTS
    Setups <- ServeSetups
    NoLeader = NoLeader
PROPERTY NamenodesServe
\* the group comes to rest
CHECK_DEADLOCK FALSE
