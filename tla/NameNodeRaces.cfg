\* Two clients, two replicas, leader changes.
SPECIFICATION FairSpec
CONSTANTS
    Root = Root
    a = a
    b = b
    Path <- MCPath
    Parent <- MCParent
    Block = {blk}
    NotFound = NotFound
    Node = {n1, n2}
    Client = {c1, c2}
    NoLeader = NoLeader
    Stable = FALSE
    PutChecked = TRUE
    MaxLog = 3
INVARIANTS TypeOK SubProvenance NoAssertionFailure
PROPERTIES EveryCallAnswered OnlyRmInvalidates
