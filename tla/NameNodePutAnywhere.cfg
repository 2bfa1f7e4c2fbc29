\* A caller that puts without looking the directory up.
SPECIFICATION Spec
CONSTANTS
    Root = Root
    a = a
    b = b
    Path <- MCPath
    Parent <- MCParent
    Block = {blk}
    NotFound = NotFound
    Node = {n1}
    Client = {c1}
    NoLeader = NoLeader
    Stable = TRUE
    PutChecked = FALSE
    MaxLog = 2
INVARIANT NoAssertionFailure
CHECK_DEADLOCK FALSE
