\* One client, two replicas, a leader that keeps its place.
SPECIFICATION Spec
CONSTANTS
    Root = Root
    a = a
    b = b
    Path <- MCPath
    Parent <- MCParent
    Block = {blk}
    NotFound = NotFound
    Node = {n1, n2}
    Client = {c1}
    NoLeader = NoLeader
    Stable = TRUE
    PutChecked = FALSE
    MaxLog = 5
INVARIANT ListedFilesExist
PROPERTY ImplementsNamespace
\* the log bound ends every behaviour
CHECK_DEADLOCK FALSE
