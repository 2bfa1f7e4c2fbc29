\* Two namenodes.
SPECIFICATION Spec
CONSTANTS
    Root = Root
    a = a
    b = b
    Path <- MCPath
    Parent <- MCParent
    Block = {blk}
    NotFound = NotFound
    Node = {n1, n2}
    None = None
    MaxLog = 3
SYMMETRY Symmetry
INVARIANTS TypeOK ReplayConverges ReplaySafe
