--------------------------- MODULE SerialNameNode ---------------------------
(***************************************************************************)
(* NameNode as one caller sees it.  With a single client and a leader that *)
(* keeps its place, the checks of the handlers are as good as checks made  *)
(* when the entry is applied, and the group implements Namespace.  With    *)
(* two clients, or after a leader change, it does not.                     *)
(***************************************************************************)
EXTENDS NameNode

\* The replica that has applied most.
Latest ==
    CHOOSE n \in Node : \A m \in Node : applied[m] <= applied[n]

KindOf(ino) ==
    IF ~ ino.valid THEN "none"
    ELSE IF ino.is_directory THEN "directory" ELSE "file"

NS == INSTANCE Namespace WITH
        kind <- [p \in Path |-> KindOf(get_inode(db[Latest], p))],
        data <- [p \in Path |-> get_inode(db[Latest], p).sub \cap Block]

\* Every entry applied for a lone caller is an operation of Namespace (or,
\* for update_lock, none): what the prepare functions checked on the leader
\* still holds when on_apply writes, on whichever replica writes first.
ImplementsNamespace == NS!NSSpec

\* A file name listed in a directory is the name of a file that exists:
\* put_ok adds the name only while put holds the file valid, and rm takes
\* the name out in the batch that invalidates the file.
ListedFilesExist ==
    \A n \in Node : \A p \in Path :
        db[n][p] # NotFound =>
            \A q \in Path : <<q, FALSE>> \in db[n][p].sub =>
                KindOf(get_inode(db[n], q)) = "file"
=============================================================================
