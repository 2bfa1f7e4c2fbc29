----------------------------- MODULE Namespace -----------------------------
(***************************************************************************)
(* What the namenode group promises a caller who has the file system to    *)
(* itself: a map from paths to directories and files, changed by one       *)
(* operation at a time.  There is no log, no replica and no check that is  *)
(* separate from the write it guards.                                      *)
(***************************************************************************)
CONSTANTS Path, Root, Parent, Block

VARIABLES
    kind,   \* kind[p] \in {"none", "file", "directory"}
    data    \* data[p]: the blocks of file p

nsVars == <<kind, data>>

Exists(p) == p = Root \/ kind[p] # "none"

NSInit ==
    /\ kind = [p \in Path |-> IF p = Root THEN "directory" ELSE "none"]
    /\ data = [p \in Path |-> {}]

Become(p, k, d) ==
    /\ kind' = [kind EXCEPT ![p] = k]
    /\ data' = [data EXCEPT ![p] = d]

\* A directory appears where nothing was, in a parent that exists.
MakeDirectory(p) ==
    Exists(Parent[p]) /\ ~ Exists(p) /\ Become(p, "directory", {})

\* A file appears, or stays as it is; a directory is never turned into one.
CreateFile(p) ==
    kind[p] # "directory" /\ Become(p, "file", data[p])

\* Only a file gets contents, and gets them as a whole.
SetContents(p, d) ==
    kind[p] = "file" /\ Become(p, "file", d)

\* What is removed takes its contents with it.
Remove(p) ==
    Exists(p) /\ Become(p, "none", {})

NSNext ==
    \E p \in Path :
        \/ MakeDirectory(p)
        \/ CreateFile(p)
        \/ \E d \in SUBSET Block : SetContents(p, d)
        \/ Remove(p)

NSSpec == NSInit /\ [][NSNext]_nsVars
=============================================================================
