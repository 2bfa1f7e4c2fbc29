----------------------------- MODULE MCReplica ------------------------------
(***************************************************************************)
(* Replica on a small tree:  "/",  "/a"  and  "/a/b".                      *)
(***************************************************************************)
EXTENDS Replica, TLC

CONSTANTS a, b

MCPath == {Root, a, b}

MCParent == (Root :> Root) @@ (a :> Root) @@ (b :> a)

Symmetry == Permutations(Node)
=============================================================================
