----------------------------- MODULE MCNameNode -----------------------------
(***************************************************************************)
(* NameNode on a small tree:  "/",  "/a"  and  "/a/b".                     *)
(***************************************************************************)
EXTENDS SerialNameNode, TLC

CONSTANTS a, b

MCPath == {Root, a, b}

MCParent == (Root :> Root) @@ (a :> Root) @@ (b :> a)

Symmetry == Permutations(Node) \cup Permutations(Client)
=============================================================================
