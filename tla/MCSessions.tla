----------------------------- MODULE MCSessions -----------------------------
(***************************************************************************)
(* Sessions: two threads of applications on one mounted filesystem, and    *)
(* the command line.                                                       *)
(***************************************************************************)
EXTENDS Sessions, TLC

CONSTANTS c1, c2, t1, t2, t3

MCOwner == (t1 :> c1) @@ (t2 :> c1) @@ (t3 :> c2)

MCOps ==
    (t1 :> {"create", "open_w", "open_trunc"})
      @@ (t2 :> {"open_r", "truncate", "rm"})
      @@ (t3 :> {"put"})

\* Three operations, two with one lost RPC, or one with two lost RPCs, of
\* which the second can be its second try.
Budget == calls + fails <= 3
=============================================================================
