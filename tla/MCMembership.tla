---------------------------- MODULE MCMembership ----------------------------
(***************************************************************************)
(* The groups that Membership is checked on.                               *)
(***************************************************************************)
EXTENDS Membership

\* Three nodes, two namenodes, lists that are applied late and a leader
\* that loses its place.
LateLists ==
    [nodes |-> 1 .. 3, expected_nn |-> 2, prompt |-> FALSE,
     saves |-> 0, stops |-> 0, stepdowns |-> 1, changes |-> 4]

\* Four nodes, three namenodes, one process that stops.
OneStop ==
    [nodes |-> 1 .. 4, expected_nn |-> 3, prompt |-> TRUE,
     saves |-> 0, stops |-> 1, stepdowns |-> 0, changes |-> 3]

SafetySetups == {LateLists, OneStop}

\* Three nodes, two namenodes, one process that stops, one snapshot.
OneStopOneSave ==
    [nodes |-> 1 .. 3, expected_nn |-> 2, prompt |-> TRUE,
     saves |-> 1, stops |-> 1, stepdowns |-> 0, changes |-> 6]

ServeSetups == {OneStopOneSave}
=============================================================================
