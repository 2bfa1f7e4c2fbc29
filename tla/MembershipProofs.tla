-------------------------- MODULE MembershipProofs --------------------------
(***************************************************************************)
(* Proofs about Membership, for any number of nodes, namenodes, lists,     *)
(* snapshots and elections.                                                *)
(***************************************************************************)
EXTENDS Membership, FiniteSetTheorems, WellFoundedInduction, TLAPS

-----------------------------------------------------------------------------
(* The first nodes of a list of nodes.                                     *)

\* A set of numbers that is not empty has a least element.
LEMMA Least ==
    ASSUME NEW S \in SUBSET Nat, S # {}
    PROVE  \E m \in S : \A s \in S : m <= s
<1>1. PICK m \in S : \A s \in S : ~ (<<s, m>> \in OpToRel(<, Nat))
  BY NatLessThanWellFounded, WFMin
<1>2. \A s \in S : ~ (s < m) BY <1>1, Zenon DEF OpToRel
<1>3. \A s \in S : m <= s BY <1>2
<1> QED BY <1>3, Zenon

\* A finite set of numbers that is not empty has a greatest element: the one
\* with fewest elements that are not below it.
LEMMA Greatest ==
    ASSUME NEW S \in SUBSET Nat, S # {}, IsFiniteSet(S)
    PROVE  \E m \in S : \A s \in S : s <= m
<1> DEFINE From(m) == {s \in S : m <= s}
           Sizes == {Cardinality(From(m)) : m \in S}
<1>1. ASSUME NEW m \in S PROVE IsFiniteSet(From(m)) /\ Cardinality(From(m)) \in Nat
  <2>1. From(m) \in SUBSET S OBVIOUS
  <2> QED BY <2>1, FS_Subset, FS_CardinalityType
<1>2. Sizes \in SUBSET Nat /\ Sizes # {} BY <1>1, Zenon
<1>3. PICK z \in Sizes : \A y \in Sizes : z <= y BY <1>2, Least, Zenon
<1>4. PICK m \in S : z = Cardinality(From(m)) BY <1>3
<1>5. ASSUME NEW s \in S, m < s PROVE FALSE
  <2>1. From(s) \in SUBSET From(m)
    <3>1. \A x \in S : s <= x => m <= x BY <1>5
    <3> QED BY <3>1, Zenon
  <2>2. m \in From(m) /\ m \notin From(s) BY <1>5
  <2>3. From(m) # From(s) BY <2>2
  <2> HIDE DEF From
  <2>4. Cardinality(From(s)) < Cardinality(From(m))
    BY <1>1, <2>1, <2>3, FS_Subset
  <2>5. Cardinality(From(s)) \in Sizes OBVIOUS
  <2>6. Cardinality(From(m)) <= Cardinality(From(s)) BY <1>3, <1>4, <2>5
  <2> QED BY <1>1, <2>4, <2>6
<1>6. \A s \in S : s <= m BY <1>5
<1> QED BY <1>6

\* The first j elements of a set of numbers.
First(S, j) == {m \in S : Cardinality({i \in S : i < m}) < j}

\* The elements of a finite set below a number are finitely many.
LEMMA BelowFinite ==
    ASSUME NEW S \in SUBSET Nat, IsFiniteSet(S), NEW m
    PROVE  /\ IsFiniteSet({i \in S : i < m})
           /\ Cardinality({i \in S : i < m}) \in Nat
<1>1. {i \in S : i < m} \in SUBSET S OBVIOUS
<1> QED BY <1>1, FS_Subset, FS_CardinalityType

\* The first j are at most j, and j if the set has that many.
LEMMA FirstCounts ==
    ASSUME NEW S \in SUBSET Nat, IsFiniteSet(S), NEW j \in Nat
    PROVE  /\ IsFiniteSet(First(S, j)) /\ Cardinality(First(S, j)) \in 0 .. j
           /\ Cardinality(S) >= j => Cardinality(First(S, j)) = j
<1> DEFINE T == First(S, j)
           Below(m) == {i \in S : i < m}
<1>1. /\ T \in SUBSET S /\ IsFiniteSet(T) /\ Cardinality(T) \in Nat
      /\ \A m \in S : m \in T <=> Cardinality(Below(m)) < j
  <2>1. T \in SUBSET S BY DEF First
  <2>2. \A m \in S : m \in T <=> Cardinality(Below(m)) < j BY DEF First
  <2> QED BY <2>1, <2>2, FS_Subset, FS_CardinalityType
<1>2. \A m \in S : IsFiniteSet(Below(m)) /\ Cardinality(Below(m)) \in Nat
  BY BelowFinite
<1> HIDE DEF T
<1>3. Cardinality(T) <= j
  <2>1. CASE T = {} BY <2>1, FS_EmptySet
  <2>2. CASE T # {}
    <3>1. PICK m \in T : \A s \in T : s <= m BY <1>1, <2>2, Greatest
    <3>2. T \ {m} \in SUBSET Below(m) BY <1>1, <3>1
    <3>3. Cardinality(T \ {m}) <= Cardinality(Below(m)) BY <1>1, <1>2, <3>1, <3>2, FS_Subset, Zenon
    <3>4. Cardinality(T \ {m}) = Cardinality(T) - 1 BY <1>1, <3>1, FS_RemoveElement, Zenon
    <3>5. Cardinality(Below(m)) < j /\ Cardinality(Below(m)) \in Nat BY <1>1, <1>2, <3>1
    <3> QED BY <1>1, <3>3, <3>4, <3>5
  <2> QED BY <2>1, <2>2
<1>4. ASSUME Cardinality(S) >= j PROVE Cardinality(T) >= j
  <2>1. CASE T = S BY <1>4, <2>1
  <2>2. CASE T # S
    <3>1. S \ T \in SUBSET Nat /\ S \ T # {} BY <1>1, <2>2, Zenon
    <3>2. PICK m \in S \ T : \A s \in S \ T : m <= s BY <3>1, Least, Zenon
    <3>3. Below(m) \in SUBSET T
      <4>1. \A s \in S : s < m => s \in T BY <3>2
      <4> QED BY <4>1, Zenon
    <3>4. Cardinality(Below(m)) <= Cardinality(T) BY <1>1, <3>3, FS_Subset
    <3>5. Cardinality(Below(m)) >= j BY <1>1, <1>2, <3>2
    <3> QED BY <1>1, <1>2, <3>2, <3>4, <3>5
  <2> QED BY <2>1, <2>2
<1> QED BY <1>1, <1>3, <1>4 DEF T

\* A union has at most as many elements as its parts together.
LEMMA UnionBound ==
    ASSUME NEW S, NEW T, IsFiniteSet(S), IsFiniteSet(T)
    PROVE  /\ IsFiniteSet(S \cup T)
           /\ Cardinality(S \cup T) <= Cardinality(S) + Cardinality(T)
           /\ S \cap T = {} => Cardinality(S \cup T) = Cardinality(S) + Cardinality(T)
<1>1. /\ Cardinality(S) \in Nat /\ Cardinality(T) \in Nat
      /\ IsFiniteSet(S \cap T) /\ Cardinality(S \cap T) \in Nat
  BY FS_CardinalityType, FS_Intersection, Zenon
<1>2. S \cap T = {} => Cardinality(S \cap T) = 0 BY FS_EmptySet
<1> QED BY <1>1, <1>2, FS_Union

\* The list that on_leader_start makes of the nodes S that it keeps and the
\* nodes U that are up, when k are wanted.
FillOf(U, S, k) == S \cup First(U \ S, k - Cardinality(S))

\* It has at most k nodes, k if there are enough, and some if there are any.
LEMMA FillSize ==
    ASSUME NEW U \in SUBSET Nat, IsFiniteSet(U), NEW S, IsFiniteSet(S),
           NEW k \in Nat, Cardinality(S) <= k
    PROVE  /\ FillOf(U, S, k) \in SUBSET (U \cup S)
           /\ Cardinality(FillOf(U, S, k)) <= k
           /\ Cardinality(U) >= k => Cardinality(FillOf(U, S, k)) = k
           /\ U # {} /\ k > 0 => FillOf(U, S, k) # {}
<1> DEFINE R == U \ S
           j == k - Cardinality(S)
           F == First(R, j)
<1>1. /\ R \in SUBSET Nat /\ IsFiniteSet(R) /\ Cardinality(R) \in Nat
      /\ Cardinality(S) \in Nat /\ j \in Nat /\ Cardinality(U) \in Nat
      /\ Cardinality(R) >= Cardinality(U) - Cardinality(S)
  <2>1. /\ IsFiniteSet(R) /\ Cardinality(R) = Cardinality(U) - Cardinality(U \cap S)
    BY FS_Difference, Zenon
  <2>2. IsFiniteSet(U \cap S) /\ Cardinality(U \cap S) <= Cardinality(S)
    BY FS_Intersection
  <2>3. /\ Cardinality(R) \in Nat /\ Cardinality(S) \in Nat /\ Cardinality(U) \in Nat
        /\ Cardinality(U \cap S) \in Nat
    BY <2>1, <2>2, FS_CardinalityType
  <2>4. R \in SUBSET Nat BY Zenon
  <2> HIDE DEF R
  <2> QED BY <2>1, <2>2, <2>3, <2>4
<1>2. /\ IsFiniteSet(F) /\ Cardinality(F) \in 0 .. j
      /\ Cardinality(R) >= j => Cardinality(F) = j
  BY <1>1, FirstCounts
<1>3. F \in SUBSET R BY DEF First
<1>4. Cardinality(S \cup F) = Cardinality(S) + Cardinality(F)
  BY <1>2, <1>3, UnionBound, Zenon
<1>5. U # {} /\ k > 0 => S \cup F # {}
  <2> SUFFICES ASSUME U # {}, k > 0, S = {} PROVE F # {} OBVIOUS
  <2>1. R = U /\ j = k BY FS_EmptySet
  <2>2. Cardinality(R) > 0 BY <1>1, <2>1, FS_EmptySet
  <2>3. PICK m \in R : \A s \in R : m <= s BY <1>1, <2>1, Least
  <2>4. {i \in R : i < m} = {}
    <3>1. \A i \in R : ~ (i < m) BY <1>1, <2>3
    <3> QED BY <3>1, Zenon
  <2>5. Cardinality({i \in R : i < m}) = 0 BY <2>4, FS_EmptySet
  <2>6. m \in F BY <2>1, <2>3, <2>5 DEF First
  <2> QED BY <2>6
<1>6. FillOf(U, S, k) = S \cup F BY DEF FillOf
<1>7. S \cup F \in SUBSET (U \cup S) BY <1>3, Zenon
<1> HIDE DEF R, F
<1>8. /\ Cardinality(S \cup F) <= k
      /\ Cardinality(U) >= k => Cardinality(S \cup F) = k
  BY <1>1, <1>2, <1>4
<1> QED BY <1>5, <1>6, <1>7, <1>8

\* If at most d nodes are down, a list made from the first k + d nodes is
\* made of the first k + d nodes.
LEMMA FillPlace ==
    ASSUME NEW N \in SUBSET Nat, IsFiniteSet(N), NEW U \in SUBSET N,
           NEW k \in Nat, NEW d \in Nat, Cardinality(N \ U) <= d,
           NEW S \in SUBSET First(N, k + d)
    PROVE  FillOf(U, S, k) \in SUBSET First(N, k + d)
<1>1. S \in SUBSET N /\ IsFiniteSet(S) /\ Cardinality(S) \in Nat
  <2>1. S \in SUBSET N BY Zenon DEF First
  <2> QED BY <2>1, FS_Subset, FS_CardinalityType, Zenon
<1> SUFFICES ASSUME NEW m \in U \ S,
                    Cardinality({i \in U \ S : i < m}) < k - Cardinality(S)
             PROVE  m \in First(N, k + d)
  BY Zenon DEF FillOf, First
<1> DEFINE A == {i \in U \ S : i < m}
           B == {i \in N : i < m}
           D == N \ U
<1>2. /\ IsFiniteSet(A) /\ IsFiniteSet(D) /\ IsFiniteSet(B)
      /\ Cardinality(A) \in Nat /\ Cardinality(D) \in Nat /\ Cardinality(B) \in Nat
  <2>1. A \in SUBSET N /\ B \in SUBSET N /\ D \in SUBSET N BY Zenon
  <2> QED BY <2>1, FS_Subset, FS_CardinalityType
<1>3. /\ IsFiniteSet(A \cup S) /\ Cardinality(A \cup S) \in Nat
      /\ Cardinality(A \cup S) <= Cardinality(A) + Cardinality(S)
  BY <1>1, <1>2, UnionBound, FS_CardinalityType, Zenon
<1>4. /\ IsFiniteSet((A \cup S) \cup D)
      /\ Cardinality((A \cup S) \cup D) \in Nat
      /\ Cardinality((A \cup S) \cup D) <= Cardinality(A \cup S) + Cardinality(D)
  BY <1>2, <1>3, UnionBound, FS_CardinalityType, Zenon
<1>5. B \in SUBSET ((A \cup S) \cup D) OBVIOUS
<1>6. Cardinality(B) <= Cardinality((A \cup S) \cup D) BY <1>4, <1>5, FS_Subset
<1> HIDE DEF A, B, D
<1>7. Cardinality(B) < k + d BY <1>1, <1>2, <1>3, <1>4, <1>6 DEF A, D
<1> QED BY <1>7 DEF B, First

-----------------------------------------------------------------------------
(* Where lists come from.                                                  *)

\* Every list in the group is one of C, and every set of nodes that a thread
\* keeps while it chooses is one of K.
Typed(C, K) ==
    /\ setup \in Setups
    /\ up \subseteq Node
    /\ leader \in up \cup {NoLeader}
    /\ elected \in BOOLEAN
    /\ log \in Seq(C)
    /\ applied \in [Node -> Nat] /\ \A n \in Node : applied[n] <= Len(log)
    /\ saved \in [Node -> [at : Nat, list : C \cup {{}}]]
    /\ \A n \in Node : saved[n].at <= Len(log)
    /\ namenode_list \in [Node -> C \cup {{}}]
    /\ peers \in [Node -> C \cup {{}}]
    /\ thread \in [Node -> [Kind -> [pc : {"off", "watch", "applied", "choose", "fill"},
                                    kept : K]]]
    /\ reset \subseteq Node
    /\ stops \in 0 .. MaxStops
    /\ stepdowns \in 0 .. MaxStepDowns
    /\ saves \in 0 .. MaxSaves

\* on_leader_start makes lists of C from sets of K, a scan of such a list
\* gives a set of K.
Closed(C, K) ==
    /\ {} \in K
    /\ \A L \in C \cup {{}} : \A S \in SUBSET L : S \in K
    /\ \A S \in K : Fill(S) \in C

\* The group and its bounds are chosen once.
LEMMA SetupStays == [Next]_vars => setup' = setup
  BY ZenonT(60) DEF Next, vars, group, on_leader_start, Choose, KeepNamenodes, AddNodes, Apply,
         on_apply, DeleteTimer, NewTimer, Watch, on_nodes_loss, on_snapshot_save,
         on_snapshot_load, Stop, Restart, Elect, StepDown

\* A thread moves to another place and keeps a set of K.
LEMMA ThreadMoves ==
    ASSUME NEW C, NEW K, Typed(C, K), Closed(C, K),
           NEW n \in Node, [Next]_vars,
           \/ on_leader_start(n)
           \/ \E k \in Kind : KeepNamenodes(n, k) \/ on_nodes_loss(n, k)
           \/ DeleteTimer(n) \/ NewTimer(n)
    PROVE  Typed(C, K)'
<1> DEFINE T == [pc : {"off", "watch", "applied", "choose", "fill"}, kept : K]
<1>1. setup' = setup BY SetupStays
<1>2. thread \in [Node -> [Kind -> T]] BY DEF Typed
<1>3. Off \in T /\ [pc |-> "watch", kept |-> {}] \in T BY Zenon DEF Off, Closed
<1>4. ASSUME NEW m \in Node PROVE node_discovery(namenode_list[m]) \in K
  <2>1. namenode_list[m] \in C \cup {{}} BY Zenon DEF Typed
  <2>2. node_discovery(namenode_list[m]) \in SUBSET namenode_list[m] BY DEF node_discovery
  <2> QED BY <2>1, <2>2, Zenon DEF Closed
<1>5. thread' \in [Node -> [Kind -> T]]
  <2>1. CASE on_leader_start(n) BY <1>2, <2>1 DEF on_leader_start, Kind
  <2>2. ASSUME NEW k \in Kind, KeepNamenodes(n, k) PROVE thread' \in [Node -> [Kind -> T]]
    BY <1>2, <1>4, <2>2 DEF KeepNamenodes
  <2>3. ASSUME NEW k \in Kind, on_nodes_loss(n, k) PROVE thread' \in [Node -> [Kind -> T]]
    BY <1>2, <2>3 DEF on_nodes_loss
  <2>4. CASE DeleteTimer(n) BY <1>2, <1>3, <2>4, Zenon DEF DeleteTimer, Kind
  <2>5. CASE NewTimer(n)
    <3>1. \A k \in Kind : thread[n][k] \in T BY <1>2
    <3> QED BY <1>2, <1>3, <2>5, <3>1, Zenon DEF NewTimer, Kind
  <2> QED BY <2>1, <2>2, <2>3, <2>4, <2>5
<1>6. UNCHANGED <<setup, up, leader, log, applied, saved, namenode_list, peers, reset,
                  stops, stepdowns, saves>> /\ elected' \in BOOLEAN
  BY Zenon DEF on_leader_start, KeepNamenodes, on_nodes_loss, DeleteTimer, NewTimer, group, local,
         Typed
<1> HIDE DEF T
<1> QED BY <1>1, <1>5, <1>6, Zenon DEF Typed, T, Node, MaxStops, MaxStepDowns, MaxSaves

\* A list is proposed: it goes into the log, or the last one is to be
\* applied once more.
LEMMA AddNodesTyped ==
    ASSUME NEW C, NEW K, Typed(C, K), Closed(C, K), [Next]_vars,
           NEW n \in Node, NEW k \in Kind, AddNodes(n, k)
    PROVE  Typed(C, K)'
<1> DEFINE T == [pc : {"off", "watch", "applied", "choose", "fill"}, kept : K]
           L == Fill(thread[n][k].kept)
<1>1. setup' = setup BY SetupStays
<1>2. thread \in [Node -> [Kind -> T]] /\ Off \in T BY Zenon DEF Typed, Closed, Off
<1>3. thread' \in [Node -> [Kind -> T]] BY <1>2 DEF AddNodes
<1>4. thread[n][k].kept \in K BY <1>2
<1>5. L \in C BY <1>4, Zenon DEF Closed
<1>6. /\ log' \in Seq(C)
      /\ applied' \in [Node -> Nat] /\ \A m \in Node : applied'[m] <= Len(log')
      /\ saved' \in [Node -> [at : Nat, list : C \cup {{}}]]
      /\ \A m \in Node : saved'[m].at <= Len(log')
  <2>0. /\ log \in Seq(C) /\ Len(log) \in Nat
        /\ applied \in [Node -> Nat] /\ \A m \in Node : applied[m] <= Len(log)
        /\ saved \in [Node -> [at : Nat, list : C \cup {{}}]]
        /\ \A m \in Node : saved[m].at <= Len(log)
    BY DEF Typed
  <2>1. CASE UNCHANGED <<log, applied, saved>> BY <2>0, <2>1
  <2> HIDE DEF L
  <2>2. CASE Appended(L)
    <3>1. CASE log # <<>> /\ log[Len(log)] = L
      <4>1. Len(log) - 1 \in Nat BY <2>0, <3>1
      <4>2. /\ log' = log
            /\ applied' = [m \in Node |-> IF applied[m] > Len(log) - 1 THEN Len(log) - 1
                                         ELSE applied[m]]
            /\ saved' = [m \in Node |-> IF saved[m].at > Len(log) - 1
                                       THEN [saved[m] EXCEPT !.at = Len(log) - 1]
                                       ELSE saved[m]]
        BY <2>2, <3>1 DEF Appended
      <4>3. \A m \in Node : applied'[m] \in Nat /\ applied'[m] <= Len(log)
        BY <2>0, <4>1, <4>2
      <4>4. ASSUME NEW m \in Node
            PROVE  saved'[m] \in [at : Nat, list : C \cup {{}}] /\ saved'[m].at <= Len(log)
        <5>1. saved[m] \in [at : Nat, list : C \cup {{}}] /\ saved[m].at <= Len(log)
          BY <2>0
        <5>2. CASE saved[m].at > Len(log) - 1
          <6>1. saved'[m] = [saved[m] EXCEPT !.at = Len(log) - 1] BY <4>2, <5>2
          <6>2. saved'[m].at = Len(log) - 1 /\ saved'[m] \in [at : Nat, list : C \cup {{}}]
            BY <4>1, <5>1, <6>1
          <6> QED BY <2>0, <6>2
        <5>3. CASE ~ (saved[m].at > Len(log) - 1)
          BY <4>2, <5>1, <5>3
        <5> QED BY <5>2, <5>3
      <4>5. DOMAIN applied' = Node /\ applied' = [m \in Node |-> applied'[m]]
        BY <4>2
      <4>6. saved' = [m \in Node |-> saved'[m]] BY <4>2
      <4> QED BY <2>0, <4>2, <4>3, <4>4, <4>5, <4>6, Zenon
    <3>2. CASE ~ (log # <<>> /\ log[Len(log)] = L)
      <4>1. log' = Append(log, L) /\ applied' = applied /\ saved' = saved
        BY <2>2, <3>2 DEF Appended
      <4>2. log' \in Seq(C) /\ Len(log') = Len(log) + 1 BY <1>5, <2>0, <4>1
      <4> QED BY <2>0, <4>1, <4>2
    <3> QED BY <3>1, <3>2
  <2> QED BY <2>1, <2>2 DEF AddNodes, L
<1>7. UNCHANGED <<setup, up, leader, elected, namenode_list, peers, reset,
                  stops, stepdowns, saves>>
  BY Zenon DEF AddNodes
<1> HIDE DEF T
<1> QED BY <1>1, <1>3, <1>6, <1>7, Zenon DEF Typed, T, Node, MaxStops, MaxStepDowns, MaxSaves

\* A list is applied, or comes with a snapshot.
LEMMA AppliedTyped ==
    ASSUME NEW C, NEW K, Typed(C, K), [Next]_vars, NEW n \in Node,
           \/ Apply(n) \/ on_snapshot_save(n) \/ on_snapshot_load(n)
    PROVE  Typed(C, K)'
<1> DEFINE T == [pc : {"off", "watch", "applied", "choose", "fill"}, kept : K]
           R == [at : Nat, list : C \cup {{}}]
<1>1. setup' = setup BY SetupStays
<1>2. /\ thread \in [Node -> [Kind -> T]] /\ up \subseteq Node
      /\ log \in Seq(C) /\ Len(log) \in Nat
      /\ applied \in [Node -> Nat] /\ \A m \in Node : applied[m] <= Len(log)
      /\ saved \in [Node -> R] /\ \A m \in Node : saved[m].at <= Len(log)
      /\ namenode_list \in [Node -> C \cup {{}}] /\ peers \in [Node -> C \cup {{}}]
      /\ reset \subseteq Node /\ leader \in up \cup {NoLeader}
      /\ saves \in 0 .. MaxSaves
  BY DEF Typed
<1>3. UNCHANGED <<setup, up, leader, elected, log, stops, stepdowns>>
  BY Zenon DEF Apply, on_apply, on_snapshot_save, on_snapshot_load, group
<1> DEFINE Goal ==
           /\ thread' \in [Node -> [Kind -> T]]
           /\ applied' \in [Node -> Nat] /\ \A m \in Node : applied'[m] <= Len(log)
           /\ saved' \in [Node -> R] /\ \A m \in Node : saved'[m].at <= Len(log)
           /\ namenode_list' \in [Node -> C \cup {{}}] /\ peers' \in [Node -> C \cup {{}}]
           /\ reset' \subseteq Node /\ saves' \in 0 .. MaxSaves
<1>4. ASSUME NEW j \in 1 .. Len(log), on_apply(n, j) PROVE Goal
  <2>1. log[j] \in C /\ NewPeers(n, log[j]) \in C \cup {{}} BY <1>2 DEF NewPeers
  <2>2. /\ applied' = [applied EXCEPT ![n] = j]
        /\ namenode_list' = [namenode_list EXCEPT ![n] = log[j]]
        /\ peers' = [peers EXCEPT ![n] = NewPeers(n, log[j])]
        /\ reset' \in {reset, reset \cup {n}}
        /\ thread' = [thread EXCEPT ![n]["fsm"].pc = "applied"]
        /\ UNCHANGED <<saved, saves>>
    BY <1>4 DEF on_apply, group
  <2>6. thread[n]["fsm"] \in T BY <1>2 DEF Kind
  <2>5. [thread[n]["fsm"] EXCEPT !.pc = "applied"] \in T BY <2>6
  <2> HIDE DEF T
  <2>3. thread' \in [Node -> [Kind -> T]] BY <1>2, <2>2, <2>5, Zenon
  <2>4. applied' \in [Node -> Nat] /\ \A m \in Node : applied'[m] <= Len(log)
    BY <1>2, <2>2
  <2> QED BY <1>2, <2>1, <2>2, <2>3, <2>4, Zenon
<1>5. ASSUME on_snapshot_save(n) PROVE Goal
  <2>1. [at |-> applied[n], list |-> namenode_list[n]] \in R BY <1>2
  <2>2. saved' \in [Node -> R] /\ \A m \in Node : saved'[m].at <= Len(log)
    BY <1>2, <1>5, <2>1, Zenon DEF on_snapshot_save
  <2>3. MaxSaves \in Nat BY MembershipAssumption DEF MaxSaves, Typed
  <2>4. saves' \in 0 .. MaxSaves /\ UNCHANGED <<applied, namenode_list, peers, reset, thread>>
    BY <1>2, <1>5, <2>3 DEF on_snapshot_save
  <2> QED BY <1>2, <2>2, <2>4, Zenon
<1>6. ASSUME on_snapshot_load(n) PROVE Goal
  <2>1. leader \in Node /\ saved[leader] \in R /\ saved[leader].at <= Len(log)
    BY <1>2, <1>6, Zenon DEF on_snapshot_load
  <2>2. /\ applied' = [applied EXCEPT ![n] = saved[leader].at]
        /\ saved' = [saved EXCEPT ![n] = saved[leader]]
        /\ namenode_list' = [namenode_list EXCEPT ![n] = saved[leader].list]
        /\ UNCHANGED <<peers, reset, thread, saves>>
    BY <1>6, Zenon DEF on_snapshot_load, group
  <2>3. saved[leader].at \in Nat /\ saved[leader].list \in C \cup {{}} BY <2>1, Zenon
  <2> QED BY <1>2, <2>1, <2>2, <2>3, Zenon
<1>7. Goal BY <1>4, <1>5, <1>6, Zenon DEF Apply
<1> HIDE DEF T, R
<1> QED BY <1>1, <1>3, <1>7, Zenon DEF Typed, T, R, Node, MaxStops, MaxStepDowns, MaxSaves

\* Processes stop and start, leaders come and go.
LEMMA ProcessTyped ==
    ASSUME NEW C, NEW K, Typed(C, K), Closed(C, K), [Next]_vars,
           \/ \E n \in Node : Stop(n) \/ Restart(n) \/ Elect(n)
           \/ StepDown
    PROVE  Typed(C, K)'
<1> DEFINE T == [pc : {"off", "watch", "applied", "choose", "fill"}, kept : K]
           R == [at : Nat, list : C \cup {{}}]
<1>1. setup' = setup BY SetupStays
<1>2. /\ thread \in [Node -> [Kind -> T]] /\ up \subseteq Node /\ Off \in T
      /\ applied \in [Node -> Nat] /\ \A m \in Node : applied[m] <= Len(log)
      /\ saved \in [Node -> R] /\ \A m \in Node : saved[m].at <= Len(log)
      /\ namenode_list \in [Node -> C \cup {{}}] /\ peers \in [Node -> C \cup {{}}]
      /\ leader \in up \cup {NoLeader} /\ elected \in BOOLEAN
      /\ stops \in 0 .. MaxStops /\ stepdowns \in 0 .. MaxStepDowns
  BY Zenon DEF Typed, Closed, Off
<1>3. UNCHANGED <<setup, log, saved, reset, saves>>
  BY Zenon DEF Stop, Restart, Elect, StepDown, local
<1> DEFINE Goal ==
           /\ up' \subseteq Node /\ leader' \in up' \cup {NoLeader} /\ elected' \in BOOLEAN
           /\ thread' \in [Node -> [Kind -> T]]
           /\ applied' \in [Node -> Nat] /\ \A m \in Node : applied'[m] <= Len(log)
           /\ namenode_list' \in [Node -> C \cup {{}}] /\ peers' \in [Node -> C \cup {{}}]
           /\ stops' \in 0 .. MaxStops /\ stepdowns' \in 0 .. MaxStepDowns
<1>4. ASSUME NEW n \in Node, Stop(n) PROVE Goal
  <2>1. /\ up' = up \ {n} /\ leader' = (IF leader = n THEN NoLeader ELSE leader)
        /\ elected' = (elected /\ leader # n)
        /\ peers' = [peers EXCEPT ![n] = {}]
        /\ thread' = [thread EXCEPT ![n] = [k \in Kind |-> Off]]
        /\ stops < MaxStops /\ stops' = stops + 1
        /\ UNCHANGED <<applied, namenode_list, stepdowns>>
    BY <1>4, Zenon DEF Stop
  <2>2. MaxStops \in Nat BY MembershipAssumption, Zenon DEF MaxStops, Typed
  <2>3. stops' \in 0 .. MaxStops BY <1>2, <2>1, <2>2
  <2>4. elected' \in BOOLEAN BY <2>1
  <2>5. thread' \in [Node -> [Kind -> T]] BY <1>2, <2>1, Zenon
  <2>6. leader' \in up' \cup {NoLeader} /\ up' \subseteq Node BY <1>2, <2>1, Zenon
  <2>7. peers' \in [Node -> C \cup {{}}] BY <1>2, <2>1, Zenon
  <2> QED BY <1>2, <2>1, <2>3, <2>4, <2>5, <2>6, <2>7, Zenon
<1>5. ASSUME NEW n \in Node, Restart(n) PROVE Goal
  <2>1. saved[n].at \in Nat /\ saved[n].list \in C \cup {{}} BY <1>2, Zenon
  <2> QED BY <1>2, <1>5, <2>1 DEF Restart
<1>6. ASSUME NEW n \in Node, Elect(n) PROVE Goal
  BY <1>2, <1>6, Zenon DEF Elect, local
<1>7. ASSUME StepDown PROVE Goal
  <2>1. MaxStepDowns \in Nat BY MembershipAssumption, Zenon DEF MaxStepDowns, Typed
  <2>2. stepdowns' \in 0 .. MaxStepDowns BY <1>2, <1>7, <2>1 DEF StepDown
  <2> QED BY <1>2, <1>7, <2>2, Zenon DEF StepDown, local
<1>8. Goal BY <1>4, <1>5, <1>6, <1>7, Zenon
<1> HIDE DEF T, R
<1> QED BY <1>1, <1>3, <1>8, Zenon DEF Typed, T, R, Node, MaxStops, MaxStepDowns, MaxSaves

\* Every step.
LEMMA TypedKept ==
    ASSUME NEW C, NEW K, Typed(C, K), Closed(C, K), [Next]_vars
    PROVE  Typed(C, K)'
<1>1. CASE UNCHANGED vars
  BY <1>1, Zenon DEF vars, group, local, Typed, Node, MaxStops, MaxStepDowns, MaxSaves
<1>2. CASE Next
  BY <1>2, ThreadMoves, AddNodesTyped, AppliedTyped, ProcessTyped DEF Next, Choose, Watch
<1> QED BY <1>1, <1>2

-----------------------------------------------------------------------------
(* The nodes that are up.                                                  *)

\* A majority, all but those that were stopped.
UpInv == Majority(up) /\ Cardinality(Node \ up) <= stops

\* What is assumed of the group at hand.
LEMMA SetupFacts ==
    ASSUME setup \in Setups
    PROVE  /\ Node \in SUBSET Nat /\ Node # {} /\ IsFiniteSet(Node)
           /\ Cardinality(Node) \in Nat \ {0}
           /\ expected_nn \in Nat \ {0} /\ MaxStops \in Nat
           /\ NoLeader \notin Node
<1>1. /\ Node \in SUBSET Nat /\ Node # {} /\ IsFiniteSet(Node)
      /\ expected_nn \in Nat \ {0} /\ MaxStops \in Nat
  BY MembershipAssumption DEF Node, expected_nn, MaxStops
<1>2. NoLeader \notin Node BY MembershipAssumption DEF Node, AllNodes
<1>3. Cardinality(Node) \in Nat \ {0} BY <1>1, FS_CardinalityType, FS_EmptySet
<1> QED BY <1>1, <1>2, <1>3

\* No step takes the majority away, and only Stop takes away a node.
LEMMA UpKept ==
    ASSUME NEW C, NEW K, Typed(C, K), UpInv, [Next]_vars
    PROVE  UpInv'
<1>1. setup \in Setups /\ up \subseteq Node /\ stops \in Nat BY DEF Typed
<1>2. setup' = setup /\ Node' = Node BY SetupStays, Zenon DEF Node
<1>3. /\ IsFiniteSet(Node) /\ Cardinality(Node) \in Nat
      /\ IsFiniteSet(Node \ up) /\ Cardinality(Node \ up) \in Nat
      /\ IsFiniteSet(up) /\ Cardinality(up) \in Nat
  BY <1>1, SetupFacts, FS_Difference, FS_Subset, FS_CardinalityType
<1>4. ASSUME NEW n \in Node, Stop(n) PROVE UpInv'
  <2>1. /\ up' = up \ {n} /\ n \in up /\ Majority(up \ {n}) /\ stops' = stops + 1
    BY <1>4 DEF Stop
  <2>2. Node \ up' = (Node \ up) \cup {n} /\ n \notin Node \ up BY <2>1
  <2>3. Cardinality(Node \ up') = Cardinality(Node \ up) + 1
    BY <1>3, <2>2, FS_AddElement, Zenon
  <2> QED BY <1>1, <1>2, <1>3, <2>1, <2>3 DEF UpInv, Majority
<1>5. ASSUME NEW n \in Node, Restart(n) PROVE UpInv'
  <2>1. up' = up \cup {n} /\ stops' = stops BY <1>5 DEF Restart
  <2>5. /\ IsFiniteSet(up \cup {n})
        /\ Cardinality(up \cup {n}) \in {Cardinality(up), Cardinality(up) + 1}
    BY <1>3, FS_AddElement
  <2>2. IsFiniteSet(up') /\ Cardinality(up') \in Nat /\ Cardinality(up) <= Cardinality(up')
    BY <1>3, <2>1, <2>5
  <2>3. Node \ up' \in SUBSET (Node \ up) BY <2>1
  <2>4. /\ Cardinality(Node \ up') <= Cardinality(Node \ up)
        /\ Cardinality(Node \ up') \in Nat
    BY <1>3, <2>3, FS_Subset, FS_CardinalityType
  <2> QED BY <1>1, <1>2, <1>3, <2>1, <2>2, <2>4 DEF UpInv, Majority
<1>6. CASE UNCHANGED <<up, stops>>
  BY <1>2, <1>6 DEF UpInv, Majority
<1>7. \/ UNCHANGED <<up, stops>>
      \/ \E n \in Node : Stop(n) \/ Restart(n)
  BY ZenonT(60) DEF Next, vars, group, on_leader_start, Choose, KeepNamenodes, AddNodes, Apply,
         on_apply, DeleteTimer, NewTimer, Watch, on_nodes_loss, on_snapshot_save,
         on_snapshot_load, Elect, StepDown
<1> QED BY <1>4, <1>5, <1>6, <1>7

\* Initially.
LEMMA UpInit == Init => UpInv
<1> SUFFICES ASSUME Init PROVE UpInv OBVIOUS
<1>1. setup \in Setups /\ up = Node /\ stops = 0 BY DEF Init
<1>2. Cardinality(Node) \in Nat \ {0} BY <1>1, SetupFacts
<1>3. Node \ up = {} BY <1>1
<1> QED BY <1>1, <1>2, <1>3, FS_EmptySet DEF UpInv, Majority

\* A list made by on_leader_start is FillOf of what it keeps.
LEMMA FillIs == \A S : Fill(S) = FillOf(up, S, expected_nn)
  BY DEF Fill, FillOf, First

-----------------------------------------------------------------------------
(* Type correctness.                                                       *)

\* What a thread keeps is no longer than a list.
Keeps == {S \in SUBSET Node : Cardinality(S) <= expected_nn}

TInv == Typed(List, Keeps) /\ UpInv

\* Lists that are not empty and not too long lead to such lists.
LEMMA ListsClosed ==
    ASSUME setup \in Setups, up \subseteq Node, UpInv
    PROVE  Closed(List, Keeps)
<1>1. /\ Node \in SUBSET Nat /\ IsFiniteSet(Node) /\ expected_nn \in Nat /\ expected_nn > 0
      /\ Cardinality(Node) \in Nat
  BY SetupFacts
<1>2. {} \in Keeps BY <1>1, FS_EmptySet DEF Keeps
<1>3. ASSUME NEW L \in List \cup {{}}, NEW S \in SUBSET L PROVE S \in Keeps
  <2>1. CASE L = {} BY <1>2, <2>1
  <2>2. CASE L \in List
    <3>1. L \in SUBSET Node /\ Cardinality(L) <= expected_nn BY <2>2 DEF List
    <3>2. /\ IsFiniteSet(L) /\ Cardinality(L) \in Nat
          /\ Cardinality(S) \in Nat /\ Cardinality(S) <= Cardinality(L)
      BY <1>1, <3>1, FS_Subset, FS_CardinalityType, Zenon
    <3>3. Cardinality(S) <= expected_nn BY <1>1, <3>1, <3>2
    <3> QED BY <3>1, <3>3 DEF Keeps
  <2> QED BY <2>1, <2>2
<1>4. ASSUME NEW S \in Keeps PROVE Fill(S) \in List
  <2>1. S \in SUBSET Node /\ Cardinality(S) <= expected_nn BY DEF Keeps
  <2>2. /\ IsFiniteSet(S) /\ IsFiniteSet(up) /\ up \in SUBSET Nat
    BY <1>1, <2>1, FS_Subset, Zenon
  <2>3. up # {}
    <3>1. 2 * Cardinality(up) > Cardinality(Node) BY DEF UpInv, Majority
    <3>2. up = {} => Cardinality(up) = 0 BY FS_EmptySet
    <3> QED BY <1>1, <3>1, <3>2
  <2>4. /\ FillOf(up, S, expected_nn) \in SUBSET (up \cup S)
        /\ Cardinality(FillOf(up, S, expected_nn)) <= expected_nn
        /\ FillOf(up, S, expected_nn) # {}
    BY <1>1, <2>1, <2>2, <2>3, FillSize, Zenon
  <2> QED BY <2>1, <2>4, FillIs DEF List
<1> QED BY <1>2, <1>3, <1>4 DEF Closed

\* Initially there are no lists.
LEMMA TypedInit ==
    ASSUME Init, NEW C, NEW K, {} \in K
    PROVE  Typed(C, K)
<1>1. setup \in Setups BY Zenon DEF Init
<1>2. {MaxSaves, MaxStops, MaxStepDowns} \subseteq Nat
  BY <1>1, MembershipAssumption DEF MaxSaves, MaxStops, MaxStepDowns
<1>3. /\ applied \in [Node -> Nat] /\ \A n \in Node : applied[n] <= Len(log)
      /\ saved \in [Node -> [at : Nat, list : C \cup {{}}]]
      /\ \A n \in Node : saved[n].at <= Len(log)
      /\ log \in Seq(C) 
  BY DEF Init
<1>4. thread \in [Node -> [Kind -> [pc : {"off", "watch", "applied", "choose", "fill"},
                                  kept : K]]]
  BY Zenon DEF Init, Off
<1>5. /\ stops \in 0 .. MaxStops /\ stepdowns \in 0 .. MaxStepDowns
      /\ saves \in 0 .. MaxSaves
  BY <1>2 DEF Init
<1> QED BY <1>1, <1>3, <1>4, <1>5, Zenon DEF Init, Typed

\* The inductive step: the sets of lists do not depend on the state, only on
\* the group, which stays.
LEMMA TInvKept == TInv /\ [Next]_vars => TInv'
<1> SUFFICES ASSUME TInv, [Next]_vars PROVE TInv' OBVIOUS
<1>1. PICK C, K : C = List /\ K = Keeps OBVIOUS
<1>2. Typed(C, K) /\ UpInv BY <1>1, Zenon DEF TInv
<1>3. Closed(C, K) BY <1>1, <1>2, ListsClosed DEF Typed
<1>4. Typed(C, K)' BY <1>2, <1>3, TypedKept
<1>5. UpInv' BY <1>2, UpKept
<1>6. List' = C /\ Keeps' = K BY <1>1, SetupStays, Zenon DEF List, Keeps, Node, expected_nn
<1>7. Typed(List, Keeps)' BY <1>4, <1>6 DEF Typed
<1> QED BY <1>5, <1>7 DEF TInv

\* TInv holds throughout.
LEMMA TInvHolds == Spec => []TInv
<1>1. Init => TInv
  <2> SUFFICES ASSUME Init PROVE TInv OBVIOUS
  <2>1. PICK C, K : C = List /\ K = Keeps OBVIOUS
  <2>2. setup \in Setups /\ up \subseteq Node /\ UpInv BY UpInit DEF Init
  <2>3. {} \in K BY <2>1, <2>2, ListsClosed DEF Closed
  <2>4. Typed(C, K) BY <2>3, TypedInit
  <2> QED BY <2>1, <2>2, <2>4 DEF TInv
<1> QED BY <1>1, TInvKept, PTL DEF Spec

\* Lists, snapshots, peers and what threads keep are always made of nodes of
\* the group, and no list ever has more than expected_nn nodes or none.
THEOREM TypeCorrect == Spec => []TypeOK
<1>1. ASSUME TInv PROVE TypeOK
  <2>1. Typed(List, Keeps) BY <1>1, Zenon DEF TInv
  <2>2. /\ applied \in [Node -> 0 .. Len(log)]
        /\ saved \in [Node -> [at : 0 .. Len(log), list : List \cup {{}}]]
    <3>1. Len(log) \in Nat BY <2>1 DEF Typed
    <3> QED BY <2>1, <3>1 DEF Typed
  <2>3. thread \in [Node -> [Kind -> Thread]] BY <2>1 DEF Typed, Thread, Keeps
  <2> QED BY <2>1, <2>2, <2>3 DEF Typed, TypeOK
<1> QED BY <1>1, TInvHolds, PTL

-----------------------------------------------------------------------------
(* The leader watches.                                                     *)

\* A step of one node that is not the leader, or one that leaves the leader
\* with a thread that is not off, or with a list to apply.
LEMMA WatchKept ==
    ASSUME NEW C, NEW K, Typed(C, K), LeaderWatches, [Next]_vars
    PROVE  LeaderWatches'
<1>0. /\ setup \in Setups /\ leader \in up \cup {NoLeader} /\ up \subseteq Node
      /\ NoLeader \notin Node
      /\ thread \in [Node -> [Kind -> [pc : {"off", "watch", "applied", "choose", "fill"},
                                      kept : K]]]
  BY SetupFacts, Zenon DEF Typed
<1>1. CASE UNCHANGED vars
  BY <1>1, Zenon DEF vars, group, local, LeaderWatches
<1>2. ASSUME NEW n \in Node, on_leader_start(n) PROVE LeaderWatches'
  <2>1. thread'[n]["fsm"].pc = "choose" /\ leader' = n
    BY <1>0, <1>2 DEF on_leader_start, Kind
  <2> QED BY <2>1 DEF LeaderWatches, Off, Kind
<1>3. ASSUME NEW n \in Node, NEW k \in Kind, KeepNamenodes(n, k) \/ on_nodes_loss(n, k)
      PROVE  LeaderWatches'
  <2>1. thread'[n][k].pc \in {"fill", "choose"} BY <1>0, <1>3 DEF KeepNamenodes, on_nodes_loss
  <2>2. \A m \in Node \ {n} : thread'[m] = thread[m]
    BY <1>0, <1>3 DEF KeepNamenodes, on_nodes_loss
  <2>3. UNCHANGED <<leader, elected, applied, log>>
    BY <1>3 DEF KeepNamenodes, on_nodes_loss, group, local
  <2> QED BY <1>0, <2>1, <2>2, <2>3 DEF LeaderWatches, Off
<1>4. ASSUME NEW n \in Node, NEW k \in Kind, AddNodes(n, k) PROVE LeaderWatches'
  <2>1. CASE leader = n
    <3>1. leader' = n /\ Appended(Fill(thread[n][k].kept)) BY <1>4, <2>1, Zenon DEF AddNodes
    <3>2. applied'[n] < Len(log')
      <4>1. /\ log \in Seq(C) /\ Len(log) \in Nat /\ applied \in [Node -> Nat]
            /\ applied[n] <= Len(log)
        BY DEF Typed
      <4>2. CASE log # <<>> /\ log[Len(log)] = Fill(thread[n][k].kept)
        BY <3>1, <4>1, <4>2 DEF Appended
      <4>3. CASE ~ (log # <<>> /\ log[Len(log)] = Fill(thread[n][k].kept))
        <5>1. applied' = applied /\ log' = Append(log, Fill(thread[n][k].kept))
          BY <3>1, <4>3 DEF Appended
        <5>2. Len(log') = Len(log) + 1 BY <4>1, <5>1
        <5> QED BY <4>1, <5>1, <5>2
      <4> QED BY <4>2, <4>3, Zenon
    <3>3. applied'[n] \in Nat /\ Len(log') \in Nat
      <4>1. /\ log \in Seq(C) /\ Len(log) \in Nat /\ applied \in [Node -> Nat] BY DEF Typed
      <4>2. log' = log \/ log' = Append(log, Fill(thread[n][k].kept)) BY <3>1 DEF Appended
      <4>3. Len(log') \in Nat BY <4>1, <4>2
      <4>4. CASE log # <<>> /\ log[Len(log)] = Fill(thread[n][k].kept)
        <5>1. Len(log) - 1 \in Nat BY <4>1, <4>4
        <5> QED BY <3>1, <4>1, <4>3, <4>4, <5>1 DEF Appended
      <4>5. CASE ~ (log # <<>> /\ log[Len(log)] = Fill(thread[n][k].kept))
        BY <3>1, <4>1, <4>3, <4>5 DEF Appended
      <4> QED BY <4>4, <4>5, Zenon
    <3>4. applied'[n] # Len(log') BY <3>2, <3>3
    <3> QED BY <3>1, <3>4, Zenon DEF LeaderWatches
  <2>2. CASE leader # n
    <3>1. UNCHANGED <<leader, elected, applied, log>> BY <1>4, <2>2, Zenon DEF AddNodes
    <3>2. \A m \in Node \ {n} : thread'[m] = thread[m] BY <1>0, <1>4, Zenon DEF AddNodes
    <3> QED BY <1>0, <2>2, <3>1, <3>2, Zenon DEF LeaderWatches
  <2> QED BY <2>1, <2>2, Zenon
<1>5. ASSUME NEW n \in Node, Apply(n) PROVE LeaderWatches'
  <2>1. PICK j \in 1 .. Len(log) : on_apply(n, j) BY <1>5 DEF Apply
  <2>2. thread'[n]["fsm"].pc = "applied" BY <1>0, <2>1 DEF on_apply, Kind
  <2>3. \A m \in Node \ {n} : thread'[m] = thread[m] /\ applied'[m] = applied[m]
    BY <1>0, <2>1 DEF on_apply, Typed
  <2>4. UNCHANGED <<leader, elected, log>> BY <2>1, Zenon DEF on_apply, group
  <2> QED BY <1>0, <2>2, <2>3, <2>4 DEF LeaderWatches, Off, Kind
<1>6. ASSUME NEW n \in Node, DeleteTimer(n) PROVE LeaderWatches'
  <2>1. n # leader BY <1>6, Zenon DEF DeleteTimer, IsLeader
  <2>2. \A m \in Node \ {n} : thread'[m] = thread[m] BY <1>0, <1>6, Zenon DEF DeleteTimer
  <2>3. UNCHANGED <<leader, elected, log, applied>> BY <1>6, Zenon DEF DeleteTimer, group, local
  <2> QED BY <1>0, <2>1, <2>2, <2>3 DEF LeaderWatches
<1>7. ASSUME NEW n \in Node, NewTimer(n) PROVE LeaderWatches'
  <2>1. thread'[n]["timer"].pc = "watch" BY <1>0, <1>7, Zenon DEF NewTimer, Kind
  <2>2. \A m \in Node \ {n} : thread'[m] = thread[m] BY <1>0, <1>7, Zenon DEF NewTimer
  <2>3. UNCHANGED <<leader, elected, log, applied>> BY <1>7, Zenon DEF NewTimer, group, local
  <2> QED BY <1>0, <2>1, <2>2, <2>3 DEF LeaderWatches, Off, Kind
<1>8. ASSUME NEW n \in Node, on_snapshot_save(n) \/ on_snapshot_load(n) PROVE LeaderWatches'
  <2>1. UNCHANGED <<leader, elected, log, thread>>
    BY <1>8, Zenon DEF on_snapshot_save, on_snapshot_load, group
  <2>2. leader # NoLeader => applied'[leader] = applied[leader]
    BY <1>0, <1>8, Zenon DEF on_snapshot_save, on_snapshot_load, Typed
  <2> QED BY <2>1, <2>2, Zenon DEF LeaderWatches
<1>9. ASSUME NEW n \in Node, Stop(n) \/ Restart(n) PROVE LeaderWatches'
  <2>1. UNCHANGED log BY <1>9, Zenon DEF Stop, Restart
  <2>2. leader' # NoLeader => /\ leader' = leader /\ leader # n /\ (elected => elected')
    BY <1>0, <1>9, Zenon DEF Stop, Restart
  <2>3. \A m \in Node \ {n} : thread'[m] = thread[m] /\ applied'[m] = applied[m]
    BY <1>0, <1>9, Zenon DEF Stop, Restart, Typed
  <2> QED BY <1>0, <2>1, <2>2, <2>3, SMTT(30) DEF LeaderWatches
<1>10. ASSUME NEW n \in Node, Elect(n) PROVE LeaderWatches'
  BY <1>10 DEF Elect, LeaderWatches
<1>11. CASE StepDown BY <1>11 DEF StepDown, LeaderWatches
<1> QED
  BY <1>1, <1>2, <1>3, <1>4, <1>5, <1>6, <1>7, <1>8, <1>9, <1>10, <1>11, Zenon
     DEF Next, Choose, Watch

\* A leader that has nothing left to apply and to choose has a thread that
\* watches the namenodes or chooses new ones, in a group of any size and
\* whatever stops, restarts or loses its place.
THEOREM Watched == Spec => []LeaderWatches
<1>1. Init => LeaderWatches BY DEF Init, LeaderWatches
<1>2. TInv /\ LeaderWatches /\ [Next]_vars => LeaderWatches'
  <2> SUFFICES ASSUME TInv, LeaderWatches, [Next]_vars PROVE LeaderWatches' OBVIOUS
  <2>1. PICK C, K : C = List /\ K = Keeps OBVIOUS
  <2>2. Typed(C, K) BY <2>1 DEF TInv
  <2> QED BY <2>2, WatchKept
<1> QED BY <1>1, <1>2, TInvHolds, PTL DEF Spec

-----------------------------------------------------------------------------
(* No reset of the peers.                                                  *)

\* A group that can lose MaxStops of its processes: they are less than half
\* of the namenodes, and without them there are enough nodes for a list.
Tolerant(s) ==
    /\ 2 * s.stops < s.expected_nn
    /\ s.expected_nn + s.stops <= Cardinality(s.nodes)

\* The nodes that can ever be chosen are the first expected_nn of
\* datanode_list and one more for each process that stops.
Candidates == First(Node, expected_nn + MaxStops)

FullLists == {L \in SUBSET Candidates : Cardinality(L) = expected_nn}
Parts == {S \in SUBSET Candidates : Cardinality(S) <= expected_nn}

NInv == Typed(FullLists, Parts) /\ UpInv /\ NoReset

\* The candidates are nodes, and not more than that.
LEMMA CandidateCount ==
    ASSUME setup \in Setups
    PROVE  /\ Candidates \in SUBSET Node /\ IsFiniteSet(Candidates)
           /\ Cardinality(Candidates) \in Nat
           /\ Cardinality(Candidates) <= expected_nn + MaxStops
<1>1. /\ Node \in SUBSET Nat /\ IsFiniteSet(Node)
      /\ expected_nn \in Nat /\ MaxStops \in Nat
  BY SetupFacts
<1>2. expected_nn + MaxStops \in Nat BY <1>1
<1>3. IsFiniteSet(Candidates) /\ Cardinality(Candidates) \in 0 .. (expected_nn + MaxStops)
  BY <1>1, <1>2, FirstCounts DEF Candidates
<1>4. Candidates \in SUBSET Node BY DEF Candidates, First
<1> QED BY <1>2, <1>3, <1>4

\* Full lists of candidates lead to full lists of candidates.
LEMMA FullListsClosed ==
    ASSUME setup \in Setups, up \subseteq Node, UpInv, stops \in 0 .. MaxStops,
           Tolerant(setup)
    PROVE  Closed(FullLists, Parts)
<1>1. /\ Node \in SUBSET Nat /\ IsFiniteSet(Node) /\ expected_nn \in Nat
      /\ MaxStops \in Nat /\ Cardinality(Node) \in Nat
  BY SetupFacts
<1>2. {} \in Parts BY <1>1, FS_EmptySet DEF Parts
<1>3. ASSUME NEW L \in FullLists \cup {{}}, NEW S \in SUBSET L PROVE S \in Parts
  <2>1. CASE L = {} BY <1>2, <2>1
  <2>2. CASE L \in FullLists
    <3>1. L \in SUBSET Candidates /\ Cardinality(L) = expected_nn BY <2>2, Zenon DEF FullLists
    <3>2. /\ IsFiniteSet(L) /\ Cardinality(S) <= Cardinality(L)
      BY <3>1, CandidateCount, FS_Subset, Zenon
    <3> QED BY <3>1, <3>2 DEF Parts
  <2> QED BY <2>1, <2>2
<1>4. ASSUME NEW S \in Parts PROVE Fill(S) \in FullLists
  <2>1. S \in SUBSET Candidates /\ Cardinality(S) <= expected_nn BY Zenon DEF Parts
  <2>2. /\ IsFiniteSet(S) /\ IsFiniteSet(up) /\ up \in SUBSET Nat
    BY <1>1, <2>1, CandidateCount, FS_Subset, Zenon
  <2>3. /\ Cardinality(Node \ up) \in Nat /\ Cardinality(up) \in Nat
        /\ Cardinality(Node \ up) = Cardinality(Node) - Cardinality(up)
    <3>1. Node \cap up = up OBVIOUS
    <3>2. IsFiniteSet(Node \ up) BY <1>1, FS_Difference, Zenon
    <3> QED BY <1>1, <2>2, <3>1, <3>2, FS_Difference, FS_CardinalityType, ZenonT(40)
  <2>4. Cardinality(Node \ up) <= MaxStops BY <1>1, <2>3 DEF UpInv
  <2>5. Cardinality(up) >= expected_nn
    <3>1. expected_nn + MaxStops <= Cardinality(Node)
      BY Zenon DEF Tolerant, expected_nn, MaxStops, Node
    <3> QED BY <1>1, <2>3, <2>4, <3>1
  <2>6. Cardinality(FillOf(up, S, expected_nn)) = expected_nn
    BY <1>1, <2>1, <2>2, <2>5, FillSize, Zenon
  <2>7. FillOf(up, S, expected_nn) \in SUBSET Candidates
    BY <1>1, <2>1, <2>4, FillPlace, Zenon DEF Candidates
  <2> QED BY <2>6, <2>7, FillIs DEF FullLists
<1> QED BY <1>2, <1>3, <1>4 DEF Closed

\* Two full lists share more than half of their nodes.
LEMMA ListsOverlap ==
    ASSUME setup \in Setups, Tolerant(setup), NEW P \in FullLists, NEW L \in FullLists
    PROVE  ~ MustReset(P, L)
<1>1. expected_nn \in Nat /\ MaxStops \in Nat BY SetupFacts
<1>2. /\ P \in SUBSET Candidates /\ L \in SUBSET Candidates
      /\ Cardinality(P) = expected_nn /\ Cardinality(L) = expected_nn
  BY Zenon DEF FullLists
<1>3. IsFiniteSet(P) /\ IsFiniteSet(L) BY <1>2, CandidateCount, FS_Subset, Zenon
<1>4. /\ IsFiniteSet(P \cup L) /\ IsFiniteSet(P \cap L)
      /\ Cardinality(P \cup L) = Cardinality(P) + Cardinality(L) - Cardinality(P \cap L)
  BY <1>3, FS_Union, FS_Intersection, Zenon
<1>5. P \cup L \in SUBSET Candidates BY <1>2
<1>6. Cardinality(P \cup L) <= Cardinality(Candidates)
  BY <1>5, CandidateCount, FS_Subset, Zenon
<1>7. Cardinality(P \cup L) \in Nat /\ Cardinality(P \cap L) \in Nat
  BY <1>4, FS_CardinalityType
<1>8. Cardinality(P \cup L) <= expected_nn + MaxStops
  BY <1>1, <1>6, <1>7, CandidateCount
<1>9. 2 * MaxStops < expected_nn BY DEF Tolerant, MaxStops, expected_nn
<1>10. 2 * Cardinality(P \cap L) > expected_nn BY <1>1, <1>2, <1>4, <1>7, <1>8, <1>9
<1> QED BY <1>1, <1>2, <1>7, <1>10 DEF MustReset

\* So a running namenode that gets a new list changes its peers and does not
\* reset them.
LEMMA NoResetKept ==
    ASSUME NInv, Tolerant(setup), [Next]_vars
    PROVE  NoReset'
<1>1. setup \in Setups /\ log \in Seq(FullLists) /\ peers \in [Node -> FullLists \cup {{}}]
  BY DEF NInv, Typed
<1>2. ASSUME NEW n \in Node, NEW j \in 1 .. Len(log), on_apply(n, j) PROVE reset' = reset
  <2>1. log[j] \in FullLists /\ peers[n] \in FullLists \cup {{}} BY <1>1
  <2>2. peers[n] # {} => ~ MustReset(peers[n], log[j]) BY <1>1, <2>1, ListsOverlap
  <2> QED BY <1>2, <2>2 DEF on_apply
<1>3. reset' = reset \/ \E n \in Node : Apply(n)
  BY ZenonT(60) DEF Next, vars, local, on_leader_start, Choose, KeepNamenodes, AddNodes,
         DeleteTimer, NewTimer, Watch, on_nodes_loss, on_snapshot_save,
         on_snapshot_load, Stop, Restart, Elect, StepDown
<1>4. reset' = reset BY <1>2, <1>3 DEF Apply
<1> QED BY <1>4, Zenon DEF NInv, NoReset

\* NInv holds throughout, in tolerant groups.
LEMMA NInvHolds == (\A s \in Setups : Tolerant(s)) => (Spec => []NInv)
<1> SUFFICES ASSUME \A s \in Setups : Tolerant(s) PROVE Spec => []NInv OBVIOUS
<1>1. Init => NInv
  <2> SUFFICES ASSUME Init PROVE NInv OBVIOUS
  <2>1. PICK C, K : C = FullLists /\ K = Parts OBVIOUS
  <2>2. setup \in Setups /\ UpInv /\ NoReset BY UpInit DEF Init, NoReset
  <2>3. {} \in K
    <3>1. Cardinality({}) <= expected_nn BY <2>2, SetupFacts, FS_EmptySet
    <3> QED BY <2>1, <3>1, Zenon DEF Parts
  <2>4. Typed(C, K) BY <2>3, TypedInit
  <2> QED BY <2>1, <2>2, <2>4 DEF NInv
<1>2. NInv /\ [Next]_vars => NInv'
  <2> SUFFICES ASSUME NInv, [Next]_vars PROVE NInv' OBVIOUS
  <2>1. PICK C, K : C = FullLists /\ K = Parts OBVIOUS
  <2>2. Typed(C, K) /\ UpInv BY <2>1, Zenon DEF NInv
  <2>3. setup \in Setups /\ up \subseteq Node /\ stops \in 0 .. MaxStops BY <2>2 DEF Typed
  <2>4. Tolerant(setup) BY <2>3, Zenon
  <2>5. Closed(C, K) BY <2>1, <2>2, <2>3, <2>4, FullListsClosed
  <2>6. Typed(C, K)' BY <2>2, <2>5, TypedKept, Zenon
  <2>7. UpInv' BY <2>2, UpKept
  <2>8. NoReset' BY <2>4, NoResetKept, Zenon
  <2>9. FullLists' = C /\ Parts' = K
    BY <2>1, SetupStays, Zenon DEF FullLists, Parts, Candidates, First, Node, expected_nn, MaxStops
  <2>10. Typed(FullLists, Parts)' BY <2>6, <2>9, Zenon DEF Typed
  <2> QED BY <2>7, <2>8, <2>10 DEF NInv
<1> QED BY <1>1, <1>2, PTL DEF Spec

\* No namenode gives up what the old namenodes agreed on, in a group of any
\* size in which less than half as many processes stop as there are
\* namenodes, and in which the others are enough for a list.
THEOREM Tolerated == (\A s \in Setups : Tolerant(s)) => (Spec => []NoReset)
<1> SUFFICES ASSUME \A s \in Setups : Tolerant(s) PROVE Spec => []NoReset OBVIOUS
<1>1. Spec => []NInv BY NInvHolds
<1>2. NInv => NoReset BY DEF NInv
<1> QED BY <1>1, <1>2, PTL
=============================================================================
