------------------------ MODULE BlockPlacementProofs ------------------------
(***************************************************************************)
(* Proofs about BlockPlacement, for any number of datanodes, any RS<K,M>   *)
(* and RE<R>, and datanodes that stop, come back and time out at any time. *)
(***************************************************************************)
EXTENDS BlockPlacement, FiniteSetTheorems, WellFoundedInduction, NaturalsInduction, TLAPS

\* What the arguments need of the types.
Shape ==
    /\ replicated \in BOOLEAN
    /\ up \subseteq Datanode
    /\ Len(nodes) \in Nat
    /\ node_index \in Nat /\ fail_count \in Nat
    /\ pc = "encode" => node_index < Len(nodes)
    /\ nodes_hashs \in Seq(Datanode \X Nat)
    /\ next \in 1 .. Len(nodes_hashs) + 1
    /\ succ \in Nat

\* The loop of encode_one: while the block is not secure, fail_count counts
\* failures of this round only, and as many of them as passes mean that
\* every datanode of the round so far has failed.
RoundInv ==
    /\ pc = "start" => node_index = 0 /\ fail_count = 0
    /\ pc = "encode" /\ ~ check(Len(nodes_hashs)) =>
         /\ fail_count <= node_index
         /\ fail_count = node_index => \A j \in 1 .. node_index : nodes[j] \in failing

\* The pairs that decode_one has been through and whose datanode failed.
Missed(n) == {j \in 1 .. n : nodes_hashs[j][1] \in lost}

\* The loop of decode_one: every pair it has been through was fetched or
\* missed.
FetchInv ==
    /\ pc \in {"start", "encode", "encoded", "undefined"} => next = 1 /\ succ = 0
    /\ pc = "decode" =>
         /\ succ < getDecodeBlocks
         /\ Cardinality(Missed(next - 1)) >= next - 1 - succ

IInv == Shape /\ RoundInv /\ ShortMeansAllFailed /\ FetchInv /\ EmptyMeansTooManyLost

\* At least one fragment is made, and at least one is needed.
LEMMA Sizes ==
    ASSUME replicated \in BOOLEAN
    PROVE  getBlocks \in Nat \ {0} /\ getDecodeBlocks \in Nat \ {0}
  BY StorageAssumption DEF getBlocks, getDecodeBlocks

\* The pairs missed are finitely many, and none of none.
LEMMA MissedFinite ==
    ASSUME NEW n \in Nat
    PROVE  IsFiniteSet(Missed(n)) /\ Cardinality(Missed(n)) \in Nat
  <1>1. IsFiniteSet(1 .. n)
    BY FS_Interval
  <1>2. Missed(n) \subseteq 1 .. n
    BY DEF Missed
  <1>3. QED BY <1>1, <1>2, FS_Subset, FS_CardinalityType

\* The index of the next datanode: one more, or the first after the last.
LEMMA NextIndex ==
    ASSUME NEW a \in Nat, NEW b \in Nat, a < b
    PROVE  \/ a + 1 < b /\ (a + 1) % b = a + 1
           \/ a + 1 = b /\ (a + 1) % b = 0
  <1>1. CASE a + 1 < b BY <1>1
  <1>2. CASE a + 1 = b BY <1>2
  <1>3. QED BY <1>1, <1>2

\* The invariant holds before the upload starts.
LEMMA InitHolds == Init => IInv
  <1> SUFFICES ASSUME Init PROVE IInv
    OBVIOUS
  <1>1. Shape
    BY DEF Init, Shape
  <1>2. QED
    BY <1>1 DEF Init, IInv, RoundInv, ShortMeansAllFailed, FetchInv, EmptyMeansTooManyLost


\* Steps that leave the client alone: a datanode stops or restarts.
LEMMA OthersHold ==
    ASSUME IInv, up' \subseteq Datanode,
           UNCHANGED <<config, pc, encoding, decoding>>
    PROVE  IInv'
  <1> USE DEF config, encoding, decoding
  <1>1. Shape'
    BY DEF IInv, Shape
  <1>2. RoundInv'
    BY DEF IInv, RoundInv, check
  <1>3. ShortMeansAllFailed'
    BY DEF IInv, ShortMeansAllFailed, getBlocks
  <1>4. FetchInv'
    BY DEF IInv, FetchInv, Missed, getDecodeBlocks
  <1>5. EmptyMeansTooManyLost'
    BY DEF IInv, EmptyMeansTooManyLost, getDecodeBlocks
  <1>6. QED BY <1>1, <1>2, <1>3, <1>4, <1>5 DEF IInv

\* get_online_datanodes.
LEMMA StartHolds ==
    ASSUME IInv, get_online_datanodes
    PROVE  IInv'
  <1> USE DEF get_online_datanodes, config, decoding
  <1>1. IsFiniteSet(up) /\ Cardinality(up) \in Nat
    BY DatanodeAssumption, FS_Subset, FS_CardinalityType, Zenon DEF IInv, Shape
  <1>2. Len(nodes') = Cardinality(up)
    BY <1>1 DEF Ascending
  <1>3. up = {} <=> Cardinality(up) = 0
    BY <1>1, FS_EmptySet
  <1>4. Shape'
    BY <1>1, <1>2, <1>3 DEF IInv, Shape, RoundInv
  <1>5. RoundInv'
    BY DEF IInv, Shape, RoundInv
  <1>6. ShortMeansAllFailed'
    BY <1>2, <1>3 DEF ShortMeansAllFailed
  <1>7. FetchInv' /\ EmptyMeansTooManyLost'
    BY DEF IInv, FetchInv, EmptyMeansTooManyLost
  <1>8. QED BY <1>4, <1>5, <1>6, <1>7 DEF IInv

\* The end of the loop body of encode_one.
LEMMA EndHolds ==
    ASSUME IInv, pc = "encode", NEW n \in Nat, NEW f \in Nat, EndOfBody(n, f),
           UNCHANGED <<config, up, nodes, decoding>>,
           nodes_hashs' \in Seq(Datanode \X Nat), Len(nodes_hashs') = n,
           ~ check(n) =>
             /\ f <= node_index + 1
             /\ f = node_index + 1 => \A j \in 1 .. node_index + 1 : nodes[j] \in failing'
    PROVE  IInv'
  <1> DEFINE i == (node_index + 1) % Len(nodes)
  <1> USE DEF config, decoding
  <1>1. /\ node_index \in Nat /\ Len(nodes) \in Nat /\ node_index < Len(nodes)
        /\ replicated \in BOOLEAN /\ next = 1 /\ succ = 0
    BY DEF IInv, Shape, FetchInv
  <1>2. \/ node_index + 1 < Len(nodes) /\ i = node_index + 1
        \/ node_index + 1 = Len(nodes) /\ i = 0
    BY <1>1, NextIndex
  <1>3. node_index' = i /\ nodes' = nodes
    BY DEF EndOfBody
  <1>4. check(n) <=> check(n)'
    BY DEF check
  <1>5. getBlocks' = getBlocks /\ getBlocks \in Nat \ {0}
    BY <1>1, Sizes DEF getBlocks
  <1>6. pc' \in {"encode", "encoded", "undefined"}
    BY DEF EndOfBody
  <1>7. fail_count' \in {0, f}
    BY DEF EndOfBody
  <1>8. Shape'
    BY <1>1, <1>2, <1>3, <1>7, SMTT(30) DEF IInv, Shape
  <1>9. RoundInv'
    <2> SUFFICES ASSUME pc' = "encode", ~ check(n)
                 PROVE  /\ fail_count' <= node_index'
                        /\ fail_count' = node_index' =>
                             \A j \in 1 .. node_index' : nodes'[j] \in failing'
      BY <1>4, <1>6 DEF RoundInv, check
    <2>1. CASE i = 0
      <3>1. fail_count' = 0
        BY <2>1 DEF EndOfBody
      <3>2. QED BY <1>3, <2>1, <3>1
    <2>2. CASE i # 0
      <3>1. i = node_index + 1 /\ fail_count' = f
        BY <1>2, <2>2 DEF EndOfBody
      <3>2. QED BY <1>3, <3>1
    <2>3. QED BY <2>1, <2>2
  <1>10. ShortMeansAllFailed'
    <2> SUFFICES ASSUME pc' \in {"encoded", "undefined"}, n < getBlocks
                 PROVE  \A j \in 1 .. Len(nodes) : nodes[j] \in failing'
      BY <1>3, <1>5 DEF ShortMeansAllFailed
    <2>1. i = 0 /\ ~ check(n) /\ f = Len(nodes)
      BY <1>5 DEF EndOfBody
    <2>2. QED BY <1>1, <1>2, <2>1
  <1>11. FetchInv' /\ EmptyMeansTooManyLost'
    BY <1>1, <1>6 DEF FetchInv, EmptyMeansTooManyLost
  <1>12. QED BY <1>8, <1>9, <1>10, <1>11 DEF IInv

\* encode_one: a put that succeeds, and one that fails.
LEMMA EncodeHolds ==
    ASSUME IInv, encode_one
    PROVE  IInv'
  <1> DEFINE d == nodes[node_index + 1]
             n == Len(nodes_hashs)
  <1>1. /\ nodes_hashs \in Seq(Datanode \X Nat) /\ n \in Nat
        /\ node_index \in Nat /\ fail_count \in Nat /\ up \subseteq Datanode
    BY DEF IInv, Shape
  <1>2. ASSUME ~ check(n), pc = "encode"
        PROVE  /\ fail_count <= node_index
               /\ fail_count = node_index => \A j \in 1 .. node_index : nodes[j] \in failing
    BY <1>2 DEF IInv, RoundInv
  <1>3. CASE PutSucceeds
    <2>1. /\ pc = "encode" /\ d \in up
          /\ nodes_hashs' = Append(nodes_hashs, <<d, n + 1>>)
          /\ EndOfBody(n + 1, fail_count)
          /\ UNCHANGED <<config, up, nodes, decoding>>
      BY <1>3 DEF PutSucceeds
    <2>2. nodes_hashs' \in Seq(Datanode \X Nat) /\ Len(nodes_hashs') = n + 1
      BY <1>1, <2>1
    <2>3. check(n) => check(n + 1)
      BY <1>1, StorageAssumption DEF check
    <2>4. ~ check(n + 1) => fail_count < node_index + 1
      BY <1>1, <1>2, <2>1, <2>3
    <2>5. QED BY <1>1, <2>1, <2>2, <2>4, EndHolds
  <1>4. CASE PutFails
    <2>1. /\ pc = "encode" /\ failing' = failing \cup {d}
          /\ nodes_hashs' = nodes_hashs
          /\ EndOfBody(n, fail_count + 1)
          /\ UNCHANGED <<config, up, nodes, decoding>>
      BY <1>1, <1>4 DEF PutFails
    <2>2. ~ check(n) =>
            /\ fail_count + 1 <= node_index + 1
            /\ fail_count + 1 = node_index + 1 =>
                 \A j \in 1 .. node_index + 1 : nodes[j] \in failing'
      BY <1>1, <1>2, <2>1
    <2>3. QED BY <1>1, <2>1, <2>2, EndHolds
  <1>5. QED BY <1>3, <1>4 DEF encode_one

\* decode_one, and its start.
LEMMA DecodeHolds ==
    ASSUME IInv, StartDecode \/ decode_one
    PROVE  IInv'
  <1>1. /\ nodes_hashs \in Seq(Datanode \X Nat) /\ Len(nodes_hashs) \in Nat
        /\ next \in 1 .. Len(nodes_hashs) + 1 /\ succ \in Nat
        /\ replicated \in BOOLEAN
    BY DEF IInv, Shape
  <1>2. getDecodeBlocks \in Nat \ {0}
    BY <1>1, Sizes
  <1>8. next \in Nat /\ next - 1 \in Nat
    BY <1>1
  <1>3. CASE StartDecode
    <2>1. /\ pc = "encoded" /\ pc' = "decode" /\ next = 1 /\ succ = 0
          /\ UNCHANGED <<config, up, encoding, decoding>>
      BY <1>3 DEF StartDecode, IInv, FetchInv
    <2>2. Shape' /\ RoundInv' /\ ShortMeansAllFailed' /\ EmptyMeansTooManyLost'
      BY <2>1 DEF IInv, Shape, RoundInv, ShortMeansAllFailed, EmptyMeansTooManyLost,
                  config, encoding, decoding
    <2>3. FetchInv'
      <3>1. Cardinality(Missed(0)') \in Nat
        <4>1. Missed(0)' = {}
          BY DEF Missed
        <4>2. QED BY <4>1, FS_EmptySet
      <3>2. QED
        BY <1>2, <2>1, <3>1 DEF FetchInv, getDecodeBlocks, config, decoding
    <2>4. QED BY <2>2, <2>3 DEF IInv
  <1>4. CASE GetSucceeds
    <2>1. /\ pc = "decode" /\ next <= Len(nodes_hashs)
          /\ succ' = succ + 1 /\ next' = next + 1
          /\ pc' = IF succ + 1 = getDecodeBlocks THEN "data" ELSE "decode"
          /\ UNCHANGED <<config, up, encoding, lost>>
      BY <1>4 DEF GetSucceeds
    <2>2. Shape' /\ RoundInv' /\ ShortMeansAllFailed' /\ EmptyMeansTooManyLost'
      BY <1>1, <2>1 DEF IInv, Shape, RoundInv, ShortMeansAllFailed, EmptyMeansTooManyLost,
                  config, encoding
    <2>3. Missed(next - 1) \subseteq Missed(next)
      BY <1>1 DEF Missed
    <2>4. Cardinality(Missed(next)) >= Cardinality(Missed(next - 1))
      BY <1>1, <2>3, MissedFinite, FS_Subset
    <2>5. Missed(next - 1)' = Missed(next)
      BY <1>1, <2>1 DEF Missed, encoding
    <2>6. FetchInv'
      <3>1. succ < getDecodeBlocks /\ Cardinality(Missed(next - 1)) >= next - 1 - succ
        BY <2>1 DEF IInv, FetchInv
      <3>2. getDecodeBlocks' = getDecodeBlocks
        BY <2>1 DEF getDecodeBlocks, config
      <3>3. Cardinality(Missed(next)) \in Nat /\ Cardinality(Missed(next - 1)) \in Nat
        BY <1>8, MissedFinite
      <3>4. Cardinality(Missed(next - 1)') >= next' - 1 - succ'
        BY <1>1, <2>1, <2>4, <2>5, <3>1, <3>3
      <3>5. pc' = "decode" => succ' < getDecodeBlocks
        BY <1>1, <1>2, <2>1, <3>1
      <3>6. pc' \in {"data", "decode"}
        BY <2>1
      <3>7. QED BY <3>2, <3>4, <3>5, <3>6 DEF FetchInv
    <2>7. QED BY <2>2, <2>6 DEF IInv
  <1>5. CASE GetFails
    <2>1. /\ pc = "decode" /\ pc' = pc /\ next <= Len(nodes_hashs)
          /\ succ' = succ /\ next' = next + 1
          /\ lost' = lost \cup {nodes_hashs[next][1]}
          /\ UNCHANGED <<config, up, encoding>>
      BY <1>5 DEF GetFails
    <2>2. Shape' /\ RoundInv' /\ ShortMeansAllFailed' /\ EmptyMeansTooManyLost'
      BY <1>1, <2>1 DEF IInv, Shape, RoundInv, ShortMeansAllFailed, EmptyMeansTooManyLost,
                  config, encoding
    <2>3. Missed(next - 1) \cup {next} \subseteq Missed(next - 1)'
      BY <1>1, <2>1 DEF Missed, encoding
    <2>4. next \notin Missed(next - 1)
      BY <1>1 DEF Missed
    <2>5. IsFiniteSet(Missed(next - 1)) /\ Cardinality(Missed(next - 1)) \in Nat
      BY <1>8, MissedFinite
    <2>6. Cardinality(Missed(next - 1) \cup {next}) = Cardinality(Missed(next - 1)) + 1
      BY <2>4, <2>5, FS_AddElement
    <2>7. IsFiniteSet(Missed(next - 1)')
      <3>1. Missed(next - 1)' \subseteq 1 .. next
        BY <1>1, <2>1 DEF Missed
      <3>2. IsFiniteSet(1 .. next)
        BY <1>1, FS_Interval
      <3>3. QED BY <3>1, <3>2, FS_Subset, Zenon
    <2>8. Cardinality(Missed(next - 1)') >= Cardinality(Missed(next - 1)) + 1
      BY <2>3, <2>6, <2>7, FS_Subset
    <2>9. FetchInv'
      <3>1. succ < getDecodeBlocks /\ Cardinality(Missed(next - 1)) >= next - 1 - succ
        BY <2>1 DEF IInv, FetchInv
      <3>2. getDecodeBlocks' = getDecodeBlocks
        BY <2>1 DEF getDecodeBlocks, config
      <3>3. Cardinality(Missed(next - 1)') \in Nat
        BY <2>7, FS_CardinalityType
      <3>4. Cardinality(Missed(next - 1)') >= next' - 1 - succ'
        BY <1>1, <2>1, <2>5, <2>8, <3>1, <3>3
      <3>5. QED BY <2>1, <3>1, <3>2, <3>4 DEF FetchInv
    <2>10. QED BY <2>2, <2>9 DEF IInv
  <1>6. CASE ReturnEmpty
    <2>1. /\ pc = "decode" /\ pc' = "empty" /\ next > Len(nodes_hashs)
          /\ UNCHANGED <<config, up, encoding, decoding>>
      BY <1>6 DEF ReturnEmpty
    <2>2. Shape' /\ RoundInv' /\ ShortMeansAllFailed' /\ FetchInv'
      BY <2>1 DEF IInv, Shape, RoundInv, ShortMeansAllFailed, FetchInv, config, encoding, decoding
    <2>3. next - 1 = Len(nodes_hashs)
      BY <1>1, <2>1
    <2>4. Cardinality(Missed(Len(nodes_hashs))) > Len(nodes_hashs) - getDecodeBlocks
      BY <1>1, <1>2, <2>1, <2>3, MissedFinite DEF IInv, FetchInv
    <2>5. EmptyMeansTooManyLost'
      BY <2>1, <2>4 DEF EmptyMeansTooManyLost, Missed, getDecodeBlocks, config, encoding, decoding
    <2>6. QED BY <2>2, <2>5 DEF IInv
  <1>7. QED BY <1>3, <1>4, <1>5, <1>6 DEF decode_one

\* The inductive invariant: both loops account for every datanode and every
\* pair they have been through.
THEOREM Invariance == Spec => []IInv
  <1>1. IInv /\ [Next]_vars => IInv'
    <2> SUFFICES ASSUME IInv, [Next]_vars PROVE IInv'
      OBVIOUS
    <2>1. CASE \E d \in Datanode : Stop(d) \/ Restart(d)
      <3>1. UNCHANGED <<config, pc, encoding, decoding>> /\ up' \subseteq Datanode
        BY <2>1 DEF Stop, Restart, IInv, Shape
      <3>2. QED BY <3>1, OthersHold
    <2>2. CASE UNCHANGED vars
      <3>1. UNCHANGED <<config, pc, encoding, decoding>> /\ up' \subseteq Datanode
        BY <2>2 DEF vars, IInv, Shape
      <3>2. QED BY <3>1, OthersHold
    <2>3. CASE get_online_datanodes BY <2>3, StartHolds
    <2>4. CASE encode_one BY <2>4, EncodeHolds
    <2>5. CASE StartDecode \/ decode_one BY <2>5, DecodeHolds
    <2>6. QED BY <2>1, <2>2, <2>3, <2>4, <2>5 DEF Next
  <1>2. QED BY InitHolds, <1>1, PTL DEF Spec

\* An upload that ends short of fragments has seen the latest put to every
\* datanode fail, for any number of datanodes and any storage type.
THEOREM ShortUpload == Spec => []ShortMeansAllFailed
  <1>1. IInv => ShortMeansAllFailed
    BY DEF IInv
  <1>2. QED BY Invariance, <1>1, PTL

\* A download gives up only if more fragments are missing than the storage
\* type can spare, however many the upload has recorded.
THEOREM EmptyRead == Spec => []EmptyMeansTooManyLost
  <1>1. IInv => EmptyMeansTooManyLost
    BY DEF IInv
  <1>2. QED BY Invariance, <1>1, PTL

-----------------------------------------------------------------------------
(* Type correctness: the list of datanodes names datanodes, its index is   *)
(* inside it, and no more fragments are put or fetched than the storage    *)
(* type has.                                                               *)

\* A set of numbers that is not empty has a least element.
LEMMA Least ==
    ASSUME NEW S \in SUBSET Nat, S # {}
    PROVE  \E m \in S : \A s \in S : m <= s
  <1>1. PICK m \in S : \A s \in S : ~ (<<s, m>> \in OpToRel(<, Nat))
    BY NatLessThanWellFounded, WFMin
  <1>2. \A s \in S : ~ (s < m)
    BY <1>1, Zenon DEF OpToRel
  <1>3. QED BY <1>2

\* A finite set of numbers has an element above exactly k others, for every
\* k less than its size.
LEMMA Ranked ==
    ASSUME NEW S \in SUBSET Nat, IsFiniteSet(S), NEW k \in Nat, k < Cardinality(S)
    PROVE  \E d \in S : Cardinality({e \in S : e < d}) = k
  <1> DEFINE Below(d) == {e \in S : e < d}
             Bad == {j \in Nat : j < Cardinality(S) /\ ~ \E d \in S : Cardinality(Below(d)) = j}
  <1> SUFFICES ASSUME Bad # {} PROVE FALSE
    OBVIOUS
  <1>0. /\ \A d : Below(d) \subseteq S
        /\ \A d, e \in S : e \in Below(d) <=> e < d
        /\ \A i : i \in Bad <=> /\ i \in Nat /\ i < Cardinality(S)
                               /\ \A d \in S : Cardinality(Below(d)) # i
    BY Zenon
  <1>1. PICK j \in Bad : \A i \in Bad : j <= i
    BY Least, Zenon
  <1>2. \A T \in SUBSET S : IsFiniteSet(T) /\ Cardinality(T) \in Nat
    BY FS_Subset, FS_CardinalityType, Zenon
  <1> HIDE DEF Bad, Below
  <1>3. CASE j = 0
    <2>1. S # {}
      BY <1>0, <1>3, FS_EmptySet
    <2>2. PICK d \in S : \A s \in S : d <= s
      BY <2>1, Least
    <2>3. \A s \in S : ~ (s < d)
      BY <2>2
    <2>4. Below(d) = {}
      BY <1>0, <2>3, Zenon
    <2>5. QED BY <1>0, <1>1, <1>3, <2>4, FS_EmptySet
  <1>4. CASE j # 0
    <2>1. j - 1 \in Nat /\ j - 1 < Cardinality(S) /\ j - 1 \notin Bad /\ j \in Nat
      BY <1>0, <1>1, <1>2, <1>4
    <2>2. PICK c \in S : Cardinality(Below(c)) = j - 1
      BY <1>0, <2>1
    <2> DEFINE Upto == Below(c) \cup {c}
               Above == {e \in S : c < e}
    <2>3. c \notin Below(c) /\ IsFiniteSet(Below(c))
      BY <1>0, <1>2
    <2>4. Cardinality(Upto) = (j - 1) + 1
      BY <2>2, <2>3, FS_AddElement, Zenon
    <2>5. \A e : e \in Above <=> e \in S /\ c < e
      OBVIOUS
    <2>6. \A e \in S : e \in Upto <=> ~ (c < e)
      BY <1>0
    <2>7. Upto \subseteq S
      BY <1>0
    <2> HIDE DEF Upto, Above
    <2>8. Above # {}
      <3> SUFFICES ASSUME Above = {} PROVE FALSE
        OBVIOUS
      <3>1. S = Upto
        BY <2>5, <2>6, <2>7, Zenon
      <3>2. QED BY <1>0, <2>1, <2>4, <3>1
    <2>9. PICK d \in Above : \A s \in Above : d <= s
      BY <2>5, <2>8, Least, Zenon
    <2>10. \A e \in S : e < d <=> ~ (c < e)
      <3>1. d \in S /\ c < d /\ \A e \in S : c < e => d <= e
        BY <2>5, <2>9, Zenon
      <3>2. ASSUME NEW e \in S PROVE e < d <=> ~ (c < e)
        <4>1. e \in Nat /\ c \in Nat /\ d \in Nat
          BY <3>1
        <4>2. c < e => d <= e
          BY <3>1
        <4>3. QED BY <3>1, <4>1, <4>2
      <3>3. QED BY <3>2
    <2>11. d \in S /\ Below(d) = Upto
      BY <1>0, <2>5, <2>6, <2>7, <2>9, <2>10, Zenon
    <2>12. QED BY <1>0, <1>1, <2>1, <2>4, <2>11
  <1>5. QED BY <1>3, <1>4

\* get_online_datanodes lists datanodes.
LEMMA AscendingType ==
    ASSUME NEW S \in SUBSET Datanode
    PROVE  Ascending(S) \in Seq(Datanode) /\ Len(Ascending(S)) = Cardinality(S)
  <1>1. S \in SUBSET Nat /\ IsFiniteSet(S) /\ Cardinality(S) \in Nat
    BY DatanodeAssumption, FS_Subset, FS_CardinalityType, Zenon
  <1> DEFINE At(i) == CHOOSE d \in S : Cardinality({e \in S : e < d}) = i - 1
  <1>2. ASSUME NEW i \in 1 .. Cardinality(S) PROVE At(i) \in Datanode
    <2>1. i - 1 \in Nat /\ i - 1 < Cardinality(S)
      BY <1>1
    <2>2. \E d \in S : Cardinality({e \in S : e < d}) = i - 1
      BY <1>1, <2>1, Ranked
    <2>3. At(i) \in S
      BY <2>2, Zenon
    <2>4. QED BY <2>3
  <1> HIDE DEF At
  <1>3. Ascending(S) = [i \in 1 .. Cardinality(S) |-> At(i)]
    BY DEF Ascending, At
  <1>4. QED BY <1>1, <1>2, <1>3

\* While fragments are put, one more has room.
Types == TypeOK /\ (pc \in {"start", "encode"} => Len(nodes_hashs) < getBlocks)

\* The types hold before the upload.
LEMMA InitTypes == Init => Types
  <1> SUFFICES ASSUME Init PROVE Types
    OBVIOUS
  <1>1. getBlocks \in Nat \ {0} /\ getDecodeBlocks \in Nat \ {0}
    BY Sizes DEF Init
  <1>2. reliable \subseteq Datanode
    BY DatanodeAssumption DEF Init
  <1>3. stored \in [Datanode -> SUBSET (1 .. getBlocks)]
    BY DEF Init
  <1>4. nodes \in Seq(Datanode) /\ nodes_hashs \in Seq(Datanode \X (1 .. getBlocks))
    BY DEF Init
  <1>5. QED BY <1>1, <1>2, <1>3, <1>4 DEF Init, Types, TypeOK

\* A put leaves the index inside the list, and room while it goes on.
LEMMA PutTypes ==
    ASSUME Types, pc = "encode", NEW n \in Nat, NEW f \in Nat, EndOfBody(n, f),
           n <= getBlocks, Len(nodes_hashs') = n,
           nodes_hashs' \in Seq(Datanode \X (1 .. getBlocks)),
           stored' \in [Datanode -> SUBSET (1 .. getBlocks)],
           failing' \subseteq Datanode,
           UNCHANGED <<config, up, nodes, decoding>>, next = 1
    PROVE  Types'
  <1> USE DEF config, decoding
  <1>1. node_index \in Nat /\ Len(nodes) \in Nat /\ node_index < Len(nodes)
    BY DEF Types, TypeOK
  <1>2. node_index' \in Nat /\ node_index' < Len(nodes)
    BY <1>1, NextIndex DEF EndOfBody
  <1>3. getBlocks' = getBlocks /\ getDecodeBlocks' = getDecodeBlocks /\ getBlocks \in Nat
    BY Sizes DEF getBlocks, getDecodeBlocks, Types, TypeOK
  <1>4. /\ pc' \in {"encode", "encoded", "undefined"} /\ fail_count' \in {0, f}
        /\ pc' = "encode" => n # getBlocks
    BY DEF EndOfBody
  <1>5. pc' \in {"start", "encode"} => Len(nodes_hashs') < getBlocks'
    BY <1>3, <1>4
  <1>6. next' \in 1 .. Len(nodes_hashs') + 1
    OBVIOUS
  <1>7. TypeOK'
    BY <1>2, <1>3, <1>4, <1>6 DEF Types, TypeOK
  <1>8. QED BY <1>5, <1>7 DEF Types

\* Every step keeps the types.
LEMMA NextTypes ==
    ASSUME IInv, Types, Next
    PROVE  Types'
  <1>1. getBlocks \in Nat \ {0} /\ getDecodeBlocks \in Nat \ {0}
    BY Sizes DEF Types, TypeOK
  <1>2. /\ nodes \in Seq(Datanode) /\ node_index \in Nat /\ fail_count \in Nat
        /\ nodes_hashs \in Seq(Datanode \X (1 .. getBlocks)) /\ Len(nodes_hashs) \in Nat
        /\ stored \in [Datanode -> SUBSET (1 .. getBlocks)] /\ failing \subseteq Datanode
        /\ next \in 1 .. Len(nodes_hashs) + 1 /\ succ \in 0 .. getDecodeBlocks
        /\ up \subseteq Datanode
    BY DEF Types, TypeOK
  <1>3. UNCHANGED config => getBlocks' = getBlocks /\ getDecodeBlocks' = getDecodeBlocks
    BY DEF config, getBlocks, getDecodeBlocks
  <1>4. ASSUME NEW d \in Datanode, Stop(d) \/ Restart(d) PROVE Types'
    BY <1>3, <1>4 DEF Stop, Restart, Types, TypeOK, config, encoding, decoding
  <1>5. CASE get_online_datanodes
    <2>1. up \in SUBSET Datanode /\ IsFiniteSet(up) /\ Cardinality(up) \in Nat
      BY <1>2, DatanodeAssumption, FS_Subset, FS_CardinalityType, Zenon
    <2>2. nodes' \in Seq(Datanode) /\ Len(nodes') = Cardinality(up)
      BY <1>5, <2>1, AscendingType DEF get_online_datanodes
    <2>3. pc' = "encode" => node_index' < Len(nodes')
      BY <1>5, <2>1, <2>2, FS_EmptySet DEF get_online_datanodes, IInv, RoundInv
    <2>4. pc = "start" /\ pc' \in {"undefined", "encode"}
      BY <1>5 DEF get_online_datanodes
    <2>5. UNCHANGED <<config, up, stored, node_index, fail_count, nodes_hashs, failing, decoding>>
      BY <1>5 DEF get_online_datanodes
    <2>6. QED
      BY <1>3, <2>2, <2>3, <2>4, <2>5 DEF Types, TypeOK, config, decoding
  <1> DEFINE d == nodes[node_index + 1]
             i == Len(nodes_hashs) + 1
  <1>6. CASE encode_one
    <2>1. pc = "encode" /\ d \in Datanode /\ i \in 1 .. getBlocks /\ next = 1
      BY <1>1, <1>2, <1>6 DEF encode_one, PutSucceeds, PutFails, Types, TypeOK, IInv, FetchInv
    <2>2. [stored EXCEPT ![d] = @ \cup {i}] \in [Datanode -> SUBSET (1 .. getBlocks)]
      BY <1>2, <2>1
    <2>3. CASE PutSucceeds
      <3>1. /\ stored' = [stored EXCEPT ![d] = @ \cup {i}]
            /\ nodes_hashs' = Append(nodes_hashs, <<d, i>>)
            /\ failing' \subseteq Datanode
            /\ EndOfBody(i, fail_count)
            /\ UNCHANGED <<config, up, nodes, decoding>>
        BY <1>2, <2>3 DEF PutSucceeds
      <3>2. /\ nodes_hashs' \in Seq(Datanode \X (1 .. getBlocks)) /\ Len(nodes_hashs') = i
            /\ i \in Nat /\ i <= getBlocks
        BY <1>1, <1>2, <2>1, <3>1
      <3>3. QED BY <1>2, <2>1, <2>2, <3>1, <3>2, PutTypes, Zenon
    <2>4. CASE PutFails
      <3>1. /\ stored' = stored \/ stored' = [stored EXCEPT ![d] = @ \cup {i}]
            /\ nodes_hashs' = nodes_hashs
            /\ failing' \subseteq Datanode
            /\ EndOfBody(i - 1, fail_count + 1)
            /\ UNCHANGED <<config, up, nodes, decoding>>
        BY <1>2, <2>1, <2>4 DEF PutFails
      <3>2. i - 1 \in Nat /\ i - 1 <= getBlocks /\ Len(nodes_hashs') = i - 1
            /\ fail_count + 1 \in Nat
        BY <1>1, <1>2, <2>1, <3>1
      <3>3. QED BY <1>2, <2>1, <2>2, <3>1, <3>2, PutTypes, Zenon
    <2>5. QED BY <1>6, <2>3, <2>4 DEF encode_one
  <1>7. CASE StartDecode \/ ReturnEmpty
    BY <1>3, <1>7 DEF StartDecode, ReturnEmpty, Types, TypeOK, config, encoding, decoding
  <1>8. CASE GetSucceeds
    <2>1. /\ pc = "decode" /\ next <= Len(nodes_hashs)
          /\ succ' = succ + 1 /\ next' = next + 1 /\ pc' \in {"data", "decode"}
          /\ UNCHANGED <<config, up, stored, encoding, lost>>
      BY <1>8 DEF GetSucceeds
    <2>2. succ' \in 0 .. getDecodeBlocks /\ next' \in 1 .. Len(nodes_hashs) + 1
      BY <1>1, <1>2, <2>1 DEF IInv, FetchInv
    <2>3. QED BY <1>3, <2>1, <2>2 DEF Types, TypeOK, config, encoding
  <1>9. CASE GetFails
    <2>1. /\ pc = "decode" /\ next <= Len(nodes_hashs)
          /\ next' = next + 1 /\ lost' = lost \cup {nodes_hashs[next][1]}
          /\ UNCHANGED <<config, up, stored, pc, encoding, succ>>
      BY <1>9 DEF GetFails
    <2>2. nodes_hashs[next][1] \in Datanode /\ next' \in 1 .. Len(nodes_hashs) + 1
      BY <1>2, <2>1
    <2>3. QED BY <1>3, <2>1, <2>2 DEF Types, TypeOK, config, encoding
  <1>10. QED BY <1>4, <1>5, <1>6, <1>7, <1>8, <1>9 DEF Next, decode_one

\* The loops of encode_one and decode_one stay inside their arrays, for any
\* number of datanodes and any storage type.
THEOREM TypeCorrect == Spec => []TypeOK
  <1>1. IInv /\ Types /\ [Next]_vars => Types'
    <2>1. Types /\ UNCHANGED vars => Types'
      BY DEF vars, Types, TypeOK, config, encoding, decoding, getBlocks, getDecodeBlocks
    <2>2. QED BY <2>1, NextTypes
  <1>2. Types => TypeOK
    BY DEF Types
  <1>3. QED BY <1>1, <1>2, InitTypes, Invariance, PTL DEF Spec
=============================================================================
