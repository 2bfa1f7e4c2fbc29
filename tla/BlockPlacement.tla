--------------------------- MODULE BlockPlacement ---------------------------
(***************************************************************************)
(* One block of a file on its way to the datanodes and back:               *)
(* SDK::encode_one and SDK::decode_one (sdk.cpp), the storage types RS and *)
(* RE (inode.cpp) and the put and get handlers of the datanodes            *)
(* (datanode.cpp).  Datanodes stop and come back at any time; what they    *)
(* store they keep.                                                        *)
(*                                                                         *)
(* RS<K,M> encodes a block into K+M fragments, any K of which give it      *)
(* back; RE<R> is R copies.  A fragment is its number.                     *)
(***************************************************************************)
EXTENDS Integers, Sequences, FiniteSets

CONSTANTS
    Datanode,      \* numbers, in the order get_datanodes returns them
    ReliableSets,  \* what the set of reliable datanodes may be
    K, M,          \* of RS
    R              \* of RE

ASSUME DatanodeAssumption ==
    /\ Datanode \subseteq Nat /\ IsFiniteSet(Datanode)
    /\ ReliableSets \subseteq SUBSET Datanode

ASSUME StorageAssumption ==
    /\ K \in Nat \ {0} /\ M \in Nat
    /\ R \in Nat \ {0}

VARIABLES
    replicated,  \* the storage type of the file is RE, not RS
    reliable,    \* datanodes that are always up and answer in time
    up,          \* the datanodes that are running
    stored,      \* stored[d]: the fragments in the data directory of d
    pc,          \* where the client is
    nodes,       \* encode_one: the datanodes found online at the start
    node_index,
    fail_count,
    nodes_hashs, \* encode_one: <<datanode, fragment>> pairs, in order
    failing,     \* history: datanodes whose latest put has failed
    next,        \* decode_one: the pair to fetch next
    succ,        \* decode_one: fragments fetched
    lost         \* history: datanodes that failed a get of decode_one

config == <<replicated, reliable>>
encoding == <<nodes, node_index, fail_count, nodes_hashs, failing>>
decoding == <<next, succ, lost>>
vars == <<config, up, stored, pc, encoding, decoding>>

\* getBlocks, getDecodeBlocks and check of the storage type.
getBlocks == IF replicated THEN R ELSE K + M
getDecodeBlocks == IF replicated THEN 1 ELSE K
check(n) == IF replicated THEN n >= 1 ELSE n > K

TypeOK ==
    /\ replicated \in BOOLEAN /\ reliable \in ReliableSets
    /\ reliable \subseteq up /\ up \subseteq Datanode
    /\ stored \in [Datanode -> SUBSET (1 .. getBlocks)]
    /\ pc \in {"start", "encode", "encoded", "undefined", "decode", "data", "empty"}
    /\ nodes \in Seq(Datanode)
    /\ pc \in {"encode", "encoded", "decode"} => node_index < Len(nodes)
    /\ node_index \in Nat /\ fail_count \in Nat
    /\ nodes_hashs \in Seq(Datanode \X (1 .. getBlocks))
    /\ failing \subseteq Datanode /\ lost \subseteq Datanode
    /\ next \in 1 .. Len(nodes_hashs) + 1
    /\ succ \in 0 .. getDecodeBlocks

Init ==
    /\ replicated \in BOOLEAN
    /\ reliable \in ReliableSets
    /\ up = Datanode
    /\ stored = [d \in Datanode |-> {}]
    /\ pc = "start"
    /\ nodes = <<>> /\ node_index = 0 /\ fail_count = 0
    /\ nodes_hashs = <<>> /\ failing = {}
    /\ next = 1 /\ succ = 0 /\ lost = {}

-----------------------------------------------------------------------------
(* The datanodes.                                                          *)

Stop(d) ==
    /\ d \in up \ reliable
    /\ up' = up \ {d}
    /\ UNCHANGED <<config, stored, pc, encoding, decoding>>

Restart(d) ==
    /\ d \notin up
    /\ up' = up \cup {d}
    /\ UNCHANGED <<config, stored, pc, encoding, decoding>>

-----------------------------------------------------------------------------
(* encode_one.                                                             *)

\* The elements of a set of numbers, ascending.
Ascending(S) ==
    [i \in 1 .. Cardinality(S) |->
        CHOOSE d \in S : Cardinality({e \in S : e < d}) = i - 1]

\* get_online_datanodes.  With nobody online, nodes[0] and the remainder by
\* nodes.size() are undefined.
get_online_datanodes ==
    /\ pc = "start"
    /\ nodes' = Ascending(up)
    /\ pc' = IF up = {} THEN "undefined" ELSE "encode"
    /\ UNCHANGED <<config, up, stored, node_index, fail_count, nodes_hashs, failing,
                   decoding>>

\* Mutant: one put that failed in the round is enough to give up.
EndOfBody_any_failure(n, f) ==
    LET i == (node_index + 1) % Len(nodes)
        round == i = 0 /\ ~ check(n)
    IN
    /\ node_index' = i
    /\ fail_count' = IF check(n) \/ round THEN 0 ELSE f
    /\ pc' = IF (round /\ f > 0) \/ n = getBlocks
             THEN IF n = 0 THEN "undefined" ELSE "encoded"
             ELSE "encode"

\* Mutant: node_index does not wrap around.
EndOfBody_no_wrap(n, f) ==
    /\ node_index' = node_index + 1
    /\ fail_count' = f
    /\ pc' = IF n = getBlocks THEN "encoded" ELSE "encode"

\* The rest of the loop body, after n fragments have been stored and f puts
\* have failed: go to the next datanode; after the last one, while the
\* block is not secure, give up if all puts of the round have failed.
\* encode_one_sub of no pair at all is undefined (pop_back of "").  Once the
\* block is secure fail_count is not read any more, and is dropped.
EndOfBody(n, f) ==
    LET i == (node_index + 1) % Len(nodes)
        round == i = 0 /\ ~ check(n)
    IN
    /\ node_index' = i
    /\ fail_count' = IF check(n) \/ (round /\ f # Len(nodes)) THEN 0 ELSE f
    /\ pc' = IF (round /\ f = Len(nodes)) \/ n = getBlocks
             THEN IF n = 0 THEN "undefined" ELSE "encoded"
             ELSE "encode"

\* One pass of the loop: fragment i goes to the current datanode.
PutSucceeds ==
    LET d == nodes[node_index + 1]
        i == Len(nodes_hashs) + 1
    IN
    /\ pc = "encode"
    /\ d \in up
    /\ stored' = [stored EXCEPT ![d] = @ \cup {i}]
    /\ nodes_hashs' = Append(nodes_hashs, <<d, i>>)
    /\ failing' = failing \ {d}
    /\ EndOfBody(i, fail_count)
    /\ UNCHANGED <<config, up, nodes, decoding>>

\* Mutant: a put that failed is repeated on the same datanode.
PutFails_same_node ==
    /\ pc = "encode"
    /\ nodes[node_index + 1] \notin reliable
    /\ failing' = failing \cup {nodes[node_index + 1]}
    /\ UNCHANGED <<config, up, stored, pc, nodes, node_index, fail_count, nodes_hashs,
                   decoding>>

\* The datanode is down, or answers after the timeout, when it may have
\* stored the fragment all the same.
PutFails ==
    LET d == nodes[node_index + 1]
        i == Len(nodes_hashs) + 1
    IN
    /\ pc = "encode"
    /\ d \notin reliable
    /\ \/ UNCHANGED stored
       \/ d \in up /\ stored' = [stored EXCEPT ![d] = @ \cup {i}]
    /\ failing' = failing \cup {d}
    /\ EndOfBody(i - 1, fail_count + 1)
    /\ UNCHANGED <<config, up, nodes, nodes_hashs, decoding>>

encode_one == PutSucceeds \/ PutFails

-----------------------------------------------------------------------------
(* decode_one of the pairs that encode_one returned.                       *)

StartDecode ==
    /\ pc = "encoded"
    /\ pc' = "decode"
    /\ UNCHANGED <<config, up, stored, encoding, decoding>>

\* datas[succ++] = get_from_datanode(...): the right side is evaluated
\* first, so a get that throws leaves succ alone.
GetSucceeds ==
    LET pair == nodes_hashs[next] IN
    /\ pc = "decode"
    /\ next <= Len(nodes_hashs)
    /\ pair[1] \in up /\ pair[2] \in stored[pair[1]]
    /\ succ' = succ + 1
    /\ next' = next + 1
    /\ pc' = IF succ' = getDecodeBlocks THEN "data" ELSE "decode"
    /\ UNCHANGED <<config, up, stored, encoding, lost>>

\* Mutant: the first get that fails ends the loop.
GetFails_gives_up ==
    /\ pc = "decode"
    /\ next <= Len(nodes_hashs)
    /\ nodes_hashs[next][1] \notin reliable
    /\ next' = Len(nodes_hashs) + 1
    /\ lost' = lost \cup {nodes_hashs[next][1]}
    /\ UNCHANGED <<config, up, stored, pc, encoding, succ>>

GetFails ==
    LET pair == nodes_hashs[next] IN
    /\ pc = "decode"
    /\ next <= Len(nodes_hashs)
    /\ pair[1] \notin reliable
    /\ next' = next + 1
    /\ lost' = lost \cup {pair[1]}
    /\ UNCHANGED <<config, up, stored, pc, encoding, succ>>

\* The pairs are used up: the block is "".
ReturnEmpty ==
    /\ pc = "decode"
    /\ next > Len(nodes_hashs)
    /\ pc' = "empty"
    /\ UNCHANGED <<config, up, stored, encoding, decoding>>

decode_one == GetSucceeds \/ GetFails \/ ReturnEmpty

Next ==
    \/ \E d \in Datanode : Stop(d) \/ Restart(d)
    \/ get_online_datanodes
    \/ encode_one
    \/ StartDecode
    \/ decode_one

Spec == Init /\ [][Next]_vars

\* The client's loops run on.  Nothing is assumed of datanodes that are not
\* reliable.
FairSpec ==
    Spec /\ WF_vars(encode_one) /\ WF_vars(decode_one)

-----------------------------------------------------------------------------
(* Properties.                                                             *)

\* encode_one returns fewer fragments than the storage type asks for only
\* when every datanode it knew has failed its latest put: failures that are
\* spread over several rounds never add up to giving up.
ShortMeansAllFailed ==
    pc \in {"encoded", "undefined"} /\ Len(nodes_hashs) < getBlocks =>
        \A j \in 1 .. Len(nodes) : nodes[j] \in failing

\* decode_one returns "" (which its callers take for the contents) only if
\* more of the recorded fragments than the block can spare were on
\* datanodes that failed.
EmptyMeansTooManyLost ==
    pc = "empty" =>
        Cardinality({j \in 1 .. Len(nodes_hashs) : nodes_hashs[j][1] \in lost})
            > Len(nodes_hashs) - getDecodeBlocks

\* "avoid i-- becomes endless loop" (sdk.cpp:395): the upload loop ends,
\* although a put that fails is repeated.
UploadEnds == (pc = "encode") ~> (pc # "encode")

\* One datanode that is up and answers is enough for the upload to end,
\* whatever the others do: a put that fails goes on to the next datanode.
ReliableUploadEnds == reliable # {} => UploadEnds
=============================================================================
