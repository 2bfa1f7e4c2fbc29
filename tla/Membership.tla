----------------------------- MODULE Membership -----------------------------
(***************************************************************************)
(* Which nodes run a namenode: the raft group of all nodes (RaftDN,        *)
(* raft_dn.cpp), whose log holds lists of namenodes, and class Server      *)
(* (server.cpp), which starts, changes and stops the namenode of its node. *)
(*                                                                         *)
(* The leader of the group chooses a list when it is elected.  When it     *)
(* applies a list it starts a timer thread, which scans the namenodes and  *)
(* ends by choosing again when one of them does not answer.  Choosing runs *)
(* in the thread of the state machine or in a timer thread, and takes two  *)
(* scans, so lists and timers change in between.                           *)
(*                                                                         *)
(* braft is external: a list given to it is committed, unless the leader   *)
(* loses its place.  A list equal to the last one does not lengthen the    *)
(* log here: the nodes that have applied that one apply it once more.      *)
(***************************************************************************)
EXTENDS Integers, Sequences, FiniteSets

CONSTANTS
    Setups,     \* the groups and bounds to look at, records as below
    NoLeader

VARIABLES
    setup,          \* the one of Setups that this behaviour has
    up,             \* nodes whose process runs
    leader,         \* leader of the datanode group
    elected,        \* its on_leader_start has not run yet
    log,            \* the committed lists
    applied,        \* applied[n]: how many of them n has applied
    saved,          \* saved[n]: the latest snapshot of n
    namenode_list,  \* namenode_list[n]
    peers,          \* peers[n]: of its RaftNN; {} when nn_raft_ptr is null
    thread,         \* thread[n][k]: threads of n that watch or choose
    reset,          \* history: nodes that have called reset_peers
    stops, stepdowns, saves

Node == setup.nodes              \* numbers, in the order of datanode_list
expected_nn == setup.expected_nn \* how many namenodes there should be
Prompt == setup.prompt           \* lists are applied within NN_INTERVAL
MaxSaves == setup.saves          \* bound on snapshots
MaxStops == setup.stops          \* bound on processes that stop
MaxStepDowns == setup.stepdowns  \* bound on leaders that lose their place
MaxLog == setup.changes          \* bound on changes of the list

AllNodes == UNION {s.nodes : s \in Setups}

ASSUME MembershipAssumption ==
    /\ NoLeader \notin AllNodes
    /\ \A s \in Setups :
         /\ s.nodes \subseteq Nat /\ s.nodes # {} /\ IsFiniteSet(s.nodes)
         /\ s.expected_nn \in Nat \ {0}
         /\ s.prompt \in BOOLEAN
         /\ {s.saves, s.stops, s.stepdowns, s.changes} \subseteq Nat

group == <<setup, up, leader, elected, log, stops, stepdowns, saves>>
local == <<applied, saved, namenode_list, peers, reset>>
vars == <<group, local, thread>>

\* "fsm" runs on_apply and on_leader_start for braft.  "timer" is the
\* thread of nn_timer, "leaked" that of a timer nn_timer pointed to before.
Kind == {"fsm", "timer", "leaked"}

\* A thread is off, watches (timer), has applied a list (fsm), is about to
\* choose, or has scanned the namenodes and keeps those that answered.
Off == [pc |-> "off", kept |-> {}]
Thread == [pc : {"off", "watch", "applied", "choose", "fill"}, kept : SUBSET Node]

List == {L \in SUBSET Node : L # {} /\ Cardinality(L) <= expected_nn}

TypeOK ==
    /\ setup \in Setups
    /\ up \subseteq Node
    /\ leader \in up \cup {NoLeader}
    /\ elected \in BOOLEAN
    /\ log \in Seq(List)
    /\ applied \in [Node -> 0 .. Len(log)]
    /\ saved \in [Node -> [at : 0 .. Len(log), list : List \cup {{}}]]
    /\ namenode_list \in [Node -> List \cup {{}}]
    /\ peers \in [Node -> List \cup {{}}]
    /\ thread \in [Node -> [Kind -> Thread]]
    /\ reset \subseteq Node
    /\ stops \in 0 .. MaxStops
    /\ stepdowns \in 0 .. MaxStepDowns
    /\ saves \in 0 .. MaxSaves

Init ==
    /\ setup \in Setups
    /\ up = Node
    /\ leader = NoLeader
    /\ elected = FALSE
    /\ log = <<>>
    /\ applied = [n \in Node |-> 0]
    /\ saved = [n \in Node |-> [at |-> 0, list |-> {}]]
    /\ namenode_list = [n \in Node |-> {}]
    /\ peers = [n \in Node |-> {}]
    /\ thread = [n \in Node |-> [k \in Kind |-> Off]]
    /\ reset = {}
    /\ stops = 0 /\ stepdowns = 0 /\ saves = 0

Majority(S) == 2 * Cardinality(S) > Cardinality(Node)

\* Node::scan of the namenode port of n.
Serving(n) == n \in up /\ peers[n] # {}

\* The nodes of S, taken for namenodes, that node_discovery finds online.
node_discovery(S) == {m \in S : Serving(m)}

\* RaftDN::leader: a node that knows of no leader takes itself for it.
IsLeader(n) == leader \in {n, NoLeader}

-----------------------------------------------------------------------------
(* Choosing a list: on_leader_start.                                       *)

\* braft calls on_leader_start when everything before is applied.
on_leader_start(n) ==
    /\ leader = n /\ elected
    /\ applied[n] = Len(log)
    /\ thread[n]["fsm"] = Off
    /\ elected' = FALSE
    /\ thread' = [thread EXCEPT ![n]["fsm"].pc = "choose"]
    /\ UNCHANGED <<setup, up, leader, log, stops, stepdowns, saves, local>>

\* Mutant: the namenodes are kept without a scan.
KeepNamenodes_unscanned(n, k) ==
    /\ thread[n][k].pc = "choose"
    /\ thread' = [thread EXCEPT ![n][k] = [pc |-> "fill", kept |-> namenode_list[n]]]
    /\ UNCHANGED <<group, local>>

\* The present namenodes that answer are kept.
KeepNamenodes(n, k) ==
    /\ thread[n][k].pc = "choose"
    /\ thread' = [thread EXCEPT ![n][k] =
                    [pc |-> "fill", kept |-> node_discovery(namenode_list[n])]]
    /\ UNCHANGED <<group, local>>

\* Mutant: all nodes of a batch are added.
Fill_whole_batch(kept) ==
    kept \cup {m \in up \ kept :
                 Cardinality({i \in up \ kept : i < m}) < expected_nn}

\* Other nodes that answer on the datanode port are added, in the order of
\* datanode_list, until there are enough.
Fill(kept) ==
    kept \cup {m \in up \ kept :
                 Cardinality({i \in up \ kept : i < m})
                    < expected_nn - Cardinality(kept)}

\* Mutant: a list that changes nothing is not proposed.
Appended_only_changes(L) ==
    /\ log' = IF log # <<>> /\ log[Len(log)] = L THEN log ELSE Append(log, L)
    /\ UNCHANGED <<applied, saved>>

\* The chosen list L goes into the log.  If it equals the last list, that
\* one is to be applied again, by all nodes.
Appended(L) ==
    LET again == log # <<>> /\ log[Len(log)] = L
        last == Len(log) - 1
    IN
    /\ log' = IF again THEN log ELSE Append(log, L)
    /\ applied' = IF again
                  THEN [m \in Node |-> IF applied[m] > last THEN last ELSE applied[m]]
                  ELSE applied
    /\ saved' = IF again
                THEN [m \in Node |-> IF saved[m].at > last
                                     THEN [saved[m] EXCEPT !.at = last] ELSE saved[m]]
                ELSE saved

\* raft_node->apply.  Only the leader's list gets into the log.
AddNodes(n, k) ==
    /\ thread[n][k].pc = "fill"
    /\ Len(log) < MaxLog
    /\ thread' = [thread EXCEPT ![n][k] = Off]
    /\ IF leader = n
         THEN Appended(Fill(thread[n][k].kept))
         ELSE UNCHANGED <<log, applied, saved>>
    /\ UNCHANGED <<setup, up, leader, elected, stops, stepdowns, saves, namenode_list,
                   peers, reset>>

-----------------------------------------------------------------------------
(* Applying a list.                                                        *)

\* Mutant: the size of the list is not halved.
MustReset_unless_all(P, L) == Cardinality(P \cap L) < Cardinality(L)

\* Server::change_namenodes_list: a running namenode whose peers were P
\* resets its peers when too few of the list L were among them.
MustReset(P, L) == Cardinality(P \cap L) <= Cardinality(L) \div 2

\* RaftNN::peers, which the constructor, change_peers and reset_peers set
\* at once, whatever becomes of the change in the namenode group.
NewPeers(n, L) == IF n \in L THEN L ELSE {}

\* RaftDN::on_apply of the entries up to j, and Server::on_namenodes_change:
\* of several entries only the last one counts.
on_apply(n, j) ==
    LET L == log[j] IN
    /\ n \in up
    /\ thread[n]["fsm"] = Off
    /\ applied[n] < j
    /\ applied' = [applied EXCEPT ![n] = j]
    /\ namenode_list' = [namenode_list EXCEPT ![n] = L]
    /\ peers' = [peers EXCEPT ![n] = NewPeers(n, L)]
    /\ reset' = IF n \in L /\ peers[n] # {} /\ MustReset(peers[n], L)
                THEN reset \cup {n} ELSE reset
    /\ thread' = [thread EXCEPT ![n]["fsm"].pc = "applied"]
    /\ UNCHANGED <<group, saved>>

\* IntervalTimer::stop can join a thread that is not in timeoutFunc.
Joinable(n) == thread[n]["timer"].pc \in {"off", "watch"}

\* The end of on_apply.  A node that knows another leader deletes nn_timer,
\* and waits for a choice that its thread is making; the leader, or a node
\* that knows of none, makes a new timer and forgets the one it had.
DeleteTimer(n) ==
    /\ thread[n]["fsm"].pc = "applied"
    /\ ~ IsLeader(n)
    /\ Joinable(n)
    /\ thread' = [thread EXCEPT ![n]["fsm"] = Off, ![n]["timer"] = Off]
    /\ UNCHANGED <<group, local>>

\* One leaked thread is tracked for each node.
NewTimer(n) ==
    /\ thread[n]["fsm"].pc = "applied"
    /\ IsLeader(n)
    /\ thread' = [thread EXCEPT
                    ![n]["fsm"] = Off,
                    ![n]["timer"] = [pc |-> "watch", kept |-> {}],
                    ![n]["leaked"] = IF thread[n]["timer"] = Off
                                     THEN @ ELSE thread[n]["timer"]]
    /\ UNCHANGED <<group, local>>

\* A timer finds a namenode that does not answer: TimeoutException, which
\* ends the timer after on_nodes_loss.
on_nodes_loss(n, k) ==
    /\ k \in {"timer", "leaked"}
    /\ thread[n][k].pc = "watch"
    /\ Prompt => \A m \in up : applied[m] = Len(log)
    /\ \E m \in namenode_list[n] : ~ Serving(m)
    /\ thread' = [thread EXCEPT ![n][k].pc = "choose"]
    /\ UNCHANGED <<group, local>>

-----------------------------------------------------------------------------
(* Snapshots of the datanode group.                                        *)

on_snapshot_save(n) ==
    /\ saves < MaxSaves
    /\ n \in up
    /\ thread[n]["fsm"] = Off
    /\ saved[n].at < applied[n]
    /\ saves' = saves + 1
    /\ saved' = [saved EXCEPT ![n] = [at |-> applied[n], list |-> namenode_list[n]]]
    /\ UNCHANGED <<setup, up, leader, elected, log, stops, stepdowns, applied,
                   namenode_list, peers, reset, thread>>

\* on_snapshot_load of the leader's snapshot by a node that is behind: the
\* list is taken over, but applyCallback is not called.
on_snapshot_load(n) ==
    /\ n \in up
    /\ leader \notin {n, NoLeader}
    /\ thread[n]["fsm"] = Off
    /\ applied[n] < saved[leader].at
    /\ applied' = [applied EXCEPT ![n] = saved[leader].at]
    /\ saved' = [saved EXCEPT ![n] = saved[leader]]
    /\ namenode_list' = [namenode_list EXCEPT ![n] = saved[leader].list]
    /\ UNCHANGED <<group, peers, reset, thread>>

-----------------------------------------------------------------------------
(* Processes and elections.                                                *)

\* Only as long as a majority of the nodes stays up.
Stop(n) ==
    /\ stops < MaxStops
    /\ n \in up /\ Majority(up \ {n})
    /\ stops' = stops + 1
    /\ up' = up \ {n}
    /\ leader' = IF leader = n THEN NoLeader ELSE leader
    /\ elected' = (elected /\ leader # n)
    /\ peers' = [peers EXCEPT ![n] = {}]
    /\ thread' = [thread EXCEPT ![n] = [k \in Kind |-> Off]]
    /\ UNCHANGED <<setup, log, stepdowns, saves, applied, saved, namenode_list,
                   reset>>

\* Server::start: the snapshot is loaded, the entries after it are applied.
Restart(n) ==
    /\ n \notin up
    /\ up' = up \cup {n}
    /\ applied' = [applied EXCEPT ![n] = saved[n].at]
    /\ namenode_list' = [namenode_list EXCEPT ![n] = saved[n].list]
    /\ UNCHANGED <<setup, leader, elected, log, stops, stepdowns, saves, saved, peers,
                   reset, thread>>

StepDown ==
    /\ leader # NoLeader
    /\ stepdowns < MaxStepDowns
    /\ stepdowns' = stepdowns + 1
    /\ leader' = NoLeader
    /\ elected' = FALSE
    /\ UNCHANGED <<setup, up, log, stops, saves, local, thread>>

Elect(n) ==
    /\ leader = NoLeader
    /\ n \in up /\ Majority(up)
    /\ leader' = n
    /\ elected' = TRUE
    /\ UNCHANGED <<setup, up, log, stops, stepdowns, saves, local, thread>>

Apply(n) == \E j \in 1 .. Len(log) : on_apply(n, j)
Watch(n) == \E k \in Kind : on_nodes_loss(n, k)
Choose(n) == \E k \in Kind : KeepNamenodes(n, k) \/ AddNodes(n, k)

Next ==
    \/ \E n \in Node :
         \/ on_leader_start(n) \/ Choose(n) \/ Apply(n)
         \/ DeleteTimer(n) \/ NewTimer(n) \/ Watch(n)
         \/ on_snapshot_save(n) \/ on_snapshot_load(n)
         \/ Stop(n) \/ Restart(n) \/ Elect(n)
    \/ StepDown

Spec == Init /\ [][Next]_vars

\* Threads run on, lists are applied, and when there is no leader one is
\* elected.  No process need restart and no snapshot need be taken.
FairSpec ==
    /\ Spec
    /\ \A n \in AllNodes :
         /\ WF_vars(n \in Node /\ on_leader_start(n))
         /\ WF_vars(n \in Node /\ Apply(n))
         /\ WF_vars(n \in Node /\ DeleteTimer(n))
         /\ WF_vars(n \in Node /\ NewTimer(n))
         /\ \A k \in Kind : /\ WF_vars(n \in Node /\ on_nodes_loss(n, k))
                            /\ WF_vars(n \in Node /\ KeepNamenodes(n, k))
                            /\ WF_vars(n \in Node /\ AddNodes(n, k))
    /\ WF_vars(\E n \in Node : Elect(n))

-----------------------------------------------------------------------------
(* Properties.                                                             *)

\* A leader that has nothing left to apply and to choose has a thread that
\* watches the namenodes or chooses new ones: the timer that found a loss
\* has ended, but the list it chose makes a new one.
LeaderWatches ==
    leader # NoLeader /\ ~ elected /\ applied[leader] = Len(log) =>
        \E k \in Kind : thread[leader][k] # Off

\* reset_peers gives up what the old namenodes agreed on (the to-do list in
\* README.md:10 calls it losing meta data).  It is called by no node, as
\* long as less than half as many processes stop as there are namenodes.
NoReset == reset = {}

\* When processes and leaders have stopped failing, all namenodes of the
\* latest list come to answer and go on to do so.
NamenodesServe ==
    <>[](log # <<>> /\ \A m \in log[Len(log)] : Serving(m))
=============================================================================
