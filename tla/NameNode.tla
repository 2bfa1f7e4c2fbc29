------------------------------ MODULE NameNode ------------------------------
(***************************************************************************)
(* The namenode group: the RPC handlers of NamenodeServiceImpl             *)
(* (namenode.cpp), the replicated state machine RaftNN (raft_nn.cpp) and   *)
(* the RocksDB of each replica (module Inodes).                            *)
(*                                                                         *)
(* A handler that writes works in three steps, each of which interleaves   *)
(* with everything else: it checks the request against the local RocksDB   *)
(* and builds the inode to write (prepare), it gives that inode to braft   *)
(* (apply), and much later on_apply writes it on every replica without     *)
(* checking anything again.  A request that fails a check is answered and  *)
(* changes nothing, so it is a stuttering step.                            *)
(*                                                                         *)
(* braft is external: one log, of which the first  commit  entries are     *)
(* durable; a leader may lose its place at any time, and the next leader   *)
(* keeps every committed entry and any number of the others.               *)
(***************************************************************************)
EXTENDS Inodes, Naturals, Sequences, FiniteSets

CONSTANTS
    Node,        \* the namenodes
    Client,      \* callers, each with at most one RPC outstanding
    NoLeader,    \* braft reports no leader
    Stable,      \* TRUE: the leader never loses its place
    PutChecked,  \* TRUE: callers put files only into directories that they
                 \* have looked up (FUSE); FALSE: anywhere (command line)
    MaxLog       \* bound on the log, outstanding requests included

ASSUME NodeAssumption == NoLeader \notin Node /\ Node # {}

ASSUME FlagAssumption == Stable \in BOOLEAN /\ PutChecked \in BOOLEAN

VARIABLES
    log,        \* the raft log
    commit,     \* how many of its entries are committed
    leader,     \* the current leader, or NoLeader
    db,         \* db[n]: what RocksDB of n stores
    applied,    \* applied[n]: how many entries on_apply of n has run
    aborted,    \* nodes stopped by the assertion in get_parent_inode
    rpc         \* rpc[c]: the progress of the RPC of c

vars == <<log, commit, leader, db, applied, aborted, rpc>>

raft == <<log, commit, leader>>
store == <<db, applied, aborted>>

\* The stages of an RPC: between the two reads of prepare_mkdir, between
\* prepare_* and apply, and waiting for the closure of log entry  index.
Idle == [pc |-> "idle"]
Rpc == {Idle}
       \cup [pc : {"mkdir", "prepared"}, node : Node, task : Task]
       \cup [pc : {"proposed"}, node : Node, index : Nat]

TypeOK ==
    /\ log \in Seq(Task)
    /\ commit \in 0 .. Len(log)
    /\ leader \in Node \cup {NoLeader}
    /\ db \in [Node -> KV]
    /\ applied \in [Node -> 0 .. commit]
    /\ aborted \in SUBSET Node
    /\ rpc \in [Client -> Rpc]

Init ==
    /\ log = <<>>
    /\ commit = 0
    /\ leader = NoLeader
    /\ db = [n \in Node |-> [p \in Path |-> NotFound]]
    /\ applied = [n \in Node |-> 0]
    /\ aborted = {}
    /\ rpc = [c \in Client |-> Idle]

-----------------------------------------------------------------------------
(* The RPC handlers.                                                       *)

\* check_leader.  RaftNN::leader answers "I am" also when braft knows of no
\* leader, so any node passes while there is none.
check_leader(n) == n \notin aborted /\ leader \in {n, NoLeader}

Room ==
    Len(log) + Cardinality({c \in Client : rpc[c] # Idle}) < MaxLog

\* c calls n, and the handler gets past check_leader.
Call(c, n) == rpc[c] = Idle /\ check_leader(n) /\ Room

Stage(c, n, pc, type, p, ino) ==
    /\ rpc' = [rpc EXCEPT ![c] =
                 [pc |-> pc, node |-> n,
                  task |-> [type |-> type, path |-> p, inode |-> ino]]]
    /\ UNCHANGED <<raft, store>>

Answer(c) == rpc' = [rpc EXCEPT ![c] = Idle]

\* Mutant: the parent is not checked.
mkdir_anywhere(c, n, p) ==
    /\ Call(c, n)
    /\ Stage(c, n, "mkdir", "OP_MKDIR", p, DefaultDir)

\* mkdir: try_to_add reads the parent, then the path, in two reads.
mkdir(c, n, p) ==
    /\ Call(c, n)
    /\ path_exists(db[n], Parent[p])
    /\ Stage(c, n, "mkdir", "OP_MKDIR", p, DefaultDir)

MkdirCheckPath(c) ==
    /\ rpc[c].pc = "mkdir"
    /\ rpc[c].node \notin aborted
    /\ IF path_exists(db[rpc[c].node], rpc[c].task.path)
         THEN Answer(c)
         ELSE rpc' = [rpc EXCEPT ![c].pc = "prepared"]
    /\ UNCHANGED <<raft, store>>

\* rm: the inode is built from the path alone, so is_directory is false.
rm(c, n, p) ==
    /\ Call(c, n)
    /\ prepare_rm(db[n], p)
    /\ Stage(c, n, "prepared", "OP_RM", p, Blank)

\* Inode::lock refuses while the deadline of the lock is not over.
MayLock(ino, over) == ino.ddl_lock => over

\* Mutant: a directory is not refused.
put_over_directory(c, n, p, over) ==
    LET ino == get_inode(db[n], p) IN
    /\ Call(c, n)
    /\ PutChecked =>
         \/ Parent[p] = Root
         \/ \E m \in Node : db[m][Parent[p]] # NotFound
    /\ MayLock(ino, over)
    /\ Stage(c, n, "prepared", "OP_PUT", p, prepare_put(ino))

\* put: the parent is not looked at.
put(c, n, p, over) ==
    LET ino == get_inode(db[n], p) IN
    /\ Call(c, n)
    /\ PutChecked =>
         \/ Parent[p] = Root
         \/ \E m \in Node : db[m][Parent[p]] # NotFound
    /\ ~ (ino.valid /\ ino.is_directory)
    /\ MayLock(ino, over)
    /\ Stage(c, n, "prepared", "OP_PUT", p, prepare_put(ino))

put_ok(c, n, p, sub) ==
    LET ino == get_inode(db[n], p) IN
    /\ Call(c, n)
    /\ prepare_put_ok(ino)
    /\ Stage(c, n, "prepared", "OP_PUTOK", p, [ino EXCEPT !.sub = sub])

\* Mutant: get_inode instead of ls, so a removed path is locked as well.
update_lock_removed(c, n, p) ==
    /\ Call(c, n)
    /\ Stage(c, n, "prepared", "OP_PUT", p,
             [get_inode(db[n], p) EXCEPT !.ddl_lock = TRUE])

\* update_lock for one path: a new deadline whatever the old one, and the
\* inode as it was read is written back as a whole.
update_lock(c, n, p) ==
    LET ino == get_inode(db[n], p) IN
    /\ Call(c, n)
    /\ ino.valid
    /\ Stage(c, n, "prepared", "OP_PUT", p, [ino EXCEPT !.ddl_lock = TRUE])

\* Mutant: a node that is not the leader drops the closure.
Propose_drops_closure(c) ==
    /\ rpc[c].pc = "prepared"
    /\ leader = rpc[c].node
    /\ log' = Append(log, rpc[c].task)
    /\ rpc' = [rpc EXCEPT ![c] = [pc |-> "proposed", node |-> rpc[c].node,
                                  index |-> Len(log) + 1]]
    /\ UNCHANGED <<commit, leader, store>>

\* raft_node->apply(task): the leader appends the task; any other node runs
\* the closure at once, which answers the client.
Propose(c) ==
    /\ rpc[c].pc = "prepared"
    /\ rpc[c].node \notin aborted
    /\ IF leader = rpc[c].node
         THEN /\ log' = Append(log, rpc[c].task)
              /\ rpc' = [rpc EXCEPT ![c] =
                           [pc |-> "proposed", node |-> rpc[c].node,
                            index |-> Len(log) + 1]]
         ELSE Answer(c) /\ UNCHANGED log
    /\ UNCHANGED <<commit, leader, store>>

-----------------------------------------------------------------------------
(* RaftNN::on_apply.                                                       *)

\* iter.done(): the closure of the entry, if n proposed it and still has it.
Closure(c, n, i) == rpc[c] = [pc |-> "proposed", node |-> n, index |-> i]

\* Mutant: entries are applied before they are committed.
on_apply_uncommitted(n) ==
    LET i == applied[n] + 1 IN
    /\ n \notin aborted
    /\ applied[n] < Len(log)
    /\ AssertionHolds(db[n], log[i])
    /\ db' = [db EXCEPT ![n] = ApplyTask(db[n], log[i])]
    /\ applied' = [applied EXCEPT ![n] = i]
    /\ rpc' = [c \in Client |-> IF Closure(c, n, i) THEN Idle ELSE rpc[c]]
    /\ UNCHANGED <<raft, aborted>>

on_apply(n) ==
    LET i == applied[n] + 1 IN
    /\ n \notin aborted
    /\ applied[n] < commit
    /\ AssertionHolds(db[n], log[i])
    /\ db' = [db EXCEPT ![n] = ApplyTask(db[n], log[i])]
    /\ applied' = [applied EXCEPT ![n] = i]
    /\ rpc' = [c \in Client |-> IF Closure(c, n, i) THEN Idle ELSE rpc[c]]
    /\ UNCHANGED <<raft, aborted>>

\* The assertion fails and the process aborts.  A restart replays the same
\* entry and aborts again, so the node is gone; its RPCs break.
Abort(n) ==
    /\ n \notin aborted
    /\ applied[n] < commit
    /\ ~ AssertionHolds(db[n], log[applied[n] + 1])
    /\ aborted' = aborted \cup {n}
    /\ leader' = IF leader = n THEN NoLeader ELSE leader
    /\ rpc' = [c \in Client |->
                 IF rpc[c] # Idle /\ rpc[c].node = n THEN Idle ELSE rpc[c]]
    /\ UNCHANGED <<log, commit, db, applied>>

-----------------------------------------------------------------------------
(* braft.                                                                  *)

Commit ==
    /\ leader # NoLeader
    /\ commit < Len(log)
    /\ commit' = commit + 1
    /\ UNCHANGED <<log, leader, store, rpc>>

\* The closures of uncommitted entries run with an error, which answers the
\* client although the entry may still be committed by the next leader.
StepDown ==
    /\ ~ Stable
    /\ leader # NoLeader
    /\ leader' = NoLeader
    /\ rpc' = [c \in Client |->
                 IF rpc[c].pc = "proposed" /\ rpc[c].index > commit
                 THEN Idle ELSE rpc[c]]
    /\ UNCHANGED <<log, commit, store>>

Elect(n) ==
    /\ leader = NoLeader
    /\ n \notin aborted
    /\ leader' = n
    /\ \E k \in commit .. Len(log) : log' = SubSeq(log, 1, k)
    /\ UNCHANGED <<commit, store, rpc>>

Handler(c) ==
    \E n \in Node, p \in Path :
        \/ mkdir(c, n, p)
        \/ rm(c, n, p)
        \/ \E over \in BOOLEAN : put(c, n, p, over)
        \/ \E sub \in SUBSET Block : put_ok(c, n, p, sub)
        \/ update_lock(c, n, p)

Next ==
    \/ \E c \in Client : Handler(c) \/ MkdirCheckPath(c) \/ Propose(c)
    \/ \E n \in Node : on_apply(n) \/ Abort(n) \/ Elect(n)
    \/ Commit
    \/ StepDown

Spec == Init /\ [][Next]_vars

\* Handler threads run on, a leader commits what it has appended, and the
\* state machine applies what is committed.  Nothing makes clients call,
\* leaders step down or elections succeed.
Fairness ==
    /\ \A c \in Client : WF_vars(MkdirCheckPath(c)) /\ WF_vars(Propose(c))
    /\ \A n \in Node : WF_vars(on_apply(n)) /\ WF_vars(Abort(n))
    /\ WF_vars(Commit)

FairSpec == Spec /\ Fairness

-----------------------------------------------------------------------------
(* Properties.                                                             *)

\* The entry of the log that put element  e  into the sub of  p: a file or
\* directory name comes from the mkdir or put_ok of that child, a block
\* from a put_ok of the file itself.
Wrote(t, p, e) ==
    \/ /\ t.type \in {"OP_MKDIR", "OP_PUTOK"}
       /\ Parent[t.path] = p
       /\ e = filename(t.path, t.inode)
    \/ /\ t.type = "OP_PUTOK"
       /\ t.path = p
       /\ e \in t.inode.sub

\* Whatever a replica lists in a directory or a file was put there by an
\* entry that the replica has applied.  Handlers copy whole inodes from one
\* replica's store into later log entries (put, update_lock), and a new
\* leader drops entries: no name and no block may survive the entry that
\* wrote it being dropped, or move to another path.
SubProvenance ==
    \A n \in Node : \A p \in Path :
        db[n][p] # NotFound =>
            \A e \in db[n][p].sub :
                \E i \in 1 .. applied[n] : Wrote(log[i], p, e)

\* The assertion in get_parent_inode (the parent of an applied entry is
\* stored or is "/") fails on no node: check and write are far apart, on
\* different replicas, but keys are never deleted.
NoAssertionFailure == aborted = {}

\* What ls of p would report.
Listed(kv, p) == get_inode(kv, p).valid

\* A path that is valid on a replica becomes invalid there only by applying
\* an rm of that path; no stale inode written back by put or update_lock,
\* no put_ok, and no change to a child removes it.
OnlyRmInvalidates ==
    [][\A n \in Node : \A p \in Path :
         Listed(db[n], p) /\ ~ Listed(db'[n], p) =>
             /\ applied'[n] = applied[n] + 1
             /\ log[applied'[n]].type = "OP_RM"
             /\ log[applied'[n]].path = p]_vars

\* Every RPC that gets past its checks is answered, whatever leaders do.
EveryCallAnswered ==
    \A c \in Client : (rpc[c] # Idle) ~> (rpc[c] = Idle)
=============================================================================
