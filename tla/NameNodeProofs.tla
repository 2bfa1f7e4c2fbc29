--------------------------- MODULE NameNodeProofs ---------------------------
(***************************************************************************)
(* Proofs about NameNode, for any set of nodes, clients, paths and blocks  *)
(* and a log of any length.                                                *)
(***************************************************************************)
EXTENDS SerialNameNode, InodesProofs

-----------------------------------------------------------------------------
(* What an entry leaves in a store.                                        *)

\* Apart from "/", an entry stores its own path and no other: the parent is
\* written too, but the assertion says it was stored already or is "/".
LEMMA ApplyStored ==
  ASSUME NEW kv \in KV, NEW t \in Task, AssertionHolds(kv, t),
         NEW p \in Path, p # Root
  PROVE  ApplyTask(kv, t)[p] # NotFound <=> kv[p] # NotFound \/ p = t.path
  <1>1. t.path \in Path /\ t.inode \in Inode /\ t.type \in OpType
    BY DEF Task
  <1>2. Parent[t.path] \in Path
    BY <1>1, PathAssumption
  <1>3. ASSUME NEW x \in Inode, NEW y \in Inode, t.type # "OP_PUT"
        PROVE  Batch(kv, t.path, x, y)[p] # NotFound
                 <=> kv[p] # NotFound \/ p = t.path
    BY <1>1, <1>2, <1>3, NotFoundAssumption
    DEF Batch, KV, AssertionHolds, ParentAssertion
  <1> DEFINE par == get_parent_inode(kv, t.path)
             own == get_inode(kv, t.path)
             name == filename(t.path, t.inode)
  <1>4. par \in Inode /\ own \in Inode
    BY <1>1, ReadType
  <1>5. name \in Entry
    BY <1>1 DEF filename, Entry, Inode
  <1>6. /\ [par EXCEPT !.sub = @ \cup {name}] \in Inode
        /\ [par EXCEPT !.sub = @ \ {name}] \in Inode
        /\ [own EXCEPT !.ddl_lock = FALSE, !.sub = t.inode.sub] \in Inode
    BY <1>1, <1>4, <1>5, Zenon DEF Inode
  <1>7. CASE t.type = "OP_MKDIR"
    BY <1>1, <1>3, <1>6, <1>7 DEF ApplyTask, internal_mkdir
  <1>8. CASE t.type = "OP_PUT"
    BY <1>1, <1>8, NotFoundAssumption DEF ApplyTask, internal_put, KV
  <1>9. CASE t.type = "OP_PUTOK"
    BY <1>3, <1>6, <1>9 DEF ApplyTask, internal_put_ok
  <1>10. CASE t.type = "OP_RM"
    BY <1>1, <1>3, <1>6, <1>10 DEF ApplyTask, internal_rm
  <1> QED
    BY <1>1, <1>7, <1>8, <1>9, <1>10, Zenon DEF OpType

\* An element of a sub after an entry is applied was there before, or is
\* written by the entry, or comes with the inode that the entry carries.
LEMMA ApplySub ==
  ASSUME NEW kv \in KV, NEW t \in Task, NEW p \in Path,
         ApplyTask(kv, t)[p] # NotFound,
         NEW e \in ApplyTask(kv, t)[p].sub
  PROVE  \/ kv[p] # NotFound /\ e \in kv[p].sub
         \/ Wrote(t, p, e)
         \/ p = t.path /\ t.type # "OP_PUTOK" /\ e \in t.inode.sub
  <1>1. t.path \in Path /\ t.inode \in Inode /\ t.type \in OpType
    BY DEF Task
  <1>2. Parent[t.path] \in Path
    BY <1>1, PathAssumption
  <1> DEFINE par == get_parent_inode(kv, t.path)
             own == get_inode(kv, t.path)
             name == filename(t.path, t.inode)
  <1>3. par \in Inode /\ own \in Inode
    BY <1>1, ReadType
  <1>4. ASSUME NEW x \in par.sub, p = Parent[t.path]
        PROVE  kv[p] # NotFound /\ x \in kv[p].sub
    BY <1>4 DEF get_parent_inode, DefaultDir
  <1>5. CASE t.type = "OP_MKDIR"
    <2>1. ApplyTask(kv, t)
            = Batch(kv, t.path, [par EXCEPT !.sub = @ \cup {name}], t.inode)
      BY <1>5 DEF ApplyTask, internal_mkdir
    <2>2. CASE p = t.path
      BY <2>1, <2>2, <1>1, <1>2, <1>5 DEF Batch, KV
    <2>3. CASE p # t.path /\ p = Parent[t.path]
      <3>1. e \in par.sub \/ e = name
        BY <2>1, <2>3, <1>1, <1>2, <1>3 DEF Batch, KV, Inode
      <3> QED
        BY <3>1, <2>3, <1>4, <1>5 DEF Wrote
    <2>4. CASE p # t.path /\ p # Parent[t.path]
      BY <2>1, <2>4, <1>1, <1>2 DEF Batch, KV
    <2> QED
      BY <2>2, <2>3, <2>4
  <1>6. CASE t.type = "OP_PUT"
    BY <1>1, <1>6 DEF ApplyTask, internal_put, KV
  <1>7. CASE t.type = "OP_PUTOK"
    <2> DEFINE new == [own EXCEPT !.ddl_lock = FALSE, !.sub = t.inode.sub]
    <2>1. ApplyTask(kv, t)
            = Batch(kv, t.path, [par EXCEPT !.sub = @ \cup {name}], new)
      BY <1>7 DEF ApplyTask, internal_put_ok
    <2>2. CASE p = t.path
      <3>1. e \in t.inode.sub
        BY <2>1, <2>2, <1>1, <1>2, <1>3 DEF Batch, KV, Inode
      <3> QED
        BY <3>1, <2>2, <1>7 DEF Wrote
    <2>3. CASE p # t.path /\ p = Parent[t.path]
      <3>1. e \in par.sub \/ e = name
        BY <2>1, <2>3, <1>1, <1>2, <1>3 DEF Batch, KV, Inode
      <3> QED
        BY <3>1, <2>3, <1>4, <1>7, Zenon DEF Wrote
    <2>4. CASE p # t.path /\ p # Parent[t.path]
      BY <2>1, <2>4, <1>1, <1>2 DEF Batch, KV
    <2> QED
      BY <2>2, <2>3, <2>4
  <1>8. CASE t.type = "OP_RM"
    <2>1. ApplyTask(kv, t)
            = Batch(kv, t.path, [par EXCEPT !.sub = @ \ {name}], t.inode)
      BY <1>8 DEF ApplyTask, internal_rm
    <2>2. CASE p = t.path
      BY <2>1, <2>2, <1>1, <1>2, <1>8 DEF Batch, KV
    <2>3. CASE p # t.path /\ p = Parent[t.path]
      <3>1. e \in par.sub
        BY <2>1, <2>3, <1>1, <1>2, <1>3 DEF Batch, KV, Inode
      <3> QED
        BY <3>1, <2>3, <1>4, Zenon
    <2>4. CASE p # t.path /\ p # Parent[t.path]
      BY <2>1, <2>4, <1>1, <1>2 DEF Batch, KV
    <2> QED
      BY <2>2, <2>3, <2>4
  <1> QED
    BY <1>1, <1>5, <1>6, <1>7, <1>8 DEF OpType

\* An entry makes a valid path invalid only if it is an entry for that path
\* and carries an invalid inode.
LEMMA ApplyValid ==
  ASSUME NEW kv \in KV, NEW t \in Task, NEW p \in Path,
         Listed(kv, p), ~ Listed(ApplyTask(kv, t), p)
  PROVE  p = t.path /\ t.type # "OP_PUTOK" /\ ~ t.inode.valid
  <1>1. t.path \in Path /\ t.inode \in Inode /\ t.type \in OpType
    BY DEF Task
  <1>2. Parent[t.path] \in Path
    BY <1>1, PathAssumption
  <1> DEFINE par == get_parent_inode(kv, t.path)
             own == get_inode(kv, t.path)
             name == filename(t.path, t.inode)
  <1>3. par \in Inode /\ own \in Inode
    BY <1>1, ReadType
  <1>4. p = Parent[t.path] => par.valid
    BY <1>1 DEF Listed, get_inode, get_parent_inode, DefaultDir, Blank
  <1>5. p = t.path => own.valid
    BY DEF Listed
  <1>6. ASSUME NEW x \in Inode, NEW y \in Inode, x.valid = par.valid,
               ApplyTask(kv, t) = Batch(kv, t.path, x, y)
        PROVE  p = t.path /\ ~ y.valid
    BY <1>1, <1>2, <1>4, <1>6, NotFoundAssumption
    DEF Batch, KV, Listed, get_inode
  <1>7. name \in Entry
    BY <1>1 DEF filename, Entry, Inode
  <1> DEFINE add == [par EXCEPT !.sub = @ \cup {name}]
             del == [par EXCEPT !.sub = @ \ {name}]
             new == [own EXCEPT !.ddl_lock = FALSE, !.sub = t.inode.sub]
  <1>8. /\ add \in Inode /\ add.valid = par.valid
        /\ del \in Inode /\ del.valid = par.valid
        /\ new \in Inode /\ new.valid = own.valid
    BY <1>1, <1>3, <1>7, Zenon DEF Inode
  <1> HIDE DEF add, del, new
  <1>9. CASE t.type = "OP_MKDIR"
    <2>1. ApplyTask(kv, t) = Batch(kv, t.path, add, t.inode)
      BY <1>9 DEF ApplyTask, internal_mkdir, add
    <2> QED
      BY <2>1, <1>1, <1>6, <1>8, <1>9
  <1>10. CASE t.type = "OP_PUT"
    BY <1>1, <1>10, NotFoundAssumption
    DEF ApplyTask, internal_put, KV, Listed, get_inode
  <1>11. CASE t.type = "OP_PUTOK"
    <2>1. ApplyTask(kv, t) = Batch(kv, t.path, add, new)
      BY <1>11 DEF ApplyTask, internal_put_ok, add, new
    <2> QED
      BY <2>1, <1>5, <1>6, <1>8
  <1>12. CASE t.type = "OP_RM"
    <2>1. ApplyTask(kv, t) = Batch(kv, t.path, del, t.inode)
      BY <1>12 DEF ApplyTask, internal_rm, del
    <2> QED
      BY <2>1, <1>1, <1>6, <1>8, <1>12
  <1> QED
    BY <1>1, <1>9, <1>10, <1>11, <1>12 DEF OpType

-----------------------------------------------------------------------------
(* The inductive invariant.  The first k entries of a log explain a set of *)
(* names and blocks (Explained), or mention a path (Mentioned).  A task is *)
(* sound after k entries if those explain the inode it carries.  Tasks are *)
(* built from what a replica has applied, which is committed, and go to    *)
(* the end of a log that keeps its committed part: so a task that is sound *)
(* after the committed entries is sound wherever it ends up in the log.    *)

Explained(lg, k, p, S) ==
    \A e \in S : \E i \in 1 .. k : Wrote(lg[i], p, e)

Mentioned(lg, k, p) == p = Root \/ \E i \in 1 .. k : lg[i].path = p

SoundTask(lg, k, t) ==
    /\ t.type \in {"OP_MKDIR", "OP_RM"} => t.inode.sub = {}
    /\ t.type = "OP_PUT" => Explained(lg, k, t.path, t.inode.sub)
    /\ t.type \in {"OP_MKDIR", "OP_PUT"} => t.inode.valid
    /\ PutChecked => Mentioned(lg, k, Parent[t.path])

Waiting(c) == rpc[c].pc \in {"mkdir", "prepared"}

StoreInv ==
    \A n \in Node : \A p \in Path :
        /\ db[n][p] # NotFound =>
             Explained(log, applied[n], p, db[n][p].sub)
        /\ p # Root =>
             (db[n][p] # NotFound <=> Mentioned(log, applied[n], p))

LogInv == \A i \in 1 .. Len(log) : SoundTask(log, i - 1, log[i])

RpcInv == \A c \in Client : Waiting(c) => SoundTask(log, commit, rpc[c].task)

AssertInv == PutChecked => aborted = {}

IInv == TypeOK /\ StoreInv /\ LogInv /\ RpcInv /\ AssertInv

\* A log that keeps the first k entries explains and mentions what it did,
\* and so do more of its entries.
LEMMA SoundKept ==
  ASSUME NEW lg, NEW lh, NEW k \in Nat, NEW h \in Nat, k <= h,
         \A i \in 1 .. k : lh[i] = lg[i]
  PROVE  /\ \A p, S : Explained(lg, k, p, S) => Explained(lh, h, p, S)
         /\ \A p : Mentioned(lg, k, p) => Mentioned(lh, h, p)
         /\ \A t : SoundTask(lg, k, t) => SoundTask(lh, h, t)
  <1>1. \A i \in 1 .. k : i \in 1 .. h /\ lh[i] = lg[i]
    OBVIOUS
  <1>2. ASSUME NEW p, NEW S, Explained(lg, k, p, S)
        PROVE  Explained(lh, h, p, S)
    BY <1>1, <1>2 DEF Explained
  <1>3. ASSUME NEW p, Mentioned(lg, k, p)
        PROVE  Mentioned(lh, h, p)
    BY <1>1, <1>3 DEF Mentioned
  <1>4. ASSUME NEW t, SoundTask(lg, k, t)
        PROVE  SoundTask(lh, h, t)
    BY <1>2, <1>3, <1>4 DEF SoundTask
  <1> QED
    BY <1>2, <1>3, <1>4

\* Steps that leave the stores alone and keep the committed entries (calls,
\* proposals, commits, elections) preserve StoreInv.
LEMMA StoreKept ==
  ASSUME IInv, UNCHANGED <<db, applied>>,
         \A i \in 1 .. commit : log'[i] = log[i]
  PROVE  StoreInv'
  <1> SUFFICES ASSUME NEW n \in Node, NEW p \in Path
               PROVE  /\ db[n][p] # NotFound =>
                           Explained(log', applied[n], p, db[n][p].sub)
                      /\ p # Root =>
                           (db[n][p] # NotFound
                              <=> Mentioned(log', applied[n], p))
    BY DEF StoreInv
  <1>1. applied[n] \in Nat /\ \A i \in 1 .. applied[n] : log'[i] = log[i]
    BY DEF IInv, TypeOK
  <1>2. /\ Explained(log, applied[n], p, db[n][p].sub)
             => Explained(log', applied[n], p, db[n][p].sub)
        /\ Mentioned(log, applied[n], p) <=> Mentioned(log', applied[n], p)
    BY <1>1 DEF Explained, Mentioned
  <1> QED
    BY <1>2 DEF IInv, StoreInv

\* A handler that stages a sound task preserves the invariant.
LEMMA StageKept ==
  ASSUME IInv, NEW c \in Client, NEW n \in Node,
         NEW pc \in {"mkdir", "prepared"}, NEW type \in OpType,
         NEW p \in Path, NEW ino \in Inode, Stage(c, n, pc, type, p, ino),
         SoundTask(log, commit, [type |-> type, path |-> p, inode |-> ino])
  PROVE  IInv'
  <1> DEFINE t == [type |-> type, path |-> p, inode |-> ino]
             r == [pc |-> pc, node |-> n, task |-> t]
  <1>1. t \in Task
    BY Zenon DEF Task
  <1>2. r \in Rpc /\ r.task = t
    BY <1>1 DEF Rpc
  <1> HIDE DEF r, t
  <1>3. rpc' = [rpc EXCEPT ![c] = r] /\ UNCHANGED <<raft, store>>
    BY DEF Stage, r, t
  <1>4. UNCHANGED <<log, commit, leader, db, applied, aborted>>
    BY <1>3 DEF raft, store
  <1>5. TypeOK'
    BY <1>2, <1>3, <1>4 DEF IInv, TypeOK
  <1>6. StoreInv'
    BY <1>4, StoreKept
  <1>7. RpcInv'
    <2> SUFFICES ASSUME NEW d \in Client, Waiting(d)'
                 PROVE  SoundTask(log, commit, rpc'[d].task)
      BY <1>4 DEF RpcInv
    <2>1. CASE d = c
      <3>1. rpc'[d] = r
        BY <2>1, <1>3 DEF IInv, TypeOK
      <3>2. SoundTask(log, commit, t)
        BY DEF t
      <3> QED
        BY <3>1, <3>2, <1>2
    <2>2. CASE d # c
      BY <2>2, <1>3 DEF IInv, TypeOK, RpcInv, Waiting
    <2> QED
      BY <2>1, <2>2
  <1> QED
    BY <1>4, <1>5, <1>6, <1>7 DEF IInv, LogInv, AssertInv

\* What a replica stores has been mentioned among the committed entries,
\* and its names and blocks are explained by them.
LEMMA StoredIsCommitted ==
  ASSUME IInv, NEW n \in Node, NEW p \in Path
  PROVE  /\ db[n][p] # NotFound => Mentioned(log, commit, p)
         /\ Explained(log, commit, p, get_inode(db[n], p).sub)
  <1>1. /\ applied[n] \in Nat /\ commit \in Nat /\ applied[n] <= commit
    BY DEF IInv, TypeOK
  <1>2. /\ Explained(log, applied[n], p, db[n][p].sub)
             => Explained(log, commit, p, db[n][p].sub)
        /\ Mentioned(log, applied[n], p) => Mentioned(log, commit, p)
    BY <1>1, SoundKept, SMTT(30)
  <1>3. db[n][p] # NotFound => Mentioned(log, commit, p)
    BY <1>2 DEF IInv, StoreInv, Mentioned
  <1>4. CASE db[n][p] # NotFound
    BY <1>2, <1>3, <1>4, Zenon DEF IInv, StoreInv, get_inode
  <1>5. CASE db[n][p] = NotFound
    BY <1>3, <1>5 DEF get_inode, Explained, DefaultDir, Blank
  <1> QED
    BY <1>4, <1>5

\* If callers look directories up before they put files there, the parent
\* of every path mentioned among the committed entries is mentioned too.
LEMMA ParentMentioned ==
  ASSUME IInv, PutChecked, NEW p \in Path, Mentioned(log, commit, p)
  PROVE  Mentioned(log, commit, Parent[p])
  <1>1. CASE p = Root
    BY <1>1, PathAssumption DEF Mentioned
  <1>2. CASE p # Root
    <2>1. PICK i \in 1 .. commit : log[i].path = p
      BY <1>2 DEF Mentioned
    <2>2. commit \in Nat /\ i \in 1 .. Len(log) /\ i - 1 \in Nat
          /\ i - 1 <= commit
      BY DEF IInv, TypeOK
    <2>3. Mentioned(log, i - 1, Parent[p])
      BY <2>1, <2>2 DEF IInv, LogInv, SoundTask
    <2> QED
      BY <2>2, <2>3, SoundKept
  <1> QED
    BY <1>1, <1>2

\* Each handler stages a sound task.
LEMMA HandlerStep ==
  ASSUME IInv, NEW c \in Client, Handler(c)
  PROVE  IInv'
  <1> PICK n \in Node, p \in Path :
         \/ mkdir(c, n, p)
         \/ rm(c, n, p)
         \/ \E over \in BOOLEAN : put(c, n, p, over)
         \/ \E sub \in SUBSET Block : put_ok(c, n, p, sub)
         \/ update_lock(c, n, p)
    BY DEF Handler
  <1> DEFINE ino == get_inode(db[n], p)
  <1>0. db[n] \in KV /\ Parent[p] \in Path /\ commit \in Nat
    BY PathAssumption DEF IInv, TypeOK
  <1>1. ino \in Inode
    BY <1>0, ReadType
  <1>2. /\ db[n][p] # NotFound => Mentioned(log, commit, p)
        /\ Explained(log, commit, p, ino.sub)
    BY StoredIsCommitted, Zenon
  <1>3. ASSUME PutChecked, db[n][p] # NotFound \/ p = Root
        PROVE  Mentioned(log, commit, Parent[p])
    BY <1>2, <1>3, ParentMentioned, Zenon DEF Mentioned
  <1>4. ino.valid => db[n][p] # NotFound \/ p = Root
    BY DEF get_inode, Blank
  <1> HIDE DEF ino
  <1>5. CASE mkdir(c, n, p)
    <2>1. Mentioned(log, commit, Parent[p])
      BY <1>0, <1>5, StoredIsCommitted DEF mkdir, path_exists, Mentioned
    <2>2. SoundTask(log, commit, [type |-> "OP_MKDIR", path |-> p,
                                  inode |-> DefaultDir])
      BY <2>1 DEF SoundTask, DefaultDir
    <2> QED
      BY <2>2, <1>5, StageKept, FreshInodes, Zenon DEF mkdir, OpType
  <1>6. CASE rm(c, n, p)
    <2>1. PutChecked => Mentioned(log, commit, Parent[p])
      BY <1>3, <1>6, SMTT(30) DEF rm, prepare_rm, path_exists
    <2>2. SoundTask(log, commit, [type |-> "OP_RM", path |-> p,
                                  inode |-> Blank])
      BY <2>1, Zenon DEF SoundTask, Blank
    <2> QED
      BY <2>2, <1>6, StageKept, FreshInodes, Zenon DEF rm, OpType
  <1>7. ASSUME NEW over \in BOOLEAN, put(c, n, p, over)
        PROVE  IInv'
    <2> DEFINE new == [ino EXCEPT !.is_directory = FALSE, !.valid = TRUE,
                                  !.ddl_lock = TRUE]
    <2>1. new \in Inode /\ new.sub = ino.sub /\ new.valid
      BY <1>1, Zenon DEF Inode
    <2> HIDE DEF new
    <2>2. PutChecked => Mentioned(log, commit, Parent[p])
      BY <1>0, <1>7, StoredIsCommitted, Zenon DEF put, Mentioned
    <2>3. SoundTask(log, commit, [type |-> "OP_PUT", path |-> p,
                                  inode |-> new])
      BY <1>2, <2>1, <2>2 DEF SoundTask
    <2>4. Stage(c, n, "prepared", "OP_PUT", p, new)
      BY <1>7 DEF put, prepare_put, new, ino
    <2> QED
      BY <2>1, <2>3, <2>4, StageKept, SMTT(30) DEF OpType
  <1>8. ASSUME NEW sub \in SUBSET Block, put_ok(c, n, p, sub)
        PROVE  IInv'
    <2> DEFINE new == [ino EXCEPT !.sub = sub]
    <2>1. new \in Inode
      BY <1>1 DEF Inode
    <2> HIDE DEF new
    <2>2. PutChecked => Mentioned(log, commit, Parent[p])
      BY <1>3, <1>4, <1>8, Zenon DEF put_ok, prepare_put_ok, ino
    <2>3. SoundTask(log, commit, [type |-> "OP_PUTOK", path |-> p,
                                  inode |-> new])
      BY <2>2 DEF SoundTask
    <2>4. Stage(c, n, "prepared", "OP_PUTOK", p, new)
      BY <1>8, Zenon DEF put_ok, new, ino
    <2> QED
      BY <2>1, <2>3, <2>4, StageKept DEF OpType
  <1>9. CASE update_lock(c, n, p)
    <2> DEFINE new == [ino EXCEPT !.ddl_lock = TRUE]
    <2>1. new \in Inode /\ new.sub = ino.sub /\ new.valid = ino.valid
      BY <1>1, Zenon DEF Inode
    <2> HIDE DEF new
    <2>2. ino.valid
      BY <1>9 DEF update_lock, ino
    <2>3. PutChecked => Mentioned(log, commit, Parent[p])
      BY <1>3, <1>4, <2>2, Zenon
    <2>4. SoundTask(log, commit, [type |-> "OP_PUT", path |-> p,
                                  inode |-> new])
      BY <1>2, <2>1, <2>2, <2>3, Zenon DEF SoundTask
    <2>5. Stage(c, n, "prepared", "OP_PUT", p, new)
      BY <1>9 DEF update_lock, new, ino
    <2> QED
      BY <2>1, <2>4, <2>5, StageKept DEF OpType
  <1> QED
    BY <1>5, <1>6, <1>7, <1>8, <1>9

\* The second read of prepare_mkdir only moves the RPC on, or ends it.
LEMMA MkdirCheckPathStep ==
  ASSUME IInv, NEW c \in Client, MkdirCheckPath(c)
  PROVE  IInv'
  <1>1. UNCHANGED <<log, commit, leader, db, applied, aborted>>
    BY DEF MkdirCheckPath, raft, store
  <1>2. /\ rpc[c] \in [pc : {"mkdir", "prepared"}, node : Node, task : Task]
    BY DEF IInv, TypeOK, Rpc, Idle, MkdirCheckPath
  <1>3. PICK r \in Rpc : /\ rpc' = [rpc EXCEPT ![c] = r]
                         /\ r = Idle \/ (r.task = rpc[c].task)
    <2>1. CASE Answer(c)
      BY <2>1, Zenon DEF Answer, Rpc
    <2>2. CASE rpc' = [rpc EXCEPT ![c].pc = "prepared"]
      <3> DEFINE s == [rpc[c] EXCEPT !.pc = "prepared"]
      <3>1. s \in Rpc /\ s.task = rpc[c].task
        BY <1>2 DEF Rpc
      <3>2. rpc' = [rpc EXCEPT ![c] = s]
        BY <2>2
      <3> QED
        BY <3>1, <3>2, Zenon
    <2> QED
      BY <2>1, <2>2 DEF MkdirCheckPath
  <1>4. TypeOK'
    BY <1>1, <1>3 DEF IInv, TypeOK
  <1>5. RpcInv'
    <2> SUFFICES ASSUME NEW d \in Client, Waiting(d)'
                 PROVE  SoundTask(log, commit, rpc'[d].task)
      BY <1>1 DEF RpcInv
    <2>1. CASE d = c
      <3>1. rpc'[d] = r
        BY <2>1, <1>3 DEF IInv, TypeOK
      <3>2. r.task = rpc[c].task
        BY <3>1, <1>3 DEF Waiting, Idle
      <3>3. Waiting(c)
        BY DEF Waiting, MkdirCheckPath
      <3> QED
        BY <3>1, <3>2, <3>3 DEF IInv, RpcInv
    <2>2. CASE d # c
      BY <2>2, <1>3 DEF IInv, TypeOK, RpcInv, Waiting
    <2> QED
      BY <2>1, <2>2
  <1>6. StoreInv'
    BY <1>1, StoreKept
  <1> QED
    BY <1>1, <1>4, <1>5, <1>6 DEF IInv, LogInv, AssertInv

\* A task is sound at the end of the log, because it is sound after the
\* committed entries.
LEMMA ProposeStep ==
  ASSUME IInv, NEW c \in Client, Propose(c)
  PROVE  IInv'
  <1> DEFINE t == rpc[c].task
  <1>1. UNCHANGED <<commit, leader, db, applied, aborted>>
    BY Zenon DEF Propose, store
  <1>2. /\ rpc[c] \in [pc : {"mkdir", "prepared"}, node : Node, task : Task]
        /\ Len(log) \in Nat /\ commit \in Nat /\ commit <= Len(log)
        /\ log \in Seq(Task)
    BY DEF IInv, TypeOK, Rpc, Idle, Propose
  <1>3. t \in Task /\ SoundTask(log, commit, t)
    BY <1>2, Zenon DEF IInv, RpcInv, Waiting, Propose
  <1>4. SoundTask(log, Len(log), t)
    BY <1>2, <1>3, SoundKept
  <1> HIDE DEF t
  <1>5. log' = log \/ log' = Append(log, t)
    BY Zenon DEF Propose, t
  <1>6. /\ log' \in Seq(Task) /\ Len(log') \in Nat /\ Len(log) <= Len(log')
        /\ \A i \in 1 .. Len(log) : log'[i] = log[i]
    BY <1>2, <1>3, <1>5
  <1>7. PICK r \in Rpc : /\ rpc' = [rpc EXCEPT ![c] = r]
                         /\ r.pc \notin {"mkdir", "prepared"}
    <2> DEFINE s == [pc |-> "proposed", node |-> rpc[c].node,
                     index |-> Len(log) + 1]
    <2>1. /\ Idle \in Rpc /\ Idle.pc = "idle"
          /\ s \in Rpc /\ s.pc = "proposed"
      BY <1>2 DEF Idle, Rpc
    <2>2. rpc' = [rpc EXCEPT ![c] = Idle] \/ rpc' = [rpc EXCEPT ![c] = s]
      BY DEF Propose, Answer
    <2> HIDE DEF s
    <2> QED
      BY <2>1, <2>2
  <1>8. TypeOK'
    BY <1>1, <1>2, <1>6, <1>7 DEF IInv, TypeOK
  <1>9. StoreInv'
    BY <1>1, <1>2, <1>6, StoreKept
  <1>10. LogInv'
    <2> SUFFICES ASSUME NEW i \in 1 .. Len(log')
                 PROVE  SoundTask(log', i - 1, log'[i])
      BY Zenon DEF LogInv
    <2>1. CASE i \in 1 .. Len(log)
      <3>1. SoundTask(log, i - 1, log[i])
        BY <2>1, Zenon DEF IInv, LogInv
      <3>2. i - 1 \in Nat /\ \A j \in 1 .. i - 1 : log'[j] = log[j]
        BY <2>1, <1>2, <1>6
      <3> QED
        BY <2>1, <3>1, <3>2, <1>6, SoundKept
    <2>2. CASE i \notin 1 .. Len(log)
      <3>1. i = Len(log) + 1 /\ log'[i] = t
        BY <2>2, <1>2, <1>3, <1>5
      <3>2. i - 1 = Len(log)
        BY <3>1, <1>2
      <3>3. Len(log) \in Nat /\ Len(log) <= Len(log)
        BY <1>2
      <3>4. SoundTask(log', Len(log), t)
        BY <3>3, <1>4, <1>6, SoundKept, Zenon
      <3> QED
        BY <3>1, <3>2, <3>4, Zenon
    <2> QED
      BY <2>1, <2>2
  <1>11. RpcInv'
    <2> SUFFICES ASSUME NEW d \in Client, Waiting(d)'
                 PROVE  SoundTask(log', commit, rpc'[d].task)
      BY <1>1 DEF RpcInv
    <2>1. d # c /\ rpc'[d] = rpc[d]
      <3>1. rpc'[d] = IF d = c THEN r ELSE rpc[d]
        BY <1>7 DEF IInv, TypeOK
      <3> QED
        BY <3>1, <1>7 DEF Waiting
    <2>2. SoundTask(log, commit, rpc[d].task)
      BY <2>1 DEF IInv, RpcInv, Waiting
    <2>3. \A i \in 1 .. commit : log'[i] = log[i]
      BY <1>2, <1>6
    <2>4. commit <= commit
      BY <1>2
    <2>5. commit \in Nat
      BY <1>2
    <2>6. \A x : SoundTask(log, commit, x) => SoundTask(log', commit, x)
      BY <2>3, <2>4, <2>5, SoundKept, Zenon
    <2> QED
      BY <2>1, <2>2, <2>6, Zenon
  <1> QED
    BY <1>1, <1>8, <1>9, <1>10, <1>11 DEF IInv, AssertInv

\* on_apply: the store of one replica moves to the next entry.
LEMMA ApplyStep ==
  ASSUME IInv, NEW n \in Node, on_apply(n)
  PROVE  IInv'
  <1> DEFINE i == applied[n] + 1
             t == log[i]
             new == ApplyTask(db[n], t)
  <1>1. UNCHANGED <<log, commit, leader, aborted>>
    BY Zenon DEF on_apply, raft
  <1>2. /\ applied[n] \in Nat /\ commit \in Nat /\ i \in 1 .. commit
        /\ i \in 1 .. Len(log) /\ i - 1 = applied[n] /\ t \in Task
        /\ db[n] \in KV
    BY DEF IInv, TypeOK, on_apply
  <1>3. SoundTask(log, applied[n], t)
    BY <1>2, Zenon DEF IInv, LogInv
  <1>4. new \in KV
    BY <1>2, ApplyType, Zenon
  <1>5. AssertionHolds(db[n], t)
    BY DEF on_apply
  <1> HIDE DEF t, new
  <1>6. /\ db' = [db EXCEPT ![n] = new]
        /\ applied' = [applied EXCEPT ![n] = i]
    BY DEF on_apply, new, t
  <1>7. \A c \in Client : rpc'[c] = Idle \/ rpc'[c] = rpc[c]
    BY DEF on_apply
  <1>8. rpc' \in [Client -> Rpc]
    <2>1. Idle \in Rpc
      BY Zenon DEF Rpc
    <2> QED
      BY <2>1 DEF on_apply, IInv, TypeOK
  <1>9. TypeOK'
    BY <1>1, <1>2, <1>4, <1>6, <1>8 DEF IInv, TypeOK
  <1>10. RpcInv'
    <2> SUFFICES ASSUME NEW d \in Client, Waiting(d)'
                 PROVE  SoundTask(log, commit, rpc'[d].task)
      BY <1>1 DEF RpcInv
    <2>1. rpc'[d] = rpc[d]
      BY <1>7 DEF Waiting, Idle
    <2> QED
      BY <2>1 DEF IInv, RpcInv, Waiting
  <1>11. StoreInv'
    <2> SUFFICES ASSUME NEW m \in Node, NEW p \in Path
                 PROVE  /\ db'[m][p] # NotFound =>
                             Explained(log, applied'[m], p, db'[m][p].sub)
                        /\ p # Root =>
                             (db'[m][p] # NotFound
                                <=> Mentioned(log, applied'[m], p))
      BY <1>1, Zenon DEF StoreInv
    <2>1. CASE m # n
      BY <2>1, <1>6, Zenon DEF IInv, TypeOK, StoreInv
    <2>2. CASE m = n
      <3>1. db'[m] = new /\ applied'[m] = i
        BY <2>2, <1>6, Zenon DEF IInv, TypeOK
      <3>2. ASSUME new[p] # NotFound, NEW e \in new[p].sub
            PROVE  \E j \in 1 .. i : Wrote(log[j], p, e)
        <4>1. \/ db[n][p] # NotFound /\ e \in db[n][p].sub
              \/ Wrote(t, p, e)
              \/ p = t.path /\ t.type # "OP_PUTOK" /\ e \in t.inode.sub
          BY <3>2, <1>2, ApplySub DEF new
        <4>2. ASSUME \E j \in 1 .. applied[n] : Wrote(log[j], p, e)
              PROVE  \E j \in 1 .. i : Wrote(log[j], p, e)
          BY <4>2, <1>2
        <4>3. CASE db[n][p] # NotFound /\ e \in db[n][p].sub
          BY <4>2, <4>3, Zenon DEF IInv, StoreInv, Explained
        <4>4. CASE Wrote(t, p, e)
          BY <4>4, <1>2, SMTT(30) DEF t
        <4>5. CASE p = t.path /\ t.type # "OP_PUTOK" /\ e \in t.inode.sub
          BY <4>2, <4>5, <1>2, <1>3, Zenon DEF SoundTask, Explained, Task, OpType
        <4> QED
          BY <4>1, <4>3, <4>4, <4>5, Zenon
      <3>3. ASSUME p # Root
            PROVE  new[p] # NotFound <=> Mentioned(log, i, p)
        <4>1. new[p] # NotFound <=> db[n][p] # NotFound \/ p = t.path
          BY <3>3, <1>2, <1>5, ApplyStored, Zenon DEF new
        <4>2. db[n][p] # NotFound <=> \E j \in 1 .. applied[n] : log[j].path = p
          BY <3>3, Zenon DEF IInv, StoreInv, Mentioned
        <4>3. (\E j \in 1 .. i : log[j].path = p)
                <=> (\E j \in 1 .. applied[n] : log[j].path = p) \/ p = t.path
          BY <1>2 DEF t
        <4> QED
          BY <4>1, <4>2, <4>3, <3>3, Zenon DEF Mentioned
      <3> QED
        BY <3>1, <3>2, <3>3 DEF Explained
    <2> QED
      BY <2>1, <2>2, Zenon
  <1> QED
    BY <1>1, <1>9, <1>10, <1>11 DEF IInv, LogInv, AssertInv

\* The assertion that stops a node cannot fail if callers look directories
\* up first: the parent is mentioned before the entry, hence stored.
LEMMA AbortStep ==
  ASSUME IInv, NEW n \in Node, Abort(n)
  PROVE  IInv'
  <1> DEFINE i == applied[n] + 1
             t == log[i]
  <1>1. UNCHANGED <<log, commit, db, applied>>
    BY Zenon DEF Abort
  <1>2. /\ applied[n] \in Nat /\ i \in 1 .. Len(log) /\ i - 1 = applied[n]
        /\ t \in Task
    BY DEF IInv, TypeOK, Abort
  <1>3. ~ PutChecked
    <2> SUFFICES ASSUME PutChecked PROVE FALSE
      OBVIOUS
    <2>1. Parent[t.path] \in Path
      BY <1>2, PathAssumption, Zenon DEF Task
    <2>2. Mentioned(log, applied[n], Parent[t.path])
      BY <1>2, Zenon DEF IInv, LogInv, SoundTask
    <2>3. ParentAssertion(db[n], t.path)
      BY <2>1, <2>2, Zenon DEF IInv, StoreInv, ParentAssertion
    <2> QED
      BY <2>3 DEF Abort, AssertionHolds
  <1>4. \A c \in Client : rpc'[c] = Idle \/ rpc'[c] = rpc[c]
    BY Zenon DEF Abort
  <1>5. rpc' \in [Client -> Rpc]
    <2>1. Idle \in Rpc
      BY DEF Rpc
    <2> QED
      BY <2>1, Zenon DEF Abort, IInv, TypeOK
  <1>6. TypeOK'
    BY <1>1, <1>5 DEF IInv, TypeOK, Abort
  <1>7. StoreInv'
    BY <1>1, StoreKept
  <1>8. RpcInv'
    <2> SUFFICES ASSUME NEW d \in Client, Waiting(d)'
                 PROVE  SoundTask(log, commit, rpc'[d].task)
      BY <1>1 DEF RpcInv
    <2>1. rpc'[d] = rpc[d]
      BY <1>4 DEF Waiting, Idle
    <2> QED
      BY <2>1 DEF IInv, RpcInv, Waiting
  <1> QED
    BY <1>1, <1>3, <1>6, <1>7, <1>8 DEF IInv, LogInv, AssertInv

\* A task that was sound after the committed entries stays so when more of
\* them are committed.
LEMMA CommitStep ==
  ASSUME IInv, Commit
  PROVE  IInv'
  <1>1. /\ UNCHANGED <<log, leader, db, applied, aborted, rpc>>
        /\ commit' = commit + 1 /\ commit < Len(log)
    BY DEF Commit, store
  <1>2. /\ commit \in Nat /\ commit' \in Nat /\ commit <= commit'
        /\ Len(log) \in Nat
    BY <1>1 DEF IInv, TypeOK
  <1>3. TypeOK'
    <2>1. commit' \in 0 .. Len(log)
      BY <1>1, <1>2
    <2>2. applied \in [Node -> 0 .. commit']
      BY <1>1, <1>2 DEF IInv, TypeOK
    <2> QED
      BY <1>1, <2>1, <2>2 DEF IInv, TypeOK
  <1>4. StoreInv'
    BY <1>1, StoreKept
  <1>5. RpcInv'
    <2> SUFFICES ASSUME NEW d \in Client, Waiting(d)
                 PROVE  SoundTask(log, commit', rpc[d].task)
      BY <1>1 DEF RpcInv, Waiting
    <2>1. SoundTask(log, commit, rpc[d].task)
      BY DEF IInv, RpcInv
    <2>2. \A x : SoundTask(log, commit, x) => SoundTask(log, commit', x)
      BY <1>2, SoundKept
    <2> QED
      BY <2>1, <2>2
  <1> QED
    BY <1>1, <1>3, <1>4, <1>5 DEF IInv, LogInv, AssertInv

\* A leader that steps down only answers clients.
LEMMA StepDownStep ==
  ASSUME IInv, StepDown
  PROVE  IInv'
  <1>1. UNCHANGED <<log, commit, db, applied, aborted>> /\ leader' = NoLeader
    BY DEF StepDown, store
  <1>2. \A c \in Client : rpc'[c] = Idle \/ rpc'[c] = rpc[c]
    BY DEF StepDown
  <1>3. rpc' \in [Client -> Rpc]
    <2>1. Idle \in Rpc
      BY DEF Rpc
    <2> QED
      BY <2>1 DEF StepDown, IInv, TypeOK
  <1>4. TypeOK'
    BY <1>1, <1>3 DEF IInv, TypeOK
  <1>5. StoreInv'
    BY <1>1, StoreKept
  <1>6. RpcInv'
    <2> SUFFICES ASSUME NEW d \in Client, Waiting(d)'
                 PROVE  SoundTask(log, commit, rpc'[d].task)
      BY <1>1 DEF RpcInv
    <2>1. rpc'[d] = rpc[d]
      BY <1>2 DEF Waiting, Idle
    <2> QED
      BY <2>1 DEF IInv, RpcInv, Waiting
  <1> QED
    BY <1>1, <1>4, <1>5, <1>6 DEF IInv, LogInv, AssertInv

\* A new leader drops entries that are not committed; nothing that any
\* replica stores, and no task on its way, depends on them.
LEMMA ElectStep ==
  ASSUME IInv, NEW n \in Node, Elect(n)
  PROVE  IInv'
  <1>1. UNCHANGED <<commit, db, applied, aborted, rpc>> /\ leader' = n
    BY DEF Elect, store
  <1>2. PICK k \in commit .. Len(log) : log' = SubSeq(log, 1, k)
    BY DEF Elect
  <1>3. /\ log \in Seq(Task) /\ Len(log) \in Nat /\ commit \in Nat
        /\ k \in Nat /\ commit <= k /\ k <= Len(log)
    BY DEF IInv, TypeOK
  <1>4. /\ log' \in Seq(Task) /\ Len(log') = k
        /\ \A i \in 1 .. k : log'[i] = log[i]
    BY <1>2, <1>3
  <1>5. \A i \in 1 .. commit : log'[i] = log[i]
    BY <1>3, <1>4
  <1>6. TypeOK'
    BY <1>1, <1>3, <1>4 DEF IInv, TypeOK
  <1>7. StoreInv'
    BY <1>1, <1>5, StoreKept
  <1>8. LogInv'
    <2> SUFFICES ASSUME NEW i \in 1 .. k
                 PROVE  SoundTask(log', i - 1, log[i])
      BY <1>4 DEF LogInv
    <2>1. SoundTask(log, i - 1, log[i])
      BY <1>3 DEF IInv, LogInv
    <2>2. /\ i - 1 \in Nat /\ i - 1 <= i - 1
          /\ \A j \in 1 .. i - 1 : log'[j] = log[j]
      BY <1>3, <1>4
    <2>3. \A x : SoundTask(log, i - 1, x) => SoundTask(log', i - 1, x)
      BY <2>2, SoundKept, ZenonT(40)
    <2> QED
      BY <2>1, <2>3
  <1>9. RpcInv'
    <2>1. commit <= commit
      BY <1>3
    <2>2. \A x : SoundTask(log, commit, x) => SoundTask(log', commit, x)
      BY <2>1, <1>3, <1>5, SoundKept, Zenon
    <2> QED
      BY <2>2, <1>1, Zenon DEF IInv, RpcInv, Waiting
  <1> QED
    BY <1>1, <1>6, <1>7, <1>8, <1>9 DEF IInv, AssertInv

\* At the start nothing is stored, logged or on its way.
LEMMA InitInv ==
  ASSUME Init
  PROVE  IInv
  <1>1. Len(log) = 0 /\ log \in Seq(Task) /\ 0 \in 0 .. 0
    BY DEF Init
  <1>2. Idle \in Rpc /\ Idle.pc = "idle"
    BY DEF Rpc, Idle
  <1>3. TypeOK
    BY <1>1, <1>2 DEF Init, TypeOK, KV
  <1>4. StoreInv
    BY DEF Init, StoreInv, Mentioned
  <1>5. LogInv
    BY <1>1 DEF LogInv
  <1>6. RpcInv
    BY <1>2 DEF Init, RpcInv, Waiting
  <1> QED
    BY <1>3, <1>4, <1>5, <1>6 DEF IInv, Init, AssertInv

\* Every step preserves the invariant.
LEMMA NextInv ==
  ASSUME IInv, [Next]_vars
  PROVE  IInv'
  <1>1. ASSUME NEW c \in Client, Handler(c) \/ MkdirCheckPath(c) \/ Propose(c)
        PROVE  IInv'
    BY <1>1, HandlerStep, MkdirCheckPathStep, ProposeStep
  <1>2. ASSUME NEW n \in Node, on_apply(n) \/ Abort(n) \/ Elect(n)
        PROVE  IInv'
    BY <1>2, ApplyStep, AbortStep, ElectStep
  <1>3. CASE Commit
    BY <1>3, CommitStep
  <1>4. CASE StepDown
    BY <1>4, StepDownStep, Zenon
  <1>5. CASE UNCHANGED vars
    BY <1>5, Zenon
    DEF vars, IInv, TypeOK, StoreInv, LogInv, RpcInv, Waiting, AssertInv
  <1> QED
    BY <1>1, <1>2, <1>3, <1>4, <1>5 DEF Next

-----------------------------------------------------------------------------
(* The theorems.                                                           *)

\* IInv is an invariant of the namenode group.
THEOREM Invariance == Spec => []IInv
  <1>1. Init => IInv
    BY InitInv
  <1>2. IInv /\ [Next]_vars => IInv'
    BY NextInv
  <1> QED
    BY <1>1, <1>2, PTL DEF Spec

\* Stores hold inodes, no replica applies more than is committed, and the
\* RPC records are well formed, for any number of nodes and clients.
THEOREM TypeCorrect == Spec => []TypeOK
  <1>1. IInv => TypeOK
    BY DEF IInv
  <1> QED
    BY <1>1, Invariance, PTL

\* Names and blocks on a replica come from entries it has applied, whatever
\* handlers copy from store to log and whatever entries new leaders drop.
THEOREM Provenance == Spec => []SubProvenance
  <1>1. IInv => SubProvenance
    BY DEF IInv, StoreInv, Explained, SubProvenance
  <1> QED
    BY <1>1, Invariance, PTL

\* The assertion of get_parent_inode never fails when callers look up the
\* directory before they put a file into it.
THEOREM AssertionSafe ==
  ASSUME PutChecked
  PROVE  Spec => []NoAssertionFailure
  <1>1. IInv => NoAssertionFailure
    BY DEF IInv, AssertInv, NoAssertionFailure
  <1> QED
    BY <1>1, Invariance, PTL

\* Only an rm that is applied makes a path invalid.
THEOREM RmAlone == Spec => OnlyRmInvalidates
  <1> DEFINE A(n, p) ==
        Listed(db[n], p) /\ ~ Listed(db'[n], p) =>
             /\ applied'[n] = applied[n] + 1
             /\ log[applied'[n]].type = "OP_RM"
             /\ log[applied'[n]].path = p
             B == \A n \in Node : \A p \in Path : A(n, p)
  <1>1. ASSUME IInv, [Next]_vars
        PROVE  B
    <2> SUFFICES ASSUME NEW n \in Node, NEW p \in Path,
                        Listed(db[n], p), ~ Listed(db'[n], p)
                 PROVE  /\ applied'[n] = applied[n] + 1
                        /\ log[applied'[n]].type = "OP_RM"
                        /\ log[applied'[n]].path = p
      OBVIOUS
    <2>1. db'[n] # db[n]
      OBVIOUS
    <2>2. PICK m \in Node : on_apply(m)
      <3>1. ASSUME NEW c \in Client,
                   Handler(c) \/ MkdirCheckPath(c) \/ Propose(c)
            PROVE  UNCHANGED store
        BY <3>1, ZenonT(40) DEF Handler, mkdir, rm, put, put_ok, update_lock, Stage,
                    MkdirCheckPath, Propose
      <3>2. ASSUME NEW k \in Node, Abort(k) \/ Elect(k)
            PROVE  UNCHANGED db
        BY <3>2 DEF Abort, Elect, store
      <3>3. Commit \/ StepDown \/ UNCHANGED vars => UNCHANGED db
        BY Zenon DEF Commit, StepDown, store, vars
      <3> QED
        BY <1>1, <2>1, <3>1, <3>2, <3>3, Zenon DEF Next, store
    <2> DEFINE i == applied[n] + 1
               t == log[i]
    <2>3. /\ m = n /\ db'[n] = ApplyTask(db[n], t) /\ applied'[n] = i
      BY <1>1, <2>1, <2>2, Zenon DEF on_apply, IInv, TypeOK
    <2>4. /\ applied[n] \in Nat /\ i \in 1 .. Len(log) /\ i - 1 = applied[n]
          /\ t \in Task /\ db[n] \in KV
      <3>1. /\ log \in Seq(Task) /\ applied[n] \in Nat /\ db[n] \in KV
            /\ commit \in Nat /\ commit <= Len(log)
        BY <1>1 DEF IInv, TypeOK
      <3>2. applied[n] < commit
        BY <2>2, <2>3 DEF on_apply
      <3> QED
        BY <3>1, <3>2
    <2>5. p = t.path /\ t.type # "OP_PUTOK" /\ ~ t.inode.valid
      BY <2>3, <2>4, ApplyValid
    <2>6. SoundTask(log, i - 1, t)
      BY <1>1, <2>4, Zenon DEF IInv, LogInv
    <2>7. t.type = "OP_RM"
      BY <2>4, <2>5, <2>6, Zenon DEF SoundTask, Task, OpType
    <2> QED
      BY <2>3, <2>5, <2>7, Zenon
  <1> HIDE DEF B
  <1>2. IInv /\ [Next]_vars => [B]_vars
    BY <1>1
  <1>3. Spec => [][B]_vars
    BY <1>2, Invariance, PTL DEF Spec
  <1> QED
    BY <1>3, Zenon DEF OnlyRmInvalidates, B

-----------------------------------------------------------------------------
(* A lone caller: what an entry does to the map of names, if the check     *)
(* that its handler made holds in the store that it is applied to.         *)

KindAt(kv, p) == KindOf(get_inode(kv, p))
DataAt(kv, p) == get_inode(kv, p).sub \cap Block

\* The check of the handler holds in kv, and t is the task it builds there.
Allowed(kv, t) ==
    LET ino == get_inode(kv, t.path) IN
    \/ /\ t.type = "OP_MKDIR" /\ t.inode = DefaultDir
       /\ path_exists(kv, Parent[t.path]) /\ ~ path_exists(kv, t.path)
    \/ t.type = "OP_RM" /\ t.inode = Blank /\ path_exists(kv, t.path)
    \/ /\ t.type = "OP_PUT"
       /\ \/ ~ (ino.valid /\ ino.is_directory) /\ t.inode = prepare_put(ino)
          \/ ino.valid /\ t.inode = [ino EXCEPT !.ddl_lock = TRUE]
    \/ /\ t.type = "OP_PUTOK" /\ prepare_put_ok(ino)
       /\ \E sub \in SUBSET Block : t.inode = [ino EXCEPT !.sub = sub]

\* The same between the two reads of prepare_mkdir.
HalfAllowed(kv, t) ==
    /\ t.type = "OP_MKDIR" /\ t.inode = DefaultDir
    /\ path_exists(kv, Parent[t.path])

\* A file name is listed in its parent only, and the file is there.
FilesListed(kv) ==
    \A p, q \in Path : <<q, FALSE>> \in get_inode(kv, p).sub =>
        p = Parent[q] /\ KindAt(kv, q) = "file"

\* An entry changes kind and contents of its own path and no other.
LEMMA EntryEffect ==
  ASSUME NEW kv \in KV, NEW t \in Task, AssertionHolds(kv, t), NEW p \in Path
  PROVE  /\ KindAt(ApplyTask(kv, t), p)
              = IF p = t.path /\ t.type # "OP_PUTOK" THEN KindOf(t.inode) ELSE KindAt(kv, p)
         /\ DataAt(ApplyTask(kv, t), p)
              = IF p = t.path THEN t.inode.sub \cap Block ELSE DataAt(kv, p)
  <1> DEFINE kw == ApplyTask(kv, t)
  <1>1. t.path \in Path /\ t.inode \in Inode
    BY Zenon DEF Task
  <1>2. /\ Flags(kw, p) = IF WritesFlags(t, p) THEN FlagsOf(t) ELSE Flags(kv, p)
        /\ \A e : InSub(kw, p, e)
             <=> IF WritesSub(t, p, e) THEN InSubOf(t, p, e) ELSE InSub(kv, p, e)
    BY ApplyCells, Zenon
  <1> HIDE DEF kw
  <1>3. KindAt(kw, p)
          = IF p = t.path /\ t.type # "OP_PUTOK" THEN KindOf(t.inode) ELSE KindAt(kv, p)
    BY <1>2, Zenon DEF Flags, FlagsOf, WritesFlags, KindAt, KindOf
  <1>4. filename(t.path, t.inode) \in Entry
    BY <1>1, Zenon DEF filename, Entry, Inode
  <1>5. \A e \in Block : WritesSub(t, p, e) <=> t.path = p
    BY <1>4, BlockAssumption, Zenon DEF WritesSub
  <1>6. \A e \in Block : InSub(kw, p, e) <=> IF t.path = p THEN e \in t.inode.sub
                                             ELSE InSub(kv, p, e)
    BY <1>2, <1>5, Zenon DEF InSubOf
  <1>7. \A e : e \in DataAt(kw, p) <=> e \in IF p = t.path THEN t.inode.sub \cap Block
                                            ELSE DataAt(kv, p)
    BY <1>6, Zenon DEF DataAt, InSub
  <1>8. DataAt(kw, p) = IF p = t.path THEN t.inode.sub \cap Block ELSE DataAt(kv, p)
    BY <1>7, Zenon DEF DataAt
  <1> QED
    BY <1>3, <1>8, Zenon DEF kw

\* An allowed entry is an operation of Namespace on its path, or none.
LEMMA EntrySimulates ==
  ASSUME NEW kv \in KV, NEW t \in Task, AssertionHolds(kv, t), Allowed(kv, t)
  PROVE  LET p == t.path
             k == KindAt(kv, p)
             kw == ApplyTask(kv, t)
         IN  /\ \A q \in Path \ {p} : /\ KindAt(kw, q) = KindAt(kv, q)
                                      /\ DataAt(kw, q) = DataAt(kv, q)
             /\ \/ /\ Parent[p] = Root \/ KindAt(kv, Parent[p]) # "none"
                   /\ p # Root /\ k = "none"
                   /\ KindAt(kw, p) = "directory" /\ DataAt(kw, p) = {}
                \/ /\ k # "directory"
                   /\ KindAt(kw, p) = "file" /\ DataAt(kw, p) = DataAt(kv, p)
                \/ /\ k = "file"
                   /\ KindAt(kw, p) = "file" /\ DataAt(kw, p) \in SUBSET Block
                \/ /\ p = Root \/ k # "none"
                   /\ KindAt(kw, p) = "none" /\ DataAt(kw, p) = {}
                \/ KindAt(kw, p) = k /\ DataAt(kw, p) = DataAt(kv, p)
  <1> DEFINE p == t.path
             kw == ApplyTask(kv, t)
             ino == get_inode(kv, p)
  <1>1. p \in Path /\ ino \in Inode /\ t.inode \in Inode /\ Parent[p] \in Path
    BY ReadType, PathAssumption, Zenon DEF Task
  <1>2. \A q \in Path \ {p} : KindAt(kw, q) = KindAt(kv, q) /\ DataAt(kw, q) = DataAt(kv, q)
    BY EntryEffect, Zenon
  <1>3. /\ KindAt(kw, p) = IF t.type # "OP_PUTOK" THEN KindOf(t.inode) ELSE KindAt(kv, p)
        /\ DataAt(kw, p) = t.inode.sub \cap Block
    BY <1>1, EntryEffect, Zenon
  <1>4. \A q \in Path : path_exists(kv, q) <=> q = Root \/ KindAt(kv, q) # "none"
    BY Zenon DEF path_exists, KindAt, KindOf, get_inode, Blank, DefaultDir
  <1> HIDE DEF kw
  <1>5. CASE t.type = "OP_MKDIR"
    <2>1. t.inode = DefaultDir /\ path_exists(kv, Parent[p]) /\ ~ path_exists(kv, p)
      BY <1>5, Zenon DEF Allowed
    <2>2. KindOf(DefaultDir) = "directory" /\ DefaultDir.sub = {}
      BY Zenon DEF KindOf, DefaultDir
    <2> QED
      BY <1>1, <1>2, <1>3, <1>4, <1>5, <2>1, <2>2, Zenon DEF kw
  <1>6. CASE t.type = "OP_RM"
    <2>1. t.inode = Blank /\ path_exists(kv, p)
      BY <1>6, Zenon DEF Allowed
    <2>2. KindOf(Blank) = "none" /\ Blank.sub = {}
      BY Zenon DEF KindOf, Blank
    <2> QED
      BY <1>1, <1>2, <1>3, <1>4, <1>6, <2>1, <2>2, Zenon DEF kw
  <1>7. CASE t.type = "OP_PUT"
    <2>1. CASE ~ (ino.valid /\ ino.is_directory) /\ t.inode = prepare_put(ino)
      <3>1. KindAt(kv, p) # "directory"
        BY <2>1, Zenon DEF KindAt, KindOf
      <3>2. KindOf(t.inode) = "file" /\ t.inode.sub = ino.sub
        BY <1>1, <2>1, Zenon DEF prepare_put, KindOf, Inode
      <3> QED
        BY <1>2, <1>3, <1>7, <3>1, <3>2, Zenon DEF kw, DataAt
    <2>2. CASE ino.valid /\ t.inode = [ino EXCEPT !.ddl_lock = TRUE]
      <3>1. KindOf(t.inode) = KindAt(kv, p) /\ t.inode.sub = ino.sub
        BY <1>1, <2>2, Zenon DEF KindOf, KindAt, Inode
      <3> QED
        BY <1>2, <1>3, <1>7, <3>1, Zenon DEF kw, DataAt
    <2> QED
      BY <1>7, <2>1, <2>2, Zenon DEF Allowed
  <1>8. CASE t.type = "OP_PUTOK"
    <2>1. ino.valid /\ ~ ino.is_directory
      BY <1>8, Zenon DEF Allowed, prepare_put_ok
    <2>2. KindAt(kv, p) = "file"
      BY <2>1, Zenon DEF KindAt, KindOf
    <2> QED
      BY <1>2, <1>3, <1>8, <2>2, Zenon DEF kw
  <1> QED
    BY <1>5, <1>6, <1>7, <1>8, Zenon DEF Allowed

\* An allowed entry keeps the names of files in order.
LEMMA FilesListedKept ==
  ASSUME NEW kv \in KV, NEW t \in Task, AssertionHolds(kv, t), Allowed(kv, t),
         FilesListed(kv)
  PROVE  FilesListed(ApplyTask(kv, t))
  <1> DEFINE kw == ApplyTask(kv, t)
             ino == get_inode(kv, t.path)
  <1>1. t.path \in Path /\ ino \in Inode /\ t.inode \in Inode
    BY ReadType, Zenon DEF Task
  <1> SUFFICES ASSUME NEW p \in Path, NEW q \in Path,
                      <<q, FALSE>> \in get_inode(kw, p).sub
               PROVE  p = Parent[q] /\ KindAt(kw, q) = "file"
    BY Zenon DEF FilesListed
  <1> DEFINE e == <<q, FALSE>>
  <1>2. IF WritesSub(t, p, e) THEN InSubOf(t, p, e) ELSE e \in get_inode(kv, p).sub
    BY ApplyCells, Zenon DEF InSub
  <1>3. KindAt(kw, q)
          = IF q = t.path /\ t.type # "OP_PUTOK" THEN KindOf(t.inode) ELSE KindAt(kv, q)
    BY EntryEffect, Zenon
  <1>4. e \in get_inode(kv, p).sub => p = Parent[q] /\ KindAt(kv, q) = "file"
    BY Zenon DEF FilesListed
  <1>5. e \in Entry
    BY Zenon DEF Entry
  <1> HIDE DEF kw
  <1>6. CASE t.type = "OP_MKDIR"
    <2>1. t.inode = DefaultDir /\ ~ path_exists(kv, t.path)
      BY <1>6, Zenon DEF Allowed
    <2>2. t.inode.sub = {} /\ e # filename(t.path, t.inode)
      BY <2>1 DEF DefaultDir, filename
    <2>3. e \in get_inode(kv, p).sub
      BY <1>2, <2>2, Zenon DEF WritesSub, InSubOf
    <2>4. KindAt(kv, t.path) # "file"
      BY <2>1, Zenon DEF path_exists, KindAt, KindOf, get_inode, Blank
    <2> QED
      BY <1>3, <1>4, <2>3, <2>4, Zenon
  <1>7. CASE t.type = "OP_RM"
    <2>0. t.inode = Blank
      BY <1>7, Zenon DEF Allowed
    <2>1. t.inode.sub = {} /\ filename(t.path, t.inode) = <<t.path, FALSE>>
      BY <2>0 DEF Blank, filename
    <2>2. p # t.path /\ e \in get_inode(kv, p).sub
      BY <1>2, <1>7, <2>1, Zenon DEF WritesSub, InSubOf
    <2>3. q # t.path
      BY <1>2, <1>4, <1>7, <2>1, <2>2, Zenon DEF WritesSub, InSubOf
    <2> QED
      BY <1>3, <1>4, <2>2, <2>3, Zenon
  <1>8. CASE t.type = "OP_PUT"
    <2>1. t.inode.sub = ino.sub
      BY <1>1, <1>8, Zenon DEF Allowed, prepare_put, Inode
    <2>2. e \in get_inode(kv, p).sub
      BY <1>2, <1>8, <2>1, Zenon DEF WritesSub, InSubOf
    <2>3. KindAt(kv, t.path) = "file" => KindOf(t.inode) = "file"
      BY <1>1, <1>8, Zenon DEF Allowed, prepare_put, Inode, KindAt, KindOf
    <2> QED
      BY <1>3, <1>4, <2>2, <2>3, Zenon
  <1>9. CASE t.type = "OP_PUTOK"
    <2>1. PICK sub \in SUBSET Block : t.inode = [ino EXCEPT !.sub = sub]
      BY <1>9, Zenon DEF Allowed
    <2>2. t.inode.sub = sub /\ t.inode.is_directory = ino.is_directory
      BY <1>1, <2>1, Zenon DEF Inode
    <2>3. ino.valid /\ ~ ino.is_directory
      BY <1>9, Zenon DEF Allowed, prepare_put_ok
    <2>4. KindAt(kv, t.path) = "file"
      BY <2>3, Zenon DEF KindAt, KindOf
    <2>5. e \notin t.inode.sub
      BY <1>5, <2>2, BlockAssumption, Zenon
    <2>6. CASE e \in get_inode(kv, p).sub
      BY <1>3, <1>4, <1>9, <2>6, Zenon
    <2>7. CASE e \notin get_inode(kv, p).sub
      <3>1. Parent[t.path] = p /\ e = filename(t.path, t.inode)
        BY <1>2, <2>5, <2>7, Zenon DEF WritesSub, InSubOf
      <3>2. q = t.path
        BY <3>1, Zenon DEF filename
      <3> QED
        BY <1>3, <1>9, <2>4, <3>1, <3>2, Zenon
    <2> QED
      BY <2>6, <2>7, Zenon
  <1> QED
    BY <1>6, <1>7, <1>8, <1>9, Zenon DEF Allowed

-----------------------------------------------------------------------------
(* A lone caller and a stable leader: h[i] is the store after the first i  *)
(* entries of the log.                                                     *)

\* on_apply gets through the first j entries.
Reached(h, j) == \A i \in 1 .. j : AssertionHolds(h[i - 1], log[i])

\* The log: every entry that can be applied was checked against the store
\* that it is applied to.
History(h) ==
    /\ h[0] = [p \in Path |-> NotFound]
    /\ \A i \in 1 .. Len(log) : h[i] = ApplyTask(h[i - 1], log[i])
    /\ \A i \in 1 .. Len(log) : Reached(h, i - 1) => Allowed(h[i - 1], log[i])
    /\ \A i \in 0 .. Len(log) : Reached(h, i) => FilesListed(h[i])

\* The replicas: each has what the entries it has applied make, and one of
\* them is ahead of all others.
Replicas(h) ==
    /\ \A n \in Node : db[n] = h[applied[n]] /\ Reached(h, applied[n])
    /\ \E n \in Node : \A m \in Node : applied[m] <= applied[n]

\* The caller: the leader has applied the whole log, but for the entry that
\* the caller waits for, and the check just made holds at the end of it.
\* The leader is lost only to an entry that nobody can apply.
Caller(h, c) ==
    /\ leader = NoLeader =>
         (log = <<>> /\ rpc[c].pc # "proposed") \/ ~ Reached(h, commit)
    /\ leader # NoLeader /\ Reached(h, Len(log)) =>
         IF rpc[c].pc = "proposed"
         THEN Closure(c, leader, Len(log)) /\ applied[leader] = Len(log) - 1
         ELSE applied[leader] = Len(log)
    /\ Waiting(c) /\ leader \in {rpc[c].node, NoLeader} /\ Reached(h, Len(log)) =>
         IF rpc[c].pc = "mkdir" THEN HalfAllowed(h[Len(log)], rpc[c].task)
         ELSE Allowed(h[Len(log)], rpc[c].task)

Serial(h, c) == History(h) /\ Replicas(h) /\ Caller(h, c)

Alone(c) == Stable /\ Client = {c}

\* A shorter log is got through if a longer one is.
LEMMA ReachedLess ==
  ASSUME NEW h, NEW i \in Nat, NEW j \in Nat, i <= j, Reached(h, j)
  PROVE  Reached(h, i)
  BY DEF Reached

\* A node that check_leader lets through reads the store at the end of the
\* log.
LEMMA ReadsEnd ==
  ASSUME TypeOK, NEW c \in Client, NEW h, Serial(h, c), rpc[c].pc # "proposed",
         NEW n \in Node, leader \in {n, NoLeader}, Reached(h, Len(log))
  PROVE  db[n] = h[Len(log)]
  <1>1. Len(log) \in Nat /\ commit \in 0 .. Len(log) /\ applied[n] \in 0 .. commit
    BY DEF TypeOK
  <1>2. CASE leader = n
    BY <1>2, NodeAssumption, Zenon DEF Serial, Replicas, Caller
  <1>3. CASE leader = NoLeader
    <2>1. Reached(h, commit)
      BY <1>1, ReachedLess
    <2>2. log = <<>>
      BY <1>3, <2>1, Zenon DEF Serial, Caller
    <2>3. applied[n] = Len(log)
      BY <1>1, <2>2
    <2> QED
      BY <2>3, Zenon DEF Serial, Replicas
  <1> QED
    BY <1>2, <1>3, Zenon

\* A handler leaves a task that its check allows.
LEMMA SerialStage ==
  ASSUME TypeOK, NEW c \in Client, NEW h, Serial(h, c), NEW n \in Node,
         Call(c, n), NEW pc \in {"mkdir", "prepared"}, NEW type, NEW p, NEW ino,
         Stage(c, n, pc, type, p, ino),
         IF pc = "mkdir"
         THEN HalfAllowed(db[n], [type |-> type, path |-> p, inode |-> ino])
         ELSE Allowed(db[n], [type |-> type, path |-> p, inode |-> ino])
  PROVE  Serial(h, c)'
  <1> DEFINE t == [type |-> type, path |-> p, inode |-> ino]
  <1>1. rpc[c].pc = "idle" /\ leader \in {n, NoLeader}
    BY DEF Call, Idle, check_leader
  <1>2. rpc'[c] = [pc |-> pc, node |-> n, task |-> t]
    BY Zenon DEF Stage, TypeOK
  <1>3. UNCHANGED <<log, commit, leader, db, applied>>
    BY Zenon DEF Stage, raft, store
  <1>4. History(h)' /\ Replicas(h)'
    BY <1>3, Zenon DEF Serial, History, Replicas, Reached
  <1>5. \A j : Reached(h, j)' <=> Reached(h, j)
    BY <1>3, Zenon DEF Reached
  <1>6. rpc'[c].pc = pc /\ rpc'[c].task = t
    BY <1>2, SMTT(30)
  <1> HIDE DEF t
  <1>7. Reached(h, Len(log)) => IF pc = "mkdir" THEN HalfAllowed(h[Len(log)], t)
                               ELSE Allowed(h[Len(log)], t)
    BY <1>1, ReadsEnd, Zenon DEF t
  <1>8. Caller(h, c)'
    BY <1>1, <1>3, <1>5, <1>6, <1>7, Zenon DEF Serial, Caller
  <1> QED
    BY <1>4, <1>8, Zenon DEF Serial

\* Every handler checks what it writes.
LEMMA SerialHandler ==
  ASSUME TypeOK, NEW c \in Client, NEW h, Serial(h, c), Handler(c)
  PROVE  Serial(h, c)'
  <1>1. PICK n \in Node, p \in Path :
          \/ mkdir(c, n, p)
          \/ rm(c, n, p)
          \/ \E over \in BOOLEAN : put(c, n, p, over)
          \/ \E sub \in SUBSET Block : put_ok(c, n, p, sub)
          \/ update_lock(c, n, p)
    BY Zenon DEF Handler
  <1> DEFINE ino == get_inode(db[n], p)
             T(type, i) == [type |-> type, path |-> p, inode |-> i]
  <1>2. CASE mkdir(c, n, p)
    <2>1. HalfAllowed(db[n], T("OP_MKDIR", DefaultDir))
      BY <1>2, Zenon DEF mkdir, HalfAllowed
    <2> QED
      BY <1>2, <2>1, SerialStage, Zenon DEF mkdir
  <1>3. CASE rm(c, n, p)
    <2>1. Allowed(db[n], T("OP_RM", Blank))
      BY <1>3, Zenon DEF rm, Allowed, prepare_rm
    <2> QED
      BY <1>3, <2>1, SerialStage, Zenon DEF rm
  <1>4. ASSUME NEW over \in BOOLEAN, put(c, n, p, over) PROVE Serial(h, c)'
    <2>1. Allowed(db[n], T("OP_PUT", prepare_put(ino)))
      BY <1>4, Zenon DEF put, Allowed
    <2> QED
      BY <1>4, <2>1, SerialStage, Zenon DEF put
  <1>5. ASSUME NEW sub \in SUBSET Block, put_ok(c, n, p, sub) PROVE Serial(h, c)'
    <2>1. Allowed(db[n], T("OP_PUTOK", [ino EXCEPT !.sub = sub]))
      BY <1>5, Zenon DEF put_ok, Allowed
    <2> QED
      BY <1>5, <2>1, SerialStage, Zenon DEF put_ok
  <1>6. CASE update_lock(c, n, p)
    <2>1. Allowed(db[n], T("OP_PUT", [ino EXCEPT !.ddl_lock = TRUE]))
      BY <1>6, Zenon DEF update_lock, Allowed
    <2> QED
      BY <1>6, <2>1, SerialStage, Zenon DEF update_lock
  <1> QED
    BY <1>1, <1>2, <1>3, <1>4, <1>5, <1>6, Zenon

\* The second read of mkdir makes the check complete.
LEMMA SerialMkdirCheckPath ==
  ASSUME TypeOK, NEW c \in Client, NEW h, Serial(h, c), MkdirCheckPath(c)
  PROVE  Serial(h, c)'
  <1>1. UNCHANGED <<log, commit, leader, db, applied>>
    BY Zenon DEF MkdirCheckPath, raft, store
  <1>2. History(h)' /\ Replicas(h)'
    BY <1>1, Zenon DEF Serial, History, Replicas, Reached
  <1>3. \A j : Reached(h, j)' <=> Reached(h, j)
    BY <1>1, Zenon DEF Reached
  <1>4. rpc[c].pc = "mkdir" /\ rpc[c] \in Rpc
    BY Zenon DEF MkdirCheckPath, TypeOK
  <1>5. rpc[c].node \in Node /\ rpc[c] \in [pc : {"mkdir", "prepared"}, node : Node, task : Task]
    BY <1>4 DEF Rpc, Idle
  <1>6. CASE path_exists(db[rpc[c].node], rpc[c].task.path)
    <2>1. rpc'[c].pc = "idle"
      BY <1>6 DEF MkdirCheckPath, Answer, TypeOK, Idle
    <2> QED
      BY <1>1, <1>2, <1>3, <1>4, <2>1, Zenon DEF Serial, Caller, Waiting
  <1>7. CASE ~ path_exists(db[rpc[c].node], rpc[c].task.path)
    <2>1. rpc' = [rpc EXCEPT ![c].pc = "prepared"]
      BY <1>7, Zenon DEF MkdirCheckPath
    <2>2. rpc'[c] = [rpc[c] EXCEPT !.pc = "prepared"]
      BY <2>1, Zenon DEF TypeOK
    <2>3. rpc'[c].pc = "prepared" /\ rpc'[c].node = rpc[c].node /\ rpc'[c].task = rpc[c].task
      BY <1>5, <2>2, Zenon
    <2>4. leader \in {rpc[c].node, NoLeader} /\ Reached(h, Len(log))
            => HalfAllowed(h[Len(log)], rpc[c].task)
      BY <1>4, Zenon DEF Serial, Caller, Waiting
    <2>5. leader \in {rpc[c].node, NoLeader} /\ Reached(h, Len(log))
            => db[rpc[c].node] = h[Len(log)]
      BY <1>4, <1>5, ReadsEnd, Zenon
    <2>6. leader \in {rpc[c].node, NoLeader} /\ Reached(h, Len(log))
            => Allowed(h[Len(log)], rpc[c].task)
      BY <1>7, <2>4, <2>5, Zenon DEF HalfAllowed, Allowed
    <2> QED
      BY <1>1, <1>2, <1>3, <1>4, <2>3, <2>6, Zenon DEF Serial, Caller
  <1> QED
    BY <1>6, <1>7, Zenon

\* An entry is appended only where the leader has checked it.
LEMMA SerialPropose ==
  ASSUME TypeOK, NEW c \in Client, NEW h \in [Nat -> KV], Serial(h, c), Propose(c)
  PROVE  \E g \in [Nat -> KV] : Serial(g, c)'
  <1>1. rpc[c].pc = "prepared" /\ rpc[c] \in Rpc /\ UNCHANGED <<commit, leader, db, applied>>
    BY Zenon DEF Propose, TypeOK, store
  <1>2. rpc[c].node \in Node /\ rpc[c].task \in Task
    BY <1>1 DEF Rpc, Idle
  <1>3. CASE leader # rpc[c].node
    <2>1. rpc'[c].pc = "idle" /\ log' = log
      BY <1>3 DEF Propose, Answer, Idle, TypeOK
    <2>2. History(h)' /\ Replicas(h)'
      BY <1>1, <2>1, Zenon DEF Serial, History, Replicas, Reached
    <2>3. \A j : Reached(h, j)' <=> Reached(h, j)
      BY <2>1, Zenon DEF Reached
    <2>4. Caller(h, c)'
      BY <1>1, <2>1, <2>3, Zenon DEF Serial, Caller, Waiting
    <2> QED
      BY <2>2, <2>4, Zenon DEF Serial
  <1>4. CASE leader = rpc[c].node
    <2>0. PICK L, t : L = Len(log) /\ t = rpc[c].task
      BY Zenon
    <2>1. /\ log' = Append(log, t)
          /\ rpc' = [rpc EXCEPT ![c] = [pc |-> "proposed", node |-> rpc[c].node,
                                        index |-> L + 1]]
      BY <1>4, <2>0, Zenon DEF Propose
    <2>2. L \in Nat /\ log \in Seq(Task) /\ h[L] \in KV /\ t \in Task
      BY <1>2, <2>0 DEF TypeOK
    <2>3. Len(log') = L + 1 /\ log'[L + 1] = t /\ \A i \in 1 .. L : log'[i] = log[i]
      BY <2>0, <2>1, <2>2
    <2>4. ApplyTask(h[L], t) \in KV
      BY <2>2, ApplyType, Zenon
    <2>5. PICK g \in [Nat -> KV] :
            /\ g[L + 1] = ApplyTask(h[L], t)
            /\ \A i \in 0 .. L : g[i] = h[i]
      <3>1. PICK g : g = [h EXCEPT ![L + 1] = ApplyTask(h[L], t)]
        BY Zenon
      <3>2. g \in [Nat -> KV]
        BY <2>2, <2>4, <3>1
      <3>3. g[L + 1] = ApplyTask(h[L], t) /\ \A i \in 0 .. L : g[i] = h[i]
        BY <2>2, <3>1
      <3> QED
        BY <3>2, <3>3, Zenon
    <2>6. rpc'[c] = [pc |-> "proposed", node |-> leader, index |-> L + 1]
      BY <1>4, <2>1, Zenon DEF TypeOK
    <2>7. \A j \in 0 .. L : Reached(g, j)' <=> Reached(h, j)
      <3> SUFFICES ASSUME NEW j \in 0 .. L PROVE Reached(g, j)' <=> Reached(h, j)
        BY Zenon
      <3>1. \A i \in 1 .. j : g[i - 1] = h[i - 1] /\ log'[i] = log[i]
        BY <2>2, <2>3, <2>5
      <3> QED
        BY <3>1, Zenon DEF Reached
    <2>8. Reached(g, L + 1)' => Reached(h, L) /\ AssertionHolds(h[L], t)
      <3>1. Reached(g, L + 1)' => \A i \in 1 .. L + 1 : AssertionHolds(g[i - 1], log'[i])
        BY Zenon DEF Reached
      <3>2. Reached(g, L + 1)' => Reached(g, L)'
        BY <2>2, <3>1 DEF Reached
      <3>3. Reached(g, L + 1)' => AssertionHolds(g[L + 1 - 1], log'[L + 1])
        BY <2>2, <3>1
      <3>4. g[L + 1 - 1] = h[L]
        BY <2>2, <2>5
      <3> QED
        BY <2>2, <2>3, <2>7, <3>2, <3>3, <3>4, SMTT(30)
    <2>9. leader \in Node /\ leader # NoLeader
      BY <1>2, <1>4, NodeAssumption, Zenon
    <2>10. Reached(h, L) => Allowed(h[L], t)
      BY <1>1, <1>4, <2>0, Zenon DEF Serial, Caller, Waiting
    <2>11. Reached(h, L) => FilesListed(h[L])
      BY <2>0, <2>2 DEF Serial, History
    <2>12. Reached(g, L + 1)' => FilesListed(g[L + 1])
      BY <2>2, <2>5, <2>8, <2>10, <2>11, FilesListedKept, Zenon
    <2>13. History(g)'
      <3>1. g[0] = [p \in Path |-> NotFound]
        BY <2>2, <2>5 DEF Serial, History
      <3>2. ASSUME NEW i \in 1 .. L + 1
            PROVE  /\ g[i] = ApplyTask(g[i - 1], log'[i])
                   /\ Reached(g, i - 1)' => Allowed(g[i - 1], log'[i])
        <4>1. CASE i = L + 1
          <5>1. g[i - 1] = h[L] /\ i - 1 = L
            BY <2>2, <2>5, <4>1
          <5>2. Reached(g, i - 1)' => Reached(h, L)
            BY <2>2, <2>7, <5>1
          <5> QED
            BY <2>3, <2>5, <2>10, <4>1, <5>1, <5>2, Zenon
        <4>2. CASE i # L + 1
          <5>1. i \in 1 .. L /\ i - 1 \in 0 .. L /\ i \in 0 .. L
            BY <2>2, <4>2
          <5>2. g[i] = h[i] /\ g[i - 1] = h[i - 1] /\ log'[i] = log[i]
            BY <2>3, <2>5, <5>1, Zenon
          <5>3. h[i] = ApplyTask(h[i - 1], log[i])
                  /\ (Reached(h, i - 1) => Allowed(h[i - 1], log[i]))
            BY <2>0, <5>1, Zenon DEF Serial, History
          <5> QED
            BY <2>7, <5>1, <5>2, <5>3, Zenon
        <4> QED
          BY <4>1, <4>2, Zenon
      <3>3. ASSUME NEW i \in 0 .. L + 1, Reached(g, i)' PROVE FilesListed(g[i])
        <4>1. CASE i = L + 1
          BY <2>12, <3>3, <4>1, Zenon
        <4>2. CASE i # L + 1
          <5>1. i \in 0 .. L
            BY <2>2, <4>2
          <5> QED
            BY <2>0, <2>5, <2>7, <3>3, <5>1, Zenon DEF Serial, History
        <4> QED
          BY <4>1, <4>2, Zenon
      <3> QED
        BY <2>3, <3>1, <3>2, <3>3, Zenon DEF History
    <2>14. Replicas(g)'
      <3>1. \A n \in Node : applied[n] \in 0 .. L
        BY <2>0, <2>2 DEF TypeOK
      <3>2. \A n \in Node : db[n] = g[applied[n]]
        BY <2>5, <3>1, Zenon DEF Serial, Replicas
      <3>3. ASSUME NEW n \in Node
            PROVE  \A i \in 1 .. applied[n] : AssertionHolds(g[i - 1], log'[i])
        <4>1. PICK a : a = applied[n]
          OBVIOUS
        <4>2. Reached(h, a)
          BY <4>1, Zenon DEF Serial, Replicas
        <4>3. Reached(g, a)'
          BY <2>7, <3>1, <4>1, <4>2, Zenon
        <4> QED
          BY <4>1, <4>3, Zenon DEF Reached
      <3>4. \E n \in Node : \A m \in Node : applied[m] <= applied[n]
        BY Zenon DEF Serial, Replicas
      <3> QED
        BY <1>1, <3>2, <3>3, <3>4, Zenon DEF Replicas, Reached
    <2>15. Reached(h, L) => applied[leader] = L
      BY <1>1, <2>0, <2>9, Zenon DEF Serial, Caller
    <2>16. Caller(g, c)'
      <3>1. Reached(g, Len(log))' => Reached(g, L + 1)'
        BY <2>3 DEF Reached
      <3>2. ~ Waiting(c)' /\ rpc'[c].pc = "proposed"
        BY <2>6 DEF Waiting
      <3>3. Closure(c, leader, Len(log))'
        BY <1>1, <2>3, <2>6 DEF Closure
      <3>4. Reached(h, L) => applied'[leader'] = Len(log') - 1
        BY <1>1, <2>2, <2>3, <2>15, SMTT(30)
      <3> QED
        BY <1>1, <2>8, <2>9, <3>1, <3>2, <3>3, <3>4, Zenon DEF Caller
    <2> QED
      BY <2>5, <2>13, <2>14, <2>16, Zenon DEF Serial
  <1> QED
    BY <1>3, <1>4, Zenon

\* on_apply makes the next store, and answers the caller if it waits for it.
LEMMA SerialApply ==
  ASSUME TypeOK, NEW c \in Client, NEW h \in [Nat -> KV], Serial(h, c),
         NEW n \in Node, on_apply(n)
  PROVE  Serial(h, c)'
  <1> DEFINE i == applied[n] + 1
  <1>1. UNCHANGED <<log, commit, leader>>
    BY Zenon DEF on_apply, raft
  <1>2. History(h)'
    BY <1>1, Zenon DEF Serial, History, Reached
  <1>3. \A j : Reached(h, j)' <=> Reached(h, j)
    BY <1>1, Zenon DEF Reached
  <1>4. /\ applied[n] < commit
        /\ AssertionHolds(db[n], log[i])
        /\ db' = [db EXCEPT ![n] = ApplyTask(db[n], log[i])]
        /\ applied' = [applied EXCEPT ![n] = i]
        /\ rpc'[c] = IF Closure(c, n, i) THEN Idle ELSE rpc[c]
    BY Zenon DEF on_apply
  <1>5. /\ Len(log) \in Nat /\ commit \in 0 .. Len(log)
        /\ \A m \in Node : applied[m] \in 0 .. commit
    BY DEF TypeOK
  <1>6. i \in 1 .. Len(log) /\ i - 1 = applied[n] /\ i \in Nat
    <2>1. applied[n] < commit /\ applied[n] \in 0 .. commit
      BY <1>4, <1>5, Zenon
    <2>2. Len(log) \in Nat /\ commit \in 0 .. Len(log)
      BY <1>5, Zenon
    <2> QED
      BY <2>1, <2>2
  <1>7. /\ applied'[n] = i /\ \A m \in Node : m # n => applied'[m] = applied[m]
        /\ db'[n] = ApplyTask(db[n], log[i]) /\ \A m \in Node : m # n => db'[m] = db[m]
    BY <1>4, Zenon DEF TypeOK
  <1> HIDE DEF i
  <1>8. db'[n] = h[i]
    <2>1. h[i] = ApplyTask(h[i - 1], log[i])
      BY <1>6, Zenon DEF Serial, History
    <2>2. db[n] = h[i - 1]
      BY <1>6, Zenon DEF Serial, Replicas
    <2> QED
      BY <1>7, <2>1, <2>2, Zenon
  <1>9. Reached(h, i)
    <2>1. Reached(h, i - 1) /\ AssertionHolds(h[i - 1], log[i])
      BY <1>4, <1>6, Zenon DEF Serial, Replicas
    <2> QED
      BY <1>6, <2>1 DEF Reached
  <1>10. \E m \in Node : \A k \in Node : applied'[k] <= applied'[m]
    <2>1. PICK m \in Node : \A k \in Node : applied[k] <= applied[m]
      BY Zenon DEF Serial, Replicas
    <2>2. CASE applied[n] = applied[m]
      <3>1. \A k \in Node : applied'[k] <= applied'[n]
        BY <1>5, <1>6, <1>7, <2>1, <2>2
      <3> QED
        BY <3>1, Zenon
    <2>3. CASE applied[n] # applied[m]
      <3>1. \A k \in Node : applied'[k] <= applied'[m]
        BY <1>5, <1>6, <1>7, <2>1, <2>3
      <3> QED
        BY <3>1, Zenon
    <2> QED
      BY <2>2, <2>3, Zenon
  <1>11. Replicas(h)'
    BY <1>3, <1>7, <1>8, <1>9, <1>10, Zenon DEF Serial, Replicas
  <1>12. rpc[c].pc # "proposed" => rpc'[c] = rpc[c]
    BY <1>4 DEF Closure
  <1>13. rpc'[c].pc = "proposed" \/ Waiting(c)' => rpc'[c] = rpc[c]
    BY <1>4 DEF Waiting, Idle
  <1>14. (leader = NoLeader => (log = <<>> /\ rpc[c].pc # "proposed") \/ ~ Reached(h, commit))'
    BY <1>1, <1>3, <1>5, <1>6, <1>13, Zenon DEF Serial, Caller
  <1>15. ASSUME leader # NoLeader, Reached(h, Len(log))
         PROVE  IF rpc'[c].pc = "proposed"
                THEN Closure(c, leader, Len(log))' /\ applied'[leader] = Len(log) - 1
                ELSE applied'[leader] = Len(log)
    <2>1. leader \in Node
      BY <1>15, Zenon DEF TypeOK
    <2>2. IF rpc[c].pc = "proposed"
          THEN Closure(c, leader, Len(log)) /\ applied[leader] = Len(log) - 1
          ELSE applied[leader] = Len(log)
      BY <1>15, Zenon DEF Serial, Caller
    <2>3. CASE leader = n
      <3>1. applied[leader] = Len(log) - 1 /\ Closure(c, leader, Len(log))
        BY <1>4, <1>5, <2>2, <2>3, SMTT(30)
      <3>2. i = Len(log)
        BY <1>5, <1>6, <2>3, <3>1
      <3>3. rpc'[c].pc = "idle"
        BY <1>4, <2>3, <3>1, <3>2, SMTT(30) DEF Idle
      <3> QED
        BY <1>7, <2>3, <3>2, <3>3, Zenon
    <2>4. CASE leader # n
      <3>1. applied'[leader] = applied[leader]
        BY <1>7, <2>1, <2>4, Zenon
      <3>2. rpc'[c] = rpc[c]
        BY <1>4, <1>12, <2>2, <2>4, SMTT(30) DEF Closure
      <3> QED
        BY <1>1, <2>2, <3>1, <3>2, Zenon DEF Closure
    <2> QED
      BY <2>3, <2>4, Zenon
  <1>16. Caller(h, c)'
    BY <1>1, <1>3, <1>13, <1>14, <1>15, Zenon DEF Serial, Caller, Waiting
  <1> QED
    BY <1>2, <1>11, <1>16, Zenon DEF Serial

\* A node stops only at an entry that nobody can apply.
LEMMA SerialAbort ==
  ASSUME TypeOK, NEW c \in Client, NEW h \in [Nat -> KV], Serial(h, c),
         NEW n \in Node, Abort(n)
  PROVE  Serial(h, c)'
  <1>1. UNCHANGED <<log, commit, db, applied>> /\ applied[n] < commit
    BY Zenon DEF Abort
  <1>2. History(h)' /\ Replicas(h)'
    BY <1>1, Zenon DEF Serial, History, Replicas, Reached
  <1>3. \A j : Reached(h, j)' <=> Reached(h, j)
    BY <1>1, Zenon DEF Reached
  <1>4. Len(log) \in Nat /\ commit \in 0 .. Len(log) /\ applied[n] \in 0 .. commit
    BY DEF TypeOK
  <1>5. ~ AssertionHolds(h[applied[n]], log[applied[n] + 1])
    BY Zenon DEF Abort, Serial, Replicas
  <1>6. applied[n] + 1 \in 1 .. commit /\ (applied[n] + 1) - 1 = applied[n]
    BY <1>1, <1>4
  <1>7. ~ Reached(h, commit)
    BY <1>5, <1>6, Zenon DEF Reached
  <1>8. ~ Reached(h, Len(log))
    BY <1>4, <1>7, ReachedLess
  <1>9. Caller(h, c)'
    BY <1>1, <1>3, <1>7, <1>8, Zenon DEF Caller
  <1> QED
    BY <1>2, <1>9, Zenon DEF Serial

\* A leader is elected over an empty log, or too late.
LEMMA SerialElect ==
  ASSUME TypeOK, NEW c \in Client, NEW h \in [Nat -> KV], Serial(h, c),
         NEW n \in Node, Elect(n)
  PROVE  Serial(h, c)'
  <1>1. UNCHANGED <<commit, db, applied, rpc>> /\ leader = NoLeader /\ leader' = n
    BY Zenon DEF Elect, store
  <1>2. /\ Len(log) \in Nat /\ commit \in 0 .. Len(log)
        /\ \A m \in Node : applied[m] \in 0 .. commit
        /\ log \in Seq(Task)
    BY DEF TypeOK
  <1>3. PICK k \in commit .. Len(log) : log' = SubSeq(log, 1, k)
    BY Zenon DEF Elect
  <1>4. Len(log') = k /\ k \in 0 .. Len(log) /\ \A i \in 1 .. k : log'[i] = log[i]
    BY <1>2, <1>3
  <1>5. \A j \in 0 .. k : Reached(h, j)' <=> Reached(h, j)
    <2> SUFFICES ASSUME NEW j \in 0 .. k PROVE Reached(h, j)' <=> Reached(h, j)
      OBVIOUS
    <2>1. \A i \in 1 .. j : log'[i] = log[i]
      BY <1>4
    <2> QED
      BY <2>1, Zenon DEF Reached
  <1>6. History(h)'
    <2>1. \A i \in 1 .. k : /\ i \in 1 .. Len(log) /\ i - 1 \in 0 .. k
                            /\ h[i] = ApplyTask(h[i - 1], log'[i])
                            /\ Reached(h, i - 1) => Allowed(h[i - 1], log'[i])
      <3> SUFFICES ASSUME NEW i \in 1 .. k
                   PROVE  /\ i \in 1 .. Len(log) /\ i - 1 \in 0 .. k
                          /\ h[i] = ApplyTask(h[i - 1], log'[i])
                          /\ Reached(h, i - 1) => Allowed(h[i - 1], log'[i])
        BY Zenon
      <3>1. i \in 1 .. Len(log) /\ i - 1 \in 0 .. k /\ log'[i] = log[i]
        BY <1>2, <1>4
      <3> QED
        BY <3>1, Zenon DEF Serial, History
    <2>2. \A i \in 0 .. k : i \in 0 .. Len(log) /\ (Reached(h, i) => FilesListed(h[i]))
      BY <1>2, <1>4, SMTT(30) DEF Serial, History
    <2> QED
      BY <1>4, <1>5, <2>1, <2>2, Zenon DEF Serial, History
  <1>7. \A m \in Node : applied[m] \in 0 .. k
    BY <1>2
  <1>8. Replicas(h)'
    BY <1>1, <1>5, <1>7, Zenon DEF Serial, Replicas
  <1>9. commit \in 0 .. k /\ k \in 0 .. k
    BY <1>2
  <1>10. Caller(h, c)'
    <2>1. CASE ~ Reached(h, commit)
      <3>1. ~ Reached(h, k)
        BY <1>2, <1>4, <1>9, <2>1, ReachedLess
      <3>2. ~ Reached(h, Len(log))'
        BY <1>4, <1>5, <1>9, <3>1, Zenon
      <3> QED
        BY <1>1, <3>2, NodeAssumption, Zenon DEF Caller
    <2>2. CASE log = <<>> /\ rpc[c].pc # "proposed"
      <3>1. k = 0 /\ Len(log) = 0 /\ applied[n] = 0
        BY <1>2, <1>4, <2>2
      <3> QED
        BY <1>1, <1>4, <1>5, <1>9, <2>2, <3>1, NodeAssumption, Zenon DEF Serial, Caller, Waiting
    <2> QED
      BY <1>1, <2>1, <2>2, Zenon DEF Serial, Caller
  <1> QED
    BY <1>6, <1>8, <1>10, Zenon DEF Serial

\* A commit changes nothing that the caller could see.
LEMMA SerialCommit ==
  ASSUME NEW c \in Client, NEW h, Serial(h, c), Commit
  PROVE  Serial(h, c)'
  <1>1. UNCHANGED <<log, leader, db, applied, rpc>> /\ leader # NoLeader
    BY Zenon DEF Commit, store
  <1>2. History(h)' /\ Replicas(h)'
    BY <1>1, Zenon DEF Serial, History, Replicas, Reached
  <1>3. \A j : Reached(h, j)' <=> Reached(h, j)
    BY <1>1, Zenon DEF Reached
  <1>4. Caller(h, c)'
    BY <1>1, <1>3, Zenon DEF Serial, Caller, Closure, Waiting
  <1> QED
    BY <1>2, <1>4, Zenon DEF Serial

\* At first nothing is logged, applied or asked for.
LEMMA SerialInit ==
  ASSUME Init, NEW c \in Client
  PROVE  \E h \in [Nat -> KV] : Serial(h, c)
  <1>1. PICK h \in [Nat -> KV] : h[0] = [p \in Path |-> NotFound]
    <2>1. [p \in Path |-> NotFound] \in KV
      BY Zenon DEF KV
    <2>2. PICK none \in KV : none = [p \in Path |-> NotFound]
      BY <2>1, Zenon
    <2>3. PICK h : h = [i \in Nat |-> none]
      BY Zenon
    <2>4. h \in [Nat -> KV] /\ h[0] = none
      BY <2>3
    <2> QED
      BY <2>2, <2>4, Zenon
  <1>2. /\ log = <<>> /\ commit = 0 /\ leader = NoLeader
        /\ \A n \in Node : db[n] = h[0] /\ applied[n] = 0
        /\ rpc[c].pc = "idle"
    BY <1>1, Zenon DEF Init, Idle
  <1>3. FilesListed(h[0])
    <2>1. \A p \in Path : get_inode(h[0], p).sub = {}
      BY <1>1, Zenon DEF get_inode, Blank, DefaultDir
    <2> QED
      BY <2>1, Zenon DEF FilesListed
  <1>4. History(h)
    BY <1>1, <1>2, <1>3, SMTT(30) DEF History
  <1>5. Replicas(h)
    BY <1>2, NodeAssumption DEF Replicas, Reached
  <1>6. Caller(h, c)
    BY <1>2, Zenon DEF Caller, Waiting
  <1> QED
    BY <1>4, <1>5, <1>6, Zenon DEF Serial

\* Every step of a lone caller and a stable leader keeps the log serial.
LEMMA SerialNext ==
  ASSUME TypeOK, NEW c \in Client, Alone(c), [Next]_vars,
         NEW h \in [Nat -> KV], Serial(h, c)
  PROVE  \E g \in [Nat -> KV] : Serial(g, c)'
  <1>1. CASE Handler(c)
    BY <1>1, SerialHandler, Zenon
  <1>2. CASE MkdirCheckPath(c)
    BY <1>2, SerialMkdirCheckPath, Zenon
  <1>3. CASE Propose(c)
    BY <1>3, SerialPropose, Zenon
  <1>4. ASSUME NEW n \in Node, on_apply(n) PROVE Serial(h, c)'
    BY <1>4, SerialApply, Zenon
  <1>5. ASSUME NEW n \in Node, Abort(n) PROVE Serial(h, c)'
    BY <1>5, SerialAbort, Zenon
  <1>6. ASSUME NEW n \in Node, Elect(n) PROVE Serial(h, c)'
    BY <1>6, SerialElect, Zenon
  <1>7. CASE Commit
    BY <1>7, SerialCommit, Zenon
  <1>8. CASE UNCHANGED vars
    <2>1. UNCHANGED <<log, commit, leader, db, applied, rpc>>
      BY <1>8, Zenon DEF vars
    <2>2. Serial(h, c)'
      BY <2>1, Zenon DEF Serial, History, Replicas, Caller, Reached, Closure, Waiting
    <2> QED
      BY <2>2, Zenon
  <1>9. ~ StepDown
    BY Zenon DEF StepDown, Alone
  <1> QED
    BY <1>1, <1>2, <1>3, <1>4, <1>5, <1>6, <1>7, <1>8, <1>9, Zenon DEF Next, Alone

SerialInv == \A c \in Client : \E h \in [Nat -> KV] : Serial(h, c)

\* The log of a lone caller is a serial history of the map of names.
THEOREM SerialHistory ==
  ASSUME NEW c \in Client, Alone(c)
  PROVE  Spec => []SerialInv
  <1>1. Init => SerialInv
    BY SerialInit, Zenon DEF SerialInv
  <1>2. TypeOK /\ SerialInv /\ [Next]_vars => SerialInv'
    BY SerialNext, Zenon DEF SerialInv, Alone
  <1> QED
    BY <1>1, <1>2, TypeCorrect, PTL DEF Spec

\* What a lone caller finds listed as a file is a file.
THEOREM FilesExist ==
  ASSUME NEW c \in Client, Alone(c)
  PROVE  Spec => []ListedFilesExist
  <1>1. TypeOK /\ SerialInv => ListedFilesExist
    <2> SUFFICES ASSUME TypeOK, SerialInv, NEW n \in Node, NEW p \in Path,
                        db[n][p] # NotFound, NEW q \in Path,
                        <<q, FALSE>> \in db[n][p].sub
                 PROVE  KindOf(get_inode(db[n], q)) = "file"
      BY Zenon DEF ListedFilesExist
    <2>1. PICK h \in [Nat -> KV] : Serial(h, c)
      BY Zenon DEF SerialInv
    <2>2. db[n] = h[applied[n]] /\ Reached(h, applied[n])
      BY <2>1, Zenon DEF Serial, Replicas
    <2>3. applied[n] \in 0 .. Len(log)
      BY DEF TypeOK
    <2>4. FilesListed(db[n])
      BY <2>1, <2>2, <2>3, Zenon DEF Serial, History
    <2>5. get_inode(db[n], p).sub = db[n][p].sub
      BY Zenon DEF get_inode
    <2> QED
      BY <2>4, <2>5, Zenon DEF FilesListed, KindAt
  <1> QED
    BY <1>1, SerialHistory, TypeCorrect, PTL

\* A step of a replica that is ahead of all others is a step of Namespace.
LEMMA EntryRefines ==
  ASSUME NEW kv \in KV, NEW t \in Task, AssertionHolds(kv, t), Allowed(kv, t),
         db[Latest] = kv, (db[Latest])' = ApplyTask(kv, t)
  PROVE  NS!NSNext \/ UNCHANGED NS!nsVars
  <1> DEFINE kw == ApplyTask(kv, t)
             kind == [q \in Path |-> KindAt(kv, q)]
             data == [q \in Path |-> DataAt(kv, q)]
             kind2 == [q \in Path |-> KindAt(kw, q)]
             data2 == [q \in Path |-> DataAt(kw, q)]
  <1>1. PICK p \in Path : p = t.path
    BY Zenon DEF Task
  <1>2. Parent[p] \in Path
    BY PathAssumption, Zenon
  <1>3. \A q \in Path \ {p} : KindAt(kw, q) = KindAt(kv, q) /\ DataAt(kw, q) = DataAt(kv, q)
    BY <1>1, EntrySimulates, Zenon
  <1>4. /\ kind2 = [kind EXCEPT ![p] = KindAt(kw, p)]
        /\ data2 = [data EXCEPT ![p] = DataAt(kw, p)]
    BY <1>3, Zenon
  <1>5. \/ /\ Parent[p] = Root \/ KindAt(kv, Parent[p]) # "none"
           /\ p # Root /\ KindAt(kv, p) = "none"
           /\ KindAt(kw, p) = "directory" /\ DataAt(kw, p) = {}
        \/ /\ KindAt(kv, p) # "directory"
           /\ KindAt(kw, p) = "file" /\ DataAt(kw, p) = DataAt(kv, p)
        \/ /\ KindAt(kv, p) = "file"
           /\ KindAt(kw, p) = "file" /\ DataAt(kw, p) \in SUBSET Block
        \/ /\ p = Root \/ KindAt(kv, p) # "none"
           /\ KindAt(kw, p) = "none" /\ DataAt(kw, p) = {}
        \/ KindAt(kw, p) = KindAt(kv, p) /\ DataAt(kw, p) = DataAt(kv, p)
    BY <1>1, EntrySimulates, Zenon
  <1>6. /\ kind = [q \in Path |-> KindOf(get_inode(db[Latest], q))]
        /\ data = [q \in Path |-> get_inode(db[Latest], q).sub \cap Block]
    BY Zenon DEF KindAt, DataAt
  <1>7. /\ kind2 = [q \in Path |-> KindOf(get_inode(db[Latest], q))]'
        /\ data2 = [q \in Path |-> get_inode(db[Latest], q).sub \cap Block]'
    BY Zenon DEF KindAt, DataAt
  <1>8. /\ kind[p] = KindAt(kv, p) /\ data[p] = DataAt(kv, p)
        /\ kind[Parent[p]] = KindAt(kv, Parent[p])
    BY <1>2, Zenon
  <1> HIDE DEF kw, kind, data, kind2, data2
  <1>9. CASE KindAt(kw, p) = KindAt(kv, p) /\ DataAt(kw, p) = DataAt(kv, p)
    <2>1. kind2 = kind /\ data2 = data
      BY <1>4, <1>8, <1>9, Zenon DEF kind, data
    <2> QED
      BY <1>6, <1>7, <2>1, Zenon DEF NS!nsVars
  <1>10. CASE ~ (KindAt(kw, p) = KindAt(kv, p) /\ DataAt(kw, p) = DataAt(kv, p))
    <2>1. \/ NS!MakeDirectory(p)
          \/ NS!CreateFile(p)
          \/ NS!SetContents(p, DataAt(kw, p)) /\ DataAt(kw, p) \in SUBSET Block
          \/ NS!Remove(p)
      BY <1>4, <1>5, <1>6, <1>7, <1>8, <1>10, Zenon
      DEF NS!MakeDirectory, NS!CreateFile, NS!SetContents, NS!Remove, NS!Become, NS!Exists
    <2> QED
      BY <2>1, Zenon DEF NS!NSNext
  <1> QED
    BY <1>9, <1>10, Zenon

\* A step of the group is a step of Namespace for a lone caller.
LEMMA StepRefines ==
  ASSUME TypeOK, NEW c \in Client, Alone(c), [Next]_vars, SerialInv
  PROVE  NS!NSNext \/ UNCHANGED NS!nsVars
  <1>1. CASE UNCHANGED <<db, applied>>
    <2>1. UNCHANGED Latest
      BY <1>1, Zenon DEF Latest
    <2> QED
      BY <1>1, <2>1, Zenon DEF NS!nsVars
  <1>2. ASSUME NEW n \in Node, on_apply(n)
        PROVE  NS!NSNext \/ UNCHANGED NS!nsVars
    <2>1. PICK h \in [Nat -> KV] : Serial(h, c)
      BY Zenon DEF SerialInv
    <2>2. Serial(h, c)'
      BY <1>2, <2>1, SerialApply, Zenon
    <2>3. PICK a, b : a = applied[Latest] /\ b = applied'[Latest']
      OBVIOUS
    <2>4. Latest \in Node /\ \A m \in Node : applied[m] <= a
      BY <2>1, <2>3, Zenon DEF Serial, Replicas, Latest
    <2>5. Latest' \in Node /\ \A m \in Node : applied'[m] <= b
      BY <2>2, <2>3, Zenon DEF Serial, Replicas, Latest
    <2>6. db[Latest] = h[a] /\ Reached(h, a)
      BY <2>1, <2>3, <2>4, Zenon DEF Serial, Replicas
    <2>7. (db[Latest])' = h[b]
      BY <2>2, <2>3, <2>5, Zenon DEF Serial, Replicas
    <2>8. /\ Len(log) \in Nat /\ commit \in 0 .. Len(log) /\ log \in Seq(Task)
          /\ \A m \in Node : applied[m] \in 0 .. commit
      BY DEF TypeOK
    <2>9. /\ applied[n] < commit
          /\ applied'[n] = applied[n] + 1
          /\ \A m \in Node \ {n} : applied'[m] = applied[m]
          /\ AssertionHolds(db[n], log[applied[n] + 1])
      BY <1>2, Zenon DEF on_apply, TypeOK
    <2>10. CASE applied[n] < a
      <3>1. b = a
        BY <2>3, <2>4, <2>5, <2>8, <2>9, <2>10, SMTT(30)
      <3> QED
        BY <2>6, <2>7, <3>1, Zenon DEF NS!nsVars
    <2>11. CASE applied[n] = a
      <3>1. b = a + 1 /\ a + 1 \in 1 .. Len(log) /\ a \in Nat /\ (a + 1) - 1 = a
        BY <2>3, <2>4, <2>5, <2>8, <2>9, <2>11
      <3>2. h[b] = ApplyTask(h[a], log[b]) /\ Allowed(h[a], log[b])
        BY <2>1, <2>6, <3>1, Zenon DEF Serial, History
      <3>3. AssertionHolds(h[a], log[b])
        BY <2>1, <2>9, <2>11, <3>1, Zenon DEF Serial, Replicas
      <3>4. log[b] \in Task /\ h[a] \in KV
        BY <2>8, <3>1
      <3>5. PICK kv \in KV, t \in Task : kv = h[a] /\ t = log[b]
        BY <3>4, Zenon
      <3> QED
        BY <2>6, <2>7, <3>2, <3>3, <3>5, EntryRefines, Zenon
    <2> QED
      BY <2>3, <2>4, <2>8, <2>10, <2>11
  <1>3. UNCHANGED <<db, applied>> \/ \E n \in Node : on_apply(n)
    BY SMTT(30) DEF Next, vars, Handler, mkdir, rm, put, put_ok, update_lock, Stage, MkdirCheckPath,
           Propose, Abort, Elect, Commit, StepDown, store
  <1> QED
    BY <1>1, <1>2, <1>3, Zenon

\* For a lone caller and a stable leader the group implements Namespace.
THEOREM Refinement ==
  ASSUME NEW c \in Client, Alone(c)
  PROVE  Spec => ImplementsNamespace
  <1>1. Init => NS!NSInit
    <2> SUFFICES ASSUME Init PROVE NS!NSInit
      OBVIOUS
    <2>1. Latest \in Node
      BY NodeAssumption DEF Init, Latest
    <2>2. db[Latest] = [p \in Path |-> NotFound]
      BY <2>1, Zenon DEF Init
    <2>3. \A p \in Path : /\ KindOf(get_inode(db[Latest], p))
                               = IF p = Root THEN "directory" ELSE "none"
                          /\ get_inode(db[Latest], p).sub \cap Block = {}
      BY <2>2, Zenon DEF get_inode, KindOf, DefaultDir, Blank
    <2> QED
      BY <2>3, Zenon DEF NS!NSInit
  <1>2. TypeOK /\ SerialInv /\ [Next]_vars => [NS!NSNext]_(NS!nsVars)
    BY StepRefines, Zenon
  <1> QED
    BY <1>1, <1>2, SerialHistory, TypeCorrect, PTL DEF Spec, ImplementsNamespace, NS!NSSpec
=============================================================================
