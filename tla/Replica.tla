------------------------------ MODULE Replica -------------------------------
(***************************************************************************)
(* What a namenode keeps across restarts: class RocksDB with its backups   *)
(* (rocksdb.cpp) as the state machine of a raft group (RaftNN,             *)
(* raft_nn.cpp).                                                           *)
(*                                                                         *)
(* RocksDB writes to disk, but the index of the last applied entry is kept *)
(* nowhere: after a restart braft starts again from its latest snapshot,   *)
(* or from the first entry, on a database that may hold the effects of     *)
(* later entries already.  A snapshot is a backup in a directory of the    *)
(* node itself; nothing of it is given to braft, so the snapshot that a    *)
(* leader sends to another node is empty, and the receiver restores the    *)
(* latest backup of its own.                                               *)
(*                                                                         *)
(* braft is external: one committed log, of which  have[n]  entries are in *)
(* the raft log of n.  An entry is appended by a node that has all entries *)
(* before it (the leader), built from what the database of that node says  *)
(* at the time; a node that lags behind also stands for a handler that has *)
(* read long ago and appends now.                                          *)
(***************************************************************************)
EXTENDS Inodes, Naturals, Sequences

CONSTANTS
    Node,     \* the namenodes
    None,     \* no backup
    MaxLog    \* bound on the log

ASSUME NoneAssumption == None \notin KV

VARIABLES
    log,       \* the committed entries
    ideal,     \* history: ideal[i] is what entries 1 .. i-1 make of an
               \* empty database, each applied once
    have,      \* have[n]: how many entries the raft log of n holds
    applied,   \* applied[n]: how many of them on_apply has run; volatile
    db,        \* db[n]: the database of n, in origin_dir
    top,       \* history: db[n] has seen the entries 1 .. top[n]
    backup,    \* backup[n]: the latest backup in backup_dir, or None
    backupTop, \* history: top[n] when that backup was made
    saving,    \* saving[n]: index of a snapshot that braft has not recorded
    snap,      \* snap[n]: index of the snapshot of braft, 0 for none
    installed, \* history: nodes that were sent a snapshot
    aborted    \* nodes stopped by an assertion

raft == <<log, ideal, have>>
disk == <<db, top>>
saved == <<backup, backupTop, saving, snap>>
vars == <<raft, applied, disk, saved, installed, aborted>>

TypeOK ==
    /\ log \in Seq(Task)
    /\ ideal \in Seq(KV) /\ Len(ideal) = Len(log) + 1
    /\ have \in [Node -> 0 .. Len(log)]
    /\ applied \in [Node -> 0 .. Len(log)]
    /\ db \in [Node -> KV]
    /\ top \in [Node -> 0 .. Len(log)]
    /\ backup \in [Node -> KV \cup {None}]
    /\ backupTop \in [Node -> 0 .. Len(log)]
    /\ saving \in [Node -> 0 .. Len(log)]
    /\ snap \in [Node -> 0 .. Len(log)]
    /\ installed \in SUBSET Node
    /\ aborted \in SUBSET Node

Empty == [p \in Path |-> NotFound]

Zero == [n \in Node |-> 0]

Init ==
    /\ log = <<>> /\ ideal = <<Empty>>
    /\ have = Zero /\ applied = Zero
    /\ db = [n \in Node |-> Empty] /\ top = Zero
    /\ backup = [n \in Node |-> None] /\ backupTop = Zero
    /\ saving = Zero /\ snap = Zero
    /\ installed = {} /\ aborted = {}

Max(i, j) == IF i > j THEN i ELSE j

-----------------------------------------------------------------------------
(* The entries that the handlers build from a database (namenode.cpp).     *)
(* Files are put into directories that are stored.                         *)

MkdirTask(kv, p) ==
    IF path_exists(kv, Parent[p]) /\ ~ path_exists(kv, p)
    THEN {[type |-> "OP_MKDIR", path |-> p, inode |-> DefaultDir]} ELSE {}

RmTask(kv, p) ==
    IF prepare_rm(kv, p)
    THEN {[type |-> "OP_RM", path |-> p, inode |-> Blank]} ELSE {}

PutTask(kv, p) ==
    LET ino == get_inode(kv, p) IN
    IF ParentAssertion(kv, p) /\ ~ (ino.valid /\ ino.is_directory)
    THEN {[type |-> "OP_PUT", path |-> p, inode |-> prepare_put(ino)]} ELSE {}

PutOkTask(kv, p) ==
    LET ino == get_inode(kv, p) IN
    IF prepare_put_ok(ino)
    THEN {[type |-> "OP_PUTOK", path |-> p, inode |-> [ino EXCEPT !.sub = sub]] :
             sub \in SUBSET Block}
    ELSE {}

UpdateLockTask(kv, p) ==
    LET ino == get_inode(kv, p) IN
    IF ino.valid
    THEN {[type |-> "OP_PUT", path |-> p, inode |-> [ino EXCEPT !.ddl_lock = TRUE]]}
    ELSE {}

Tasks(kv) ==
    UNION {MkdirTask(kv, p) \cup RmTask(kv, p) \cup PutTask(kv, p)
             \cup PutOkTask(kv, p) \cup UpdateLockTask(kv, p) : p \in Path}

\* An entry is appended by n and committed.
Submit(n) ==
    /\ n \notin aborted
    /\ have[n] = Len(log)
    /\ Len(log) < MaxLog
    /\ \E t \in Tasks(db[n]) :
         /\ log' = Append(log, t)
         /\ ideal' = Append(ideal, ApplyTask(ideal[Len(ideal)], t))
    /\ have' = [have EXCEPT ![n] = Len(log) + 1]
    /\ UNCHANGED <<applied, disk, saved, installed, aborted>>

\* The raft log of n receives the next entry.
Receive(n) ==
    /\ n \notin aborted
    /\ have[n] < Len(log)
    /\ have' = [have EXCEPT ![n] = @ + 1]
    /\ UNCHANGED <<log, ideal, applied, disk, saved, installed, aborted>>

-----------------------------------------------------------------------------
(* RaftNN.                                                                 *)

\* on_apply of one entry, or the end of the process at the assertion in
\* get_parent_inode.
on_apply(n) ==
    LET i == applied[n] + 1 IN
    /\ n \notin aborted
    /\ applied[n] < have[n]
    /\ IF AssertionHolds(db[n], log[i])
         THEN /\ db' = [db EXCEPT ![n] = ApplyTask(db[n], log[i])]
              /\ top' = [top EXCEPT ![n] = Max(top[n], i)]
              /\ applied' = [applied EXCEPT ![n] = i]
              /\ UNCHANGED aborted
         ELSE /\ aborted' = aborted \cup {n}
              /\ UNCHANGED <<disk, applied>>
    /\ UNCHANGED <<raft, saved, installed>>

\* Mutant: no backup is made.
on_snapshot_save_no_backup(n) ==
    /\ n \notin aborted
    /\ saving[n] = 0
    /\ applied[n] > snap[n]
    /\ saving' = [saving EXCEPT ![n] = applied[n]]
    /\ UNCHANGED <<raft, applied, disk, backup, backupTop, snap, installed, aborted>>

\* Mutant: the snapshot is numbered after the entry that comes next.
on_snapshot_save_next(n) ==
    /\ n \notin aborted
    /\ saving[n] = 0
    /\ applied[n] > snap[n]
    /\ backup' = [backup EXCEPT ![n] = db[n]]
    /\ backupTop' = [backupTop EXCEPT ![n] = top[n]]
    /\ saving' = [saving EXCEPT ![n] = applied[n] + 1]
    /\ UNCHANGED <<raft, applied, disk, snap, installed, aborted>>

\* on_snapshot_save: RocksDB::snapshot makes a backup.
on_snapshot_save(n) ==
    /\ n \notin aborted
    /\ saving[n] = 0
    /\ applied[n] > snap[n]
    /\ backup' = [backup EXCEPT ![n] = db[n]]
    /\ backupTop' = [backupTop EXCEPT ![n] = top[n]]
    /\ saving' = [saving EXCEPT ![n] = applied[n]]
    /\ UNCHANGED <<raft, applied, disk, snap, installed, aborted>>

\* The closure of on_snapshot_save has run and braft records the snapshot,
\* which takes the place of the entries up to it.
SnapshotSaved(n) ==
    /\ n \notin aborted
    /\ saving[n] > 0
    /\ snap' = [snap EXCEPT ![n] = saving[n]]
    /\ saving' = [saving EXCEPT ![n] = 0]
    /\ UNCHANGED <<raft, applied, disk, backup, backupTop, installed, aborted>>

\* RocksDB::load_snapshot: the latest backup replaces the database.  If
\* there is none, the assertion fails.
load_snapshot(n) ==
    IF backup[n] = None
    THEN aborted' = aborted \cup {n} /\ UNCHANGED disk
    ELSE /\ db' = [db EXCEPT ![n] = backup[n]]
         /\ top' = [top EXCEPT ![n] = backupTop[n]]
         /\ UNCHANGED aborted

\* Mutant: the entries before the database was closed are taken as applied.
Restart_remembers(n) ==
    /\ n \notin aborted
    /\ saving' = [saving EXCEPT ![n] = 0]
    /\ applied' = [applied EXCEPT ![n] = have[n]]
    /\ UNCHANGED <<raft, disk, backup, backupTop, snap, installed, aborted>>

\* The process of n stops, at any point, and starts again: the constructor
\* opens the database as it is; with a snapshot braft calls
\* on_snapshot_load, and goes on with the entries after it.
Restart(n) ==
    /\ n \notin aborted
    /\ saving' = [saving EXCEPT ![n] = 0]
    /\ applied' = [applied EXCEPT ![n] = snap[n]]
    /\ IF snap[n] > 0 THEN load_snapshot(n) ELSE UNCHANGED <<disk, aborted>>
    /\ UNCHANGED <<raft, backup, backupTop, snap, installed>>

\* m sends its snapshot to n, whose next entry m does not keep any more.
InstallSnapshot(m, n) ==
    /\ {m, n} \cap aborted = {}
    /\ have[n] < snap[m]
    /\ saving[n] = 0
    /\ have' = [have EXCEPT ![n] = snap[m]]
    /\ applied' = [applied EXCEPT ![n] = snap[m]]
    /\ snap' = [snap EXCEPT ![n] = snap[m]]
    /\ load_snapshot(n)
    /\ installed' = installed \cup {n}
    /\ UNCHANGED <<log, ideal, backup, backupTop, saving>>

Next ==
    \E n \in Node :
        \/ Submit(n) \/ Receive(n) \/ on_apply(n)
        \/ on_snapshot_save(n) \/ SnapshotSaved(n) \/ Restart(n)
        \/ \E m \in Node : InstallSnapshot(m, n)

Spec == Init /\ [][Next]_vars

-----------------------------------------------------------------------------
(* Properties.                                                             *)

\* A node that was never sent a snapshot holds exactly what its entries
\* say, once it has applied again all that its database had seen before it
\* stopped: whatever mixture of old and new state the replay starts from
\* and goes through, wherever snapshots and crashes fell, nothing of it is
\* left.
ReplayConverges ==
    \A n \in Node \ (installed \cup aborted) :
        applied[n] >= top[n] => db[n] = ideal[applied[n] + 1]

\* A node that was never sent a snapshot fails no assertion: the replay
\* finds the parent of every entry stored, and there is a backup whenever
\* braft asks to load one.
ReplaySafe == aborted \subseteq installed
=============================================================================
