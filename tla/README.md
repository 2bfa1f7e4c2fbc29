# A TLA+ model of spkdfs

spkdfs is a small distributed file system. This directory holds a model of it
in TLA+, the configurations with which TLC checks the model, and proofs that
TLAPS checks. Line numbers refer to the sources as they are in this repository.

## The system

| part | code | what it does |
|---|---|---|
| namenode service | `src/node/namenode.cpp` | RPC handlers `ls mkdir rm put put_ok update_lock get_master` |
| namenode state machine | `src/node/raft_nn.cpp` | applies the braft log to the store of each replica |
| store | `src/node/rocksdb.cpp`, `src/common/inode.cpp` | inodes in RocksDB: checks (`prepare_*`) and writes (`internal_*`) |
| datanode service | `src/node/datanode.cpp` | `put`/`get` of fragments named by their hash, lists of nodes |
| datanode group | `src/node/raft_dn.cpp`, `src/node/server.cpp` | a second raft group, of all nodes, that chooses the namenodes and watches them |
| client SDK | `src/client/sdk.cpp` | encoding and placement of blocks, block cache, sessions, remote locks |
| local locks | `src/common/pathlocks.cpp` | a `shared_mutex` per path |
| timer | `src/common/utils.cpp` | `IntervalTimer`: lock refresh, supervision of namenodes |
| front ends | `src/client/fuse.cpp`, `src/client/main.cpp` | FUSE file system and command line |

A write of metadata goes: a handler on the leader checks the request against
its own RocksDB and builds the inode to store; it gives the inode to braft; when
the entry is committed, `on_apply` writes it on every replica, without checking
anything again. Check and write are thus far apart, and other requests, leader
changes and dropped entries come in between. A file's contents go from the
client straight to the datanodes, and only the list of where its fragments are
goes to the namenode (`put_ok`).

## Modules

| module | models |
|---|---|
| `Inodes` | inodes and the store: pure operators on the map a RocksDB holds |
| `InodesProofs` | lemmas about these operators: types, and which cells of the map an entry writes |
| `NameNode` | handlers, log, replicas (composes `Inodes` with a model of braft) |
| `Namespace` | abstract: what a lone caller is promised |
| `SerialNameNode` | the refinement mapping from `NameNode` to `Namespace` |
| `MCNameNode` | `NameNode` on the tree `/`, `/a`, `/a/b` |
| `NameNodeProofs` | theorems about `NameNode` and `SerialNameNode` |
| `Replica` | what a namenode keeps across restarts: RocksDB, backups, snapshots, replay of the log (composes `Inodes` with braft) |
| `MCReplica` | `Replica` on the same tree |
| `ReplicaProofs` | theorems about `Replica` |
| `Sessions` | operations of several threads of several clients on one file: path locks, the remote lock with its deadline and refresh timer, exceptions and retries |
| `MCSessions` | `Sessions` with two FUSE threads and a command line |
| `SessionsProofs` | theorems about `Sessions` |
| `FileData` | the bytes of one file: `write_data`, `read_data`, `fsync`, `_truncate`, `put`, `get`, against a byte sequence |
| `FileDataProofs` | theorems about `FileData` |
| `BlockPlacement` | `encode_one`, `decode_one`, the datanodes' `put` and `get` |
| `BlockPlacementProofs` | theorems about `BlockPlacement` |
| `BlockCache` | `read_data` of one block by several threads, `PathLocks` |
| `BlockCacheProofs` | theorems about `BlockCache` |
| `Membership` | which nodes run a namenode: `RaftDN`, `Server`, the supervision timers |
| `MCMembership` | the groups that `Membership` is checked on |
| `MembershipProofs` | theorems about `Membership` |

Definitions ending in a suffix after the name of another one, under a comment
that begins with "Mutant:", are faulty versions of that one. Each property is
known to fail when its mutant takes the place of the original.

### NameNode

State: the raft `log`, of which `commit` entries are durable; `leader`; for each
replica the store `db[n]`, the number `applied[n]` of entries its `on_apply` has
run, and whether it has `aborted`; for each client the stage of its RPC.
Actions: `mkdir` and `MkdirCheckPath` (the two reads of `try_to_add`), `rm`,
`put`, `put_ok`, `update_lock` (of one path), `Propose` (`raft_node->apply`),
`on_apply`, `Abort` (the assertion of `get_parent_inode`), and braft's `Commit`,
`StepDown` and `Elect`. A request refused by a check answers and changes
nothing: it is a stuttering step.

braft is external. It is modelled by what the code relies on: one log; committed
entries stay; a new leader keeps any number of uncommitted ones; closures of
uncommitted entries run with an error when the leader steps down (the entry may
still be committed later); `apply` on a node that is not leader runs the closure
with an error. `RaftNN::leader` says "I am" when braft knows no leader, so
`check_leader` passes on any node then.

Abstractions: a path is a model value, and stands for its own name in its
parent, with a flag for the trailing `/` of a directory (`Inode::filename`);
`sub` is a set; `filesize` and `storage_type` travel with `sub`; a lock is free
(0) or a deadline, which may or may not be over when it is looked at. Replicas
do not restart in this module and there are no snapshots: see `Replica`.

`PutChecked` says whether callers put files only below directories that some
replica stores (FUSE looks every directory up first) or anywhere (the command
line).

### Replica

RocksDB is on disk, but nobody stores how many entries it has seen: after a
restart braft replays from its snapshot, or from the start, onto a database that
may be ahead. State: the committed `log` and, as history, what it ideally makes
(`ideal`); for each node the entries it `have`s, the ones `applied` since it
started, its `db`, its latest `backup` and braft's `snap`. Actions: `Submit` (a
node that has the whole log appends an entry that a handler could have built
from its database), `Receive`, `on_apply`, `on_snapshot_save` and
`SnapshotSaved` (a crash may fall between them), `Restart` at any point, and
`InstallSnapshot`: nothing is put into a snapshot, so the receiver restores a
backup of its own (`raft_nn.cpp:128`), or fails an assertion if it has none.
Puts are below stored directories (see `NameNodePutAnywhere`). A write that is
in RocksDB's log but not synced when the machine stops is not lost here; `sub`
is a set, and the order in which a directory is listed may change in a replay.

### Sessions

One file. For each thread, which operation it is in and how far (`thr`); for
each process, whether it lives, whether the path is in `remoteLocks`, its
`PathLocks` entry, its `local_inode_cache` entry, whether blocks wait in the write
directory, and the state of its refresh timer; the inode of the leader, and what
a slave that lags behind says (`ls`). An RPC that writes is two steps, `Prepare`
(the handler reads) and `Answered` (the entry is applied), and may be lost
before or after the second (`Lost`). `MessageException` and `RuntimeError` say
what FUSE makes of an error: swallow it, or make a new SDK (`reinit`) and try
again. Time goes in intervals of the timer (15 s): `LockTicks` is
`LOCK_REFRESH_INTERVAL` (60 s) in these, and an RPC takes less than one. Content
is a size, 0 or 1. `trouble[c]` records what has gone wrong in a process; the
properties name the entries under which they do not hold, because the code then
really behaves otherwise:

- `early_unlock`: a truncation that cuts something off unlocks in `_truncate`
  and again in `truncate` (`sdk.cpp:485`); with O_TRUNC the session goes on
  without its lock.
- `reinit`: a new SDK starts with no locks while files are open.
- `leak`: an exception after the lock was taken leaves it taken.
- `dropped`: `put` takes the path out of `remoteLocks` although another thread
  has it open (`sdk.cpp:347`).
- `swallowed`: `FUSE::open` ignores a `MessageException`.
- `empty_refresh`: the timer sent an empty list, which the namenode refuses.
- `undefined`: the process unlocks a free mutex or uses a deleted SDK. Nothing
  is said of it from then on.

Only the `put` RPC looks at the remote lock; `update_lock` sets it without
looking, so two clients that open a file for writing both succeed. README.md:64
("remote lock: lock write, not lock read") is too vague to count as a promise.
Not modelled here: an entry that is applied long after its caller has given up,
a constructor of `SDK` that throws, and lost lookups of `getattr`.

### FileData

One file as bytes, whole operations at a time. `inode` is what the namenode has;
`cached` the inode of the session; `tmp` the block files under `/tmp`; `links` the
write directory; `intended` what a file system would hold. Bytes are numbers made
up one after the other, so any mix-up shows. The alignment arithmetic, the
reading of border blocks, the appending block file, the list that `fsync` builds
and the files that `update_inode` deletes are translated as they are. `origin`
becomes `mixed` and `current` FALSE where the code is known not to behave like a
byte sequence, which the properties exclude:

- an overwrite, or a write that leaves a hole: `ios::app` appends wherever
  `seekp` has gone (`sdk.cpp:610`);
- a write after an `fsync` of the same session: the second `fsync` starts from
  the inode of the open and drops the blocks of the first (`sdk.cpp:646`);
- block files that `close`, `rm` or O_TRUNC leave under `/tmp` while the file is
  replaced (`sdk.cpp:221`).

### BlockPlacement

One block: the client takes the list of online datanodes, hands out the
fragments in turn, repeating a failing put on the next datanode, then reads the
block back from the recorded pairs. Datanodes stop and restart between any two
steps; a put may time out although it was stored. The storage type, and which
datanodes never fail, are chosen in `Init` and stay. Fragments are numbers, and a
fragment's hash is its number; the erasure code is "any K give the block".

### BlockCache

One cached block, any number of threads. The cache file is absent, empty,
partly written or whole. The mode flag of a `PathLocks` entry is left out:
`unlock` and `unlock_shared` are the same call in libstdc++.

### Membership

The datanode group's log is a sequence of lists of namenodes. `on_leader_start`
runs in the state machine's thread (after an election) or in a timer thread
(after a loss); it is split at its two scans, `KeepNamenodes` and `AddNodes`, so
lists, timers and processes change in between. `on_apply` takes the last list of
a batch and calls `Server::on_namenodes_change`; its end is a step of its own
(`DeleteTimer`, `NewTimer`), because deleting a timer waits for its thread. A
leader that already has a timer forgets it: thread `leaked` (one is tracked).
`peers[n]` is the vector `RaftNN::peers`, which `change_peers` and `reset_peers`
assign at once; it is empty when the node runs no namenode, and a scan of the
namenode port of `n` succeeds when it is not. The four scans after which a timer gives a
node up are one step, and all scans tell the truth. A list equal to the last one
adds nothing to the log; the nodes apply the last one again. `Prompt` says that
a list is applied everywhere before a timer of `NN_INTERVAL` (10 s) runs. The variable
`setup` holds the size of the group and the bounds; it is chosen in `Init` and
stays, so that one run covers several groups.

## Runs

| run | checks | bounds | result |
|---|---|---|---|
| `NameNodeRaces` | `TypeOK`, `SubProvenance`, `NoAssertionFailure`, `OnlyRmInvalidates`, `EveryCallAnswered` | 2 clients, 2 replicas, 3 paths, 1 block, log of 3, leader changes | holds |
| `NameNodeSerial` | `ImplementsNamespace`, `ListedFilesExist` | 1 client, 2 replicas, log of 5, one leader | holds |
| `NameNodePutAnywhere` | `NoAssertionFailure` | 1 client, 1 replica, log of 2 | violated |
| `Replica` | `TypeOK`, `ReplayConverges`, `ReplaySafe` | 2 replicas, 3 paths, 1 block, log of 3; crashes and snapshots without bound | holds |
| `Sessions` | `TypeOK`, `LocalLocks`, `DeadlineHolds`, `EndsForCause` | 2 processes, 3 threads, 3 operations and lost RPCs together (`Budget`), deadline of 4 intervals | holds |
| `FileData` | `TypeOK`, `StoredIsWritten`, `ReadIsStored` | blocks of 2 bytes, files of 5, 3 changes, 2 readers | holds |
| `Placement` | `TypeOK`, `ShortMeansAllFailed`, `EmptyMeansTooManyLost`, `ReliableUploadEnds` | RS<2,2> or RE<3>, 3 datanodes, none or one of them reliable | holds |
| `PlacementAllDown` | `UploadEnds` | RS<1,2> or RE<3>, 2 unreliable datanodes | violated |
| `Cache` | `TypeOK`, `LockedReadsAreWhole`, `NeverPulledTwice`, `LockReleased` | 3 threads, opening may fail | holds |
| `CachePartial` | `ReadsAreWhole` | 3 threads | violated |
| `MembershipSafe` | `TypeOK`, `LeaderWatches`, `NoReset` | 3 nodes, 2 namenodes, 1 step-down, 4 lists, slow nodes; and 4 nodes, 3 namenodes, 1 stop, 3 lists, `Prompt` | holds |
| `MembershipServe` | `NamenodesServe` | 3 nodes, 2 namenodes, 1 stop, 1 snapshot, 6 lists, `Prompt` | holds |

What they show, in words:

- `SubProvenance`: every name or block a replica lists was written by an entry
  it has applied, and never comes from a dropped one. `NoAssertionFailure`: the
  assertion of `get_parent_inode` does not fail if callers look directories up.
  `OnlyRmInvalidates`: no stale write-back brings down a path. `EveryCallAnswered`:
  every RPC is answered, whatever leaders come and go.
- `ImplementsNamespace`: a lone caller sees the map of names that `Namespace`
  describes. `ListedFilesExist`: a file that is listed is there.
- `ReplayConverges`: a replay starts from a mixture of old and new state, goes
  through states that never were, and ends in exactly what the entries say.
  `ReplaySafe`: it fails no assertion on the way. Both except nodes that were
  sent a snapshot, which do diverge or abort.
- `LocalLocks`: the path lock is what the sessions of the process say.
  `DeadlineHolds`: the remote lock of a file that is open for writing does not run
  out. `EndsForCause`: a process ends only after a removal of the file, an empty
  refresh, or more than one lost RPC.
- `StoredIsWritten`, `ReadIsStored`: files written from start to end in pieces of
  any size are stored and read back byte for byte.
- `ShortMeansAllFailed`: an upload is cut short only after a round in which every
  known datanode failed. `EmptyMeansTooManyLost`: a read is empty only if more
  fragments are out of reach than can be spared. `ReliableUploadEnds`: with one
  datanode that works every upload ends.
- `LockedReadsAreWhole`, `NeverPulledTwice`, `LockReleased`: under its lock a block
  is read whole, is pulled once, and the lock is given back.
- `LeaderWatches`: a leader at rest watches the namenodes. `NoReset`: with one
  process that stops, no namenode resets its peers. `NamenodesServe`: all namenodes
  of the latest list come to answer.

Why the bounds are enough to be interesting. Three paths in a chain give a
parent that is not `/`, so that the assertion in `get_parent_inode` can fail. A
log of three holds a race (mkdir or put, rm, a stale write-back), entries can be
prepared, dropped by an election and prepared again. The serial run reaches
mkdir, put, put_ok, rm and one more call on the same path. In `Sessions` three
operations are a create, an open by the other thread and a put or an rm that
cuts in; with two operations an RPC that is lost brings one of them to a second
try, and with a single one the second try fails as well. Five bytes
in blocks of two give files that end within a block and on its border, and three
blocks. Four fragments on three datanodes make the upload go round more than
once. With one process that stops, at most one node beyond the first
`expected_nn` can ever be chosen, so four nodes are enough for `NoReset`. In
`MembershipServe` the log never fills up: lists stop changing. In `NameNode`
`MaxLog` counts outstanding requests too. What is proved (below) holds without
these bounds. For `NameNodeSerial`, `Cache` and the membership runs a behaviour
may really end: at the log bound, with the lock lost, with all namenodes serving.

Fairness. `NameNodeRaces` assumes that handler threads go on, that a leader
commits what it has appended and that committed entries are applied; it assumes
no calls, no step-down and no successful election. `Placement` assumes only
that the client's loop goes on, and that one datanode is up and answers in time.
`Cache` assumes that threads go on. `MembershipServe` assumes that threads go on,
lists are applied and a leader is elected when there is none; stopped processes
need not come back, and snapshots need not be taken (only finitely many are: the
code leaves braft's interval, by default an hour, and a list takes seconds).

What the violated runs show (each property quotes the line it comes from):

- `NameNodePutAnywhere`: `put` and `put_ok` below a directory that was never
  made commit an entry on which every replica aborts (`rocksdb.cpp:223`).
- `PlacementAllDown`: once enough fragments are stored, `encode_one` repeats
  failing puts for ever (`sdk.cpp:412`, against the comment in line 395).
- `CachePartial`: a read does not wait for a pull under way once the cache file
  has some bytes (`sdk.cpp:544`, README.md:72).

Met while modelling, and in the models, without a run of their own: `rm` of a
directory leaves `name/` listed in the parent, because it erases `name`
(`rocksdb.cpp:205`, README.md:46-48). A failure to open the cache file
(`sdk.cpp:554`) leaves the lock of the block taken for ever; `LockReleased` names
it as its one exception. The exceptions of `Replica`, `Sessions` and `FileData` are
listed in their sections above.

## Proofs

Every theorem holds for all values of the constants under the named assumptions
of its module, which TLC evaluates in the runs: any trees of paths, sets of
nodes, clients, threads and blocks, and no bound on logs, calls or losses beyond
the one the module's constants state.

| module | theorem | states |
|---|---|---|
| `NameNodeProofs` | `TypeCorrect` | `Spec => []TypeOK` |
| | `Provenance` | `Spec => []SubProvenance` |
| | `AssertionSafe` | `PutChecked` implies `Spec => []NoAssertionFailure` |
| | `RmAlone` | `Spec => OnlyRmInvalidates` |
| | `FilesExist` | one client and a stable leader imply `Spec => []ListedFilesExist` |
| | `Refinement` | one client and a stable leader imply `Spec => ImplementsNamespace` |
| `ReplicaProofs` | `TypeCorrect` | `Spec => []TypeOK` |
| | `Converges` | `Spec => []ReplayConverges` |
| | `Safe` | `Spec => []ReplaySafe` |
| `SessionsProofs` | `TypeCorrect` | `Spec => []TypeOK` |
| | `LocalLocksHold` | `Spec => []LocalLocks` |
| | `DeadlineStands` | `Spec => []DeadlineHolds` |
| | `ProcessEndsForCause` | `Spec => []EndsForCause` |
| `FileDataProofs` | `TypeCorrect` | `Spec => []TypeOK` |
| | `Stored` | `Spec => []StoredIsWritten` |
| | `ReadBack` | `Spec => []ReadIsStored` |
| `BlockCacheProofs` | `TypeCorrect` | `Spec => []TypeOK` |
| | `WholeUnderLock` | `Spec => []LockedReadsAreWhole` |
| | `PulledOnce` | `Spec => NeverPulledTwice` |
| `BlockPlacementProofs` | `TypeCorrect` | `Spec => []TypeOK` |
| | `ShortUpload` | `Spec => []ShortMeansAllFailed` |
| | `EmptyRead` | `Spec => []EmptyMeansTooManyLost` |
| `MembershipProofs` | `TypeCorrect` | `Spec => []TypeOK` |
| | `Watched` | `Spec => []LeaderWatches` |
| | `Tolerated` | `Tolerant` setups imply `Spec => []NoReset` |

Each of the first six has a theorem `Invariance`, `Spec => []IInv`, on which the
others rest. The assumptions on the constants are those the code makes itself:
a tree of paths with its root, at least one namenode, finitely many datanodes
and threads, and positive sizes of blocks, of the storage types and of
`expected_nn`. Besides, `None` is not one of the values it stands in for.

`NameNode`. `SubProvenance` is not inductive: a handler copies an inode from
one replica into a task, and the task is applied elsewhere, much later. `IInv`
therefore says the same of every place an inode can be: whatever stands in a
store is explained by entries the replica has applied (`StoreInv`); whatever
stands in a log entry by entries before it (`LogInv`); whatever a handler is
about to propose by *committed* entries, which no election drops (`RpcInv`). For
the assertion, `AssertInv` says that the parent of every logged or waiting task
other than a put is `/` or is written by a committed entry before it; as keys
are never deleted, it is stored when the task is applied.

`SerialNameNode`. With one client and a leader that is not deposed, the check of
a handler must still hold when its entry is applied, on whichever replica comes
first. The invariant `Serial` speaks of a function `h`, the store after each prefix
of the log: every replica has `h[applied]`; every entry that can be applied at all
(`Reached`: no assertion fails before it) was checked against the `h` it is applied
to (`Allowed`); the leader has applied the whole log but for the entry that the
client waits for, so a handler reads the end of `h` (`Caller`). The leader is lost
only to an entry on which every replica stops, after which nothing more is
applied. `EntrySimulates` shows that an allowed entry is an operation of
`Namespace`, or none; a step of a replica that is not ahead of all others is a
stuttering step, because the store of the one that is ahead does not change.
`FilesExist` needs in addition that a file name is listed only in its parent
(`FilesListed`): otherwise `rm` would leave it somewhere. The log may have any
length and may contain entries on which replicas stop: nothing is assumed of
`PutChecked`.

`Replica`. A database in the middle of a replay is compared with the ideal one
cell by cell: whether a key is stored, its flags, its lock, and each element of
its `sub`. `Covered` says that a cell differs only if one of the entries still to
be replayed writes it. `InodesProofs` gives what the argument needs of an entry:
which cells it writes (`ApplyCells`), and that what it writes does not depend on
what was there. When the replay has caught up with what the database had seen,
no entry is left to be blamed, and the two are equal (`SameCells`).

`Sessions`. The three properties need each other: a session that ends takes the
path out of `remoteLocks`, which is harmless only because a writer is the only
session (`LockInv`), and only while the path is there does the timer renew the
deadline (`DeadlineInv`: the deadline is full, or one interval short and the timer
has yet to run). Every step of a thread is summed up as what it does to its own
client (`Effect`) and to the file (`WorldEffect`), and the invariant survives any
step with such effects. The deadline must be at least two intervals
(`SessionsAssumption`). `TypeCorrect` bounds the count of readers in a path lock by
the number of threads even in processes whose locks have gone wrong, where
`LockInv` promises nothing. It needs `ReaderInv`: a process that goes on counts no
more readers than it has, because a reader leaves without giving its lock back
only with the whole SDK or with the process, and locks given back twice only
make the count too small.

`FileData`. What is stored is compared with `intended` byte by byte: `Stores` says
that byte `p` is byte `(p - 1) % BlockSize` of block `(p - 1) \div BlockSize`, and all
blocks but the last are full (`Cut`). Of such a file `get` and `read_data` return
what they should (`GetStored`, `ReadStored`); both rest on `ConcatBytes`, where a byte
of the blocks put together is found, by way of the first block for which it
would fail. `put_file` stores its bytes (`PutStores`), whatever fills up the last
block; so does what `fsync` builds for a file written from start to end
(`WrittenStores`). Neither property is inductive: they say nothing while blocks
wait in the write directory. `WrittenInv` says that the block files hold exactly
the chunks of `intended`, that the cached inode is that of a prefix, namely of what
the session had opened, and which blocks are linked since (`Pending`); a write at
the end of the file, be it in the middle of a block, at its border, or across
several, extends the chunks as it should (`ChunkAppend`, `AppendInv`), and the list
that `fsync` puts together from the prefix and the linked blocks is that of the
whole file (`SyncedWritten`). `PutInv` says for a file that was put that each block
file has its block or nothing, unless a stale one was left behind (`current`).

`BlockCache`. Who is between lock and unlock is the holder; what each thread
knows of the block file where it is; a partly written file has somebody to
write the rest. `BlockPlacement`. While the block is not secure `fail_count` counts
failures of the present round only; a download has fetched or missed every pair
it has been through. Its `TypeOK` says that the loops stay inside their arrays:
the index of the datanode is below the length of the list, and no fragment is
made beyond those of the storage type. That the list names datanodes is a fact
about ranks in a finite set of numbers (`Ranked`).

`Membership`. The lists that nodes hand to each other, and the ones they work
on, are built by an enumeration of what a scan has found. `TypeCorrect` follows
what lists can be (`Typed`) through the log, the snapshots, the scans and the
timers. With it `LeaderWatches` is inductive (`Watched`): every step of a leader
leaves it a thread that is not off or a list to apply, and `DeleteTimer` is not
taken by a leader. `Tolerated` carries `NoReset` in the
invariant: every list that is ever complete is drawn from the first
`expected_nn + stops` nodes, so two of them differ in at most `stops` places, and
fewer than half of the peers change as long as twice the number of processes
that may stop is less than `expected_nn`, and `expected_nn + stops` nodes exist
(`Tolerant`). The second setup of `MembershipSafe` meets this with one stop. The
condition is sufficient; nothing is claimed of groups that do not meet it.

Every invariant, action property and refinement that a passing run checks is
proved, under the conditions in the table. Only model-checked is liveness
(`EveryCallAnswered`, `ReliableUploadEnds`, `LockReleased`, `NamenodesServe`): fairness
and ENABLED are beyond the prover.
Arguments that would take induction over data, which is out of its reach too, go
by the least counterexample instead (`Least`).

## Not modelled

- Logging and formatting; JSON, protobuf and string encodings; Reed-Solomon
  arithmetic and hashes; path simplification; option parsing and process start;
  the echo service: data or pure I/O, with no order of events to get wrong.
- `update_lock` of several paths: its closure is released on the first one
  (`namenode.cpp:240`); what follows depends on when brpc frees the request.
- What braft does with `change_peers` and `reset_peers`: configuration changes
  of a library, of which the code here sees only the list it passes.
- Data races inside `std::unordered_map` and `std::vector` (`pathlocks.cpp:13`,
  `raft_dn.cpp:86`): undefined, with outcomes that depend on the library.
- The removal of a block file in the middle of a read (`sdk.cpp:223`): `FileData`
  runs one operation at a time and `BlockCache` deletes nothing.
- Sizes beyond 2^31 (`sdk.cpp:661`): out of reach of an enumeration.
- Liveness of sessions: threads that wait for a leaked lock do wait for ever, and
  no property is left to state beyond `LocalLocks`.
