------------------------------- MODULE Inodes -------------------------------
(***************************************************************************)
(* The metadata of the file system and the operations on it: class Inode   *)
(* (inode.cpp) and class RocksDB (rocksdb.cpp).  Everything here is a pure *)
(* operator on a key-value map  kv \in [Path -> Inode \cup {NotFound}],    *)
(* the contents of one namenode's RocksDB.                                 *)
(*                                                                         *)
(* Paths are already simplified (set_fullpath calls simplify_path).  A     *)
(* path stands for its own file name inside its parent; filename() appends *)
(* "/" for a directory, so a directory entry is the pair <<path, is_dir>>. *)
(* The vector sub is a set: of entries for a directory, of block           *)
(* descriptors for a file (nothing in the code keeps the two apart).       *)
(* filesize and storage_type travel with sub and are left out.  ddl_lock   *)
(* is FALSE for 0 and TRUE for a deadline, which may or may not be over.   *)
(***************************************************************************)

CONSTANTS
    Path,       \* simplified absolute paths
    Root,       \* "/"
    Parent,     \* Inode::parent_path, a function on Path
    Block,      \* descriptors of encoded blocks (encode_one_sub strings)
    NotFound    \* Status::NotFound of a RocksDB read

Entry == Path \X BOOLEAN

Inode == [is_directory : BOOLEAN,
          sub          : SUBSET (Entry \cup Block),
          valid        : BOOLEAN,
          ddl_lock     : BOOLEAN]

KV == [Path -> Inode \cup {NotFound}]

ASSUME PathAssumption ==
    /\ Root \in Path
    /\ Parent \in [Path -> Path]
    /\ Parent[Root] = Root

ASSUME BlockAssumption == Block \cap Entry = {}

ASSUME NotFoundAssumption == NotFound \notin Inode

\* Inode::filename
filename(p, ino) == <<p, ino.is_directory>>

\* Inode::get_default_dir
DefaultDir ==
    [is_directory |-> TRUE, sub |-> {}, valid |-> TRUE, ddl_lock |-> FALSE]

\* "Inode inode; inode.set_fullpath(p)" with the valid flag cleared.
Blank ==
    [is_directory |-> FALSE, sub |-> {}, valid |-> FALSE, ddl_lock |-> FALSE]

\* RocksDB::path_exists: "/" exists whatever is stored under it.
path_exists(kv, p) ==
    p = Root \/ (kv[p] # NotFound /\ kv[p].valid)

\* RocksDB::get_inode: a key that is not stored reads as an invalid inode,
\* except "/", which reads as an empty directory.
get_inode(kv, p) ==
    IF kv[p] # NotFound THEN kv[p]
    ELSE IF p = Root THEN DefaultDir
    ELSE Blank

\* RocksDB::get_parent_inode, and the assertion it makes: a parent that is
\* not stored must be "/".
ParentAssertion(kv, p) == kv[Parent[p]] = NotFound => Parent[p] = Root

get_parent_inode(kv, p) ==
    IF kv[Parent[p]] = NotFound THEN DefaultDir ELSE kv[Parent[p]]

-----------------------------------------------------------------------------
(* The internal_ operations, run by on_apply.  Each writes the parent and  *)
(* then the inode itself in one batch, so for "/" the second write wins.   *)

Batch(kv, p, parent_inode, ino) ==
    [[kv EXCEPT ![Parent[p]] = parent_inode] EXCEPT ![p] = ino]

\* Mutant: the name goes into the new directory instead of its parent.
internal_mkdir_in_itself(kv, p, ino) ==
    Batch(kv, p, get_parent_inode(kv, p),
          [ino EXCEPT !.sub = @ \cup {filename(p, ino)}])

internal_mkdir(kv, p, ino) ==
    Batch(kv, p,
          [get_parent_inode(kv, p) EXCEPT !.sub = @ \cup {filename(p, ino)}],
          ino)

internal_put(kv, p, ino) == [kv EXCEPT ![p] = ino]

internal_put_ok(kv, p, ino) ==
    Batch(kv, p,
          [get_parent_inode(kv, p) EXCEPT !.sub = @ \cup {filename(p, ino)}],
          [get_inode(kv, p) EXCEPT !.ddl_lock = FALSE, !.sub = ino.sub])

\* Mutant: the parent keeps the name.
internal_rm_keeps_name(kv, p, ino) ==
    Batch(kv, p, get_parent_inode(kv, p), ino)

internal_rm(kv, p, ino) ==
    Batch(kv, p,
          [get_parent_inode(kv, p) EXCEPT !.sub = @ \ {filename(p, ino)}],
          ino)

-----------------------------------------------------------------------------
(* What a handler checks before it writes, and the inode it then builds.  *)

\* prepare_rm
prepare_rm(kv, p) == path_exists(kv, p)

\* prepare_put: the inode that put writes, with a new deadline.
prepare_put(ino) ==
    [ino EXCEPT !.is_directory = FALSE, !.valid = TRUE, !.ddl_lock = TRUE]

\* prepare_put_ok
prepare_put_ok(ino) == ino.valid /\ ~ ino.is_directory

-----------------------------------------------------------------------------
(* RaftNN::on_apply of one entry of the raft log.                          *)

OpType == {"OP_MKDIR", "OP_PUT", "OP_PUTOK", "OP_RM"}

\* braft::Task: the op byte and the JSON of an inode.
Task == [type : OpType, path : Path, inode : Inode]

ApplyTask(kv, t) ==
    CASE t.type = "OP_MKDIR" -> internal_mkdir(kv, t.path, t.inode)
      [] t.type = "OP_PUT"   -> internal_put(kv, t.path, t.inode)
      [] t.type = "OP_PUTOK" -> internal_put_ok(kv, t.path, t.inode)
      [] t.type = "OP_RM"    -> internal_rm(kv, t.path, t.inode)

AssertionHolds(kv, t) == t.type # "OP_PUT" => ParentAssertion(kv, t.path)
=============================================================================
