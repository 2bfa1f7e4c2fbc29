------------------------------ MODULE FileData ------------------------------
(***************************************************************************)
(* The bytes of one file: how class SDK (sdk.cpp) cuts them into blocks,   *)
(* keeps blocks as files under /tmp, and puts them together again.         *)
(*                                                                         *)
(* One client works on the file, with one writer or several readers at a   *)
(* time; another one stores whole files with put.  Blocks are stored under *)
(* the hash of their content, so a block's name is its content here; what  *)
(* becomes of it on the datanodes is in BlockPlacement, how threads share  *)
(* the block files in BlockCache, who may work on a file in Sessions.      *)
(***************************************************************************)
EXTENDS Integers, Sequences, FiniteSetsExt

CONSTANTS
    None,
    BlockSize,
    MaxSize,     \* bound on offset plus size of a write, and on files put
    MaxReaders,  \* bound on sessions open for reading
    MaxChanges   \* bound on writes and files put

ASSUME FileDataAssumption ==
    /\ BlockSize \in Nat \ {0} /\ MaxSize \in Nat
    /\ MaxReaders \in Nat /\ MaxChanges \in Nat

VARIABLES
    inode,     \* filesize and sub, as the namenode has them, or None
    cached,    \* the entry of local_inode_cache, or None
    tmp,       \* tmp[i]: the file of block i under /tmp, or None
    links,     \* the blocks in the write directory, hard links to tmp
    writer,    \* the file is open for writing
    readers,   \* sessions open for reading
    intended,  \* history: the bytes that applications have stored
    origin,    \* history: how they were
    current,   \* history: no block file under /tmp is out of date for good
    changes,   \* writes and files put so far
    stamp      \* bytes made up so far

session == <<writer, readers>>
bounds == <<changes, stamp>>
vars == <<inode, cached, tmp, links, session, intended, origin, current, bounds>>

NUL == 0

MaxBlocks == MaxSize \div BlockSize + 1

Index == 0 .. MaxBlocks - 1

File == [filesize : Nat, sub : Seq(Seq(Nat))]

ASSUME NoneAssumption == None \notin Seq(Nat) \cup File

TypeOK ==
    /\ inode \in File \cup {None} /\ cached \in File \cup {None}
    /\ inode # None => Len(inode.sub) <= MaxBlocks
    /\ DOMAIN tmp = Index /\ \A i \in Index : tmp[i] \in Seq(Nat) \cup {None}
    /\ links \in SUBSET Index
    /\ \A i \in links : tmp[i] # None
    /\ writer \in BOOLEAN /\ readers \in 0 .. MaxReaders
    /\ intended \in Seq(Nat)
    /\ origin \in {"written", "put", "mixed"}
    /\ current \in BOOLEAN
    /\ changes \in 0 .. MaxChanges /\ stamp \in Nat

Clean == \A i \in Index : tmp[i] = None

Empty == [filesize |-> 0, sub |-> << >>]

Init ==
    /\ inode = None /\ cached = None
    /\ tmp = [i \in Index |-> None]
    /\ links = {}
    /\ writer = FALSE /\ readers = 0
    /\ intended = << >> /\ origin = "written" /\ current = TRUE
    /\ changes = 0 /\ stamp = 0

-----------------------------------------------------------------------------
(* Blocks and byte ranges.                                                 *)

align_index_up(n) == n \div BlockSize + 1

align_index_down(n) == n \div BlockSize

get_indexs(offset, size) == <<align_index_down(offset), align_index_up(offset + size)>>

\* n bytes that nobody has written before.
Fresh(n) == [k \in 1 .. n |-> stamp + k]

\* resize: cut off, or filled up.
Resized(s, n) == [k \in 1 .. n |-> IF k <= Len(s) THEN s[k] ELSE NUL]

\* The file that SDK::put stores for bytes s.  The buffer is not cleared, so
\* the last block ends with bytes of the one before.
put_file(s) ==
    LET n == (Len(s) + BlockSize - 1) \div BlockSize
        At(p) == CASE p <= Len(s) -> s[p]
                   [] p > Len(s) /\ p > BlockSize -> s[p - BlockSize]
                   [] OTHER -> NUL
    IN [filesize |-> Len(s),
        sub |-> [i \in 1 .. n |-> [k \in 1 .. BlockSize |-> At((i - 1) * BlockSize + k)]]]

\* Blocks one after the other.
Concat(q) ==
    LET upto[i \in 0 .. Len(q)] == IF i = 0 THEN << >> ELSE upto[i - 1] \o q[i]
    IN upto[Len(q)]

\* SDK::get of another client.
get(ino) == Resized(Concat(ino.sub), ino.filesize)

\* read_data of one block: the block file if it has data, else what the
\* datanodes have.
Block(t, ino, i) == IF t[i] \notin {None, << >>} THEN t[i] ELSE ino.sub[i + 1]

\* The block files after read_data of blocks first, ..., second - 1.
Pulled(t, ino, first, second) ==
    [i \in Index |-> IF i \in first .. second - 1 /\ i < Len(ino.sub)
                     THEN Block(t, ino, i) ELSE t[i]]

\* Its result: zeros from the first block that the file does not have.
read_blocks(t, ino, first, second) ==
    LET have == Min({second, Max({first, Len(ino.sub)})}) IN
    Concat([j \in 1 .. have - first |-> Block(t, ino, first + j - 1)])
      \o [k \in 1 .. (second - have) * BlockSize |-> NUL]

\* How many bytes read_data returns.
Clipped(ino, offset, size) ==
    CASE ino.filesize < offset -> 0
      [] ino.filesize >= offset /\ ino.filesize < offset + size -> ino.filesize - offset
      [] OTHER -> size

\* SDK::read_data; None if it takes more bytes than there are.
read_data(ino, offset, size) ==
    LET n == Clipped(ino, offset, size)
        indexs == get_indexs(offset, n)
        s == read_blocks(tmp, ino, indexs[1], indexs[2])
        from == offset - indexs[1] * BlockSize
    IN CASE ino.filesize < offset -> << >>
         [] ino.filesize >= offset /\ from + n > Len(s) -> None
         [] OTHER -> SubSeq(s, from + 1, from + n)

-----------------------------------------------------------------------------
(* The other client.                                                       *)

\* put, while nobody has the file open for writing.
Put(n) ==
    /\ ~ writer
    /\ changes < MaxChanges /\ changes' = changes + 1
    /\ inode' = put_file(Fresh(n))
    /\ stamp' = stamp + n
    /\ intended' = Fresh(n) /\ origin' = "put"
    /\ current' = (current /\ (Clean \/ cached # None))
    /\ UNCHANGED <<cached, tmp, links, session>>

rm ==
    /\ inode # None
    /\ inode' = None
    /\ UNCHANGED <<cached, tmp, links, session, intended, origin, current, bounds>>

-----------------------------------------------------------------------------
(* Sessions of the client.                                                 *)

\* Mutant: block files are kept.
update_inode_keeps ==
    /\ cached' = inode
    /\ tmp' = tmp

\* update_inode: block files of blocks that have changed since the last
\* session's are removed, if that one is still open.
update_inode ==
    LET local == IF cached = None THEN << >> ELSE cached.sub
        remote == inode.sub
        Changed(i) == i < Len(local) /\ (i >= Len(remote) \/ local[i + 1] # remote[i + 1])
    IN
    /\ cached' = inode
    /\ tmp' = [i \in Index |-> IF Changed(i) THEN None ELSE tmp[i]]

open_r ==
    /\ inode # None /\ ~ writer
    /\ readers < MaxReaders /\ readers' = readers + 1
    /\ update_inode
    /\ UNCHANGED <<inode, links, writer, intended, origin, current, bounds>>

open_w ==
    /\ inode # None /\ ~ writer /\ readers = 0
    /\ writer' = TRUE
    /\ links' = {}
    /\ update_inode
    /\ UNCHANGED <<inode, readers, intended, origin, current, bounds>>

\* open with O_TRUNC: _truncate after update_inode, unless the file is empty.
open_trunc ==
    /\ inode # None /\ ~ writer /\ readers = 0
    /\ writer' = TRUE
    /\ links' = {}
    /\ update_inode
    /\ IF inode.filesize = 0 THEN UNCHANGED <<inode, intended, origin, current>>
       ELSE /\ inode' = Empty
            /\ intended' = << >> /\ origin' = "mixed" /\ current' = FALSE
    /\ UNCHANGED <<readers, bounds>>

\* SDK::create: put of an empty file, and open for writing.
create ==
    /\ inode = None /\ ~ writer /\ readers = 0
    /\ inode' = put_file(<< >>)
    /\ cached' = inode'
    /\ writer' = TRUE
    /\ links' = {}
    /\ intended' = << >>
    /\ origin' = IF Clean THEN "written" ELSE "mixed"
    /\ current' = Clean
    /\ UNCHANGED <<tmp, readers, bounds>>

\* read_data of size bytes at offset: what it leaves under /tmp depends on
\* the blocks that it reads only.
Read ==
    /\ cached # None /\ (writer \/ readers > 0)
    /\ \E indexs \in {get_indexs(offset, Clipped(cached, offset, size)) :
                        offset \in 0 .. Min({cached.filesize, MaxSize}), size \in 1 .. MaxSize} :
         tmp' = Pulled(tmp, cached, indexs[1], indexs[2])
    /\ UNCHANGED <<inode, cached, links, session, intended, origin, current, bounds>>

\* The blocks that write_data reads before it writes: the first and the
\* last, where the file has bytes that the write leaves alone.
ReadFirst(offset, size) ==
    LET indexs == get_indexs(offset, size)
        f == indexs[1]
        l == indexs[2] - 1
        t == IF offset < cached.filesize /\ offset % BlockSize # 0
             THEN Pulled(tmp, cached, f, f + 1) ELSE tmp
    IN IF /\ offset + size < cached.filesize /\ f # l
          /\ (offset + size) % BlockSize # 0
       THEN Pulled(t, cached, l, l + 1) ELSE t

\* The part of a write of bytes s at offset that falls into block i.
Part(offset, s, i) ==
    LET base == i * BlockSize - offset
        indexs == get_indexs(offset, Len(s))
        left == IF i = indexs[1] THEN offset % BlockSize ELSE 0
        right == IF i = indexs[2] - 1 THEN (offset + Len(s)) % BlockSize ELSE BlockSize
    IN SubSeq(s, base + left + 1, base + right)

\* Mutant: ios::binary only.
Appended_cleared(t, i) == << >>

\* A block file before a part is appended to it: ios::app creates it.
Appended(t, i) == IF t[i] = None THEN << >> ELSE t[i]

\* Mutant: the block after the last one, too.
Linked_next(over) == links \cup over \cup {Max(over) + 1}

\* ln_path_index of each block written.
Linked(over) == links \cup over

\* write_data: ios::app appends to each block file, wherever seekp has gone.
write_data(offset, size) ==
    LET indexs == get_indexs(offset, size)
        over == indexs[1] .. indexs[2] - 1
        t == ReadFirst(offset, size)
        plain == /\ origin = "written" /\ offset = Len(intended)
                 /\ inode # None /\ cached.filesize = inode.filesize
    IN
    /\ writer /\ cached # None
    /\ offset + size <= MaxSize
    /\ changes < MaxChanges /\ changes' = changes + 1
    /\ tmp' = [i \in Index |-> IF i \in over
                               THEN Appended(t, i) \o Part(offset, Fresh(size), i) ELSE t[i]]
    /\ links' = Linked(over)
    /\ stamp' = stamp + size
    /\ intended' = [k \in 1 .. Max({Len(intended), offset + size}) |->
                      CASE k > offset /\ k <= offset + size -> stamp + k - offset
                        [] k <= offset /\ k > Len(intended) -> NUL
                        [] OTHER -> intended[k]]
    /\ origin' = IF plain THEN "written" ELSE "mixed"
    /\ current' = (current /\ plain)
    /\ UNCHANGED <<inode, cached, session>>

\* fsync: the blocks of the write directory replace those of the inode that
\* the session has opened.
Synced ==
    LET back == Max(links)
        n == Max({back + 1, Len(cached.sub)})
    IN
    IF links = {} THEN inode
    ELSE [filesize |-> Max({cached.filesize, back * BlockSize + Len(tmp[back])}),
          sub |-> [i \in 1 .. n |->
                     CASE i - 1 \in links -> tmp[i - 1]
                       [] i - 1 \notin links /\ i <= Len(cached.sub) -> cached.sub[i]
                       [] OTHER -> << >>]]

\* put_ok of a file that has been removed is refused, which fsync ignores.
fsync ==
    /\ writer /\ cached # None /\ links # {}
    /\ inode' = IF inode = None THEN None ELSE Synced
    /\ links' = {}
    /\ UNCHANGED <<cached, tmp, session, intended, origin, current, bounds>>

close ==
    /\ writer \/ readers > 0
    /\ links # {} => cached # None
    /\ inode' = IF inode = None THEN None ELSE Synced
    /\ links' = {}
    /\ cached' = None
    /\ IF writer THEN writer' = FALSE /\ UNCHANGED readers
       ELSE readers' = readers - 1 /\ UNCHANGED writer
    /\ current' = (current /\ (writer \/ Clean \/ cached \in {None, inode}))
    /\ UNCHANGED <<tmp, intended, origin, bounds>>

Next ==
    \/ \E n \in 0 .. MaxSize : Put(n)
    \/ \E offset \in 0 .. MaxSize, size \in 1 .. MaxSize : write_data(offset, size)
    \/ Read \/ rm \/ create \/ open_r \/ open_w \/ open_trunc \/ fsync \/ close

Spec == Init /\ [][Next]_vars

-----------------------------------------------------------------------------
(* Properties.                                                             *)

\* Once nothing waits in the write directory, the file as others get it is
\* byte for byte what was put, or what was written to it: from start to
\* end, in pieces of any size, in any number of sessions of one client,
\* with no write after an fsync of the same session.
StoredIsWritten ==
    origin # "mixed" /\ links = {} /\ inode # None => get(inode) = intended

\* A session that has opened this file reads the bytes that are there, for
\* every offset and size, whatever block files were under /tmp, as long as
\* none was left there by a session before the file was put anew.
ReadIsStored ==
    /\ origin # "mixed" /\ current /\ links = {}
    /\ inode # None /\ cached = inode
    => \A offset \in 0 .. MaxSize, size \in 1 .. MaxSize :
         read_data(cached, offset, size)
           = SubSeq(intended, offset + 1, Min({offset + size, Len(intended)}))
=============================================================================
