---------------------------- MODULE InodesProofs ----------------------------
(***************************************************************************)
(* What the operators of Inodes return, for any set of paths and blocks.   *)
(***************************************************************************)
EXTENDS Inodes, TLAPS

\* DefaultDir and Blank, the inodes the code builds itself, are inodes.
LEMMA FreshInodes == DefaultDir \in Inode /\ Blank \in Inode
  BY DEF DefaultDir, Blank, Inode

\* get_inode and get_parent_inode return an inode, stored or not.
LEMMA ReadType ==
  ASSUME NEW kv \in KV, NEW p \in Path
  PROVE  get_inode(kv, p) \in Inode /\ get_parent_inode(kv, p) \in Inode
  BY FreshInodes, PathAssumption DEF KV, get_inode, get_parent_inode

\* on_apply leaves a store of inodes.
LEMMA ApplyType ==
  ASSUME NEW kv \in KV, NEW t \in Task
  PROVE  ApplyTask(kv, t) \in KV
  <1> DEFINE par == get_parent_inode(kv, t.path)
             own == get_inode(kv, t.path)
             name == filename(t.path, t.inode)
  <1>1. t.path \in Path /\ t.inode \in Inode /\ t.type \in OpType
    BY DEF Task
  <1>2. par \in Inode /\ own \in Inode
    BY <1>1, ReadType
  <1>3. name \in Entry
    BY <1>1 DEF filename, Entry, Inode
  <1>4. [par EXCEPT !.sub = @ \cup {name}] \in Inode
    BY <1>2, <1>3 DEF Inode
  <1>5. [par EXCEPT !.sub = @ \ {name}] \in Inode
    BY <1>2 DEF Inode
  <1>6. [own EXCEPT !.ddl_lock = FALSE, !.sub = t.inode.sub] \in Inode
    BY <1>1, <1>2, Zenon DEF Inode
  <1>7. ASSUME NEW x \in Inode, NEW y \in Inode
        PROVE  Batch(kv, t.path, x, y) \in KV
    BY <1>1, PathAssumption DEF Batch, KV
  <1>8. CASE t.type = "OP_MKDIR"
    BY <1>1, <1>4, <1>7, <1>8 DEF ApplyTask, internal_mkdir
  <1>9. CASE t.type = "OP_PUT"
    BY <1>1, <1>9 DEF ApplyTask, internal_put, KV
  <1>10. CASE t.type = "OP_PUTOK"
    BY <1>4, <1>6, <1>7, <1>10 DEF ApplyTask, internal_put_ok
  <1>11. CASE t.type = "OP_RM"
    BY <1>1, <1>5, <1>7, <1>11 DEF ApplyTask, internal_rm
  <1> QED
    BY <1>1, <1>8, <1>9, <1>10, <1>11 DEF OpType

-----------------------------------------------------------------------------
(* What an entry does to a store, cell by cell: to whether a path is       *)
(* stored, to the flags, the deadline and each element of the sub that a   *)
(* path reads.  An entry writes a cell or leaves it alone; what it writes  *)
(* does not depend on the store.                                           *)

Stores(t, p) == t.path = p \/ (t.type # "OP_PUT" /\ Parent[t.path] = p)

WritesFlags(t, p) == t.path = p /\ t.type # "OP_PUTOK"

WritesLock(t, p) == t.path = p

WritesSub(t, p, e) ==
    \/ t.path = p
    \/ /\ t.type # "OP_PUT" /\ Parent[t.path] = p
       /\ e = filename(t.path, t.inode)

Flags(kv, p) == <<get_inode(kv, p).valid, get_inode(kv, p).is_directory>>

Lock(kv, p) == get_inode(kv, p).ddl_lock

InSub(kv, p, e) == e \in get_inode(kv, p).sub

\* The values that the entry t writes.
FlagsOf(t) == <<t.inode.valid, t.inode.is_directory>>

LockOf(t) == IF t.type = "OP_PUTOK" THEN FALSE ELSE t.inode.ddl_lock

InSubOf(t, p, e) == IF t.path = p THEN e \in t.inode.sub ELSE t.type # "OP_RM"

\* The batch of mkdir, put_ok and rm, and the single write of put.
LEMMA BatchCells ==
  ASSUME NEW kv \in KV, NEW q \in Path, NEW x \in Inode, NEW y \in Inode,
         NEW p \in Path
  PROVE  /\ Batch(kv, q, x, y)[p] # NotFound
              <=> kv[p] # NotFound \/ p = q \/ p = Parent[q]
         /\ get_inode(Batch(kv, q, x, y), p)
              = IF p = q THEN y ELSE IF p = Parent[q] THEN x
                ELSE get_inode(kv, p)
  BY PathAssumption, NotFoundAssumption DEF Batch, KV, get_inode

\* Under the assertion, the parent that a batch starts from is what a read
\* of the parent returns.
LEMMA ParentRead ==
  ASSUME NEW kv \in KV, NEW q \in Path, ParentAssertion(kv, q)
  PROVE  get_parent_inode(kv, q) = get_inode(kv, Parent[q])
  BY DEF ParentAssertion, get_parent_inode, get_inode

\* Each entry is a put or a batch of a parent and an inode.
LEMMA ApplyForm ==
  ASSUME NEW kv \in KV, NEW t \in Task, AssertionHolds(kv, t),
         t.type # "OP_PUT"
  PROVE  \E x \in Inode, y \in Inode :
           /\ ApplyTask(kv, t) = Batch(kv, t.path, x, y)
           /\ x.valid = get_inode(kv, Parent[t.path]).valid
           /\ x.is_directory = get_inode(kv, Parent[t.path]).is_directory
           /\ x.ddl_lock = get_inode(kv, Parent[t.path]).ddl_lock
           /\ \A e : e \in x.sub <=>
                IF e = filename(t.path, t.inode) THEN t.type # "OP_RM"
                ELSE e \in get_inode(kv, Parent[t.path]).sub
           /\ y.ddl_lock = LockOf(t) /\ y.sub = t.inode.sub
           /\ IF t.type = "OP_PUTOK"
                THEN /\ y.valid = get_inode(kv, t.path).valid
                     /\ y.is_directory = get_inode(kv, t.path).is_directory
                ELSE y.valid = t.inode.valid
                     /\ y.is_directory = t.inode.is_directory
  <1> DEFINE par == get_parent_inode(kv, t.path)
             own == get_inode(kv, t.path)
             name == filename(t.path, t.inode)
             add == [par EXCEPT !.sub = @ \cup {name}]
             del == [par EXCEPT !.sub = @ \ {name}]
             new == [own EXCEPT !.ddl_lock = FALSE, !.sub = t.inode.sub]
  <1>1. t.path \in Path /\ t.inode \in Inode /\ t.type \in OpType
    BY DEF Task
  <1>2. par \in Inode /\ own \in Inode
    BY <1>1, ReadType
  <1>3. name \in Entry
    BY <1>1 DEF filename, Entry, Inode
  <1>4. par = get_inode(kv, Parent[t.path])
    BY <1>1, ParentRead DEF AssertionHolds
  <1>5. /\ add \in Inode /\ add.valid = par.valid
        /\ add.is_directory = par.is_directory /\ add.ddl_lock = par.ddl_lock
        /\ add.sub = par.sub \cup {name}
    BY <1>2, <1>3 DEF Inode
  <1>6. /\ del \in Inode /\ del.valid = par.valid
        /\ del.is_directory = par.is_directory /\ del.ddl_lock = par.ddl_lock
        /\ del.sub = par.sub \ {name}
    BY <1>2 DEF Inode
  <1>7. /\ new \in Inode /\ new.valid = own.valid
        /\ new.is_directory = own.is_directory /\ new.ddl_lock = FALSE
        /\ new.sub = t.inode.sub
    BY <1>1, <1>2, Zenon DEF Inode
  <1>8. CASE t.type = "OP_MKDIR"
    <2>1. ApplyTask(kv, t) = Batch(kv, t.path, add, t.inode)
      BY <1>8 DEF ApplyTask, internal_mkdir
    <2> HIDE DEF add, name, par
    <2> QED
      BY <2>1, <1>1, <1>4, <1>5, <1>8 DEF LockOf, name
  <1>9. CASE t.type = "OP_PUTOK"
    <2>1. ApplyTask(kv, t) = Batch(kv, t.path, add, new)
      BY <1>9 DEF ApplyTask, internal_put_ok
    <2> HIDE DEF add, name, par, new
    <2> QED
      BY <2>1, <1>1, <1>4, <1>5, <1>7, <1>9, Zenon DEF LockOf, name, own
  <1>10. CASE t.type = "OP_RM"
    <2>1. ApplyTask(kv, t) = Batch(kv, t.path, del, t.inode)
      BY <1>10 DEF ApplyTask, internal_rm
    <2> HIDE DEF del, name, par
    <2> QED
      BY <2>1, <1>1, <1>4, <1>6, <1>10 DEF LockOf, name
  <1> QED
    BY <1>1, <1>8, <1>9, <1>10 DEF OpType

\* The cells after an entry.
LEMMA ApplyCells ==
  ASSUME NEW kv \in KV, NEW t \in Task, AssertionHolds(kv, t),
         NEW p \in Path
  PROVE  LET kw == ApplyTask(kv, t) IN
         /\ kw[p] # NotFound <=> kv[p] # NotFound \/ Stores(t, p)
         /\ Flags(kw, p) = IF WritesFlags(t, p) THEN FlagsOf(t) ELSE Flags(kv, p)
         /\ Lock(kw, p) = IF WritesLock(t, p) THEN LockOf(t) ELSE Lock(kv, p)
         /\ \A e : InSub(kw, p, e)
              <=> IF WritesSub(t, p, e) THEN InSubOf(t, p, e) ELSE InSub(kv, p, e)
  <1>1. t.path \in Path /\ t.inode \in Inode /\ t.type \in OpType
    BY DEF Task
  <1>2. CASE t.type = "OP_PUT"
    <2>1. ApplyTask(kv, t) = [kv EXCEPT ![t.path] = t.inode]
      BY <1>2 DEF ApplyTask, internal_put
    <2>2. /\ ApplyTask(kv, t)[p] # NotFound <=> kv[p] # NotFound \/ p = t.path
          /\ get_inode(ApplyTask(kv, t), p)
               = IF p = t.path THEN t.inode ELSE get_inode(kv, p)
      BY <2>1, <1>1, NotFoundAssumption DEF KV, get_inode
    <2> QED
      BY <2>2, <1>2
      DEF Stores, WritesFlags, WritesLock, WritesSub, Flags, Lock, InSub,
          FlagsOf, LockOf, InSubOf
  <1>3. CASE t.type # "OP_PUT"
    <2>1. PICK x \in Inode, y \in Inode :
           /\ ApplyTask(kv, t) = Batch(kv, t.path, x, y)
           /\ x.valid = get_inode(kv, Parent[t.path]).valid
           /\ x.is_directory = get_inode(kv, Parent[t.path]).is_directory
           /\ x.ddl_lock = get_inode(kv, Parent[t.path]).ddl_lock
           /\ \A e : e \in x.sub <=>
                IF e = filename(t.path, t.inode) THEN t.type # "OP_RM"
                ELSE e \in get_inode(kv, Parent[t.path]).sub
           /\ y.ddl_lock = LockOf(t) /\ y.sub = t.inode.sub
           /\ IF t.type = "OP_PUTOK"
                THEN /\ y.valid = get_inode(kv, t.path).valid
                     /\ y.is_directory = get_inode(kv, t.path).is_directory
                ELSE y.valid = t.inode.valid
                     /\ y.is_directory = t.inode.is_directory
      BY <1>3, ApplyForm
    <2>2. /\ ApplyTask(kv, t)[p] # NotFound
               <=> kv[p] # NotFound \/ p = t.path \/ p = Parent[t.path]
          /\ get_inode(ApplyTask(kv, t), p)
               = IF p = t.path THEN y ELSE IF p = Parent[t.path] THEN x
                 ELSE get_inode(kv, p)
      BY <2>1, <1>1, BatchCells
    <2>3. ApplyTask(kv, t)[p] # NotFound <=> kv[p] # NotFound \/ Stores(t, p)
      BY <2>2, <1>3 DEF Stores
    <2>4. Flags(ApplyTask(kv, t), p)
            = IF WritesFlags(t, p) THEN FlagsOf(t) ELSE Flags(kv, p)
      BY <2>1, <2>2 DEF WritesFlags, Flags, FlagsOf
    <2>5. Lock(ApplyTask(kv, t), p)
            = IF WritesLock(t, p) THEN LockOf(t) ELSE Lock(kv, p)
      BY <2>1, <2>2 DEF WritesLock, Lock
    <2>6. \A e : InSub(ApplyTask(kv, t), p, e)
            <=> IF WritesSub(t, p, e) THEN InSubOf(t, p, e) ELSE InSub(kv, p, e)
      BY <2>1, <2>2, <1>3 DEF WritesSub, InSub, InSubOf
    <2> QED
      BY <2>3, <2>4, <2>5, <2>6
  <1> QED
    BY <1>2, <1>3

\* Two stores with the same cells are the same.
LEMMA SameCells ==
  ASSUME NEW kv \in KV, NEW kw \in KV,
         \A p \in Path :
            /\ kv[p] # NotFound <=> kw[p] # NotFound
            /\ Flags(kv, p) = Flags(kw, p) /\ Lock(kv, p) = Lock(kw, p)
            /\ \A e : InSub(kv, p, e) <=> InSub(kw, p, e)
  PROVE  kv = kw
  <1> SUFFICES ASSUME NEW p \in Path PROVE kv[p] = kw[p]
    BY DEF KV
  <1>1. CASE kv[p] = NotFound
    BY <1>1
  <1>2. CASE kv[p] # NotFound
    <2>1. /\ kv[p] \in Inode /\ kw[p] \in Inode
          /\ get_inode(kv, p) = kv[p] /\ get_inode(kw, p) = kw[p]
      BY <1>2 DEF KV, get_inode
    <2>2. /\ kv[p].valid = kw[p].valid /\ kv[p].is_directory = kw[p].is_directory
          /\ kv[p].ddl_lock = kw[p].ddl_lock
      BY <2>1 DEF Flags, Lock
    <2>3. kv[p].sub = kw[p].sub
      <3>1. \A e : e \in kv[p].sub <=> e \in kw[p].sub
        BY <2>1 DEF InSub
      <3> QED
        BY <3>1, Zenon
    <2> QED
      BY <2>1, <2>2, <2>3 DEF Inode
  <1> QED
    BY <1>1, <1>2
=============================================================================
