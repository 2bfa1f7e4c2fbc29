---------------------------- MODULE ReplicaProofs ---------------------------
(***************************************************************************)
(* Proofs about Replica, for any set of nodes, paths and blocks and a log  *)
(* of any length: the replay after a restart converges, and fails no       *)
(* assertion on a node that was sent no snapshot.                          *)
(***************************************************************************)
EXTENDS Replica, InodesProofs

-----------------------------------------------------------------------------
(* The invariant of a replay.  A store that has seen the entries of lg up  *)
(* to t, and is to apply those after i, agrees with  past  (what the first *)
(* i entries make) in every cell that none of the entries i+1 .. t writes. *)

Covered(lg, past, kv, i, t) ==
    \A p \in Path :
        /\ past[p] # NotFound => kv[p] # NotFound
        /\ kv[p] # NotFound =>
             past[p] # NotFound \/ \E j \in i + 1 .. t : Stores(lg[j], p)
        /\ \/ Flags(kv, p) = Flags(past, p)
           \/ \E j \in i + 1 .. t : WritesFlags(lg[j], p)
        /\ \/ Lock(kv, p) = Lock(past, p)
           \/ \E j \in i + 1 .. t : WritesLock(lg[j], p)
        /\ \A e : \/ InSub(kv, p, e) <=> InSub(past, p, e)
                  \/ \E j \in i + 1 .. t : WritesSub(lg[j], p, e)

\* It depends on the entries i+1 .. t only.
LEMMA CoveredKept ==
  ASSUME NEW lg, NEW lh, NEW past, NEW kv, NEW i \in Nat, NEW t \in Nat,
         \A j \in i + 1 .. t : lh[j] = lg[j],
         Covered(lg, past, kv, i, t)
  PROVE  Covered(lh, past, kv, i, t)
  BY Zenon DEF Covered

\* One more entry applied, seen from an earlier index i.
LEMMA CoveredLater ==
  ASSUME NEW lg, NEW past \in KV, NEW kv \in KV, NEW i \in Nat, NEW t \in Nat,
         NEW k \in Nat, i < k, lg[k] \in Task, AssertionHolds(kv, lg[k]),
         Covered(lg, past, kv, i, t)
  PROVE  Covered(lg, past, ApplyTask(kv, lg[k]), i, Max(t, k))
  <1> DEFINE kw == ApplyTask(kv, lg[k])
             h == Max(t, k)
  <1>1. k \in i + 1 .. h /\ \A j \in i + 1 .. t : j \in i + 1 .. h
    BY DEF Max
  <1> HIDE DEF kw, h
  <1> SUFFICES ASSUME NEW p \in Path
               PROVE  /\ past[p] # NotFound => kw[p] # NotFound
                      /\ kw[p] # NotFound =>
                           past[p] # NotFound \/ \E j \in i + 1 .. h : Stores(lg[j], p)
                      /\ \/ Flags(kw, p) = Flags(past, p)
                         \/ \E j \in i + 1 .. h : WritesFlags(lg[j], p)
                      /\ \/ Lock(kw, p) = Lock(past, p)
                         \/ \E j \in i + 1 .. h : WritesLock(lg[j], p)
                      /\ \A e : \/ InSub(kw, p, e) <=> InSub(past, p, e)
                                \/ \E j \in i + 1 .. h : WritesSub(lg[j], p, e)
    BY DEF Covered, kw, h
  <1>2. /\ kw[p] # NotFound <=> kv[p] # NotFound \/ Stores(lg[k], p)
        /\ WritesFlags(lg[k], p) \/ Flags(kw, p) = Flags(kv, p)
        /\ WritesLock(lg[k], p) \/ Lock(kw, p) = Lock(kv, p)
        /\ \A e : WritesSub(lg[k], p, e) \/ (InSub(kw, p, e) <=> InSub(kv, p, e))
    BY ApplyCells, Zenon DEF kw
  <1>3. /\ past[p] # NotFound => kw[p] # NotFound
        /\ kw[p] # NotFound =>
             past[p] # NotFound \/ \E j \in i + 1 .. h : Stores(lg[j], p)
    BY <1>1, <1>2 DEF Covered
  <1>4. \/ Flags(kw, p) = Flags(past, p)
        \/ \E j \in i + 1 .. h : WritesFlags(lg[j], p)
    BY <1>1, <1>2 DEF Covered
  <1>5. \/ Lock(kw, p) = Lock(past, p)
        \/ \E j \in i + 1 .. h : WritesLock(lg[j], p)
    BY <1>1, <1>2 DEF Covered
  <1>6. \A e : \/ InSub(kw, p, e) <=> InSub(past, p, e)
               \/ \E j \in i + 1 .. h : WritesSub(lg[j], p, e)
    BY <1>1, <1>2 DEF Covered
  <1> QED
    BY <1>3, <1>4, <1>5, <1>6

\* The entry i+1 applied to both: what it writes is the same in both, and
\* what it leaves alone is covered by the entries after it.
LEMMA CoveredNext ==
  ASSUME NEW lg, NEW past \in KV, NEW kv \in KV, NEW i \in Nat, NEW t \in Nat,
         lg[i + 1] \in Task, AssertionHolds(kv, lg[i + 1]),
         AssertionHolds(past, lg[i + 1]), Covered(lg, past, kv, i, t)
  PROVE  Covered(lg, ApplyTask(past, lg[i + 1]), ApplyTask(kv, lg[i + 1]),
                 i + 1, Max(t, i + 1))
  <1> DEFINE k == i + 1
             kw == ApplyTask(kv, lg[k])
             pw == ApplyTask(past, lg[k])
             h == Max(t, k)
  <1>1. \A j \in k .. t : j = k \/ j \in k + 1 .. h
    BY DEF Max
  <1> HIDE DEF k, kw, pw, h
  <1> SUFFICES ASSUME NEW p \in Path
               PROVE  /\ pw[p] # NotFound => kw[p] # NotFound
                      /\ kw[p] # NotFound =>
                           pw[p] # NotFound \/ \E j \in k + 1 .. h : Stores(lg[j], p)
                      /\ \/ Flags(kw, p) = Flags(pw, p)
                         \/ \E j \in k + 1 .. h : WritesFlags(lg[j], p)
                      /\ \/ Lock(kw, p) = Lock(pw, p)
                         \/ \E j \in k + 1 .. h : WritesLock(lg[j], p)
                      /\ \A e : \/ InSub(kw, p, e) <=> InSub(pw, p, e)
                                \/ \E j \in k + 1 .. h : WritesSub(lg[j], p, e)
    BY Zenon DEF Covered, k, kw, pw, h
  <1>2. /\ kw[p] # NotFound <=> kv[p] # NotFound \/ Stores(lg[k], p)
        /\ Flags(kw, p)
             = IF WritesFlags(lg[k], p) THEN FlagsOf(lg[k]) ELSE Flags(kv, p)
        /\ Lock(kw, p)
             = IF WritesLock(lg[k], p) THEN LockOf(lg[k]) ELSE Lock(kv, p)
        /\ \A e : InSub(kw, p, e)
             <=> IF WritesSub(lg[k], p, e) THEN InSubOf(lg[k], p, e) ELSE InSub(kv, p, e)
    BY ApplyCells DEF kw, k
  <1>3. /\ pw[p] # NotFound <=> past[p] # NotFound \/ Stores(lg[k], p)
        /\ Flags(pw, p)
             = IF WritesFlags(lg[k], p) THEN FlagsOf(lg[k]) ELSE Flags(past, p)
        /\ Lock(pw, p)
             = IF WritesLock(lg[k], p) THEN LockOf(lg[k]) ELSE Lock(past, p)
        /\ \A e : InSub(pw, p, e)
             <=> IF WritesSub(lg[k], p, e) THEN InSubOf(lg[k], p, e) ELSE InSub(past, p, e)
    BY ApplyCells DEF pw, k
  <1>4. /\ pw[p] # NotFound => kw[p] # NotFound
        /\ kw[p] # NotFound =>
             pw[p] # NotFound \/ \E j \in k + 1 .. h : Stores(lg[j], p)
    BY <1>1, <1>2, <1>3 DEF Covered, k
  <1>5. \/ Flags(kw, p) = Flags(pw, p)
        \/ \E j \in k + 1 .. h : WritesFlags(lg[j], p)
    BY <1>1, <1>2, <1>3 DEF Covered, k
  <1>6. \/ Lock(kw, p) = Lock(pw, p)
        \/ \E j \in k + 1 .. h : WritesLock(lg[j], p)
    BY <1>1, <1>2, <1>3 DEF Covered, k
  <1>7. \A e : \/ InSub(kw, p, e) <=> InSub(pw, p, e)
               \/ \E j \in k + 1 .. h : WritesSub(lg[j], p, e)
    BY <1>1, <1>2, <1>3 DEF Covered, k
  <1> QED
    BY <1>4, <1>5, <1>6, <1>7

\* A store with nothing left to see again is what the first i entries make.
LEMMA CoveredDone ==
  ASSUME NEW lg, NEW past \in KV, NEW kv \in KV, NEW i \in Nat, NEW t \in Nat,
         i >= t, Covered(lg, past, kv, i, t)
  PROVE  kv = past
  <1>1. i + 1 .. t = {}
    OBVIOUS
  <1> QED
    BY <1>1, SameCells DEF Covered

\* A store covers itself.
LEMMA CoveredSelf ==
  ASSUME NEW lg, NEW kv, NEW i, NEW t
  PROVE  Covered(lg, kv, kv, i, t)
  BY DEF Covered

-----------------------------------------------------------------------------
(* The inductive invariant.                                                *)

Last == ideal[Len(log) + 1]

\* ideal is the history of the log.
IdealInv ==
    /\ ideal[1] = Empty
    /\ \A i \in 1 .. Len(log) :
         /\ ideal[i + 1] = ApplyTask(ideal[i], log[i])
         /\ AssertionHolds(ideal[i], log[i])

\* What any node stores, the whole log stores, with its parent.
Within(kv) == \A p \in Path : kv[p] # NotFound => Last[p] # NotFound

StoredInv ==
    /\ \A p \in Path : Last[p] # NotFound => ParentAssertion(Last, p)
    /\ \A i \in 1 .. Len(log) + 1 : Within(ideal[i])
    /\ \A n \in Node : Within(db[n]) /\ (backup[n] # None => Within(backup[n]))

OrderInv ==
    \A n \in Node \ installed :
        /\ snap[n] <= applied[n] /\ saving[n] <= applied[n]
        /\ applied[n] <= top[n] /\ top[n] <= have[n]
        /\ backupTop[n] <= have[n]
        /\ snap[n] > 0 => backup[n] # None /\ snap[n] <= backupTop[n]
        /\ saving[n] > 0 => backup[n] # None /\ saving[n] <= backupTop[n]

\* The database covers every index at which a replay may start, and so does
\* the backup that a replay from a snapshot starts from.
ReplayInv ==
    \A n \in Node \ installed :
        /\ Covered(log, ideal[applied[n] + 1], db[n], applied[n], top[n])
        /\ Covered(log, ideal[snap[n] + 1], db[n], snap[n], top[n])
        /\ snap[n] > 0 =>
             Covered(log, ideal[snap[n] + 1], backup[n], snap[n], backupTop[n])
        /\ saving[n] > 0 =>
             /\ Covered(log, ideal[saving[n] + 1], db[n], saving[n], top[n])
             /\ Covered(log, ideal[saving[n] + 1], backup[n], saving[n], backupTop[n])

IInv == TypeOK /\ ReplaySafe /\ IdealInv /\ StoredInv /\ OrderInv /\ ReplayInv

\* An empty database is a store.
LEMMA EmptyStore == Empty \in KV
  BY DEF Empty, KV

\* The entries that the handlers build are tasks whose assertion holds
\* where the whole log is applied, and they keep what is stored closed.
LEMMA TaskSound ==
  ASSUME NEW kv \in KV, NEW last \in KV, NEW t \in Tasks(kv),
         \A p \in Path : kv[p] # NotFound => last[p] # NotFound,
         \A p \in Path : last[p] # NotFound => ParentAssertion(last, p)
  PROVE  t \in Task /\ AssertionHolds(last, t) /\ ParentAssertion(last, t.path)
  <1>1. PICK p \in Path : t \in MkdirTask(kv, p) \cup RmTask(kv, p)
                 \cup PutTask(kv, p) \cup PutOkTask(kv, p) \cup UpdateLockTask(kv, p)
    BY DEF Tasks
  <1>2. get_inode(kv, p) \in Inode /\ Parent[p] \in Path
    BY ReadType, PathAssumption
  <1>3. ParentAssertion(kv, p) => ParentAssertion(last, p)
    BY <1>2 DEF ParentAssertion
  <1>4. kv[p] # NotFound \/ p = Root => ParentAssertion(last, p)
    BY PathAssumption DEF ParentAssertion
  <1>5. get_inode(kv, p).valid => kv[p] # NotFound \/ p = Root
    BY DEF get_inode, Blank
  <1>6. CASE t \in MkdirTask(kv, p)
    <2>1. /\ t = [type |-> "OP_MKDIR", path |-> p, inode |-> DefaultDir]
          /\ path_exists(kv, Parent[p])
      BY <1>6 DEF MkdirTask
    <2>2. ParentAssertion(kv, p)
      BY <2>1 DEF path_exists, ParentAssertion
    <2> QED
      BY <2>1, <2>2, <1>3, FreshInodes DEF Task, OpType, AssertionHolds
  <1>7. CASE t \in RmTask(kv, p)
    <2>1. /\ t = [type |-> "OP_RM", path |-> p, inode |-> Blank]
          /\ kv[p] # NotFound \/ p = Root
      BY <1>7 DEF RmTask, prepare_rm, path_exists
    <2> QED
      BY <2>1, <1>4, FreshInodes DEF Task, OpType, AssertionHolds
  <1>8. CASE t \in PutTask(kv, p)
    <2>1. /\ t = [type |-> "OP_PUT", path |-> p,
                  inode |-> prepare_put(get_inode(kv, p))]
          /\ ParentAssertion(kv, p)
      BY <1>8 DEF PutTask
    <2>2. prepare_put(get_inode(kv, p)) \in Inode
      BY <1>2, Zenon DEF prepare_put, Inode
    <2> QED
      BY <2>1, <2>2, <1>3 DEF Task, OpType, AssertionHolds
  <1>9. CASE t \in PutOkTask(kv, p)
    <2>1. get_inode(kv, p).valid
      BY <1>9 DEF PutOkTask, prepare_put_ok
    <2>2. PICK sub \in SUBSET Block :
             t = [type |-> "OP_PUTOK", path |-> p,
                  inode |-> [get_inode(kv, p) EXCEPT !.sub = sub]]
      BY <1>9 DEF PutOkTask, prepare_put_ok
    <2>3. [get_inode(kv, p) EXCEPT !.sub = sub] \in Inode
      BY <1>2 DEF Inode
    <2> QED
      BY <2>1, <2>2, <2>3, <1>4, <1>5 DEF Task, OpType, AssertionHolds
  <1>10. CASE t \in UpdateLockTask(kv, p)
    <2>1. /\ t = [type |-> "OP_PUT", path |-> p,
                  inode |-> [get_inode(kv, p) EXCEPT !.ddl_lock = TRUE]]
          /\ get_inode(kv, p).valid
      BY <1>10 DEF UpdateLockTask
    <2>2. [get_inode(kv, p) EXCEPT !.ddl_lock = TRUE] \in Inode
      BY <1>2, Zenon DEF Inode
    <2> QED
      BY <2>1, <2>2, <1>4, <1>5 DEF Task, OpType, AssertionHolds
  <1> QED
    BY <1>1, <1>6, <1>7, <1>8, <1>9, <1>10

\* The namenodes start with the invariant.
LEMMA InitHolds == Init => IInv
  <1> SUFFICES ASSUME Init PROVE IInv
    OBVIOUS
  <1>1. Len(log) = 0 /\ ideal[1] = Empty /\ Last = Empty
    BY DEF Init, Last
  <1>2. TypeOK
    BY EmptyStore DEF Init, TypeOK, Zero
  <1>3. ReplaySafe /\ IdealInv
    BY <1>1 DEF Init, ReplaySafe, IdealInv
  <1>4. StoredInv
    BY <1>1 DEF Init, StoredInv, Within, Empty
  <1>5. OrderInv
    BY DEF Init, OrderInv, Zero
  <1>6. ReplayInv
    <2> SUFFICES ASSUME NEW n \in Node
                 PROVE  /\ Covered(log, ideal[applied[n] + 1], db[n], applied[n], top[n])
                        /\ Covered(log, ideal[snap[n] + 1], db[n], snap[n], top[n])
                        /\ ~ (snap[n] > 0) /\ ~ (saving[n] > 0)
      BY DEF ReplayInv
    <2>1. /\ applied[n] = 0 /\ snap[n] = 0 /\ saving[n] = 0
          /\ db[n] = ideal[1]
      BY <1>1 DEF Init, Zero
    <2> QED
      BY <2>1, CoveredSelf
  <1> QED
    BY <1>2, <1>3, <1>4, <1>5, <1>6 DEF IInv

\* Steps that leave the log alone keep its history.
LEMMA IdealKept ==
  ASSUME IInv, UNCHANGED <<log, ideal>>
  PROVE  IdealInv' /\ Last' = Last
  BY DEF IInv, IdealInv, Last, Empty

\* The indices are numbers.
LEMMA Numbers ==
  ASSUME TypeOK, NEW n \in Node
  PROVE  /\ have[n] \in Nat /\ applied[n] \in Nat /\ top[n] \in Nat
         /\ backupTop[n] \in Nat /\ saving[n] \in Nat /\ snap[n] \in Nat
  BY DEF TypeOK

\* Databases and backups that take each other's place store what they did.
LEMMA StoredKept ==
  ASSUME StoredInv, UNCHANGED <<log, ideal>>, Last' = Last,
         \A m \in Node : db'[m] = db[m] \/ (backup[m] # None /\ db'[m] = backup[m]),
         \A m \in Node : backup'[m] = backup[m] \/ backup'[m] = db[m]
  PROVE  StoredInv'
  <1>1. \A m \in Node : Within(db[m]) /\ (backup[m] # None => Within(backup[m]))
    BY Zenon DEF StoredInv
  <1>2. ASSUME NEW m \in Node
        PROVE  Within(db[m])' /\ (backup'[m] # None => Within(backup[m])')
    <2>1. Within(db'[m]) /\ (backup'[m] # None => Within(backup'[m]))
      BY <1>1, Zenon
    <2> QED
      BY <2>1, Zenon DEF Within
  <1>3. /\ \A p \in Path : Last'[p] # NotFound => ParentAssertion(Last', p)
        /\ \A i \in 1 .. Len(log') + 1 : Within(ideal[i])'
    BY Zenon DEF StoredInv, Within
  <1> QED
    BY <1>2, <1>3, Zenon DEF StoredInv

\* A new entry goes after those that any node has seen.
LEMMA SubmitHolds ==
  ASSUME IInv, NEW n \in Node, Submit(n)
  PROVE  IInv'
  <1> USE DEF IInv
  <1>1. PICK t \in Tasks(db[n]) :
           /\ log' = Append(log, t)
           /\ ideal' = Append(ideal, ApplyTask(ideal[Len(ideal)], t))
    BY DEF Submit
  <1>2. /\ have' = [have EXCEPT ![n] = Len(log) + 1] /\ have[n] = Len(log)
        /\ UNCHANGED <<applied, db, top, backup, backupTop, saving, snap,
                       installed, aborted>>
    BY DEF Submit, disk, saved
  <1>3. Len(log) \in Nat /\ Len(ideal) = Len(log) + 1 /\ Last \in KV
    BY DEF TypeOK, Last
  <1>4. t \in Task /\ AssertionHolds(Last, t) /\ ParentAssertion(Last, t.path)
    <2>1. db[n] \in KV
      BY DEF TypeOK
    <2> QED
      BY <2>1, <1>3, TaskSound DEF StoredInv, Within
  <1>5. ApplyTask(Last, t) \in KV
    BY <1>3, <1>4, ApplyType, Zenon
  <1>6. /\ Len(log') = Len(log) + 1 /\ log'[Len(log) + 1] = t
        /\ \A i \in 1 .. Len(log) : log'[i] = log[i]
        /\ \A i \in 1 .. Len(log) + 1 : ideal'[i] = ideal[i]
        /\ ideal'[Len(log) + 2] = ApplyTask(Last, t)
        /\ Last' = ApplyTask(Last, t)
    BY <1>1, <1>3, <1>4, <1>5 DEF TypeOK, Last
  <1>7. TypeOK'
    <2>1. log' \in Seq(Task) /\ ideal' \in Seq(KV) /\ Len(ideal') = Len(log') + 1
      BY <1>1, <1>3, <1>4, <1>5 DEF TypeOK, Last
    <2>2. have' \in [Node -> 0 .. Len(log')]
      BY <1>2, <1>3, <1>6 DEF TypeOK
    <2>3. \A f \in [Node -> 0 .. Len(log)] : f \in [Node -> 0 .. Len(log')]
      BY <1>3, <1>6
    <2>4. /\ applied' \in [Node -> 0 .. Len(log')] /\ top' \in [Node -> 0 .. Len(log')]
          /\ backupTop' \in [Node -> 0 .. Len(log')]
          /\ saving' \in [Node -> 0 .. Len(log')] /\ snap' \in [Node -> 0 .. Len(log')]
      BY <2>3, <1>2, Zenon DEF TypeOK
    <2> QED
      BY <2>1, <2>2, <2>4, <1>2, Zenon DEF TypeOK
  <1>8. ReplaySafe'
    BY <1>2 DEF ReplaySafe
  <1>9. IdealInv'
    <2>1. ideal'[1] = Empty
      BY <1>3, <1>6 DEF IdealInv
    <2>2. ASSUME NEW i \in 1 .. Len(log')
          PROVE  /\ ideal'[i + 1] = ApplyTask(ideal'[i], log'[i])
                 /\ AssertionHolds(ideal'[i], log'[i])
      <3>1. CASE i \in 1 .. Len(log)
        <4>1. i \in 1 .. Len(log) + 1 /\ i + 1 \in 1 .. Len(log) + 1
          BY <3>1, <1>3
        <4>2. ideal'[i] = ideal[i] /\ ideal'[i + 1] = ideal[i + 1] /\ log'[i] = log[i]
          BY <3>1, <4>1, <1>6, Zenon
        <4> QED
          BY <3>1, <4>2, Zenon DEF IdealInv
      <3>2. CASE i = Len(log) + 1
        BY <3>2, <1>3, <1>4, <1>6, Zenon DEF Last
      <3> QED
        BY <3>1, <3>2, <1>3, <1>6
    <2> QED
      BY <2>1, <2>2, Zenon DEF IdealInv, Empty
  <1>10. \A p \in Path : Last'[p] # NotFound <=> Last[p] # NotFound \/ Stores(t, p)
    BY <1>3, <1>4, <1>6, ApplyCells, Zenon
  <1>11. StoredInv'
    <2>1. ASSUME NEW p \in Path, Last'[p] # NotFound
          PROVE  ParentAssertion(Last', p)
      <3>1. CASE Last[p] # NotFound \/ p = t.path
        BY <3>1, <1>4, <1>10, PathAssumption DEF StoredInv, ParentAssertion
      <3>2. CASE Last[p] = NotFound /\ p # t.path
        <4>1. p = Parent[t.path]
          BY <2>1, <3>2, <1>10, Zenon DEF Stores
        <4>2. p = Root
          BY <4>1, <3>2, <1>4 DEF ParentAssertion
        <4> QED
          BY <4>2, PathAssumption DEF ParentAssertion
      <3> QED
        BY <3>1, <3>2, Zenon
    <2>2. \A kv : Within(kv) => Within(kv)'
      BY <1>10, Zenon DEF Within
    <2>3. ASSUME NEW i \in 1 .. Len(log') + 1
          PROVE  Within(ideal[i])'
      <3>1. CASE i \in 1 .. Len(log) + 1
        <4>1. ideal'[i] = ideal[i] /\ Within(ideal[i])
          BY <3>1, <1>6, Zenon DEF StoredInv
        <4> QED
          BY <4>1, <1>10, Zenon DEF Within
      <3>2. CASE i = Len(log) + 2
        BY <3>2, <1>6, Zenon DEF Within
      <3> QED
        BY <3>1, <3>2, <1>3, <1>6
    <2>4. ASSUME NEW m \in Node
          PROVE  Within(db[m])' /\ (backup'[m] # None => Within(backup[m])')
      BY <1>2, <1>10, Zenon DEF StoredInv, Within
    <2> QED
      BY <2>1, <2>3, <2>4 DEF StoredInv
  <1>12. OrderInv'
    BY <1>2, <1>3 DEF OrderInv, TypeOK
  <1>13. ReplayInv'
    <2>1. ASSUME NEW kv, NEW i \in 0 .. Len(log), NEW k \in 0 .. Len(log),
                 Covered(log, ideal[i + 1], kv, i, k)
          PROVE  Covered(log', ideal'[i + 1], kv, i, k)
      <3>1. \A j \in i + 1 .. k : log'[j] = log[j]
        BY <1>3, <1>6, SMTT(30)
      <3>2. ideal'[i + 1] = ideal[i + 1]
        BY <1>3, <1>6
      <3> QED
        BY <2>1, <3>1, <3>2, CoveredKept
    <2> SUFFICES ASSUME NEW m \in Node \ installed
                 PROVE  /\ Covered(log', ideal'[applied[m] + 1], db[m], applied[m], top[m])
                        /\ Covered(log', ideal'[snap[m] + 1], db[m], snap[m], top[m])
                        /\ snap[m] > 0 =>
                             Covered(log', ideal'[snap[m] + 1], backup[m], snap[m], backupTop[m])
                        /\ saving[m] > 0 =>
                             /\ Covered(log', ideal'[saving[m] + 1], db[m], saving[m], top[m])
                             /\ Covered(log', ideal'[saving[m] + 1], backup[m], saving[m], backupTop[m])
      BY <1>2, Zenon DEF ReplayInv
    <2>2. /\ applied[m] \in 0 .. Len(log) /\ snap[m] \in 0 .. Len(log)
          /\ saving[m] \in 0 .. Len(log) /\ top[m] \in 0 .. Len(log)
          /\ backupTop[m] \in 0 .. Len(log)
      BY DEF TypeOK
    <2> QED
      BY <2>1, <2>2, Zenon DEF ReplayInv
  <1> QED
    BY <1>7, <1>8, <1>9, <1>11, <1>12, <1>13

\* An entry that reaches a raft log changes no store.
LEMMA ReceiveHolds ==
  ASSUME IInv, NEW n \in Node, Receive(n)
  PROVE  IInv'
  <1> USE DEF IInv
  <1>1. /\ have' = [have EXCEPT ![n] = @ + 1] /\ have[n] < Len(log)
        /\ UNCHANGED <<log, ideal, applied, db, top, backup, backupTop, saving,
                       snap, installed, aborted>>
    BY DEF Receive, disk, saved
  <1>2. IdealInv' /\ Last' = Last
    BY <1>1, IdealKept, Zenon
  <1>3. TypeOK'
    BY <1>1, SMTT(30) DEF TypeOK
  <1>4. ReplaySafe' /\ StoredInv' /\ ReplayInv'
    BY <1>1, <1>2, Zenon DEF ReplaySafe, StoredInv, Within, ReplayInv
  <1>5. OrderInv'
    BY <1>1 DEF OrderInv, TypeOK
  <1> QED
    BY <1>2, <1>3, <1>4, <1>5

\* on_apply: the database and what the entries make of an empty one go
\* forward together; seen from a snapshot, only a later entry is added.
LEMMA ApplyHolds ==
  ASSUME IInv, NEW n \in Node, on_apply(n)
  PROVE  IInv'
  <1> USE DEF IInv
  <1> DEFINE i == applied[n] + 1
             t == log[i]
  <1>1. /\ applied[n] < have[n] /\ n \notin aborted
        /\ UNCHANGED <<log, ideal, have, backup, backupTop, saving, snap, installed>>
    BY Zenon DEF on_apply, raft, saved
  <1>2. /\ i \in 1 .. Len(log) /\ applied[n] \in Nat /\ Len(log) \in Nat
        /\ t \in Task /\ db[n] \in KV /\ top[n] \in 0 .. Len(log)
        /\ ideal[i] \in KV /\ Len(ideal) = Len(log) + 1
    BY <1>1 DEF TypeOK
  <1>3. IdealInv' /\ Last' = Last
    BY <1>1, IdealKept
  <1>4. ideal[i + 1] = ApplyTask(ideal[i], t) /\ AssertionHolds(ideal[i], t)
    BY <1>2, Zenon DEF IdealInv
  <1>5. CASE ~ AssertionHolds(db[n], t)
    <2>1. aborted' = aborted \cup {n} /\ UNCHANGED <<db, top, applied>>
      BY <1>5, ZenonT(30) DEF on_apply, disk
    <2>2. n \in installed
      <3> SUFFICES ASSUME n \notin installed PROVE FALSE
        OBVIOUS
      <3>1. Covered(log, ideal[i], db[n], applied[n], top[n])
        BY Zenon DEF ReplayInv
      <3>2. Parent[t.path] \in Path
        BY <1>2, PathAssumption DEF Task
      <3>3. ideal[i][Parent[t.path]] # NotFound => db[n][Parent[t.path]] # NotFound
        BY <3>1, <3>2, Zenon DEF Covered
      <3> QED
        BY <3>3, <1>4, <1>5, SMTT(30) DEF AssertionHolds, ParentAssertion
    <2>3. TypeOK'
      BY <2>1, <1>1, SMTT(30) DEF TypeOK
    <2>4. ReplaySafe' /\ StoredInv' /\ OrderInv' /\ ReplayInv'
      BY <2>1, <2>2, <1>1, <1>3, Zenon
      DEF ReplaySafe, StoredInv, Within, OrderInv, ReplayInv
    <2> QED
      BY <2>3, <2>4, <1>3
  <1>6. CASE AssertionHolds(db[n], t)
    <2> DEFINE kw == ApplyTask(db[n], t)
    <2>1. /\ db' = [db EXCEPT ![n] = kw] /\ top' = [top EXCEPT ![n] = Max(top[n], i)]
          /\ applied' = [applied EXCEPT ![n] = i] /\ UNCHANGED aborted
      BY <1>6, Zenon DEF on_apply
    <2>2. kw \in KV
      BY <1>2, ApplyType, Zenon
    <2> HIDE DEF kw
    <2>3. Max(top[n], i) \in 0 .. Len(log) /\ i <= Max(top[n], i)
      BY <1>2 DEF Max
    <2>4. TypeOK'
      <3>1. db' \in [Node -> KV]
        BY <2>1, <2>2, Zenon DEF TypeOK
      <3>2. top' \in [Node -> 0 .. Len(log)]
        BY <2>1, <2>3, Zenon DEF TypeOK
      <3>3. applied' \in [Node -> 0 .. Len(log)]
        <4>1. i \in 0 .. Len(log)
          BY <1>2
        <4> QED
          BY <2>1, <4>1, Zenon DEF TypeOK
      <3> QED
        BY <2>1, <3>1, <3>2, <3>3, <1>1, Zenon DEF TypeOK
    <2>5. ReplaySafe'
      BY <2>1, <1>1 DEF ReplaySafe
    <2>6. StoredInv'
      <3>1. Within(kw)
        <4> SUFFICES ASSUME NEW p \in Path, kw[p] # NotFound
                     PROVE  Last[p] # NotFound
          BY Zenon DEF Within
        <4>1. db[n][p] # NotFound \/ Stores(t, p)
          BY <1>2, <1>6, ApplyCells, Zenon DEF kw
        <4>2. Stores(t, p) => ideal[i + 1][p] # NotFound
          BY <1>2, <1>4, ApplyCells, Zenon
        <4>3. i + 1 \in 1 .. Len(log) + 1
          BY <1>2
        <4> QED
          BY <4>1, <4>2, <4>3, Zenon DEF StoredInv, Within
      <3>2. \A m \in Node : db'[m] = kw \/ db'[m] = db[m]
        BY <2>1, Zenon DEF TypeOK
      <3> QED
        BY <3>1, <3>2, <1>1, <1>3, ZenonT(40) DEF StoredInv, Within
    <2>7. OrderInv'
      <3> SUFFICES ASSUME NEW m \in Node \ installed
                   PROVE  /\ snap[m] <= applied'[m] /\ saving[m] <= applied'[m]
                          /\ applied'[m] <= top'[m] /\ top'[m] <= have[m]
        BY <1>1, Zenon DEF OrderInv
      <3>1. CASE m = n
        <4>1. applied'[n] = i /\ top'[n] = Max(top[n], i)
          BY <2>1, Zenon DEF TypeOK
        <4>2. /\ snap[n] <= applied[n] /\ saving[n] <= applied[n]
              /\ applied[n] <= top[n] /\ top[n] <= have[n]
          BY <3>1, Zenon DEF OrderInv
        <4> QED
          BY <3>1, <4>1, <4>2, <1>1, Numbers DEF Max
      <3>2. CASE m # n
        BY <3>2, <2>1, Zenon DEF OrderInv, TypeOK
      <3> QED
        BY <3>1, <3>2, Zenon
    <2>8. ReplayInv'
      <3> SUFFICES ASSUME NEW m \in Node \ installed
                   PROVE  /\ Covered(log, ideal[applied'[m] + 1], db'[m], applied'[m], top'[m])
                          /\ Covered(log, ideal[snap[m] + 1], db'[m], snap[m], top'[m])
                          /\ snap[m] > 0 =>
                               Covered(log, ideal[snap[m] + 1], backup[m], snap[m], backupTop[m])
                          /\ saving[m] > 0 =>
                               /\ Covered(log, ideal[saving[m] + 1], db'[m], saving[m], top'[m])
                               /\ Covered(log, ideal[saving[m] + 1], backup[m], saving[m], backupTop[m])
        BY <1>1, SMTT(30) DEF ReplayInv
      <3>1. CASE m # n
        <4>1. applied'[m] = applied[m] /\ db'[m] = db[m] /\ top'[m] = top[m]
          BY <3>1, <2>1, Zenon DEF TypeOK
        <4> QED
          BY <4>1, Zenon DEF ReplayInv
      <3>2. CASE m = n
        <4>1. applied'[n] = i /\ db'[n] = kw /\ top'[n] = Max(top[n], i)
          BY <2>1, Zenon DEF TypeOK
        <4>2. ASSUME NEW s \in Nat, s <= applied[n],
                     Covered(log, ideal[s + 1], db[n], s, top[n])
              PROVE  Covered(log, ideal[s + 1], kw, s, Max(top[n], i))
          <5>1. s + 1 \in 1 .. Len(ideal) /\ s < i /\ i \in Nat /\ top[n] \in Nat
            BY <4>2, <1>2, SMTT(30)
          <5>2. ideal[s + 1] \in KV
            BY <5>1 DEF TypeOK
          <5>3. /\ log[i] \in Task /\ AssertionHolds(db[n], log[i]) /\ db[n] \in KV
                /\ kw = ApplyTask(db[n], log[i])
            BY <1>2, <1>6, Zenon DEF kw
          <5> HIDE DEF i, t
          <5> QED
            BY <5>1, <5>2, <5>3, <4>2, CoveredLater, Zenon
        <4>3. Covered(log, ideal[i + 1], kw, i, Max(top[n], i))
          <5>1. Covered(log, ideal[i], db[n], applied[n], top[n])
            BY <3>2, Zenon DEF ReplayInv
          <5> DEFINE past == ideal[i]
                     k == applied[n]
          <5>2. /\ past \in KV /\ k \in Nat /\ top[n] \in Nat /\ db[n] \in KV
                /\ log[k + 1] \in Task /\ AssertionHolds(db[n], log[k + 1])
                /\ AssertionHolds(past, log[k + 1])
                /\ kw = ApplyTask(db[n], log[k + 1])
                /\ ideal[i + 1] = ApplyTask(past, log[k + 1])
                /\ Covered(log, past, db[n], k, top[n])
            BY <5>1, <1>2, <1>4, <1>6, SMTT(30) DEF kw
          <5> HIDE DEF past, k
          <5>3. Covered(log, ApplyTask(past, log[k + 1]),
                        ApplyTask(db[n], log[k + 1]), k + 1, Max(top[n], k + 1))
            BY <5>2, CoveredNext, Zenon
          <5> QED
            BY <5>2, <5>3, Zenon DEF k
        <4>4. /\ snap[n] \in Nat /\ snap[n] <= applied[n]
              /\ saving[n] \in Nat /\ saving[n] <= applied[n]
          BY <3>2 DEF OrderInv, TypeOK
        <4> QED
          BY <3>2, <4>1, <4>2, <4>3, <4>4, Zenon DEF ReplayInv
      <3> QED
        BY <3>1, <3>2, Zenon
    <2> QED
      BY <2>4, <2>5, <2>6, <2>7, <2>8, <1>3
  <1> QED
    BY <1>5, <1>6, Zenon

\* on_snapshot_save: the backup covers what the database covers.
LEMMA SaveHolds ==
  ASSUME IInv, NEW n \in Node, on_snapshot_save(n)
  PROVE  IInv'
  <1> USE DEF IInv
  <1>1. /\ backup' = [backup EXCEPT ![n] = db[n]]
        /\ backupTop' = [backupTop EXCEPT ![n] = top[n]]
        /\ saving' = [saving EXCEPT ![n] = applied[n]]
        /\ UNCHANGED <<log, ideal, have, applied, db, top, snap, installed, aborted>>
    BY Zenon DEF on_snapshot_save, raft, disk
  <1>2. IdealInv' /\ Last' = Last
    BY <1>1, IdealKept, Zenon
  <1>3. TypeOK'
    BY <1>1, Zenon DEF TypeOK
  <1>4. ReplaySafe'
    BY <1>1, Zenon DEF ReplaySafe
  <1>5. \A m \in Node : IF m = n
          THEN backup'[m] = db[m] /\ backupTop'[m] = top[m] /\ saving'[m] = applied[m]
          ELSE backup'[m] = backup[m] /\ backupTop'[m] = backupTop[m]
                 /\ saving'[m] = saving[m]
    BY <1>1, ZenonT(30) DEF TypeOK
  <1>6. StoredInv'
    BY <1>1, <1>2, <1>5, StoredKept, Zenon
  <1>7. db[n] # None
    BY NoneAssumption, Zenon DEF TypeOK
  <1>8. OrderInv'
    <2> SUFFICES ASSUME NEW m \in Node \ installed
                 PROVE  /\ saving'[m] <= applied[m] /\ backupTop'[m] <= have[m]
                        /\ snap[m] > 0 => backup'[m] # None /\ snap[m] <= backupTop'[m]
                        /\ saving'[m] > 0 => backup'[m] # None /\ saving'[m] <= backupTop'[m]
      BY <1>1, Zenon DEF OrderInv
    <2>1. CASE m = n
      <3>1. snap[n] <= applied[n] /\ applied[n] <= top[n] /\ top[n] <= have[n]
        BY <2>1, Zenon DEF OrderInv
      <3> QED
        BY <1>5, <1>7, <2>1, <3>1, Numbers, SMTT(30)
    <2>2. CASE m # n
      BY <1>5, <2>2, Zenon DEF OrderInv
    <2> QED
      BY <2>1, <2>2, Zenon
  <1>9. ReplayInv'
    BY <1>1, <1>5, Zenon DEF ReplayInv
  <1> QED
    BY <1>2, <1>3, <1>4, <1>6, <1>8, <1>9, Zenon

\* The recorded snapshot is the one whose backup covers its index.
LEMMA SavedHolds ==
  ASSUME IInv, NEW n \in Node, SnapshotSaved(n)
  PROVE  IInv'
  <1> USE DEF IInv
  <1>1. /\ saving[n] > 0
        /\ snap' = [snap EXCEPT ![n] = saving[n]]
        /\ saving' = [saving EXCEPT ![n] = 0]
        /\ UNCHANGED <<log, ideal, have, applied, db, top, backup, backupTop,
                       installed, aborted>>
    BY DEF SnapshotSaved, raft, disk
  <1>2. IdealInv' /\ Last' = Last
    BY <1>1, IdealKept, Zenon
  <1>3. TypeOK'
    <2>1. 0 \in 0 .. Len(log)
      BY DEF TypeOK
    <2> QED
      BY <1>1, <2>1, Zenon DEF TypeOK
  <1>4. ReplaySafe' /\ StoredInv'
    BY <1>1, <1>2, Zenon DEF ReplaySafe, StoredInv, Within
  <1>5. \A m \in Node : IF m = n THEN snap'[m] = saving[m] /\ saving'[m] = 0
                        ELSE snap'[m] = snap[m] /\ saving'[m] = saving[m]
    BY <1>1, Zenon DEF TypeOK
  <1>6. OrderInv'
    <2> SUFFICES ASSUME NEW m \in Node \ installed
                 PROVE  /\ snap'[m] <= applied[m] /\ saving'[m] <= applied[m]
                        /\ snap'[m] > 0 => backup[m] # None /\ snap'[m] <= backupTop[m]
                        /\ saving'[m] > 0 => backup[m] # None /\ saving'[m] <= backupTop[m]
      BY <1>1, Zenon DEF OrderInv
    <2>1. CASE m = n
      <3>1. /\ saving[n] <= applied[n] /\ backup[n] # None
            /\ saving[n] <= backupTop[n]
        BY <1>1, <2>1, Zenon DEF OrderInv
      <3> QED
        BY <1>5, <2>1, <3>1, Numbers
    <2>2. CASE m # n
      BY <1>5, <2>2, Zenon DEF OrderInv
    <2> QED
      BY <2>1, <2>2, Zenon
  <1>7. ReplayInv'
    BY <1>1, <1>5, SMTT(30) DEF ReplayInv
  <1> QED
    BY <1>2, <1>3, <1>4, <1>6, <1>7

\* What load_snapshot does to each node.
LEMMA LoadCases ==
  ASSUME TypeOK, NEW n \in Node, load_snapshot(n)
  PROVE  /\ backup[n] = None => /\ aborted' = aborted \cup {n}
                                /\ UNCHANGED <<db, top>>
         /\ backup[n] # None =>
              /\ UNCHANGED aborted
              /\ db' = [db EXCEPT ![n] = backup[n]]
              /\ top' = [top EXCEPT ![n] = backupTop[n]]
  BY Zenon DEF load_snapshot, disk

\* A restart goes back to an index that the database, or the backup put in
\* its place, covers.
LEMMA RestartHolds ==
  ASSUME IInv, NEW n \in Node, Restart(n)
  PROVE  IInv'
  <1> USE DEF IInv
  <1>1. /\ saving' = [saving EXCEPT ![n] = 0]
        /\ applied' = [applied EXCEPT ![n] = snap[n]]
        /\ UNCHANGED <<log, ideal, have, backup, backupTop, snap, installed>>
        /\ n \notin aborted
    BY DEF Restart, raft
  <1>2. IdealInv' /\ Last' = Last
    BY <1>1, IdealKept, Zenon
  <1>3. \A m \in Node : IF m = n THEN applied'[m] = snap[m] /\ saving'[m] = 0
                        ELSE applied'[m] = applied[m] /\ saving'[m] = saving[m]
    BY <1>1 DEF TypeOK
  <1>4. CASE ~ (snap[n] > 0)
    <2>1. UNCHANGED <<db, top, aborted>>
      BY <1>4, Zenon DEF Restart, disk
    <2>2. TypeOK'
      BY <1>1, <2>1, SMTT(30) DEF TypeOK
    <2>3. ReplaySafe' /\ StoredInv'
      BY <1>1, <1>2, <2>1, Zenon DEF ReplaySafe, StoredInv, Within
    <2>4. OrderInv'
      BY <1>1, <1>3, <2>1 DEF OrderInv, TypeOK
    <2>5. ReplayInv'
      <3>1. ReplayInv
        OBVIOUS
      <3>2. UNCHANGED <<log, ideal, snap, backup, backupTop, installed>> /\ ~ (0 > 0)
        BY <1>1
      <3> HIDE DEF IInv
      <3> QED
        BY <1>3, <2>1, <3>1, <3>2, Zenon DEF ReplayInv
    <2> QED
      BY <1>2, <2>2, <2>3, <2>4, <2>5
  <1>5. CASE snap[n] > 0 /\ backup[n] = None
    <2>1. aborted' = aborted \cup {n} /\ UNCHANGED <<db, top>>
      BY <1>5, LoadCases, Zenon DEF Restart
    <2>2. n \in installed
      BY <1>5, Zenon DEF OrderInv
    <2>3. TypeOK'
      BY <1>1, <2>1, SMTT(30) DEF TypeOK
    <2>4. ReplaySafe' /\ StoredInv'
      BY <1>1, <1>2, <2>1, <2>2, Zenon DEF ReplaySafe, StoredInv, Within
    <2>5. OrderInv' /\ ReplayInv'
      BY <1>1, <1>3, <2>1, <2>2, Zenon DEF OrderInv, ReplayInv
    <2> QED
      BY <1>2, <2>3, <2>4, <2>5
  <1>6. CASE snap[n] > 0 /\ backup[n] # None
    <2>1. /\ UNCHANGED aborted /\ db' = [db EXCEPT ![n] = backup[n]]
          /\ top' = [top EXCEPT ![n] = backupTop[n]]
      BY <1>6, LoadCases, Zenon DEF Restart
    <2>2. \A m \in Node : IF m = n THEN db'[m] = backup[m] /\ top'[m] = backupTop[m]
                          ELSE db'[m] = db[m] /\ top'[m] = top[m]
      BY <2>1, Zenon DEF TypeOK
    <2>3. TypeOK'
      BY <1>1, <1>6, <2>1, SMTT(30) DEF TypeOK
    <2>4. ReplaySafe' /\ StoredInv'
      <3>1. ReplaySafe'
        BY <1>1, <2>1, Zenon DEF ReplaySafe
      <3> QED
        BY <1>1, <1>2, <1>6, <2>2, <3>1, StoredKept, Zenon
    <2>5. OrderInv'
      <3> SUFFICES ASSUME NEW m \in Node \ installed
                   PROVE  /\ snap[m] <= applied'[m] /\ saving'[m] <= applied'[m]
                          /\ applied'[m] <= top'[m] /\ top'[m] <= have[m]
                          /\ saving'[m] > 0 => backup[m] # None /\ saving'[m] <= backupTop[m]
        BY <1>1, Zenon DEF OrderInv
      <3>1. CASE m = n
        <4>1. snap[n] <= backupTop[n] /\ backupTop[n] <= have[n]
          BY <1>6, <3>1, Zenon DEF OrderInv
        <4> QED
          BY <1>3, <2>2, <3>1, <4>1, Numbers
      <3>2. CASE m # n
        BY <1>3, <2>2, <3>2, Zenon DEF OrderInv
      <3> QED
        BY <3>1, <3>2, Zenon
    <2>6. ReplayInv'
      <3>1. ReplayInv
        OBVIOUS
      <3>2. UNCHANGED <<log, ideal, snap, backup, backupTop, installed>> /\ ~ (0 > 0)
        BY <1>1
      <3> HIDE DEF IInv
      <3> QED
        BY <1>3, <1>6, <2>2, <3>1, <3>2, Zenon DEF ReplayInv
    <2> QED
      BY <1>2, <2>3, <2>4, <2>5, <2>6
  <1> QED
    BY <1>4, <1>5, <1>6, SMTT(30)

\* A snapshot from another node takes its receiver out of the claim.
LEMMA InstallHolds ==
  ASSUME IInv, NEW m \in Node, NEW n \in Node, InstallSnapshot(m, n)
  PROVE  IInv'
  <1> USE DEF IInv
  <1>1. /\ have' = [have EXCEPT ![n] = snap[m]]
        /\ applied' = [applied EXCEPT ![n] = snap[m]]
        /\ snap' = [snap EXCEPT ![n] = snap[m]]
        /\ installed' = installed \cup {n}
        /\ UNCHANGED <<log, ideal, backup, backupTop, saving>>
        /\ load_snapshot(n)
    BY Zenon DEF InstallSnapshot
  <1>2. IdealInv' /\ Last' = Last
    BY <1>1, IdealKept
  <1>3. /\ aborted' \subseteq aborted \cup {n}
        /\ db' = db \/ (backup[n] # None /\ db' = [db EXCEPT ![n] = backup[n]])
        /\ top' = top \/ top' = [top EXCEPT ![n] = backupTop[n]]
    BY <1>1, LoadCases, Zenon
  <1>4. TypeOK'
    BY <1>1, <1>3, ZenonT(30) DEF TypeOK
  <1>5. ReplaySafe'
    BY <1>1, <1>3, Zenon DEF ReplaySafe
  <1>6. \A k \in Node : db'[k] = db[k] \/ (backup[k] # None /\ db'[k] = backup[k])
    BY <1>3, Zenon DEF TypeOK
  <1>7. StoredInv'
    BY <1>1, <1>2, <1>6, StoredKept, Zenon
  <1>8. \A k \in Node \ installed' :
          /\ have'[k] = have[k] /\ applied'[k] = applied[k] /\ snap'[k] = snap[k]
          /\ db'[k] = db[k] /\ top'[k] = top[k] /\ k \in Node \ installed
    BY <1>1, <1>3, Zenon DEF TypeOK
  <1>9. OrderInv'
    BY <1>1, <1>8, Zenon DEF OrderInv
  <1>10. ReplayInv'
    BY <1>1, <1>8, Zenon DEF ReplayInv
  <1> QED
    BY <1>2, <1>4, <1>5, <1>7, <1>9, <1>10

-----------------------------------------------------------------------------
(* The theorems.                                                           *)

\* Every step keeps the invariant of the replay (raft_nn.cpp on_apply,
\* on_snapshot_save and on_snapshot_load, and the restart of the process).
THEOREM Invariance == Spec => []IInv
  <1>1. IInv /\ [Next]_vars => IInv'
    <2> SUFFICES ASSUME IInv, [Next]_vars PROVE IInv'
      OBVIOUS
    <2>1. CASE Next
      BY <2>1, SubmitHolds, ReceiveHolds, ApplyHolds, SaveHolds, SavedHolds,
         RestartHolds, InstallHolds DEF Next
    <2>2. CASE UNCHANGED vars
      <3>1. UNCHANGED <<log, ideal, have, applied, db, top, backup, backupTop,
                        saving, snap, installed, aborted>>
        BY <2>2, Zenon DEF vars, raft, disk, saved
      <3>2. IdealInv' /\ Last' = Last
        BY <3>1, IdealKept
      <3> QED
        BY <3>1, <3>2, Zenon
        DEF IInv, TypeOK, ReplaySafe, StoredInv, Within, OrderInv, ReplayInv
    <2> QED
      BY <2>1, <2>2
  <1> QED
    BY <1>1, InitHolds, PTL DEF Spec

\* The state of the replicas keeps its type.
THEOREM TypeCorrect == Spec => []TypeOK
  <1>1. IInv => TypeOK
    BY DEF IInv
  <1> QED
    BY <1>1, Invariance, PTL

\* RocksDB on disk and a log that is replayed from the last snapshot, or
\* from its first entry, need no record of the last applied entry: a node
\* that was sent no snapshot ends with what its entries say.
THEOREM Converges == Spec => []ReplayConverges
  <1>1. IInv => ReplayConverges
    <2> SUFFICES ASSUME IInv, NEW n \in Node \ (installed \cup aborted),
                        applied[n] >= top[n]
                 PROVE  db[n] = ideal[applied[n] + 1]
      BY Zenon DEF ReplayConverges
    <2>1. /\ applied[n] \in Nat /\ top[n] \in Nat /\ db[n] \in KV
          /\ ideal[applied[n] + 1] \in KV
      BY DEF IInv, TypeOK
    <2>2. Covered(log, ideal[applied[n] + 1], db[n], applied[n], top[n])
      BY DEF IInv, ReplayInv
    <2> QED
      BY <2>1, <2>2, CoveredDone, Zenon
  <1> QED
    BY <1>1, Invariance, PTL

\* The assertions of get_parent_inode and load_snapshot fail on no node
\* that was sent no snapshot, however often it restarts.
THEOREM Safe == Spec => []ReplaySafe
  <1>1. IInv => ReplaySafe
    BY DEF IInv
  <1> QED
    BY <1>1, Invariance, PTL
=============================================================================
