-------------------------- MODULE BlockCacheProofs --------------------------
(***************************************************************************)
(* Proofs about BlockCache, for any number of threads.  The three results  *)
(* rest on one invariant: who is between lock and unlock holds the lock,   *)
(* and the state of the block file follows from where the holder is.       *)
(***************************************************************************)
EXTENDS BlockCache, TLAPS

\* Between PathLocks::write_lock and PathLocks::unlock.
Locked == {"look again", "read again", "open", "pull", "write", "close", "unlock", "failed"}

\* The holder of the lock is the one thread there, and it has an entry.
HolderInv ==
    \A t \in Thread :
        /\ pc[t] \in Locked => holder = t
        /\ pc[t] \in Locked \cup {"waiting"} => locks

\* What a thread knows of the file and of its block where it is.
ThreadKnows ==
    \A t \in Thread :
        /\ pc[t] \in {"read", "read again"} => HasData
        /\ pc[t] \in {"open", "pull", "write"} => ~ HasData
        /\ pc[t] = "write" => block[t] = "whole"
        /\ pc[t] = "close" => \/ block[t] = "empty" /\ ~ HasData
                              \/ block[t] = "whole" /\ file = "part"
        /\ pc[t] = "unlock" => block[t] # "part"

\* A block file that is written in part has somebody to write the rest.
PartInv ==
    file = "part" => \E t \in Thread : pc[t] = "close"

IInv == TypeOK /\ HolderInv /\ ThreadKnows /\ PartInv

\* The invariant holds when no thread has started.
LEMMA InitHolds == Init => IInv
  BY Zenon DEF Init, IInv, TypeOK, HolderInv, ThreadKnows, PartInv, Locked, HasData

\* A thread that holds the lock is the only one that can be in Locked.
LEMMA OneHolder ==
    ASSUME HolderInv, NEW t \in Thread, NEW u \in Thread,
           pc[t] \in Locked, pc[u] \in Locked
    PROVE  t = u
  BY DEF HolderInv

\* The type invariant is kept by every step of every thread.
LEMMA TypeKept ==
    ASSUME TypeOK, ThreadKnows, NEW t \in Thread, read_data(t) \/ ReadAgain(t)
    PROVE  TypeOK'
  <1>1. CASE Look(t) BY <1>1 DEF Look, Goto, TypeOK, HasData
  <1>2. CASE ReadFile(t) BY <1>2 DEF ReadFile, Goto, TypeOK, ThreadKnows, HasData
  <1>3. CASE WriteLock(t) BY <1>3 DEF WriteLock, Goto, TypeOK
  <1>4. CASE Acquire(t) BY <1>4 DEF Acquire, Goto, TypeOK
  <1>5. CASE LookAgain(t) BY <1>5 DEF LookAgain, Goto, TypeOK, HasData
  <1>6. CASE OpenFile(t) BY <1>6 DEF OpenFile, Goto, TypeOK
  <1>7. CASE OpenFails(t) BY <1>7 DEF OpenFails, Goto, TypeOK
  <1>8. CASE Pull(t) BY <1>8 DEF Pull, Goto, TypeOK
  <1>9. CASE WritePart(t) BY <1>9 DEF WritePart, Goto, TypeOK
  <1>10. CASE CloseFile(t) BY <1>10 DEF CloseFile, Goto, TypeOK
  <1>11. CASE Unlock(t) BY <1>11 DEF Unlock, Goto, TypeOK
  <1>12. CASE ReadAgain(t) BY <1>12 DEF ReadAgain, Goto, TypeOK
  <1>13. QED
    BY <1>1, <1>2, <1>3, <1>4, <1>5, <1>6, <1>7, <1>8, <1>9, <1>10, <1>11, <1>12
    DEF read_data

\* Every step of read_data keeps the invariant.
LEMMA StepHolds ==
    ASSUME IInv, NEW t \in Thread, read_data(t) \/ ReadAgain(t)
    PROVE  IInv'
  <1> USE ThreadAssumption DEF IInv, Goto, Locked
  <1>0. TypeOK' BY TypeKept
  <1>1. CASE Look(t)
    <2>1. HolderInv'
      BY <1>0, <1>1 DEF Look, TypeOK, HolderInv
    <2>2. ThreadKnows'
      BY <1>0, <1>1 DEF Look, TypeOK, HolderInv, ThreadKnows, HasData
    <2>3. PartInv'
      BY <1>0, <1>1 DEF Look, TypeOK, HolderInv, ThreadKnows, PartInv, HasData
    <2>4. QED BY <1>0, <2>1, <2>2, <2>3
  <1>11. CASE WriteLock(t)
    <2>1. HolderInv'
      BY <1>0, <1>11 DEF WriteLock, TypeOK, HolderInv
    <2>2. ThreadKnows'
      BY <1>0, <1>11 DEF WriteLock, TypeOK, HolderInv, ThreadKnows, HasData
    <2>3. PartInv'
      BY <1>0, <1>11 DEF WriteLock, TypeOK, HolderInv, ThreadKnows, PartInv, HasData
    <2>4. QED BY <1>0, <2>1, <2>2, <2>3
  <1>12. CASE OpenFails(t)
    <2>1. HolderInv'
      BY <1>0, <1>12 DEF OpenFails, TypeOK, HolderInv
    <2>2. ThreadKnows'
      BY <1>0, <1>12 DEF OpenFails, TypeOK, HolderInv, ThreadKnows, HasData
    <2>3. PartInv'
      BY <1>0, <1>12 DEF OpenFails, TypeOK, HolderInv, ThreadKnows, PartInv, HasData
    <2>4. QED BY <1>0, <2>1, <2>2, <2>3
  <1>13. CASE ReadAgain(t)
    <2>1. HolderInv'
      BY <1>0, <1>13 DEF ReadAgain, TypeOK, HolderInv
    <2>2. ThreadKnows'
      BY <1>0, <1>13 DEF ReadAgain, TypeOK, HolderInv, ThreadKnows, HasData
    <2>3. PartInv'
      BY <1>0, <1>13 DEF ReadAgain, TypeOK, HolderInv, ThreadKnows, PartInv, HasData
    <2>4. QED BY <1>0, <2>1, <2>2, <2>3
  <1>2. CASE ReadFile(t)
    <2>1. pc[t] = "read again" => file # "part"
      BY OneHolder DEF PartInv
    <2>2. CASE Goto(t, "read", "done")
      BY <1>0, <1>2, <2>2 DEF ReadFile, TypeOK, HolderInv, ThreadKnows, PartInv, HasData
    <2>3. CASE Goto(t, "read again", "unlock")
      <3>1. block'[t] # "part"
        BY <1>2, <2>1, <2>3 DEF ReadFile, TypeOK
      <3>2. pc[t] = "read again" /\ UNCHANGED <<file, locks, holder>>
        BY <1>2, <2>3 DEF ReadFile
      <3>3. /\ pc'[t] = "unlock"
            /\ \A u \in Thread : u # t => pc'[u] = pc[u] /\ block'[u] = block[u]
        BY <1>2, <2>3 DEF ReadFile, TypeOK
      <3>4. HolderInv'
        BY <3>2, <3>3 DEF HolderInv
      <3>5. ThreadKnows'
        BY <3>1, <3>2, <3>3 DEF ThreadKnows, HasData
      <3>6. PartInv'
        BY <3>2, <3>3 DEF PartInv
      <3>7. QED BY <1>0, <3>4, <3>5, <3>6
    <2>4. QED BY <1>2, <2>2, <2>3 DEF ReadFile
  <1>3. CASE Acquire(t)
    <2>1. HolderInv'
      BY <1>0, <1>3 DEF Acquire, TypeOK, HolderInv
    <2>2. ThreadKnows'
      BY <1>0, <1>3 DEF Acquire, TypeOK, HolderInv, ThreadKnows, HasData
    <2>3. PartInv'
      BY <1>0, <1>3 DEF Acquire, TypeOK, HolderInv, ThreadKnows, PartInv, HasData
    <2>4. QED BY <1>0, <2>1, <2>2, <2>3
  <1>4. CASE LookAgain(t)
    <2>1. HolderInv'
      BY <1>0, <1>4 DEF LookAgain, TypeOK, HolderInv
    <2>2. ThreadKnows'
      BY <1>0, <1>4 DEF LookAgain, TypeOK, HolderInv, ThreadKnows, HasData
    <2>3. PartInv'
      BY <1>0, <1>4 DEF LookAgain, TypeOK, HolderInv, ThreadKnows, PartInv, HasData
    <2>4. QED BY <1>0, <2>1, <2>2, <2>3
  <1>5. CASE OpenFile(t)
    <2>1. HolderInv'
      BY <1>0, <1>5, OneHolder DEF OpenFile, TypeOK, HolderInv
    <2>2. ThreadKnows'
      BY <1>0, <1>5, OneHolder DEF OpenFile, TypeOK, HolderInv, ThreadKnows, HasData
    <2>3. PartInv'
      BY <1>0, <1>5, OneHolder DEF OpenFile, TypeOK, HolderInv, ThreadKnows, PartInv, HasData
    <2>4. QED BY <1>0, <2>1, <2>2, <2>3
  <1>6. CASE Pull(t)
    <2>0. PICK b \in {"empty", "whole"} :
            /\ Goto(t, "pull", IF b = "empty" THEN "close" ELSE "write")
            /\ block' = [block EXCEPT ![t] = b]
      BY <1>6, Zenon DEF Pull
    <2>1. pc[t] = "pull" /\ UNCHANGED <<file, locks, holder>>
      BY <1>6, <2>0 DEF Pull
    <2>2. /\ pc'[t] = IF b = "empty" THEN "close" ELSE "write"
          /\ block'[t] = b
          /\ \A u \in Thread : u # t => pc'[u] = pc[u] /\ block'[u] = block[u]
      BY <2>0 DEF TypeOK
    <2>3. HolderInv'
      BY <2>1, <2>2 DEF HolderInv
    <2>4. ThreadKnows'
      BY <2>1, <2>2 DEF ThreadKnows, HasData
    <2>5. PartInv'
      BY <2>1, <2>2 DEF PartInv
    <2>6. QED BY <1>0, <2>3, <2>4, <2>5
  <1>7. CASE WritePart(t)
    <2>1. pc[t] = "write" /\ file' = "part" /\ UNCHANGED <<locks, holder, block>>
      BY <1>7 DEF WritePart
    <2>2. pc'[t] = "close" /\ \A u \in Thread : u # t => pc'[u] = pc[u]
      BY <1>7 DEF WritePart, TypeOK
    <2>3. \A u \in Thread : u # t => pc[u] \notin Locked
      BY <2>1, OneHolder
    <2>4. HolderInv'
      BY <2>1, <2>2 DEF HolderInv
    <2>5. ThreadKnows'
      BY <2>1, <2>2, <2>3 DEF ThreadKnows, HasData
    <2>6. PartInv'
      BY <2>2, Zenon DEF PartInv
    <2>7. QED BY <1>0, <2>4, <2>5, <2>6
  <1>8. CASE CloseFile(t)
    <2>1. /\ pc[t] = "close" /\ UNCHANGED <<locks, holder, block>>
          /\ file' = IF block[t] = "whole" THEN "whole" ELSE file
      BY <1>8 DEF CloseFile
    <2>2. pc'[t] = "unlock" /\ \A u \in Thread : u # t => pc'[u] = pc[u]
      BY <1>8 DEF CloseFile, TypeOK
    <2>3. \A u \in Thread : u # t => pc[u] \notin Locked
      BY <2>1, OneHolder
    <2>4. HolderInv'
      BY <2>1, <2>2 DEF HolderInv
    <2>5. block[t] # "part" /\ file' # "part" /\ (HasData => HasData')
      BY <2>1 DEF ThreadKnows, HasData
    <2>6. ThreadKnows'
      BY <2>1, <2>2, <2>3, <2>5 DEF ThreadKnows
    <2>7. PartInv'
      BY <2>5, Zenon DEF PartInv
    <2>8. QED BY <1>0, <2>4, <2>6, <2>7
  <1>9. CASE Unlock(t)
    <2>1. HolderInv'
      BY <1>0, <1>9, OneHolder DEF Unlock, TypeOK, HolderInv
    <2>2. ThreadKnows'
      BY <1>0, <1>9, OneHolder DEF Unlock, TypeOK, HolderInv, ThreadKnows, HasData
    <2>3. PartInv'
      BY <1>0, <1>9, OneHolder DEF Unlock, TypeOK, HolderInv, ThreadKnows, PartInv, HasData
    <2>4. QED BY <1>0, <2>1, <2>2, <2>3
  <1>10. QED
    BY <1>1, <1>2, <1>3, <1>4, <1>5, <1>6, <1>7, <1>8, <1>9, <1>11, <1>12, <1>13
    DEF read_data

\* The inductive invariant: read_data and PathLocks keep the lock, its
\* holder and the block file in step.
THEOREM Invariance == Spec => []IInv
  <1>1. IInv /\ [Next]_vars => IInv'
    <2> SUFFICES ASSUME IInv, [Next]_vars PROVE IInv'
      OBVIOUS
    <2>1. CASE Next
      BY <2>1, StepHolds DEF Next
    <2>2. CASE UNCHANGED vars
      BY <2>2 DEF vars, IInv, TypeOK, HolderInv, ThreadKnows, PartInv, HasData
    <2>3. QED BY <2>1, <2>2
  <1>2. QED BY InitHolds, <1>1, PTL DEF Spec

\* What a thread has read when it comes to unlock is a whole block, or the
\* empty one that decode_one returns: for any number of threads nobody
\* writes the block file while another thread reads it under the lock.
THEOREM WholeUnderLock == Spec => []LockedReadsAreWhole
  <1>1. IInv => LockedReadsAreWhole
    BY DEF IInv, ThreadKnows, LockedReadsAreWhole
  <1>2. QED BY Invariance, <1>1, PTL

\* The second look of read_data, under the lock, is enough: for any number
\* of threads a block file with data is never truncated.
THEOREM PulledOnce == Spec => NeverPulledTwice
  <1>1. IInv /\ [Next]_vars => [HasData => HasData']_vars
    <2> SUFFICES ASSUME IInv, NEW t \in Thread, read_data(t) \/ ReadAgain(t), HasData
                 PROVE  HasData'
      BY DEF Next
    <2>1. pc[t] \notin {"open", "pull", "write"}
      BY DEF IInv, ThreadKnows
    <2>2. QED
      BY <2>1 DEF IInv, TypeOK, read_data, Look, ReadFile, WriteLock, Acquire, LookAgain,
                  OpenFile, OpenFails, Pull, WritePart, CloseFile, Unlock, ReadAgain, Goto,
                  HasData
  <1>2. QED BY Invariance, <1>1, PTL DEF Spec, NeverPulledTwice

\* Type correctness of the lock, the block file and the threads.
THEOREM TypeCorrect == Spec => []TypeOK
  <1>1. IInv => TypeOK
    BY DEF IInv
  <1>2. QED BY Invariance, <1>1, PTL
=============================================================================
