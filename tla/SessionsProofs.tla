--------------------------- MODULE SessionsProofs ---------------------------
(***************************************************************************)
(* Proofs about Sessions, for any number of clients, threads, calls and    *)
(* lost RPCs: what the path lock says, that the deadline of an open file   *)
(* does not run out, why a process ends, and that the counts stay in their *)
(* bounds.                                                                 *)
(*                                                                         *)
(* Every step of a thread is first summed up: Effect says what it does to  *)
(* its own client and leaves alone elsewhere, WorldEffect what it does to  *)
(* the file.  The invariant is then shown to survive any such step.        *)
(***************************************************************************)
EXTENDS Sessions, FiniteSetTheorems, TLAPS

-----------------------------------------------------------------------------
(* The inductive invariant.                                                *)

ThreadState == [op : Op, pc : Pc, again : BOOLEAN, req : Ino \cup {None}]

TimerState == [pc : {"run", "done"}, tries : 0 .. 3, req : Ino \cup {None}]

Shape ==
    /\ file \in Ino
    /\ slave \in [valid : BOOLEAN, size : 0 .. 1]
    /\ thr \in [Thread -> ThreadState]
    /\ timer \in [Client -> TimerState]
    /\ alive \in [Client -> BOOLEAN]
    /\ remote \in [Client -> BOOLEAN]
    /\ plock \in [Client -> Int]
    /\ trouble \in [Client -> SUBSET Trouble]
    /\ fails \in Nat
    /\ cleared \in BOOLEAN /\ removed \in BOOLEAN

\* Where a thread can be in its operation.
PlaceOf(r) ==
    /\ r.pc \in {"put", "put_lock", "encode", "put_ok"} => r.op \in {"create", "put"}
    /\ r.pc = "rm" => r.op = "rm"
    /\ r.pc \in {"write_lock", "lock_remote", "shrink"} =>
         r.op \in {"create", "open_w", "open_trunc", "truncate"}
    /\ r.pc = "read_lock" => r.op = "open_r"
    /\ r.pc \in {"update", "open", "fsync", "close"} => r.op \notin {"put", "rm"}

\* What an entry that waits to be applied says.
RequestOf(r) ==
    r.req # None =>
        /\ r.pc \in Rpcs
        /\ r.pc = "rm" => ~ r.req.valid
        /\ r.pc # "rm" => r.req.valid
        /\ r.pc \notin PutOks \cup {"rm"} => r.req.ddl = LockTicks

PlaceInv ==
    /\ \A t \in Thread : PlaceOf(thr[t]) /\ RequestOf(thr[t])
    /\ \A c \in Client : timer[c].req # None =>
         timer[c].req.valid /\ timer[c].req.ddl = LockTicks

LockOf(c) ==
    LET S == Sessions(c)
        W == {t \in S : Writer(t)}
    IN
    IF W # {} THEN plock[c] = Locked /\ Cardinality(S) = 1
    ELSE Readers(c) = Cardinality(S)

LockInv == \A c \in Client : Sound(c) => LockOf(c)

\* A session of a reader.
Reads(t) == thr[t].op = "open_r" /\ Holds(t)

Reading(c) == {t \in Thread : owner[t] = c /\ Reads(t)}

\* However its locks have been mistreated, a process that goes on counts no
\* more readers than it has.
ReaderInv ==
    \A c \in Client :
        /\ plock[c] >= Absent /\ plock[c] <= Cardinality(Thread)
        /\ Running(c) => plock[c] <= Cardinality(Reading(c))

\* The file has been there.
Created == file.valid \/ removed

CauseInv ==
    /\ slave.valid => Created
    /\ \A c \in Client : remote[c] => Created
    /\ \A t \in Thread : thr[t].pc # "idle" /\ thr[t].op \in Opens =>
         Created /\ (slave.valid \/ removed)
    /\ \A t \in Thread : thr[t].again => fails > 0
    /\ \A c \in Client :
         removed \/ timer[c].tries <= fails \/ "empty_refresh" \in trouble[c]
    /\ EndsForCause

\* Places where a file is open for writing and recorded in remoteLocks.
Recorded == {"update", "shrink", "open", "fsync", "close"}

Kept(c) == Sound(c) /\ trouble[c] \cap {"dropped", "swallowed"} = {}

Fresh(c) ==
    file.valid /\ ~ cleared =>
        \/ file.ddl = LockTicks
        \/ file.ddl = LockTicks - 1 /\ timer[c].pc = "run"

DeadlineInv ==
    \A t \in Thread : Kept(owner[t]) /\ Writer(t) /\ thr[t].pc \in Recorded =>
        remote[owner[t]] /\ Fresh(owner[t])

IInv == Shape /\ PlaceInv /\ LockInv /\ ReaderInv /\ CauseInv /\ DeadlineInv

-----------------------------------------------------------------------------
(* What a step of a thread does.                                           *)

\* The path lock of its client and its own place, before and after.
LockEffect(t) ==
    LET c == owner[t] IN
    \/ /\ Holds(t)' <=> Holds(t)
       /\ Holds(t) => (Writer(t)' <=> Writer(t))
       /\ plock'[c] = plock[c]
    \/ ~ Holds(t) /\ Holds(t)' /\ Writer(t)' /\ Free(c) /\ plock'[c] = Locked
    \/ /\ ~ Holds(t) /\ Holds(t)' /\ ~ Writer(t)' /\ plock[c] # Locked
       /\ plock'[c] = Readers(c) + 1
    \/ Holds(t) /\ ~ Holds(t)' /\ plock'[c] = AfterUnlock(c, 1)

\* The count of its readers: a reader leaves it in place only when it stays
\* or its process stops, and only a new one adds to it.
ReadEffect(t) ==
    LET c == owner[t] IN
    /\ Running(c)' => Running(c)
    /\ plock'[c] >= Absent
    /\ \/ plock'[c] = plock[c] /\ (Running(c)' /\ Reads(t) => Reads(t)')
       \/ plock'[c] <= 0
       \/ plock'[c] < plock[c]
       \/ /\ Running(c) /\ plock[c] # Locked /\ plock'[c] = Readers(c) + 1
          /\ ~ Reads(t) /\ Reads(t)'

Others(t) ==
    /\ \A u \in Thread \ {t} : thr'[u] = thr[u]
    /\ \A c \in Client \ {owner[t]} :
         /\ plock'[c] = plock[c] /\ remote'[c] = remote[c] /\ timer'[c] = timer[c]
         /\ trouble'[c] = trouble[c] /\ alive'[c] = alive[c]

\* Why a process ends, or a second try begins.
CauseEffect(t) ==
    LET c == owner[t] IN
    /\ fails' \in Nat /\ fails' >= fails
    /\ thr'[t].again => thr[t].again \/ fails' > 0
    /\ thr'[t].pc # "idle" /\ thr'[t].op \in Opens =>
         (thr[t].pc # "idle" /\ thr[t].op \in Opens) \/ slave.valid
    /\ remote'[c] => remote[c] \/ file'.valid
    /\ ~ alive'[c] => ~ alive[c] \/ removed \/ fails' > 1
    /\ timer'[c] \in {timer[c], Rested}
    /\ trouble[c] \subseteq trouble'[c]

\* What becomes of remoteLocks.
RecordEffect(t) ==
    LET c == owner[t] IN
    /\ remote'[c] = remote[c] \/ remote'[c] = TRUE \/ (Holds(t) /\ ~ Holds(t)')
    /\ timer'[c] = timer[c]
    /\ Writer(t)' /\ thr'[t].pc \in Recorded =>
         \/ Writer(t) /\ thr[t].pc \in Recorded
         \/ remote'[c] /\ file'.ddl = LockTicks

Effect(t) ==
    /\ Others(t) /\ CauseEffect(t) /\ ReadEffect(t)
    /\ PlaceOf(thr'[t]) /\ RequestOf(thr'[t])
    /\ Sound(owner[t])' => Sound(owner[t]) /\ LockEffect(t)
    /\ Kept(owner[t])' => Kept(owner[t]) /\ RecordEffect(t)
    /\ slave' = slave

\* An entry is applied, or none.
FileEffect ==
    \/ file' = file /\ cleared' = cleared /\ removed' = removed
    \/ cleared' = TRUE /\ file'.valid = file.valid /\ removed' = removed
    \/ /\ file'.valid = TRUE /\ file'.ddl = LockTicks
       /\ cleared' = FALSE /\ removed' = removed
    \/ file'.valid = FALSE /\ removed' = TRUE

\* What happens outside the clients.
WorldEffect ==
    /\ FileEffect /\ file' \in Ino
    /\ cleared' \in BOOLEAN /\ removed' \in BOOLEAN
    /\ fails' \in Nat /\ fails' >= fails

-----------------------------------------------------------------------------
(* Such steps preserve the invariant.                                      *)

USE DEF Locked, Absent

\* Sessions come and go one at a time.
LEMMA LockKept ==
    ASSUME Shape, Shape', LockInv, NEW t \in Thread, Others(t),
           Sound(owner[t])' => Sound(owner[t]) /\ LockEffect(t)
    PROVE  LockInv'
<1>1. SUFFICES ASSUME NEW c \in Client, Sound(c)' PROVE LockOf(c)'
  BY Zenon DEF LockInv
<1> DEFINE S == Sessions(c)
<1> DEFINE T == Sessions(c)'
<1> DEFINE W == {u \in S : Writer(u)}
<1>2. /\ IsFiniteSet(S) /\ IsFiniteSet(T)
      /\ Cardinality(S) \in Nat /\ Cardinality(T) \in Nat
  BY SessionsAssumption, FS_Subset, FS_CardinalityType, Zenon DEF Sessions
<1>3. CASE c # owner[t]
  <2>1. Sound(c) BY <1>1, <1>3, Zenon DEF Others, Sound, Running
  <2>2. T = S /\ \A u \in S : Writer(u)' <=> Writer(u)
    BY <1>3, ZenonT(40) DEF Others, Sessions, Holds, Writer
  <2> QED BY <2>1, <2>2, <1>3, ZenonT(40) DEF LockInv, LockOf, Others, Readers
<1>4. CASE c = owner[t]
  <2>1. Sound(c) /\ LockEffect(t) BY <1>1, <1>4, Zenon
  <2>2. LockOf(c) BY <2>1, Zenon DEF LockInv
  <2>3. \A u \in Thread \ {t} :
          /\ u \in T <=> u \in S
          /\ Writer(u)' <=> Writer(u)
    BY Zenon DEF Others, Sessions, Holds, Writer
  <2>4. (t \in S <=> Holds(t)) /\ (t \in T <=> Holds(t)')
    BY <1>4, Zenon DEF Sessions
  <2>5. S \subseteq Thread /\ T \subseteq Thread BY Zenon DEF Sessions
  <2>6. plock[c] \in Int /\ plock'[c] \in Int BY Zenon DEF Shape
  <2>7. CASE /\ Holds(t)' <=> Holds(t)
             /\ Holds(t) => (Writer(t)' <=> Writer(t))
             /\ plock'[c] = plock[c]
    <3>1. T = S BY <2>3, <2>4, <2>5, <2>7
    <3>2. \A u \in S : Writer(u)' <=> Writer(u) BY <2>3, <2>4, <2>5, <2>7, Zenon
    <3> QED BY <3>1, <3>2, <2>2, <2>7, Zenon DEF LockOf, Readers
  <2>8. CASE ~ Holds(t) /\ Holds(t)' /\ Writer(t)' /\ Free(c) /\ plock'[c] = Locked
    <3>1. S = {}
      <4>1. W = {} BY <2>2, <2>8, <2>6 DEF LockOf, Free
      <4>2. Cardinality(S) = 0 BY <4>1, <2>2, <2>8, <2>6, Zenon DEF LockOf, Free, Readers
      <4> QED BY <4>2, <1>2, FS_EmptySet, Zenon
    <3>2. T = {t} BY <3>1, <2>3, <2>4, <2>5, <2>8, Zenon
    <3>3. Cardinality(T) = 1 BY <3>2, FS_Singleton, Zenon
    <3> QED BY <3>2, <3>3, <2>8, Zenon DEF LockOf
  <2>9. CASE /\ ~ Holds(t) /\ Holds(t)' /\ ~ Writer(t)' /\ plock[c] # Locked
             /\ plock'[c] = Readers(c) + 1
    <3>1. W = {} /\ Readers(c) = Cardinality(S) BY <2>2, <2>9, Zenon DEF LockOf
    <3>2. T = S \cup {t} /\ t \notin S BY <2>3, <2>4, <2>5, <2>9, Zenon
    <3>3. Cardinality(T) = Cardinality(S) + 1 BY <3>2, <1>2, FS_AddElement, Zenon
    <3>4. {u \in T : Writer(u)'} = {} BY <3>1, <3>2, <2>3, <2>5, <2>9, Zenon
    <3>5. Readers(c)' = plock'[c] BY <2>9, <3>1, <1>2 DEF Readers
    <3> QED BY <3>1, <3>3, <3>4, <3>5, <2>9, Zenon DEF LockOf
  <2>10. CASE Holds(t) /\ ~ Holds(t)' /\ plock'[c] = AfterUnlock(c, 1)
    <3>1. T = S \ {t} /\ t \in S BY <2>3, <2>4, <2>5, <2>10, Zenon
    <3>2. Cardinality(T) = Cardinality(S) - 1 BY <3>1, <1>2, FS_RemoveElement, Zenon
    <3>3. plock'[c] # None BY <2>6, NoneAssumption, Zenon
    <3>4. CASE W # {}
      <4>1. Cardinality(T) = 0 BY <3>2, <3>4, <2>2 DEF LockOf
      <4>2. T = {} BY <4>1, <1>2, FS_EmptySet, Zenon
      <4>3. plock'[c] = 0 BY <2>2, <3>4, <2>10 DEF LockOf, AfterUnlock
      <4> QED BY <4>1, <4>2, <4>3, Zenon DEF LockOf, Readers
    <3>5. CASE W = {}
      <4>1. Readers(c) = Cardinality(S) BY <3>5, <2>2, Zenon DEF LockOf
      <4>2. plock[c] = Cardinality(S) /\ plock[c] >= 1
        BY <4>1, <3>1, <1>2, <3>2, <2>6 DEF Readers
      <4>3. plock'[c] = plock[c] - 1 BY <4>2, <2>10, <2>6 DEF AfterUnlock
      <4>4. {u \in T : Writer(u)'} = {} BY <3>1, <3>5, <2>3, <2>5, Zenon
      <4>5. Readers(c)' = Cardinality(T) BY <4>2, <4>3, <3>2, <2>6 DEF Readers
      <4> QED BY <4>4, <4>5, Zenon DEF LockOf
    <3> QED BY <3>4, <3>5, Zenon
  <2> QED BY <2>1, <2>7, <2>8, <2>9, <2>10, <1>4, Zenon DEF LockEffect
<1> QED BY <1>3, <1>4, Zenon

\* Readers come and go one at a time.
LEMMA ReadersKept ==
    ASSUME Shape, Shape', ReaderInv, NEW t \in Thread, Others(t), ReadEffect(t)
    PROVE  ReaderInv'
<1>1. SUFFICES ASSUME NEW c \in Client
               PROVE  /\ plock'[c] >= Absent /\ plock'[c] <= Cardinality(Thread)
                      /\ Running(c)' => plock'[c] <= Cardinality(Reading(c))'
  BY Zenon DEF ReaderInv
<1> DEFINE S == Reading(c)
<1> DEFINE T == Reading(c)'
<1>2. S \subseteq Thread /\ T \subseteq Thread BY Zenon DEF Reading
<1>3. /\ IsFiniteSet(S) /\ IsFiniteSet(T)
      /\ Cardinality(S) <= Cardinality(Thread) /\ Cardinality(T) <= Cardinality(Thread)
      /\ Cardinality(S) \in Nat /\ Cardinality(T) \in Nat /\ Cardinality(Thread) \in Nat
  BY <1>2, SessionsAssumption, FS_Subset, FS_CardinalityType, Zenon
<1>4. /\ plock[c] \in Int /\ plock'[c] \in Int
      /\ plock[c] >= Absent /\ plock[c] <= Cardinality(Thread)
      /\ Running(c) => plock[c] <= Cardinality(S)
  BY Zenon DEF Shape, ReaderInv
<1>5. CASE c # owner[t]
  <2>1. plock'[c] = plock[c] /\ (Running(c)' => Running(c)) BY <1>5, Zenon DEF Others, Running
  <2>2. T = S BY <1>5, ZenonT(40) DEF Others, Reading, Reads, Holds
  <2> QED BY <1>4, <2>1, <2>2, Zenon
<1>6. CASE c = owner[t]
  <2>1. \A u \in Thread \ {t} : u \in T <=> u \in S BY Zenon DEF Others, Reading, Reads, Holds
  <2>2. (t \in S <=> Reads(t)) /\ (t \in T <=> Reads(t)') BY <1>6, Zenon DEF Reading
  <2>3. (Running(c)' => Running(c)) /\ plock'[c] >= Absent BY <1>6, Zenon DEF ReadEffect
  <2>4. CASE plock'[c] = plock[c] /\ (Running(c)' /\ Reads(t) => Reads(t)')
    <3>1. SUFFICES ASSUME Running(c)' PROVE Cardinality(S) <= Cardinality(T)
      BY <1>3, <1>4, <2>3, <2>4
    <3>2. S \subseteq T BY <1>2, <2>1, <2>2, <2>4, <3>1, Zenon
    <3> QED BY <3>2, <1>3, FS_Subset, Zenon
  <2>5. CASE plock'[c] <= 0 BY <1>3, <1>4, <2>3, <2>5
  <2>6. CASE plock'[c] < plock[c]
    <3>1. Cardinality(S) <= Cardinality(T) + 1
      <4>1. T \cup {t} = IF t \in T THEN T ELSE T \cup {t} BY Zenon
      <4>2. /\ IsFiniteSet(T \cup {t})
            /\ Cardinality(T \cup {t}) = IF t \in T THEN Cardinality(T) ELSE Cardinality(T) + 1
        BY <1>3, FS_AddElement, Zenon
      <4>3. S \subseteq T \cup {t} BY <1>2, <2>1, Zenon
      <4>4. Cardinality(S) <= Cardinality(T \cup {t}) BY <4>2, <4>3, FS_Subset, Zenon
      <4> QED BY <4>2, <4>4, <1>3
    <3> QED BY <1>3, <1>4, <2>3, <2>6, <3>1
  <2>7. CASE /\ Running(c) /\ plock[c] # Locked /\ plock'[c] = Readers(c) + 1
             /\ ~ Reads(t) /\ Reads(t)'
    <3>1. T = S \cup {t} /\ t \notin S BY <1>2, <2>1, <2>2, <2>7, Zenon
    <3>2. Cardinality(T) = Cardinality(S) + 1 BY <3>1, <1>3, FS_AddElement, Zenon
    <3>3. Readers(c) <= Cardinality(S) /\ Readers(c) \in Int BY <1>3, <1>4, <2>7 DEF Readers
    <3> QED BY <1>3, <1>4, <2>3, <2>7, <3>2, <3>3
  <2> QED BY <1>6, <2>4, <2>5, <2>6, <2>7, Zenon DEF ReadEffect
<1> QED BY <1>5, <1>6, Zenon

\* The file, once there, is gone only after an rm.
LEMMA CreatedKept ==
    ASSUME Shape, Created, FileEffect
    PROVE  Created'
BY Zenon DEF Shape, Created, FileEffect

\* What a thread's step may do to causes and failures keeps CauseInv.
LEMMA CauseKept ==
    ASSUME Shape, Shape', CauseInv, FileEffect, slave' = slave,
           NEW t \in Thread, Others(t), CauseEffect(t)
    PROVE  CauseInv'
<1>1. removed => removed' BY Zenon DEF FileEffect
<1>2. Created => Created' BY CreatedKept, Zenon
<1>3. fails' \in Nat /\ fails \in Nat /\ fails' >= fails BY Zenon DEF CauseEffect, Shape
<1>4. owner[t] \in Client BY SessionsAssumption, Zenon
<1>5. (slave.valid => Created)' BY <1>2, Zenon DEF CauseInv
<1>6. \A c \in Client : remote'[c] => Created'
  BY <1>2, Zenon DEF CauseInv, Others, CauseEffect, Created
<1>7. \A u \in Thread : thr'[u].pc # "idle" /\ thr'[u].op \in Opens =>
        Created' /\ (slave.valid \/ removed)'
  BY <1>1, <1>2, Zenon DEF CauseInv, Others, CauseEffect
<1>8. \A u \in Thread : thr'[u].again => fails' > 0
  BY <1>3 DEF CauseInv, Others, CauseEffect
<1>9. \A c \in Client :
        removed' \/ timer'[c].tries <= fails' \/ "empty_refresh" \in trouble'[c]
  <2>1. SUFFICES ASSUME NEW c \in Client
                 PROVE  removed' \/ timer'[c].tries <= fails' \/ "empty_refresh" \in trouble'[c]
    OBVIOUS
  <2>2. removed \/ timer[c].tries <= fails \/ "empty_refresh" \in trouble[c]
    BY Zenon DEF CauseInv
  <2>3. timer[c].tries \in 0 .. 3 BY Zenon DEF Shape, TimerState
  <2>4. trouble[c] \subseteq trouble'[c] BY Zenon DEF Others, CauseEffect
  <2>5. timer'[c] \in {timer[c], Rested} BY Zenon DEF Others, CauseEffect
  <2>6. Rested.tries = 0 BY Zenon DEF Rested
  <2> QED BY <1>1, <1>3, <2>2, <2>3, <2>4, <2>5, <2>6
<1>10. EndsForCause'
  <2>1. SUFFICES ASSUME NEW c \in Client, ~ alive'[c]
                 PROVE  removed' \/ fails' > 1 \/ "empty_refresh" \in trouble'[c]
    BY Zenon DEF EndsForCause
  <2>2. ~ alive[c] => removed \/ fails > 1 \/ "empty_refresh" \in trouble[c]
    BY Zenon DEF CauseInv, EndsForCause
  <2>3. trouble[c] \subseteq trouble'[c] BY Zenon DEF Others, CauseEffect
  <2>4. ~ alive[c] \/ removed \/ fails' > 1 BY <2>1, Zenon DEF Others, CauseEffect
  <2> QED BY <1>1, <1>3, <2>2, <2>3, <2>4
<1> QED BY <1>5, <1>6, <1>7, <1>8, <1>9, <1>10, Zenon DEF CauseInv

\* A step that leaves the timer of a client alone leaves its deadline fresh.
LEMMA FreshKept ==
    ASSUME Shape, Shape', FileEffect, NEW c \in Client, Fresh(c), timer'[c].pc = timer[c].pc
    PROVE  Fresh(c)'
BY Zenon DEF Shape, Ino, FileEffect, Fresh

\* An open file stays recorded: a session that ends takes the path out of
\* remoteLocks, but while there is a writer it is the only session.
LEMMA DeadlineKept ==
    ASSUME Shape, Shape', LockInv, DeadlineInv, FileEffect, NEW t \in Thread, Others(t),
           Kept(owner[t])' => Kept(owner[t]) /\ RecordEffect(t)
    PROVE  DeadlineInv'
<1>1. SUFFICES ASSUME NEW u \in Thread, Kept(owner[u])', Writer(u)', thr'[u].pc \in Recorded
               PROVE  remote'[owner[u]] /\ Fresh(owner[u])'
  BY Zenon DEF DeadlineInv
<1> DEFINE c == owner[u]
<1>2. c \in Client /\ owner[t] \in Client BY SessionsAssumption, Zenon
<1>3. CASE c # owner[t]
  <2>1. thr'[u] = thr[u] /\ timer'[c] = timer[c] /\ remote'[c] = remote[c] /\ Kept(c)
    BY <1>1, <1>2, <1>3, Zenon DEF Others, Kept, Sound, Running
  <2>2. remote[c] /\ Fresh(c) BY <1>1, <2>1, Zenon DEF DeadlineInv, Writer
  <2> QED BY <2>1, <2>2, <1>2, FreshKept, Zenon
<1>4. CASE c = owner[t]
  <2>1. Kept(c) /\ RecordEffect(t) BY <1>1, <1>4, Zenon
  <2>2. timer'[c] = timer[c] BY <2>1, <1>4, Zenon DEF RecordEffect
  <2>3. CASE u = t
    <3>1. CASE Writer(t) /\ thr[t].pc \in Recorded
      <4>1. remote[c] /\ Fresh(c) BY <3>1, <2>1, <2>3, Zenon DEF DeadlineInv
      <4>2. Holds(t)' BY <1>1, <2>3, Zenon DEF Recorded, Holds
      <4> QED BY <4>1, <4>2, <2>1, <2>2, <1>2, <1>4, FreshKept, Zenon DEF RecordEffect
    <3>2. CASE remote'[c] /\ file'.ddl = LockTicks
      BY <3>2, Zenon DEF Fresh
    <3> QED BY <3>1, <3>2, <2>1, <1>1, <2>3, Zenon DEF RecordEffect
  <2>4. CASE u # t
    <3>1. thr'[u] = thr[u] BY <2>4, Zenon DEF Others
    <3>2. Writer(u) /\ thr[u].pc \in Recorded BY <1>1, <3>1, Zenon DEF Writer
    <3>3. remote[c] /\ Fresh(c) BY <2>1, <3>2, Zenon DEF DeadlineInv
    <3>4. ~ Holds(t)
      <4>1. LockOf(c) BY <2>1, <1>2, Zenon DEF LockInv, Kept
      <4>2. u \in Sessions(c) BY <3>2, Zenon DEF Sessions, Holds, Recorded
      <4>3. IsFiniteSet(Sessions(c)) BY SessionsAssumption, FS_Subset, Zenon DEF Sessions
      <4>4. Cardinality(Sessions(c)) = 1 BY <4>1, <4>2, <3>2, Zenon DEF LockOf
      <4>5. PICK x : Sessions(c) = {x} BY <4>3, <4>4, FS_Singleton, Zenon
      <4> QED BY <4>2, <4>5, <2>4, <1>4, Zenon DEF Sessions
    <3> QED BY <3>3, <3>4, <2>1, <2>2, <1>2, <1>4, FreshKept, Zenon DEF RecordEffect
  <2> QED BY <2>3, <2>4, Zenon
<1> QED BY <1>3, <1>4, Zenon

\* A step with the effects above preserves the whole invariant.
LEMMA EffectKeeps ==
    ASSUME IInv, Shape', FileEffect, NEW t \in Thread, Effect(t)
    PROVE  IInv'
<1>1. owner[t] \in Client BY SessionsAssumption, Zenon
<1>2. PlaceInv'
  <2>1. \A u \in Thread : PlaceOf(thr'[u]) /\ RequestOf(thr'[u])
    BY Zenon DEF IInv, PlaceInv, Effect, Others
  <2>2. \A c \in Client : timer'[c].req # None =>
          timer'[c].req.valid /\ timer'[c].req.ddl = LockTicks
    <3>1. \A c \in Client : timer'[c] \in {timer[c], Rested}
      BY Zenon DEF Effect, Others, CauseEffect
    <3>2. Rested.req = None BY Zenon DEF Rested
    <3> QED BY <3>1, <3>2, Zenon DEF IInv, PlaceInv
  <2> QED BY <2>1, <2>2, SMTT(20) DEF PlaceInv, PlaceOf, RequestOf
<1>3. LockInv' BY LockKept, Zenon DEF IInv, Effect
<1>4. CauseInv' BY CauseKept, Zenon DEF IInv, Effect
<1>5. DeadlineInv' BY DeadlineKept, Zenon DEF IInv, Effect
<1>6. ReaderInv' BY ReadersKept, Zenon DEF IInv, Effect
<1> QED BY <1>2, <1>3, <1>4, <1>5, <1>6, Zenon DEF IInv

-----------------------------------------------------------------------------
(* The steps of a thread.                                                  *)

\* A step that changes the state of one thread to r, and of its client only
\* what Effect allows.
LEMMA ThreadMoves ==
    ASSUME Shape, NEW t \in Thread, NEW r \in ThreadState, thr' = [thr EXCEPT ![t] = r]
    PROVE  /\ thr' \in [Thread -> ThreadState]
           /\ thr'[t] = r
           /\ \A u \in Thread \ {t} : thr'[u] = thr[u]
BY Zenon DEF Shape

\* Goto changes where one thread is and withdraws its request, no more.
LEMMA GotoMoves ==
    ASSUME Shape, NEW t \in Thread, NEW pc \in Pc, Goto(t, pc)
    PROVE  /\ thr' \in [Thread -> ThreadState]
           /\ thr'[t].op = thr[t].op /\ thr'[t].pc = pc
           /\ thr'[t].again = thr[t].again /\ thr'[t].req = None
           /\ \A u \in Thread \ {t} : thr'[u] = thr[u]
BY Zenon DEF Shape, Goto, ThreadState

\* An operation that returns leaves its thread idle.
LEMMA IdleMoves ==
    ASSUME Shape, NEW t \in Thread, thr' = [thr EXCEPT ![t] = Idle]
    PROVE  /\ thr' \in [Thread -> ThreadState]
           /\ thr'[t] = Idle
           /\ PlaceOf(Idle) /\ RequestOf(Idle)
           /\ ~ Holds(t)' /\ thr'[t].pc \notin Recorded
           /\ \A u \in Thread \ {t} : thr'[u] = thr[u]
<1>1. Idle \in ThreadState BY Zenon DEF Idle, ThreadState, Op, Pc
<1>2. /\ thr' \in [Thread -> ThreadState] /\ thr'[t] = Idle
      /\ \A u \in Thread \ {t} : thr'[u] = thr[u]
  BY <1>1, ThreadMoves, Zenon
<1> QED BY <1>2, Zenon DEF Idle, PlaceOf, RequestOf, Holds, Recorded

\* A step that leaves the file and the history alone has a WorldEffect.
LEMMA SameWorld ==
    ASSUME Shape, UNCHANGED <<file, cleared, removed, fails>>
    PROVE  WorldEffect
BY DEF Shape, WorldEffect, FileEffect

\* A step after which nothing but the thread has changed in its client.
LEMMA QuietKeeps ==
    ASSUME IInv, NEW t \in Thread, NEW r \in ThreadState, thr' = [thr EXCEPT ![t] = r],
           WorldEffect,
           UNCHANGED <<slave, timer, alive, remote, plock, trouble>>,
           PlaceOf(r), RequestOf(r),
           r.again = TRUE => thr[t].again,
           r.pc # "idle" /\ r.op \in Opens =>
             (thr[t].pc # "idle" /\ thr[t].op \in Opens) \/ slave.valid,
           \/ r.pc = thr[t].pc /\ r.op = thr[t].op
           \/ /\ thr[t].pc \notin Recorded \cup {"lock_remote"}
              /\ r.pc \notin Recorded \cup {"lock_remote"}
           \/ r.op = thr[t].op /\ {r.pc, thr[t].pc} \subseteq Recorded
    PROVE  IInv'
<1>1. Shape BY Zenon DEF IInv
<1>2. /\ thr' \in [Thread -> ThreadState] /\ thr'[t] = r
      /\ \A u \in Thread \ {t} : thr'[u] = thr[u]
  BY <1>1, ThreadMoves, Zenon
<1>3. Shape' BY <1>1, <1>2, Zenon DEF Shape, WorldEffect
<1>4. owner[t] \in Client BY SessionsAssumption, Zenon
<1>5. Others(t) BY <1>2, Zenon DEF Others
<1>6. CauseEffect(t) BY <1>1, <1>2, Zenon DEF CauseEffect, Shape, WorldEffect
<1>7. LockEffect(t) BY <1>2, Zenon DEF LockEffect, Holds, Writer, Recorded
<1>8. RecordEffect(t) BY <1>2, SMTT(20) DEF RecordEffect, Writer
<1>9. (Sound(owner[t])' => Sound(owner[t])) /\ (Kept(owner[t])' => Kept(owner[t]))
  BY Zenon DEF Sound, Kept, Running
<1>10. ReadEffect(t)
  <2>1. Reads(t) => Reads(t)' BY <1>2, Zenon DEF Reads, Holds, Recorded
  <2> QED BY <1>4, <2>1, Zenon DEF ReadEffect, Running, IInv, ReaderInv
<1>11. Effect(t) BY <1>2, <1>5, <1>6, <1>7, <1>8, <1>9, <1>10, Zenon DEF Effect
<1> QED BY <1>3, <1>11, EffectKeeps, Zenon DEF WorldEffect

\* An operation of FUSE or of the command line begins.
LEMMA BeginHolds ==
    ASSUME IInv, NEW t \in Thread, NEW op \in Ops[t], Begin(t, op)
    PROVE  IInv'
<1> DEFINE r == [Idle EXCEPT !.op = op, !.pc = FirstPc(op)]
<1>1. op \in Op /\ Shape BY SessionsAssumption, Zenon DEF IInv
<1>2. FirstPc(op) \in {"put", "rm", "read_lock", "write_lock"} BY <1>1, Zenon DEF FirstPc, Op
<1>3. Idle \in ThreadState /\ Idle.again = FALSE /\ Idle.req = None
  BY Zenon DEF Idle, ThreadState, Op, Pc
<1>4. r \in ThreadState /\ r.op = op /\ r.pc = FirstPc(op) /\ r.again = FALSE /\ r.req = None
  BY <1>1, <1>2, <1>3, Zenon DEF ThreadState, Pc, Rpcs
<1>5. PlaceOf(r) BY <1>1, <1>4 DEF PlaceOf, FirstPc, Op
<1>6. RequestOf(r) BY <1>4, Zenon DEF RequestOf
<1>7. op \in Opens => slave.valid BY Zenon DEF Begin, Opens
<1>8. thr[t].pc = "idle" BY Zenon DEF Begin
<1>9. thr' = [thr EXCEPT ![t] = r] BY Zenon DEF Begin
<1>10. UNCHANGED <<file, slave, timer, alive, remote, plock, fails, cleared, removed, trouble>>
  BY Zenon DEF Begin, local, history
<1>11. WorldEffect BY <1>1, <1>10, SameWorld, Zenon
<1> HIDE DEF r
<1>12. r.pc \notin Recorded \cup {"lock_remote"} /\ thr[t].pc \notin Recorded \cup {"lock_remote"}
  BY <1>2, <1>4, <1>8, Zenon DEF Recorded
<1> QED BY <1>4, <1>5, <1>6, <1>7, <1>9, <1>10, <1>11, <1>12, QuietKeeps, Zenon

\* What a handler builds.
LEMMA EntryBuilt ==
    ASSUME Shape, NEW op \in Op, NEW rpc \in Rpcs, Check(rpc)
    PROVE  LET e == Entry(op, rpc) IN
           /\ e \in Ino
           /\ rpc = "rm" => ~ e.valid
           /\ rpc # "rm" => e.valid
           /\ rpc \notin PutOks \cup {"rm"} => e.ddl = LockTicks
<1>1. LockTicks \in 0 .. LockTicks /\ 0 \in 0 .. LockTicks BY SessionsAssumption
<1>2. file \in Ino BY Zenon DEF Shape
<1>3. CASE rpc = "put"
  <2>1. Entry(op, rpc) = [file EXCEPT !.valid = TRUE, !.ddl = LockTicks] BY <1>3, Zenon DEF Entry
  <2> QED BY <1>1, <1>2, <1>3, <2>1, Zenon DEF Ino
<1>4. CASE rpc \in {"put_lock", "lock_remote"}
  <2>1. Entry(op, rpc) = [file EXCEPT !.ddl = LockTicks] BY <1>4, Zenon DEF Entry
  <2> QED BY <1>1, <1>2, <1>4, <2>1, Zenon DEF Ino, Check
<1>5. CASE rpc = "rm"
  <2>1. Entry(op, rpc) = Gone BY <1>5, Zenon DEF Entry
  <2>2. Gone \in Ino BY <1>1 DEF Ino, Gone
  <2>3. ~ Gone.valid BY Zenon DEF Gone
  <2> QED BY <1>5, <2>1, <2>2, <2>3, Zenon
<1>6. CASE rpc \in PutOks
  <2>1. PICK n \in 0 .. 1 : Entry(op, rpc) = [file EXCEPT !.size = n]
    BY <1>6 DEF Entry, PutOks
  <2> QED BY <1>2, <1>6, <2>1, Zenon DEF Ino, Check, PutOks
<1> QED BY <1>3, <1>4, <1>5, <1>6, Zenon DEF Rpcs

\* A handler of the namenode checks a request and builds its entry.
LEMMA PrepareHolds ==
    ASSUME IInv, NEW t \in Thread, Prepare(t)
    PROVE  IInv'
<1> DEFINE r == [thr[t] EXCEPT !.req = Entry(thr[t].op, thr[t].pc)]
<1>1. Shape /\ thr[t] \in ThreadState BY Zenon DEF IInv, Shape
<1>2. thr[t].op \in Op /\ thr[t].pc \in Rpcs /\ Check(thr[t].pc)
  BY <1>1, Zenon DEF ThreadState, Prepare
<1>3. r.req = Entry(thr[t].op, thr[t].pc) /\ r.pc = thr[t].pc /\ r.op = thr[t].op
      /\ r.again = thr[t].again
  BY <1>1, Zenon DEF ThreadState
<1>4. r \in ThreadState BY <1>1, <1>2, EntryBuilt, Zenon DEF ThreadState
<1>5. PlaceOf(r) BY <1>3, Zenon DEF IInv, PlaceInv, PlaceOf
<1>6. RequestOf(r) BY <1>1, <1>2, <1>3, EntryBuilt, Zenon DEF RequestOf
<1>7. thr' = [thr EXCEPT ![t] = r] BY Zenon DEF Prepare
<1>8. UNCHANGED <<file, slave, timer, alive, remote, plock, fails, cleared, removed, trouble>>
  BY Zenon DEF Prepare, local, history
<1>9. WorldEffect BY <1>1, <1>8, SameWorld, Zenon
<1> HIDE DEF r
<1> QED BY <1>3, <1>4, <1>5, <1>6, <1>7, <1>8, <1>9, QuietKeeps, Zenon DEF Rpcs

\* What on_apply does with it.
LEMMA EntryApplied ==
    ASSUME Shape, NEW r \in ThreadState, RequestOf(r), r.req # None, Applied(r.pc, r.req),
           fails' \in {fails, fails + 1}
    PROVE  /\ WorldEffect
           /\ r.pc \notin PutOks \cup {"rm"} => file'.valid /\ file'.ddl = LockTicks
<1>1. r.req \in Ino BY Zenon DEF ThreadState
<1>2. file \in Ino BY Zenon DEF Shape
<1>3. 0 \in 0 .. LockTicks BY SessionsAssumption
<1>4. fails' \in Nat /\ fails' >= fails BY DEF Shape
<1>5. CASE r.pc \in PutOks
  <2>1. file' = [file EXCEPT !.ddl = 0, !.size = r.req.size] BY <1>5, Zenon DEF Applied
  <2>2. file' \in Ino /\ file'.valid = file.valid BY <2>1, <1>1, <1>2, <1>3, Zenon DEF Ino
  <2>3. FileEffect /\ cleared' \in BOOLEAN /\ removed' \in BOOLEAN
    BY <1>5, <2>2, Zenon DEF Applied, FileEffect, Shape, PutOks
  <2> QED BY <1>4, <1>5, <2>2, <2>3, Zenon DEF WorldEffect
<1>6. CASE r.pc \notin PutOks
  <2>1. file' = r.req BY <1>6, Zenon DEF Applied
  <2>2. removed' = (removed \/ r.pc = "rm") /\ cleared' = (r.pc \in PutOks) BY Zenon DEF Applied
  <2>3. cleared' = FALSE
    <3>1. (r.pc \in PutOks) = FALSE BY <1>6
    <3> QED BY <2>2, <3>1, Zenon
  <2>4. r.req.valid \in BOOLEAN BY <1>1, Zenon DEF Ino
  <2>5. removed \in BOOLEAN BY Zenon DEF Shape
  <2>6. r.pc = "rm" => removed' = TRUE BY <2>2, Zenon
  <2>7. r.pc # "rm" => removed' = removed BY <2>2, <2>5, Zenon
  <2>8. FileEffect BY <1>6, <2>1, <2>3, <2>4, <2>6, <2>7, Zenon DEF FileEffect, RequestOf
  <2>9. removed' \in BOOLEAN BY <2>5, <2>6, <2>7, Zenon
  <2> QED BY <1>1, <1>4, <1>6, <2>1, <2>3, <2>8, <2>9, Zenon DEF RequestOf, WorldEffect
<1> QED BY <1>5, <1>6, Zenon

\* The entry of a caller whose process is gone is applied.
LEMMA OrphanedHolds ==
    ASSUME IInv, NEW t \in Thread, Orphaned(t)
    PROVE  IInv'
<1> DEFINE r == [thr[t] EXCEPT !.req = None]
<1>1. Shape /\ thr[t] \in ThreadState BY Zenon DEF IInv, Shape
<1>2. r.req = None /\ r.pc = thr[t].pc /\ r.op = thr[t].op /\ r.again = thr[t].again
      /\ r \in ThreadState
  BY <1>1, Zenon DEF ThreadState
<1>3. PlaceOf(r) BY <1>2, Zenon DEF IInv, PlaceInv, PlaceOf
<1>4. RequestOf(r) BY <1>2, Zenon DEF RequestOf
<1>5. thr' = [thr EXCEPT ![t] = r] BY Zenon DEF Orphaned
<1>6. UNCHANGED <<slave, timer, alive, remote, plock, trouble>>
  BY Zenon DEF Orphaned, local
<1>7. WorldEffect
  <2>1. RequestOf(thr[t]) /\ thr[t].req # None /\ Applied(thr[t].pc, thr[t].req) /\ fails' = fails
    BY Zenon DEF Orphaned, IInv, PlaceInv
  <2> QED BY <1>1, <2>1, EntryApplied, Zenon
<1> HIDE DEF r
<1> QED BY <1>2, <1>3, <1>4, <1>5, <1>6, <1>7, QuietKeeps, Zenon

\* A step to another place of the same operation, with the same locks.
LEMMA GotoKeeps ==
    ASSUME IInv, NEW t \in Thread, NEW pc \in Pc, Goto(t, pc),
           WorldEffect,
           UNCHANGED <<slave, timer, alive, remote, plock, trouble>>,
           PlaceOf([thr[t] EXCEPT !.pc = pc, !.req = None]),
           thr[t].pc # "idle",
           \/ {pc, thr[t].pc} \cap (Recorded \cup {"lock_remote"}) = {}
           \/ {pc, thr[t].pc} \subseteq Recorded
    PROVE  IInv'
<1> DEFINE r == [thr[t] EXCEPT !.pc = pc, !.req = None]
<1>1. thr[t] \in ThreadState BY Zenon DEF IInv, Shape
<1>2. r.req = None /\ r.pc = pc /\ r.op = thr[t].op /\ r.again = thr[t].again
      /\ r \in ThreadState
  BY <1>1, Zenon DEF ThreadState
<1>3. RequestOf(r) BY <1>2, Zenon DEF RequestOf
<1>4. thr' = [thr EXCEPT ![t] = r] BY Zenon DEF Goto
<1>5. PlaceOf(r) OBVIOUS
<1> HIDE DEF r
<1> QED BY <1>2, <1>3, <1>4, <1>5, QuietKeeps, Zenon

\* An operation that holds no lock ends.
LEMMA EndKeeps ==
    ASSUME IInv, NEW t \in Thread, thr' = [thr EXCEPT ![t] = Idle],
           WorldEffect,
           UNCHANGED <<slave, timer, alive, remote, plock, trouble>>,
           ~ Holds(t)
    PROVE  IInv'
<1>1. Idle \in ThreadState /\ PlaceOf(Idle) /\ RequestOf(Idle)
  BY IdleMoves, Zenon DEF IInv, Idle, ThreadState, Op, Pc
<1>2. Idle.pc = "idle" /\ Idle.again = FALSE BY Zenon DEF Idle
<1>3. thr[t].pc \notin Recorded \cup {"lock_remote"} BY Zenon DEF Holds, Recorded
<1>4. Idle.pc \notin Recorded \cup {"lock_remote"} BY <1>2, Zenon DEF Recorded
<1> QED BY <1>1, <1>2, <1>3, <1>4, QuietKeeps, Zenon

\* write_data changes nothing here.
LEMMA StutterKeeps ==
    ASSUME IInv, NEW t \in Thread,
           UNCHANGED <<file, slave, thr, timer, alive, remote, plock, fails, history, trouble>>
    PROVE  IInv'
<1>1. thr[t] \in ThreadState /\ thr' = [thr EXCEPT ![t] = thr[t]] BY Zenon DEF IInv, Shape
<1>2. PlaceOf(thr[t]) /\ RequestOf(thr[t]) BY Zenon DEF IInv, PlaceInv
<1>3. WorldEffect BY SameWorld, Zenon DEF IInv, history
<1> QED BY <1>1, <1>2, <1>3, QuietKeeps, Zenon

\* fsync and close (FUSE release) begin to upload the blocks.
LEMMA UploadHolds ==
    ASSUME IInv, NEW t \in Thread, NEW pc \in {"fsync", "close"}, Upload(t, pc)
    PROVE  IInv'
<1>1. thr[t] \in ThreadState /\ PlaceOf(thr[t]) /\ thr[t].pc = "open"
  BY Zenon DEF IInv, Shape, PlaceInv, Upload
<1>2. PlaceOf([thr[t] EXCEPT !.pc = pc, !.req = None]) BY <1>1, Zenon DEF PlaceOf, ThreadState
<1>3. WorldEffect BY SameWorld, Zenon DEF IInv, Upload, history
<1>4. pc \in Pc BY Zenon DEF Pc, Rpcs, PutOks
<1>5. Goto(t, pc) /\ UNCHANGED <<slave, timer, alive, remote, plock, trouble>>
  BY Zenon DEF Upload
<1> QED BY <1>1, <1>2, <1>3, <1>4, <1>5, GotoKeeps, Zenon DEF Recorded

-----------------------------------------------------------------------------
(* Locking.                                                                *)

\* What becomes of the count of readers.
LEMMA ReadSteps ==
    ASSUME Shape, ReaderInv, Shape', NEW t \in Thread,
           Running(owner[t])' => Running(owner[t]),
           \/ /\ plock'[owner[t]] = plock[owner[t]]
              /\ Running(owner[t])' /\ Reads(t) => Reads(t)'
           \/ plock'[owner[t]] \in {Absent, Locked, 0}
           \/ plock'[owner[t]] >= 0 /\ plock'[owner[t]] < plock[owner[t]]
    PROVE  ReadEffect(t)
<1> DEFINE c == owner[t]
<1>1. c \in Client BY SessionsAssumption, Zenon
<1>2. plock[c] \in Int /\ plock'[c] \in Int /\ plock[c] >= Absent
  BY <1>1, Zenon DEF Shape, ReaderInv
<1>3. CASE /\ plock'[c] = plock[c]
           /\ Running(c)' /\ Reads(t) => Reads(t)'
  BY <1>2, <1>3, Zenon DEF ReadEffect
<1>4. CASE plock'[c] \in {Absent, Locked, 0}
  <2>1. plock'[c] >= Absent /\ plock'[c] <= 0 BY <1>4
  <2> QED BY <2>1, Zenon DEF ReadEffect
<1>5. CASE plock'[c] >= 0 /\ plock'[c] < plock[c]
  <2>1. plock'[c] >= Absent BY <1>2, <1>5
  <2> QED BY <1>5, <2>1, Zenon DEF ReadEffect
<1> QED BY <1>3, <1>4, <1>5, Zenon

\* The invariant after a step that is summed up piece by piece.
LEMMA StepKeeps ==
    ASSUME IInv, NEW t \in Thread, Shape', FileEffect, Others(t), CauseEffect(t),
           PlaceOf(thr'[t]), RequestOf(thr'[t]), slave' = slave,
           alive'[owner[t]] => alive[owner[t]],
           Sound(owner[t])' => LockEffect(t),
           Kept(owner[t])' => RecordEffect(t),
           (Running(owner[t])' => Running(owner[t])) => ReadEffect(t)
    PROVE  IInv'
<1>1. trouble[owner[t]] \subseteq trouble'[owner[t]] BY SMTT(20) DEF CauseEffect
<1>2. Sound(owner[t])' => Sound(owner[t]) BY <1>1, Zenon DEF Sound, Running
<1>3. Kept(owner[t])' => Kept(owner[t]) BY <1>1, <1>2, Zenon DEF Kept
<1>4. ReadEffect(t) BY <1>1, Zenon DEF Running
<1>5. Effect(t) BY <1>2, <1>3, <1>4, SMTT(20) DEF Effect
<1> QED BY <1>5, EffectKeeps, SMTT(20)

\* PathLocks::write_lock is granted when no session holds the path.
LEMMA WriteLockHolds ==
    ASSUME IInv, NEW t \in Thread, write_lock(t)
    PROVE  IInv'
<1> DEFINE c == owner[t]
<1>1. Shape /\ thr[t] \in ThreadState /\ PlaceOf(thr[t]) /\ c \in Client
  BY SessionsAssumption, Zenon DEF IInv, Shape, PlaceInv
<1>2. "lock_remote" \in Pc BY Zenon DEF Pc, Rpcs
<1>3. /\ thr' \in [Thread -> ThreadState]
      /\ thr'[t].op = thr[t].op /\ thr'[t].pc = "lock_remote"
      /\ thr'[t].again = thr[t].again /\ thr'[t].req = None
      /\ \A u \in Thread \ {t} : thr'[u] = thr[u]
  BY <1>1, <1>2, GotoMoves, Zenon DEF write_lock
<1>4. /\ thr[t].pc = "write_lock" /\ Free(c)
      /\ UNCHANGED <<file, slave, timer, alive, remote, fails, cleared, removed, trouble>>
  BY Zenon DEF write_lock, history
<1>5. plock' \in [Client -> Int] /\ plock'[c] = Locked
      /\ \A d \in Client \ {c} : plock'[d] = plock[d]
  BY <1>1 DEF Shape, write_lock
<1>6. Shape' BY <1>1, <1>3, <1>4, <1>5, Zenon DEF Shape
<1>7. FileEffect BY <1>4, SMTT(20) DEF FileEffect
<1>8. Others(t) BY <1>3, <1>4, <1>5, Zenon DEF Others
<1>9. CauseEffect(t) BY <1>1, <1>3, <1>4 DEF CauseEffect, Shape
<1>10. PlaceOf(thr'[t]) /\ RequestOf(thr'[t]) BY <1>1, <1>3, <1>4, SMTT(20) DEF PlaceOf, RequestOf
<1>11. LockEffect(t)
  <2>1. ~ Holds(t) /\ Holds(t)' /\ Writer(t)'
    BY <1>1, <1>3, <1>4, SMTT(20) DEF Holds, Writer, PlaceOf
  <2> QED BY <2>1, <1>4, <1>5, Zenon DEF LockEffect
<1>12. RecordEffect(t) BY <1>3, <1>4, Zenon DEF RecordEffect, Recorded
<1>13. (Running(c)' => Running(c)) => ReadEffect(t)
  BY <1>1, <1>5, <1>6, ReadSteps, Zenon DEF IInv
<1> QED BY <1>4, <1>6, <1>7, <1>8, <1>9, <1>10, <1>11, <1>12, <1>13, StepKeeps, SMTT(20)

\* PathLocks::read_lock is granted beside other readers.
LEMMA ReadLockHolds ==
    ASSUME IInv, NEW t \in Thread, read_lock(t)
    PROVE  IInv'
<1> DEFINE c == owner[t]
<1>1. Shape /\ thr[t] \in ThreadState /\ PlaceOf(thr[t]) /\ c \in Client
  BY SessionsAssumption, Zenon DEF IInv, Shape, PlaceInv
<1>2. "update" \in Pc BY Zenon DEF Pc
<1>3. /\ thr' \in [Thread -> ThreadState]
      /\ thr'[t].op = thr[t].op /\ thr'[t].pc = "update"
      /\ thr'[t].again = thr[t].again /\ thr'[t].req = None
      /\ \A u \in Thread \ {t} : thr'[u] = thr[u]
  BY <1>1, <1>2, GotoMoves, SMTT(20) DEF read_lock
<1>4. /\ thr[t].pc = "read_lock" /\ plock[c] # Locked
      /\ UNCHANGED <<file, slave, timer, alive, remote, fails, cleared, removed, trouble>>
  BY Zenon DEF read_lock, history
<1>5. plock' \in [Client -> Int] /\ plock'[c] = Readers(c) + 1
      /\ \A d \in Client \ {c} : plock'[d] = plock[d]
  BY <1>1 DEF Shape, read_lock, Readers
<1>6. Shape' BY <1>1, <1>3, <1>4, <1>5, Zenon DEF Shape
<1>7. FileEffect BY <1>4, SMTT(20) DEF FileEffect
<1>8. Others(t) BY <1>3, <1>4, <1>5, Zenon DEF Others
<1>9. CauseEffect(t) BY <1>1, <1>3, <1>4 DEF CauseEffect, Shape
<1>10. PlaceOf(thr'[t]) /\ RequestOf(thr'[t]) BY <1>1, <1>3, <1>4, SMTT(20) DEF PlaceOf, RequestOf
<1>11. ~ Holds(t) /\ Holds(t)' /\ ~ Writer(t)'
  BY <1>1, <1>3, <1>4, SMTT(20) DEF Holds, Writer, PlaceOf
<1>12. LockEffect(t) BY <1>11, <1>4, <1>5, SMTT(20) DEF LockEffect
<1>13. RecordEffect(t) BY <1>11, <1>4, Zenon DEF RecordEffect
<1>14. ReadEffect(t)
  <2>1. Running(c) BY Zenon DEF read_lock
  <2>2. thr[t].op = "open_r" BY <1>1, <1>4, Zenon DEF PlaceOf
  <2>3. ~ Reads(t) /\ Reads(t)' BY <1>3, <1>11, <2>2, Zenon DEF Reads
  <2>4. plock'[c] >= Absent BY <1>1, <1>4, <1>5, SMTT(30) DEF IInv, Shape, ReaderInv, Readers
  <2> QED BY <1>4, <1>5, <2>1, <2>3, <2>4, Zenon DEF ReadEffect
<1> QED BY <1>4, <1>6, <1>7, <1>8, <1>9, <1>10, <1>12, <1>13, <1>14, StepKeeps, Zenon

-----------------------------------------------------------------------------
(* Unlocking.                                                              *)

\* SDK::unlock gives back a lock that is taken, or its process has done
\* something undefined.
LEMMA UnlockEffect ==
    ASSUME Shape, NEW c \in Client, unlock(c, 1)
    PROVE  /\ remote' \in [Client -> BOOLEAN] /\ remote'[c] = FALSE
           /\ plock' \in [Client -> Int]
           /\ trouble' \in [Client -> SUBSET Trouble]
           /\ trouble[c] \subseteq trouble'[c]
           /\ "undefined" \notin trouble'[c] => plock'[c] = AfterUnlock(c, 1)
           /\ \/ plock'[c] = plock[c] /\ "undefined" \in trouble'[c]
              \/ plock'[c] \in {Absent, Locked, 0}
              \/ plock'[c] >= 0 /\ plock'[c] < plock[c]
           /\ \A d \in Client \ {c} :
                remote'[d] = remote[d] /\ plock'[d] = plock[d] /\ trouble'[d] = trouble[d]
<1>1. remote' = [remote EXCEPT ![c] = FALSE] BY Zenon DEF unlock
<1>2. CASE AfterUnlock(c, 1) = None
  <2>1. trouble' = [trouble EXCEPT ![c] = @ \cup {"undefined"}] /\ plock' = plock
    BY <1>2, Zenon DEF unlock
  <2> QED BY <1>1, <2>1, Zenon DEF Shape, Trouble
<1>3. CASE AfterUnlock(c, 1) # None
  <2>1. plock' = [plock EXCEPT ![c] = AfterUnlock(c, 1)] /\ trouble' = trouble
    BY <1>3, Zenon DEF unlock
  <2>2. AfterUnlock(c, 1) \in Int BY <1>3 DEF AfterUnlock, Shape
  <2>3. \/ AfterUnlock(c, 1) \in {Absent, Locked, 0}
        \/ AfterUnlock(c, 1) >= 0 /\ AfterUnlock(c, 1) < plock[c]
    BY <1>3 DEF AfterUnlock, Shape
  <2> QED BY <1>1, <2>1, <2>2, <2>3, Zenon DEF Shape
<1> QED BY <1>2, <1>3, Zenon

\* A session ends and gives its path lock back.
LEMMA ReleaseKeeps ==
    ASSUME IInv, NEW t \in Thread, Holds(t), WorldEffect,
           unlock(owner[t], 1), thr' = [thr EXCEPT ![t] = Idle],
           UNCHANGED <<slave, timer, alive>>
    PROVE  IInv'
<1> DEFINE c == owner[t]
<1>1. Shape /\ c \in Client BY SessionsAssumption, Zenon DEF IInv
<1>2. /\ thr' \in [Thread -> ThreadState] /\ thr'[t] = Idle
      /\ PlaceOf(Idle) /\ RequestOf(Idle)
      /\ ~ Holds(t)' /\ thr'[t].pc \notin Recorded
      /\ \A u \in Thread \ {t} : thr'[u] = thr[u]
  BY <1>1, IdleMoves, Zenon
<1>3. /\ remote' \in [Client -> BOOLEAN] /\ remote'[c] = FALSE
      /\ plock' \in [Client -> Int]
      /\ trouble' \in [Client -> SUBSET Trouble]
      /\ trouble[c] \subseteq trouble'[c]
      /\ "undefined" \notin trouble'[c] => plock'[c] = AfterUnlock(c, 1)
      /\ \/ plock'[c] = plock[c] /\ "undefined" \in trouble'[c]
         \/ plock'[c] \in {Absent, Locked, 0}
         \/ plock'[c] >= 0 /\ plock'[c] < plock[c]
      /\ \A d \in Client \ {c} :
           remote'[d] = remote[d] /\ plock'[d] = plock[d] /\ trouble'[d] = trouble[d]
  BY <1>1, UnlockEffect, Zenon
<1>4. Shape' BY <1>1, <1>2, <1>3, Zenon DEF Shape, WorldEffect
<1>5. Others(t) BY <1>2, <1>3, Zenon DEF Others
<1>6. CauseEffect(t) BY <1>2, <1>3, Zenon DEF CauseEffect, WorldEffect, Idle
<1>7. Sound(c)' => LockEffect(t)
  BY <1>2, <1>3, Zenon DEF Sound, Running, LockEffect
<1>8. RecordEffect(t) BY <1>2, Zenon DEF RecordEffect
<1>9. (Running(c)' => Running(c)) => ReadEffect(t)
  BY <1>1, <1>3, <1>4, ReadSteps, Zenon DEF IInv, Running
<1> QED BY <1>2, <1>4, <1>5, <1>6, <1>7, <1>8, <1>9, StepKeeps, Zenon DEF WorldEffect

\* The end of fsync or of close after its put_ok was answered.
LEMMA SyncedKeeps ==
    ASSUME IInv, NEW t \in Thread, thr[t].pc \in {"fsync", "close"}, Synced(t),
           WorldEffect, UNCHANGED <<slave, timer, alive>>
    PROVE  IInv'
<1>1. Holds(t) BY Zenon DEF Holds
<1>2. CASE thr[t].pc = "close"
  <2>1. unlock(owner[t], 1) /\ thr' = [thr EXCEPT ![t] = Idle] BY <1>2, Zenon DEF Synced, Closed
  <2> QED BY <1>1, <2>1, ReleaseKeeps, Zenon
<1>3. CASE thr[t].pc = "fsync"
  <2>1. Goto(t, "open") /\ UNCHANGED <<remote, plock, trouble>> BY <1>3, Zenon DEF Synced, local
  <2>2. thr[t] \in ThreadState /\ PlaceOf(thr[t]) BY Zenon DEF IInv, Shape, PlaceInv
  <2>3. PlaceOf([thr[t] EXCEPT !.pc = "open", !.req = None])
    BY <1>3, <2>2, Zenon DEF PlaceOf, ThreadState
  <2>4. "open" \in Pc BY Zenon DEF Pc
  <2> QED BY <1>3, <2>1, <2>3, <2>4, GotoKeeps, Zenon DEF Recorded
<1> QED BY <1>2, <1>3, Zenon

-----------------------------------------------------------------------------
(* Exceptions.                                                             *)

\* The namenode's refusal ends the operation, or FUSE::open swallows it.
LEMMA MessageExceptionKeeps ==
    ASSUME IInv, NEW t \in Thread, MessageException(t), Running(owner[t]), WorldEffect,
           thr[t].pc \in (Rpcs \cup {"update"}) \ {"fsync", "close"},
           thr[t].op \in Opens /\ thr[t].again => removed,
           UNCHANGED <<slave, timer, remote, plock>>
    PROVE  IInv'
<1> DEFINE c == owner[t]
<1> DEFINE opens == thr[t].op \in Opens
<1>1. Shape /\ c \in Client /\ thr[t] \in ThreadState /\ PlaceOf(thr[t])
  BY SessionsAssumption, Zenon DEF IInv, Shape, PlaceInv
<1>2. alive' = [alive EXCEPT ![c] = ~ (opens /\ thr[t].again)] BY Zenon DEF MessageException
<1>3. alive' \in [Client -> BOOLEAN] /\ (alive'[c] <=> ~ (opens /\ thr[t].again))
      /\ \A d \in Client \ {c} : alive'[d] = alive[d]
  BY <1>1, <1>2, Zenon DEF Shape
<1>4. PICK new \in SUBSET Trouble :
        /\ trouble' = [trouble EXCEPT ![c] = @ \cup new]
        /\ opens => "swallowed" \in new
        /\ ~ opens /\ Holds(t) => "leak" \in new
  <2>1. CASE opens BY <2>1, Zenon DEF MessageException, Trouble
  <2>2. CASE ~ opens /\ Holds(t) BY <2>2, Zenon DEF MessageException, Trouble
  <2>3. CASE ~ opens /\ ~ Holds(t) BY <2>3, Zenon DEF MessageException, Trouble
  <2> QED BY <2>1, <2>2, <2>3, Zenon
<1>5. /\ trouble' \in [Client -> SUBSET Trouble] /\ trouble'[c] = trouble[c] \cup new
      /\ \A d \in Client \ {c} : trouble'[d] = trouble[d]
  BY <1>1, <1>4, Zenon DEF Shape
<1>6. alive[c] BY Zenon DEF Running
<1>7. CASE opens /\ ~ thr[t].again
  <2>1. Goto(t, "open") BY <1>7, Zenon DEF MessageException
  <2>2. "open" \in Pc BY Zenon DEF Pc
  <2>3. /\ thr' \in [Thread -> ThreadState]
        /\ thr'[t].op = thr[t].op /\ thr'[t].pc = "open"
        /\ thr'[t].again = thr[t].again /\ thr'[t].req = None
        /\ \A u \in Thread \ {t} : thr'[u] = thr[u]
    BY <1>1, <2>1, <2>2, GotoMoves, Zenon
  <2>4. Holds(t) BY <1>1, <1>7, Zenon DEF Holds, PlaceOf, Opens, Rpcs, PutOks
  <2>5. Shape' BY <1>1, <1>3, <1>5, <2>3, Zenon DEF Shape, WorldEffect
  <2>6. Others(t) BY <1>3, <1>5, <2>3, Zenon DEF Others
  <2>7. CauseEffect(t)
    BY <1>3, <1>5, <1>7, <2>3, Zenon DEF CauseEffect, WorldEffect, Rpcs, PutOks
  <2>8. PlaceOf(thr'[t]) /\ RequestOf(thr'[t])
    BY <1>7, <2>3, Zenon DEF PlaceOf, RequestOf, Opens
  <2>9. LockEffect(t) BY <2>3, <2>4, Zenon DEF LockEffect, Holds, Writer
  <2>10. ~ Kept(c)' BY <1>4, <1>5, <1>7, Zenon DEF Kept
  <2>11. Reads(t) => Reads(t)' BY <2>3, Zenon DEF Reads, Holds
  <2>12. (Running(c)' => Running(c)) => ReadEffect(t)
    BY <1>1, <2>5, <2>11, ReadSteps, Zenon DEF IInv
  <2> QED BY <1>6, <2>5, <2>6, <2>7, <2>8, <2>9, <2>10, <2>12, StepKeeps, Zenon DEF WorldEffect
<1>8. CASE ~ (opens /\ ~ thr[t].again)
  <2>1. thr' = [thr EXCEPT ![t] = Idle] BY <1>8, Zenon DEF MessageException
  <2>2. /\ thr' \in [Thread -> ThreadState] /\ thr'[t] = Idle
        /\ PlaceOf(Idle) /\ RequestOf(Idle)
        /\ ~ Holds(t)' /\ thr'[t].pc \notin Recorded
        /\ \A u \in Thread \ {t} : thr'[u] = thr[u]
    BY <1>1, <2>1, IdleMoves, Zenon
  <2>3. Shape' BY <1>1, <1>3, <1>5, <2>2, Zenon DEF Shape, WorldEffect
  <2>4. Others(t) BY <1>3, <1>5, <2>2, Zenon DEF Others
  <2>5. CauseEffect(t) BY <1>3, <1>5, <2>2, SMTT(30) DEF CauseEffect, WorldEffect, Idle
  <2>6. Sound(c)' => LockEffect(t)
    BY <1>3, <1>4, <1>5, <1>8, <2>2, SMTT(20) DEF Sound, Running, LockEffect
  <2>7. RecordEffect(t) BY <2>2, Zenon DEF RecordEffect
  <2>8. ~ (Running(c)' /\ Reads(t)) BY <1>3, <1>8, Zenon DEF Running, Reads, Opens
  <2>9. (Running(c)' => Running(c)) => ReadEffect(t)
    BY <1>1, <2>3, <2>8, ReadSteps, Zenon DEF IInv
  <2> QED BY <1>6, <2>2, <2>3, <2>4, <2>5, <2>6, <2>7, <2>9, StepKeeps, Zenon DEF WorldEffect
<1> QED BY <1>7, <1>8, Zenon

\* After a reinit the promises of Sound are off; why a process ends is not.
LEMMA ReinitEffect ==
    ASSUME Shape, NEW t \in Thread, NEW c \in Client, reinit(c, t)
    PROVE  /\ timer' \in [Client -> TimerState] /\ timer'[c] \in {timer[c], Rested}
           /\ remote' \in [Client -> BOOLEAN] /\ remote'[c] = FALSE
           /\ plock' \in [Client -> Int] /\ plock'[c] = Absent
           /\ trouble' \in [Client -> SUBSET Trouble]
           /\ trouble[c] \subseteq trouble'[c] /\ "reinit" \in trouble'[c]
           /\ \A d \in Client \ {c} :
                /\ remote'[d] = remote[d] /\ plock'[d] = plock[d]
                /\ timer'[d] = timer[d] /\ trouble'[d] = trouble[d]
<1>1. PICK new \in SUBSET Trouble :
        trouble' = [trouble EXCEPT ![c] = @ \cup {"reinit"} \cup new]
  <2>1. {"undefined"} \in SUBSET Trouble /\ {} \in SUBSET Trouble BY Zenon DEF Trouble
  <2> QED BY <2>1, Zenon DEF reinit
<1>2. "reinit" \in Trouble BY Zenon DEF Trouble
<1>3. Rested \in TimerState BY DEF Rested, TimerState
<1>4. PICK r \in {timer[c], Rested} : timer' = [timer EXCEPT ![c] = r] BY Zenon DEF reinit
<1>5. remote' = [remote EXCEPT ![c] = FALSE] /\ plock' = [plock EXCEPT ![c] = Absent]
  BY Zenon DEF reinit
<1> QED BY <1>1, <1>2, <1>3, <1>4, <1>5 DEF Shape

\* FUSE replaces the SDK, whose locks and records are gone.
LEMMA ReinitKeeps ==
    ASSUME IInv, NEW t \in Thread, reinit(owner[t], t), WorldEffect,
           UNCHANGED <<slave, alive>>,
           thr' \in [Thread -> ThreadState], PlaceOf(thr'[t]), RequestOf(thr'[t]),
           \A u \in Thread \ {t} : thr'[u] = thr[u],
           thr'[t].again => thr[t].again \/ fails' > 0,
           thr'[t].pc # "idle" /\ thr'[t].op \in Opens =>
             thr[t].pc # "idle" /\ thr[t].op \in Opens
    PROVE  IInv'
<1> DEFINE c == owner[t]
<1>1. Shape /\ c \in Client BY SessionsAssumption, Zenon DEF IInv
<1>2. /\ timer' \in [Client -> TimerState] /\ timer'[c] \in {timer[c], Rested}
      /\ remote' \in [Client -> BOOLEAN] /\ remote'[c] = FALSE
      /\ plock' \in [Client -> Int] /\ plock'[c] = Absent
      /\ trouble' \in [Client -> SUBSET Trouble]
      /\ trouble[c] \subseteq trouble'[c] /\ "reinit" \in trouble'[c]
      /\ \A d \in Client \ {c} :
           /\ remote'[d] = remote[d] /\ plock'[d] = plock[d]
           /\ timer'[d] = timer[d] /\ trouble'[d] = trouble[d]
  BY <1>1, ReinitEffect, Zenon
<1>3. Shape' BY <1>1, <1>2, Zenon DEF Shape, WorldEffect
<1>4. Others(t) BY <1>2, Zenon DEF Others
<1>5. CauseEffect(t) BY <1>2, Zenon DEF CauseEffect, WorldEffect
<1>6. ~ Sound(c)' /\ ~ Kept(c)' BY <1>2, Zenon DEF Sound, Kept
<1>7. (Running(c)' => Running(c)) => ReadEffect(t)
  BY <1>1, <1>2, <1>3, ReadSteps, Zenon DEF IInv
<1> QED BY <1>3, <1>4, <1>5, <1>6, <1>7, StepKeeps, Zenon DEF WorldEffect

\* A lost RPC throws: the operation is tried again, or the process ends.
LEMMA RuntimeErrorKeeps ==
    ASSUME IInv, NEW t \in Thread, RuntimeError(t), Running(owner[t]), WorldEffect,
           fails' = fails + 1,
           thr[t].pc \in (Rpcs \cup {"update"}) \ {"fsync", "close"},
           slave' = slave
    PROVE  IInv'
<1> DEFINE c == owner[t]
<1> DEFINE op == thr[t].op
<1>1. Shape /\ c \in Client /\ thr[t] \in ThreadState /\ PlaceOf(thr[t])
  BY SessionsAssumption, Zenon DEF IInv, Shape, PlaceInv
<1>2. fails \in Nat /\ fails' > 0 /\ (thr[t].again => fails' > 1)
  BY <1>1 DEF IInv, CauseInv, Shape
<1>3. CASE op = "put"
  <2>1. thr' = [thr EXCEPT ![t] = Idle] /\ UNCHANGED <<timer, alive, remote, plock, trouble>>
    BY <1>3, Zenon DEF RuntimeError, local
  <2>2. ~ Holds(t) BY <1>1, <1>3, Zenon DEF Holds, PlaceOf
  <2> QED BY <2>1, <2>2, EndKeeps, Zenon
<1>4. CASE op # "put" /\ ~ thr[t].again
  <2> DEFINE r == [thr[t] EXCEPT !.pc = FirstPc(op), !.again = TRUE, !.req = None]
  <2>1. reinit(c, t) /\ thr' = [thr EXCEPT ![t] = r] /\ alive' = alive
    BY <1>4, Zenon DEF RuntimeError
  <2>2. op \in Op BY <1>1, Zenon DEF ThreadState
  <2>3. FirstPc(op) \in {"put", "rm", "read_lock", "write_lock"} BY <2>2, Zenon DEF FirstPc, Op
  <2>4. r \in ThreadState /\ r.op = op /\ r.pc = FirstPc(op) /\ r.req = None
    BY <1>1, <2>3, Zenon DEF ThreadState, Pc, Rpcs
  <2>5. PlaceOf(r) BY <2>2, <2>4 DEF PlaceOf, FirstPc, Op
  <2>6. RequestOf(r) BY <2>4, Zenon DEF RequestOf
  <2> HIDE DEF r
  <2>7. /\ thr' \in [Thread -> ThreadState] /\ thr'[t] = r
        /\ \A u \in Thread \ {t} : thr'[u] = thr[u]
    BY <1>1, <2>1, <2>4, ThreadMoves, Zenon
  <2>8. thr[t].pc # "idle" BY Zenon DEF Rpcs, PutOks
  <2> QED BY <1>2, <2>1, <2>4, <2>5, <2>6, <2>7, <2>8, ReinitKeeps, Zenon
<1>5. CASE op # "put" /\ thr[t].again
  <2>1. /\ alive' = [alive EXCEPT ![c] = (op \notin Opens)]
        /\ thr' = [thr EXCEPT ![t] = Idle]
        /\ trouble' = IF Holds(t) THEN [trouble EXCEPT ![c] = @ \cup {"leak"}] ELSE trouble
        /\ UNCHANGED <<timer, remote, plock>>
    BY <1>5, Zenon DEF RuntimeError, local
  <2>2. /\ thr' \in [Thread -> ThreadState] /\ thr'[t] = Idle
        /\ PlaceOf(Idle) /\ RequestOf(Idle)
        /\ ~ Holds(t)' /\ thr'[t].pc \notin Recorded
        /\ \A u \in Thread \ {t} : thr'[u] = thr[u]
    BY <1>1, <2>1, IdleMoves, Zenon
  <2>3. /\ trouble' \in [Client -> SUBSET Trouble] /\ trouble[c] \subseteq trouble'[c]
        /\ Holds(t) => "leak" \in trouble'[c]
        /\ \A d \in Client \ {c} : trouble'[d] = trouble[d]
    <3>1. CASE Holds(t) BY <1>1, <2>1, <3>1, Zenon DEF Shape, Trouble
    <3>2. CASE ~ Holds(t) BY <1>1, <2>1, <3>2, Zenon DEF Shape
    <3> QED BY <3>1, <3>2, Zenon
  <2>4. /\ alive' \in [Client -> BOOLEAN]
        /\ \A d \in Client \ {c} : alive'[d] = alive[d]
    BY <1>1, <2>1, Zenon DEF Shape
  <2>5. Shape' BY <1>1, <2>1, <2>2, <2>3, <2>4, Zenon DEF Shape, WorldEffect
  <2>6. Others(t) BY <2>1, <2>2, <2>3, <2>4, Zenon DEF Others
  <2>7. CauseEffect(t) BY <1>2, <1>5, <2>1, <2>2, <2>3, SMTT(20) DEF CauseEffect, WorldEffect, Idle
  <2>8. Sound(c)' => LockEffect(t) BY <2>1, <2>2, <2>3, Zenon DEF Sound, LockEffect
  <2>9. RecordEffect(t) BY <2>1, <2>2, Zenon DEF RecordEffect
  <2>10. alive[c] BY Zenon DEF Running
  <2>11. ~ (Running(c)' /\ Reads(t)) BY <1>1, <2>1, Zenon DEF Shape, Running, Reads, Opens
  <2>12. (Running(c)' => Running(c)) => ReadEffect(t)
    BY <1>1, <2>1, <2>5, <2>11, ReadSteps, Zenon DEF IInv
  <2> QED BY <2>2, <2>5, <2>6, <2>7, <2>8, <2>9, <2>10, <2>12, StepKeeps, Zenon DEF WorldEffect
<1> QED BY <1>1, <1>3, <1>4, <1>5, Zenon DEF ThreadState

-----------------------------------------------------------------------------
(* The other steps of a thread.                                            *)

\* SDK::put has encoded its blocks and drops the path from remoteLocks.
LEMMA EncodedHolds ==
    ASSUME IInv, NEW t \in Thread, Encoded(t)
    PROVE  IInv'
<1> DEFINE c == owner[t]
<1>1. Shape /\ c \in Client /\ thr[t] \in ThreadState /\ PlaceOf(thr[t])
  BY SessionsAssumption, Zenon DEF IInv, Shape, PlaceInv
<1>2. /\ thr[t].pc = "encode" /\ Goto(t, "put_ok") /\ remote' = [remote EXCEPT ![c] = FALSE]
      /\ trouble' = IF remote[c] THEN [trouble EXCEPT ![c] = @ \cup {"dropped"}] ELSE trouble
      /\ UNCHANGED <<file, slave, timer, alive, plock, fails, cleared, removed>>
  BY Zenon DEF Encoded, history
<1>3. "put_ok" \in Pc BY Zenon DEF Pc, Rpcs, PutOks
<1>4. /\ thr' \in [Thread -> ThreadState]
      /\ thr'[t].op = thr[t].op /\ thr'[t].pc = "put_ok"
      /\ thr'[t].again = thr[t].again /\ thr'[t].req = None
      /\ \A u \in Thread \ {t} : thr'[u] = thr[u]
  BY <1>1, <1>2, <1>3, GotoMoves, Zenon
<1>5. /\ trouble' \in [Client -> SUBSET Trouble] /\ trouble[c] \subseteq trouble'[c]
      /\ remote[c] => "dropped" \in trouble'[c]
      /\ \A d \in Client \ {c} : trouble'[d] = trouble[d]
  <2>1. CASE remote[c] BY <1>1, <1>2, <2>1, Zenon DEF Shape, Trouble
  <2>2. CASE ~ remote[c] BY <1>1, <1>2, <2>2, Zenon DEF Shape
  <2> QED BY <2>1, <2>2, Zenon
<1>6. /\ remote' \in [Client -> BOOLEAN] /\ remote'[c] = FALSE /\ remote[c] \in BOOLEAN
      /\ \A d \in Client \ {c} : remote'[d] = remote[d]
  BY <1>1, <1>2, Zenon DEF Shape
<1>7. WorldEffect BY <1>1, <1>2, SameWorld, Zenon
<1>8. Shape' BY <1>1, <1>2, <1>4, <1>5, <1>6, Zenon DEF Shape
<1>9. Others(t) BY <1>2, <1>4, <1>5, <1>6, Zenon DEF Others
<1>10. CauseEffect(t) BY <1>1, <1>2, <1>4, <1>5, <1>6, SMTT(30) DEF CauseEffect, Shape
<1>11. PlaceOf(thr'[t]) /\ RequestOf(thr'[t]) BY <1>1, <1>2, <1>4, SMTT(20) DEF PlaceOf, RequestOf
<1>12. LockEffect(t) BY <1>2, <1>4, Zenon DEF LockEffect, Holds
<1>13. Kept(c)' => RecordEffect(t)
  BY <1>2, <1>4, <1>5, <1>6, Zenon DEF Kept, RecordEffect, Recorded
<1>14. (Running(c)' => Running(c)) => ReadEffect(t)
  <2>1. ~ Reads(t) BY <1>2, Zenon DEF Reads, Holds
  <2> QED BY <1>1, <1>2, <1>8, <2>1, ReadSteps, Zenon DEF IInv
<1> QED BY <1>2, <1>7, <1>8, <1>9, <1>10, <1>11, <1>12, <1>13, <1>14, StepKeeps, SMTT(20) DEF WorldEffect

\* SDK::update_inode with an inode that ls has returned.
LEMMA UpdateInodeHolds ==
    ASSUME IInv, NEW t \in Thread, update_inode(t)
    PROVE  IInv'
<1> DEFINE c == owner[t]
<1>1. Shape /\ c \in Client /\ thr[t] \in ThreadState /\ PlaceOf(thr[t])
  BY SessionsAssumption, Zenon DEF IInv, Shape, PlaceInv
<1>2. /\ Running(c) /\ thr[t].pc = "update"
      /\ UNCHANGED <<file, slave, timer, fails, cleared, removed>>
  BY Zenon DEF update_inode, history
<1>3. WorldEffect BY <1>1, <1>2, SameWorld, Zenon
<1>4. Holds(t) BY <1>2, Zenon DEF Holds
<1>5. CASE slave.valid
  <2>1. Updated(t) /\ alive' = alive BY <1>5, SMTT(20) DEF update_inode
  <2>2. CASE thr[t].op \in {"open_trunc", "truncate"} /\ slave.size # 0
    <3>1. Goto(t, "shrink") /\ UNCHANGED <<remote, plock, trouble>> BY <2>1, <2>2, Zenon DEF Updated
    <3>2. PlaceOf([thr[t] EXCEPT !.pc = "shrink", !.req = None])
      BY <1>1, <2>2, Zenon DEF PlaceOf, ThreadState
    <3>3. "shrink" \in Pc BY Zenon DEF Pc, Rpcs, PutOks
    <3> QED BY <1>2, <1>3, <2>1, <3>1, <3>2, <3>3, GotoKeeps, Zenon DEF Recorded
  <2>3. CASE thr[t].op = "truncate" /\ slave.size = 0
    <3>1. thr' = [thr EXCEPT ![t] = Idle] /\ unlock(c, 1) BY <2>1, <2>3, Zenon DEF Updated
    <3> QED BY <1>2, <1>3, <1>4, <2>1, <3>1, ReleaseKeeps, Zenon
  <2>4. CASE /\ ~ (thr[t].op \in {"open_trunc", "truncate"} /\ slave.size # 0)
             /\ thr[t].op # "truncate"
    <3>1. Goto(t, "open") /\ UNCHANGED <<remote, plock, trouble>> BY <2>1, <2>4, Zenon DEF Updated
    <3>2. PlaceOf([thr[t] EXCEPT !.pc = "open", !.req = None])
      BY <1>1, <1>2, Zenon DEF PlaceOf, ThreadState
    <3>3. "open" \in Pc BY Zenon DEF Pc
    <3> QED BY <1>2, <1>3, <2>1, <3>1, <3>2, <3>3, GotoKeeps, Zenon DEF Recorded
  <2> QED BY <2>2, <2>3, <2>4, Zenon
<1>6. CASE ~ slave.valid
  <2>1. MessageException(t) /\ UNCHANGED <<remote, plock>> BY <1>6, Zenon DEF update_inode
  <2>2. thr[t].op \in Opens => removed BY <1>2, <1>6, Zenon DEF IInv, CauseInv
  <2> QED BY <1>2, <1>3, <2>1, <2>2, MessageExceptionKeeps, Zenon
<1> QED BY <1>5, <1>6, SMTT(20)

\* The namenode refuses an RPC: MessageException.
LEMMA RefusedHolds ==
    ASSUME IInv, NEW t \in Thread, Refused(t)
    PROVE  IInv'
<1>1. Shape /\ thr[t] \in ThreadState /\ PlaceOf(thr[t]) BY Zenon DEF IInv, Shape, PlaceInv
<1>2. /\ Running(owner[t]) /\ thr[t].pc \in Rpcs /\ ~ Check(thr[t].pc)
      /\ UNCHANGED <<file, slave, timer, fails, cleared, removed>>
  BY Zenon DEF Refused, history
<1>3. WorldEffect BY <1>1, <1>2, SameWorld, Zenon
<1>4. CASE thr[t].pc \in {"fsync", "close"}
  <2>1. Synced(t) /\ alive' = alive BY <1>4, Zenon DEF Refused
  <2> QED BY <1>2, <1>3, <1>4, <2>1, SyncedKeeps, Zenon
<1>5. CASE thr[t].pc \notin {"fsync", "close"}
  <2>1. MessageException(t) /\ UNCHANGED <<remote, plock>> BY <1>5, Zenon DEF Refused, local
  <2>2. thr[t].op \in Opens => removed
    <3>1. SUFFICES ASSUME thr[t].op \in Opens PROVE removed OBVIOUS
    <3>2. thr[t].pc # "put" BY <1>1, <3>1, Zenon DEF PlaceOf, Opens
    <3>3. ~ file.valid BY <1>2, <3>2, Zenon DEF Check
    <3>4. Created BY <1>2, <3>1, Zenon DEF IInv, CauseInv, Rpcs, PutOks
    <3> QED BY <3>3, <3>4, Zenon DEF Created
  <2> QED BY <1>2, <1>3, <1>5, <2>1, <2>2, MessageExceptionKeeps, Zenon
<1> QED BY <1>4, <1>5, Zenon

\* SDK::lock_remote has set the deadline and records the path.
LEMMA LockedRemoteKeeps ==
    ASSUME IInv, NEW t \in Thread, LockedRemote(t), thr[t].pc = "lock_remote", WorldEffect,
           file'.valid, file'.ddl = LockTicks,
           UNCHANGED <<slave, timer, alive>>
    PROVE  IInv'
<1> DEFINE c == owner[t]
<1>1. Shape /\ c \in Client /\ thr[t] \in ThreadState /\ PlaceOf(thr[t])
  BY SessionsAssumption, Zenon DEF IInv, Shape, PlaceInv
<1>2. "update" \in Pc BY Zenon DEF Pc
<1>3. /\ thr' \in [Thread -> ThreadState]
      /\ thr'[t].op = thr[t].op /\ thr'[t].pc = "update"
      /\ thr'[t].again = thr[t].again /\ thr'[t].req = None
      /\ \A u \in Thread \ {t} : thr'[u] = thr[u]
  BY <1>1, <1>2, GotoMoves, Zenon DEF LockedRemote
<1>4. /\ remote' \in [Client -> BOOLEAN] /\ remote'[c] = TRUE
      /\ \A d \in Client \ {c} : remote'[d] = remote[d]
  BY <1>1, Zenon DEF LockedRemote, Shape
<1>5. plock' = plock /\ trouble' = trouble BY Zenon DEF LockedRemote
<1>6. Shape' BY <1>1, <1>3, <1>4, <1>5, Zenon DEF Shape, WorldEffect
<1>7. Others(t) BY <1>3, <1>4, <1>5, Zenon DEF Others
<1>8. CauseEffect(t) BY <1>3, <1>5, Zenon DEF CauseEffect, WorldEffect
<1>9. PlaceOf(thr'[t]) /\ RequestOf(thr'[t]) BY <1>1, <1>3, SMTT(20) DEF PlaceOf, RequestOf
<1>10. LockEffect(t) BY <1>3, <1>5, Zenon DEF LockEffect, Holds, Writer
<1>11. RecordEffect(t) BY <1>4, SMTT(20) DEF RecordEffect
<1>12. (Running(c)' => Running(c)) => ReadEffect(t)
  <2>1. Reads(t) => Reads(t)' BY <1>3, Zenon DEF Reads, Holds
  <2> QED BY <1>1, <1>5, <1>6, <2>1, ReadSteps, Zenon DEF IInv
<1> QED BY <1>6, <1>7, <1>8, <1>9, <1>10, <1>11, <1>12, StepKeeps, SMTT(20) DEF WorldEffect

\* A truncation that had something to cut off.
LEMMA ShrunkKeeps ==
    ASSUME IInv, NEW t \in Thread, Shrunk(t), thr[t].pc = "shrink", WorldEffect,
           UNCHANGED <<slave, timer, alive>>
    PROVE  IInv'
<1> DEFINE c == owner[t]
<1> DEFINE l == AfterUnlock(c, IF thr[t].op = "truncate" THEN 2 ELSE 1)
<1>1. Shape /\ c \in Client /\ thr[t] \in ThreadState /\ PlaceOf(thr[t])
  BY SessionsAssumption, Zenon DEF IInv, Shape, PlaceInv
<1>2. /\ thr' \in [Thread -> ThreadState]
      /\ thr'[t].again => thr[t].again
      /\ thr'[t].pc # "idle" => thr'[t].op = thr[t].op
      /\ PlaceOf(thr'[t]) /\ RequestOf(thr'[t])
      /\ \A u \in Thread \ {t} : thr'[u] = thr[u]
  <2>1. CASE thr[t].op = "truncate"
    <3>1. thr' = [thr EXCEPT ![t] = Idle] BY <2>1, Zenon DEF Shrunk
    <3> QED BY <1>1, <3>1, IdleMoves, Zenon DEF Idle
  <2>2. CASE thr[t].op # "truncate"
    <3>1. Goto(t, "open") BY <2>2, Zenon DEF Shrunk
    <3>2. "open" \in Pc BY Zenon DEF Pc
    <3>3. /\ thr' \in [Thread -> ThreadState]
          /\ thr'[t].op = thr[t].op /\ thr'[t].pc = "open"
          /\ thr'[t].again = thr[t].again /\ thr'[t].req = None
          /\ \A u \in Thread \ {t} : thr'[u] = thr[u]
      BY <1>1, <3>1, <3>2, GotoMoves, Zenon
    <3> QED BY <1>1, <3>3, Zenon DEF PlaceOf, RequestOf
  <2> QED BY <2>1, <2>2, Zenon
<1>3. \/ l = None
      \/ l \in Int /\ (l \in {Absent, Locked, 0} \/ (l >= 0 /\ l < plock[c]))
  BY <1>1 DEF AfterUnlock, Shape
<1>4. /\ remote' = [remote EXCEPT ![c] = FALSE]
      /\ plock' = IF l = None THEN plock ELSE [plock EXCEPT ![c] = l]
  BY Zenon DEF Shrunk
<1>5. PICK new \in SUBSET Trouble :
        trouble' = [trouble EXCEPT ![c] = @ \cup {"early_unlock"} \cup new]
  <2>1. {"undefined"} \in SUBSET Trouble /\ {} \in SUBSET Trouble BY Zenon DEF Trouble
  <2> QED BY <2>1, Zenon DEF Shrunk
<1> HIDE DEF l
<1>6. /\ plock' \in [Client -> Int]
      /\ \/ plock'[c] = plock[c]
         \/ plock'[c] \in {Absent, Locked, 0}
         \/ plock'[c] >= 0 /\ plock'[c] < plock[c]
      /\ \A d \in Client \ {c} : plock'[d] = plock[d]
  <2>1. CASE l = None BY <1>1, <1>4, <2>1, Zenon DEF Shape
  <2>2. CASE l # None BY <1>1, <1>3, <1>4, <2>2, Zenon DEF Shape
  <2> QED BY <2>1, <2>2, Zenon
<1>7. /\ trouble' \in [Client -> SUBSET Trouble] /\ trouble[c] \subseteq trouble'[c]
      /\ "early_unlock" \in trouble'[c]
      /\ \A d \in Client \ {c} : trouble'[d] = trouble[d]
  BY <1>1, <1>5, Zenon DEF Shape, Trouble
<1>8. /\ remote' \in [Client -> BOOLEAN] /\ remote'[c] = FALSE
      /\ \A d \in Client \ {c} : remote'[d] = remote[d]
  BY <1>1, <1>4, Zenon DEF Shape
<1>9. Shape' BY <1>1, <1>2, <1>6, <1>7, <1>8, SMTT(20) DEF Shape, WorldEffect
<1>10. Others(t) BY <1>2, <1>6, <1>7, <1>8, SMTT(20) DEF Others
<1>11. CauseEffect(t) BY <1>2, <1>7, <1>8, Zenon DEF CauseEffect, WorldEffect
<1>12. ~ Sound(c)' /\ ~ Kept(c)' BY <1>7, Zenon DEF Sound, Kept
<1>13. (Running(c)' => Running(c)) => ReadEffect(t)
  <2>1. ~ Reads(t) BY <1>1, Zenon DEF Reads, PlaceOf
  <2> QED BY <1>1, <1>6, <1>9, <2>1, ReadSteps, Zenon DEF IInv
<1> QED BY <1>2, <1>9, <1>10, <1>11, <1>12, <1>13, StepKeeps, SMTT(20) DEF WorldEffect

\* An RPC that writes is applied and answered.
LEMMA AnsweredHolds ==
    ASSUME IInv, NEW t \in Thread, Answered(t)
    PROVE  IInv'
<1>1. Shape /\ thr[t] \in ThreadState /\ PlaceOf(thr[t]) /\ RequestOf(thr[t])
  BY Zenon DEF IInv, Shape, PlaceInv
<1>2. /\ thr[t].req # None /\ Applied(thr[t].pc, thr[t].req) /\ Succeeded(t)
      /\ UNCHANGED <<slave, timer, alive, fails>>
  BY Zenon DEF Answered
<1>3. /\ WorldEffect
      /\ thr[t].pc \notin PutOks \cup {"rm"} => file'.valid /\ file'.ddl = LockTicks
  BY <1>1, <1>2, EntryApplied, Zenon
<1>4. thr[t].pc \in Rpcs BY <1>1, <1>2, SMTT(20) DEF RequestOf
<1>5. ASSUME NEW pc \in {"put_lock", "encode", "write_lock"},
             thr[t].pc \in {"put", "put_lock", "put_ok"}, Goto(t, pc),
             pc = "write_lock" => thr[t].op = "create",
             UNCHANGED <<remote, plock, trouble>>
      PROVE  IInv'
  <2>1. PlaceOf([thr[t] EXCEPT !.pc = pc, !.req = None])
    BY <1>1, <1>5, Zenon DEF PlaceOf, ThreadState
  <2>2. pc \in Pc BY Zenon DEF Pc, Rpcs
  <2>3. {pc, thr[t].pc} \cap (Recorded \cup {"lock_remote"}) = {} BY <1>5, Zenon DEF Recorded
  <2> QED BY <1>2, <1>3, <1>5, <2>1, <2>2, <2>3, GotoKeeps, Zenon
<1>6. CASE thr[t].pc = "put"
  <2>1. Goto(t, "put_lock") /\ UNCHANGED <<remote, plock, trouble>>
    BY <1>2, <1>6, Zenon DEF Succeeded, local
  <2> QED BY <1>5, <1>6, <2>1, Zenon
<1>7. CASE thr[t].pc = "put_lock"
  <2>1. Goto(t, "encode") /\ UNCHANGED <<remote, plock, trouble>>
    BY <1>2, <1>7, Zenon DEF Succeeded, local
  <2> QED BY <1>5, <1>7, <2>1, Zenon
<1>8. CASE thr[t].pc = "put_ok" /\ thr[t].op = "create"
  <2>1. Goto(t, "write_lock") /\ UNCHANGED <<remote, plock, trouble>>
    BY <1>2, <1>8, Zenon DEF Succeeded, local
  <2> QED BY <1>5, <1>8, <2>1, Zenon
<1>9. CASE thr[t].pc = "rm" \/ (thr[t].pc = "put_ok" /\ thr[t].op = "put")
  <2>1. thr' = [thr EXCEPT ![t] = Idle] /\ UNCHANGED <<remote, plock, trouble>>
    BY <1>2, <1>9, Zenon DEF Succeeded, local
  <2>2. ~ Holds(t) BY <1>9, Zenon DEF Holds
  <2> QED BY <1>2, <1>3, <2>1, <2>2, EndKeeps, Zenon
<1>10. CASE thr[t].pc = "lock_remote"
  <2>1. LockedRemote(t) BY <1>2, <1>10, Zenon DEF Succeeded
  <2>2. file'.valid /\ file'.ddl = LockTicks BY <1>3, <1>10, Zenon DEF PutOks
  <2> QED BY <1>2, <1>3, <1>10, <2>1, <2>2, LockedRemoteKeeps, Zenon
<1>11. CASE thr[t].pc = "shrink"
  <2>1. Shrunk(t) BY <1>2, <1>11, Zenon DEF Succeeded
  <2> QED BY <1>2, <1>3, <1>11, <2>1, ShrunkKeeps, Zenon
<1>12. CASE thr[t].pc \in {"fsync", "close"}
  <2>1. Synced(t) BY <1>2, <1>12, Zenon DEF Succeeded
  <2> QED BY <1>2, <1>3, <1>12, <2>1, SyncedKeeps, Zenon
<1>13. thr[t].pc = "put_ok" => thr[t].op \in {"create", "put"} BY <1>1, Zenon DEF PlaceOf
<1> QED BY <1>4, <1>6, <1>7, <1>8, <1>9, <1>10, <1>11, <1>12, <1>13, SMTT(20) DEF Rpcs, PutOks

\* An RPC that writes, or its answer, is lost.
LEMMA LostHolds ==
    ASSUME IInv, NEW t \in Thread, Lost(t)
    PROVE  IInv'
<1>1. Shape /\ thr[t] \in ThreadState /\ RequestOf(thr[t]) BY Zenon DEF IInv, Shape, PlaceInv
<1>2. Running(owner[t]) /\ thr[t].pc \in Rpcs /\ fails' = fails + 1 /\ slave' = slave
  BY Zenon DEF Lost
<1>3. WorldEffect
  <2>1. CASE UNCHANGED <<file, history>>
    BY <1>1, <1>2, <2>1 DEF WorldEffect, FileEffect, Shape, history
  <2>2. CASE thr[t].req # None /\ Applied(thr[t].pc, thr[t].req)
    BY <1>1, <1>2, <2>2, EntryApplied, Zenon
  <2> QED BY <2>1, <2>2, Zenon DEF Lost
<1>4. CASE thr[t].pc \in {"fsync", "close"}
  <2>1. Synced(t) /\ UNCHANGED <<timer, alive>> BY <1>4, Zenon DEF Lost
  <2> QED BY <1>2, <1>3, <1>4, <2>1, SyncedKeeps, SMTT(20)
<1>5. CASE thr[t].pc \notin {"fsync", "close"}
  <2>1. RuntimeError(t) BY <1>5, Zenon DEF Lost
  <2> QED BY <1>2, <1>3, <1>5, <2>1, RuntimeErrorKeeps, Zenon
<1> QED BY <1>4, <1>5, Zenon

\* The ls of update_inode is lost.
LEMMA LsLostHolds ==
    ASSUME IInv, NEW t \in Thread, LsLost(t)
    PROVE  IInv'
<1>1. /\ Running(owner[t]) /\ thr[t].pc = "update" /\ fails' = fails + 1
      /\ RuntimeError(t) /\ UNCHANGED <<file, slave, cleared, removed>>
  BY Zenon DEF LsLost, history
<1>2. WorldEffect BY <1>1 DEF WorldEffect, FileEffect, IInv, Shape
<1> QED BY <1>1, <1>2, RuntimeErrorKeeps, Zenon

\* No cached inode is found where one is needed: FUSE replaces the SDK.
LEMMA NoInodeHolds ==
    ASSUME IInv, NEW t \in Thread, NoInode(t)
    PROVE  IInv'
<1>1. /\ reinit(owner[t], t)
      /\ UNCHANGED <<file, slave, thr, alive, fails, cleared, removed>>
  BY Zenon DEF NoInode, history
<1>2. Shape /\ PlaceOf(thr[t]) /\ RequestOf(thr[t]) BY Zenon DEF IInv, PlaceInv
<1>3. WorldEffect BY <1>1, <1>2, SameWorld, Zenon
<1>4. thr' \in [Thread -> ThreadState] /\ thr' = thr BY <1>1, <1>2, SMTT(20) DEF Shape
<1> QED BY <1>1, <1>2, <1>3, <1>4, ReinitKeeps, SMTT(20)

\* SDK::close, with something to upload, without, and without an inode.
LEMMA CloseHolds ==
    ASSUME IInv, NEW t \in Thread, close(t)
    PROVE  IInv'
<1> DEFINE c == owner[t]
<1>1. Shape BY Zenon DEF IInv
<1>2. CASE Upload(t, "close") BY <1>2, UploadHolds, Zenon
<1>3. CASE /\ thr[t].pc = "open" /\ Closed(t)
           /\ UNCHANGED <<file, slave, timer, alive, calls, fails, history>>
  <2>1. unlock(c, 1) /\ thr' = [thr EXCEPT ![t] = Idle] BY <1>3, Zenon DEF Closed
  <2>2. Holds(t) BY <1>3, Zenon DEF Holds
  <2>3. WorldEffect BY <1>1, <1>3, SameWorld, Zenon DEF history
  <2> QED BY <1>3, <2>1, <2>2, <2>3, ReleaseKeeps, Zenon
<1>4. CASE /\ reinit(c, t) /\ thr' = [thr EXCEPT ![t] = Idle]
           /\ UNCHANGED <<file, slave, alive, pending, calls, fails, history>>
  <2>1. WorldEffect BY <1>1, <1>4, SameWorld, Zenon DEF history
  <2>2. /\ thr' \in [Thread -> ThreadState] /\ thr'[t] = Idle
        /\ PlaceOf(Idle) /\ RequestOf(Idle)
        /\ \A u \in Thread \ {t} : thr'[u] = thr[u]
    BY <1>1, <1>4, IdleMoves, Zenon
  <2>3. Idle.pc = "idle" /\ Idle.again = FALSE BY Zenon DEF Idle
  <2> QED BY <1>4, <2>1, <2>2, <2>3, ReinitKeeps, Zenon
<1> QED BY <1>2, <1>3, <1>4, Zenon DEF close

HIDE DEF Locked, Absent

-----------------------------------------------------------------------------
(* The timer.                                                              *)

\* A step of the timer of c.
LEMMA TimerKeeps ==
    ASSUME IInv, Shape', WorldEffect, NEW c \in Client,
           UNCHANGED <<slave, thr, remote, plock>>,
           \A d \in Client \ {c} :
             timer'[d] = timer[d] /\ alive'[d] = alive[d] /\ trouble'[d] = trouble[d],
           alive'[c] => alive[c],
           trouble[c] \subseteq trouble'[c],
           timer'[c].req # None => timer'[c].req.valid /\ timer'[c].req.ddl = LockTicks,
           removed' \/ timer'[c].tries <= fails' \/ "empty_refresh" \in trouble'[c],
           ~ alive'[c] => ~ alive[c] \/ removed' \/ fails' > 1 \/ "empty_refresh" \in trouble'[c],
           alive'[c] => timer'[c].pc = timer[c].pc \/ file'.ddl = LockTicks
    PROVE  IInv'
<1>1. Shape BY Zenon DEF IInv
<1>2. PlaceInv' BY ZenonT(40) DEF IInv, PlaceInv, PlaceOf, RequestOf
<1>3. \A d \in Client : (Sound(d)' => Sound(d)) /\ (Kept(d)' => Kept(d) /\ alive'[d])
  BY Zenon DEF Sound, Kept, Running
<1>4. LockInv'
  <2>1. SUFFICES ASSUME NEW d \in Client, Sound(d)' PROVE LockOf(d)' BY Zenon DEF LockInv
  <2>2. LockOf(d) BY <1>3, <2>1, Zenon DEF IInv, LockInv
  <2> QED BY <2>2, Zenon DEF LockOf, Sessions, Holds, Writer, Readers
<1>5. CauseInv'
  <2>1. removed => removed' BY Zenon DEF WorldEffect, FileEffect
  <2>2. Created => Created' BY <1>1, CreatedKept, Zenon DEF WorldEffect
  <2>3. fails \in Nat /\ fails' \in Nat /\ fails' >= fails BY <1>1, Zenon DEF Shape, WorldEffect
  <2>4. (slave.valid => Created)' BY <2>2, Zenon DEF IInv, CauseInv
  <2>5. \A d \in Client : remote'[d] => Created' BY <2>2, Zenon DEF IInv, CauseInv
  <2>6. \A u \in Thread : thr'[u].pc # "idle" /\ thr'[u].op \in Opens =>
          Created' /\ (slave.valid \/ removed)'
    BY <2>1, <2>2, Zenon DEF IInv, CauseInv
  <2>7. \A u \in Thread : thr'[u].again => fails' > 0 BY <2>3, SMTT(30) DEF IInv, CauseInv
  <2>8. \A d \in Client :
          removed' \/ timer'[d].tries <= fails' \/ "empty_refresh" \in trouble'[d]
    <3>1. SUFFICES ASSUME NEW d \in Client \ {c}
                   PROVE  removed' \/ timer'[d].tries <= fails' \/ "empty_refresh" \in trouble'[d]
      OBVIOUS
    <3>2. removed \/ timer[d].tries <= fails \/ "empty_refresh" \in trouble[d]
      BY Zenon DEF IInv, CauseInv
    <3>3. timer[d].tries \in 0 .. 3 BY <1>1, Zenon DEF Shape, TimerState
    <3> QED BY <2>1, <2>3, <3>2, <3>3, SMTT(30)
  <2>9. EndsForCause'
    BY <2>1, <2>3, SMTT(30) DEF IInv, CauseInv, EndsForCause
  <2> QED BY <2>4, <2>5, <2>6, <2>7, <2>8, <2>9, Zenon DEF CauseInv
<1>6. DeadlineInv'
  <2>1. SUFFICES ASSUME NEW u \in Thread, Kept(owner[u])', Writer(u)', thr'[u].pc \in Recorded
                 PROVE  remote'[owner[u]] /\ Fresh(owner[u])'
    BY Zenon DEF DeadlineInv
  <2> DEFINE d == owner[u]
  <2>2. d \in Client BY SessionsAssumption, Zenon
  <2>3. remote[d] /\ Fresh(d) BY <1>3, <2>1, <2>2, Zenon DEF IInv, DeadlineInv, Writer
  <2>4. CASE file'.ddl = LockTicks BY <2>3, <2>4, Zenon DEF Fresh
  <2>5. CASE file'.ddl # LockTicks
    <3>1. timer'[d].pc = timer[d].pc BY <1>3, <2>1, <2>2, <2>5, Zenon
    <3> QED BY <1>1, <2>2, <2>3, <3>1, FreshKept, Zenon DEF WorldEffect
  <2> QED BY <2>4, <2>5, Zenon
<1>7. ReaderInv' BY ZenonT(40) DEF IInv, ReaderInv, Reading, Reads, Holds, Running
<1> QED BY <1>2, <1>4, <1>5, <1>6, <1>7, Zenon DEF IInv

\* The namenode builds the entry of a refresh.
LEMMA TimerPrepareHolds ==
    ASSUME IInv, NEW c \in Client, TimerPrepare(c)
    PROVE  IInv'
<1>1. Shape /\ timer[c] \in TimerState BY Zenon DEF IInv, Shape
<1> DEFINE e == [file EXCEPT !.ddl = LockTicks]
<1>2. e \in Ino /\ e.valid /\ e.ddl = LockTicks
  <2>1. file \in Ino /\ file.valid /\ LockTicks \in 0 .. LockTicks
    BY <1>1, SessionsAssumption DEF Shape, TimerPrepare
  <2> QED BY <2>1, Zenon DEF Ino
<1>3. /\ timer' = [timer EXCEPT ![c].req = e]
      /\ UNCHANGED <<file, slave, thr, alive, remote, plock, fails, cleared, removed, trouble>>
  BY Zenon DEF TimerPrepare, local, history
<1> HIDE DEF e
<1>4. /\ timer' \in [Client -> TimerState] /\ timer'[c].req = e
      /\ timer'[c].tries = timer[c].tries /\ timer'[c].pc = timer[c].pc
      /\ \A d \in Client \ {c} : timer'[d] = timer[d]
  BY <1>1, <1>2, <1>3, Zenon DEF Shape, TimerState
<1>5. Shape' BY <1>1, <1>3, <1>4, Zenon DEF Shape
<1>6. WorldEffect BY <1>1, <1>3, SameWorld, Zenon
<1>7. removed \/ timer[c].tries <= fails \/ "empty_refresh" \in trouble[c]
  BY Zenon DEF IInv, CauseInv
<1> QED BY <1>2, <1>3, <1>4, <1>5, <1>6, <1>7, TimerKeeps, ZenonT(40)

\* What the answer to a refresh does to the file.
LEMMA RefreshApplied ==
    ASSUME IInv, NEW c \in Client, timer[c].req # None, Applied("lock_remote", timer[c].req),
           fails' \in {fails, fails + 1}
    PROVE  WorldEffect /\ file'.ddl = LockTicks
<1> DEFINE r == [op |-> "create", pc |-> "lock_remote", again |-> FALSE, req |-> timer[c].req]
<1>1. Shape /\ timer[c].req \in Ino \cup {None} BY Zenon DEF IInv, Shape, TimerState
<1>2. timer[c].req.valid /\ timer[c].req.ddl = LockTicks BY Zenon DEF IInv, PlaceInv
<1>3. r \in ThreadState BY <1>1, Zenon DEF ThreadState, Op, Pc, Rpcs
<1>4. RequestOf(r) BY <1>2, Zenon DEF RequestOf, Rpcs
<1>5. r.req = timer[c].req /\ r.pc = "lock_remote" OBVIOUS
<1> HIDE DEF r
<1>6. Applied(r.pc, r.req) /\ r.req # None BY <1>5, Zenon
<1>7. r.pc \notin PutOks \cup {"rm"} BY <1>5, Zenon DEF PutOks
<1> QED BY <1>1, <1>3, <1>4, <1>6, <1>7, EntryApplied, Zenon

\* A refresh is applied: the deadline is full again.
LEMMA TimerAnsweredHolds ==
    ASSUME IInv, NEW c \in Client, TimerAnswered(c)
    PROVE  IInv'
<1>1. Shape BY Zenon DEF IInv
<1>2. /\ timer[c].req # None /\ Applied("lock_remote", timer[c].req)
      /\ timer' = [timer EXCEPT ![c] = Rested]
      /\ UNCHANGED <<slave, thr, alive, remote, plock, fails, trouble>>
  BY Zenon DEF TimerAnswered, local
<1>3. WorldEffect /\ file'.ddl = LockTicks BY <1>2, RefreshApplied, Zenon
<1>4. Rested \in TimerState /\ Rested.req = None /\ Rested.tries = 0
  BY DEF Rested, TimerState
<1>5. /\ timer' \in [Client -> TimerState] /\ timer'[c] = Rested
      /\ \A d \in Client \ {c} : timer'[d] = timer[d]
  BY <1>1, <1>2, <1>4, Zenon DEF Shape
<1>6. Shape' BY <1>1, <1>2, <1>3, <1>5, Zenon DEF Shape, WorldEffect
<1>7. timer'[c].tries <= fails' BY <1>3, <1>4, <1>5 DEF WorldEffect
<1> QED BY <1>2, <1>3, <1>4, <1>5, <1>6, <1>7, TimerKeeps, Zenon

\* A refresh that failed is tried again, or ends the process.
LEMMA RetryEffect ==
    ASSUME Shape, NEW c \in Client, Retry(c)
    PROVE  /\ timer' \in [Client -> TimerState] /\ timer'[c].req = None
           /\ alive' \in [Client -> BOOLEAN]
           /\ \A d \in Client \ {c} : timer'[d] = timer[d] /\ alive'[d] = alive[d]
           /\ \/ timer[c].tries = 3 /\ alive'[c] = FALSE /\ timer'[c].tries = 0
              \/ /\ alive'[c] = alive[c] /\ timer'[c].pc = timer[c].pc
                 /\ timer'[c].tries = timer[c].tries + 1
<1>1. timer[c] \in TimerState BY Zenon DEF Shape
<1>2. CASE timer[c].tries = 3
  <2>1. alive' = [alive EXCEPT ![c] = FALSE] /\ timer' = [timer EXCEPT ![c] = Rested]
    BY <1>2, Zenon DEF Retry
  <2>2. Rested \in TimerState /\ Rested.req = None /\ Rested.tries = 0
    BY DEF Rested, TimerState
  <2> QED BY <1>2, <2>1, <2>2, Zenon DEF Shape
<1>3. CASE timer[c].tries # 3
  <2> DEFINE r == [timer[c] EXCEPT !.tries = @ + 1, !.req = None]
  <2>1. timer' = [timer EXCEPT ![c] = r] /\ alive' = alive BY <1>3, Zenon DEF Retry
  <2>2. timer[c].tries + 1 \in 0 .. 3 BY <1>1, <1>3 DEF TimerState
  <2>3. r \in TimerState /\ r.pc = timer[c].pc /\ r.tries = timer[c].tries + 1 /\ r.req = None
    BY <1>1, <2>2, Zenon DEF TimerState
  <2> HIDE DEF r
  <2> QED BY <2>1, <2>3, Zenon DEF Shape
<1> QED BY <1>2, <1>3, Zenon

\* The namenode refuses a refresh of no path or of a removed file.
LEMMA TimerRefusedHolds ==
    ASSUME IInv, NEW c \in Client, TimerRefused(c)
    PROVE  IInv'
<1>1. Shape BY Zenon DEF IInv
<1>2. /\ Retry(c) /\ (~ remote[c] \/ ~ file.valid)
      /\ UNCHANGED <<file, slave, thr, remote, plock, fails, cleared, removed>>
  BY Zenon DEF TimerRefused, local, history
<1>3. /\ timer' \in [Client -> TimerState] /\ timer'[c].req = None
      /\ alive' \in [Client -> BOOLEAN]
      /\ \A d \in Client \ {c} : timer'[d] = timer[d] /\ alive'[d] = alive[d]
      /\ \/ timer[c].tries = 3 /\ alive'[c] = FALSE /\ timer'[c].tries = 0
         \/ /\ alive'[c] = alive[c] /\ timer'[c].pc = timer[c].pc
            /\ timer'[c].tries = timer[c].tries + 1
  BY <1>1, <1>2, RetryEffect, Zenon
<1>4. /\ trouble' \in [Client -> SUBSET Trouble] /\ trouble[c] \subseteq trouble'[c]
      /\ ~ remote[c] => "empty_refresh" \in trouble'[c]
      /\ \A d \in Client \ {c} : trouble'[d] = trouble[d]
  <2>1. CASE remote[c] BY <1>1, <2>1, Zenon DEF Shape, TimerRefused
  <2>2. CASE ~ remote[c]
    <3>1. trouble' = [trouble EXCEPT ![c] = @ \cup {"empty_refresh"}]
      BY <2>2, Zenon DEF TimerRefused
    <3> QED BY <1>1, <3>1, Zenon DEF Shape, Trouble
  <2> QED BY <2>1, <2>2, Zenon
<1>5. removed' \/ "empty_refresh" \in trouble'[c]
  BY <1>2, <1>4, Zenon DEF IInv, CauseInv, Created
<1>6. Shape' BY <1>1, <1>2, <1>3, <1>4, Zenon DEF Shape
<1>7. WorldEffect BY <1>1, <1>2, SameWorld, Zenon
<1>8. (alive'[c] => alive[c]) /\ (alive'[c] => timer'[c].pc = timer[c].pc) BY <1>3, Zenon
<1> QED BY <1>2, <1>3, <1>4, <1>5, <1>6, <1>7, <1>8, TimerKeeps, SMTT(20)

\* A refresh, or its answer, is lost.
LEMMA TimerLostHolds ==
    ASSUME IInv, NEW c \in Client, TimerLost(c)
    PROVE  IInv'
<1>1. Shape BY Zenon DEF IInv
<1>2. /\ Retry(c) /\ fails' = fails + 1
      /\ UNCHANGED <<slave, thr, remote, plock, trouble>>
  BY Zenon DEF TimerLost, local
<1>3. /\ timer' \in [Client -> TimerState] /\ timer'[c].req = None
      /\ alive' \in [Client -> BOOLEAN]
      /\ \A d \in Client \ {c} : timer'[d] = timer[d] /\ alive'[d] = alive[d]
      /\ \/ timer[c].tries = 3 /\ alive'[c] = FALSE /\ timer'[c].tries = 0
         \/ /\ alive'[c] = alive[c] /\ timer'[c].pc = timer[c].pc
            /\ timer'[c].tries = timer[c].tries + 1
  BY <1>1, <1>2, RetryEffect, Zenon
<1>4. WorldEffect
  <2>1. CASE UNCHANGED <<file, history>>
    BY <1>1, <1>2, <2>1 DEF WorldEffect, FileEffect, Shape, history
  <2>2. CASE timer[c].req # None /\ Applied("lock_remote", timer[c].req)
    BY <1>2, <2>2, RefreshApplied, Zenon
  <2> QED BY <2>1, <2>2, Zenon DEF TimerLost
<1>5. Shape' BY <1>1, <1>2, <1>3, <1>4, Zenon DEF Shape, WorldEffect
<1>6. removed => removed' BY <1>4, Zenon DEF WorldEffect, FileEffect
<1>7. /\ removed \/ timer[c].tries <= fails \/ "empty_refresh" \in trouble[c]
      /\ fails \in Nat /\ timer[c].tries \in 0 .. 3
  BY <1>1, Zenon DEF IInv, CauseInv, Shape, TimerState
<1>8. /\ removed' \/ timer'[c].tries <= fails' \/ "empty_refresh" \in trouble'[c]
      /\ ~ alive'[c] => ~ alive[c] \/ removed' \/ fails' > 1 \/ "empty_refresh" \in trouble'[c]
  BY <1>2, <1>3, <1>6, <1>7, SMTT(30)
<1>9. (alive'[c] => alive[c]) /\ (alive'[c] => timer'[c].pc = timer[c].pc) BY <1>3, Zenon
<1> QED BY <1>2, <1>3, <1>4, <1>5, <1>8, <1>9, TimerKeeps, SMTT(20)

-----------------------------------------------------------------------------
(* Steps of nobody's.                                                      *)

\* A step that leaves the clients alone, but for their timers.
LEMMA ClientsSame ==
    ASSUME IInv, UNCHANGED <<thr, alive, remote, plock, trouble>>
    PROVE  /\ \A t \in Thread : PlaceOf(thr'[t]) /\ RequestOf(thr'[t])
           /\ LockInv' /\ ReaderInv'
           /\ \A c \in Client : Kept(c)' <=> Kept(c)
<1>1. \A c \in Client : (Sound(c)' <=> Sound(c)) /\ (Kept(c)' <=> Kept(c))
  BY Zenon DEF Sound, Kept, Running
<1>2. LockInv'
  <2>1. SUFFICES ASSUME NEW c \in Client, Sound(c)' PROVE LockOf(c)' BY Zenon DEF LockInv
  <2>2. LockOf(c) BY <1>1, <2>1, Zenon DEF IInv, LockInv
  <2> QED BY <2>2, ZenonT(40) DEF LockOf, Sessions, Holds, Writer, Readers
<1>3. ReaderInv' BY Zenon DEF IInv, ReaderInv, Reading, Reads, Holds, Running
<1> QED BY <1>1, <1>2, <1>3, Zenon DEF IInv, PlaceInv

\* A slave catches up, or nothing the invariant speaks of changes.
LEMMA ReplicateHolds ==
    ASSUME IInv, UNCHANGED <<file, thr, timer, alive, remote, plock, fails, cleared, removed, trouble>>,
           slave' = slave \/ slave' = [valid |-> file.valid, size |-> file.size]
    PROVE  IInv'
<1>1. Shape BY Zenon DEF IInv
<1>2. slave' \in [valid : BOOLEAN, size : 0 .. 1] /\ slave'.valid \in {slave.valid, file.valid}
  BY <1>1 DEF Shape, Ino
<1>3. Shape' BY <1>1, <1>2, Zenon DEF Shape
<1>4. /\ \A t \in Thread : PlaceOf(thr'[t]) /\ RequestOf(thr'[t])
      /\ LockInv' /\ ReaderInv'
      /\ \A c \in Client : Kept(c)' <=> Kept(c)
  BY ClientsSame, SMTT(20)
<1>5. PlaceInv' BY <1>4, SMTT(20) DEF IInv, PlaceInv, PlaceOf, RequestOf
<1>6. CauseInv' BY <1>2, SMTT(20) DEF IInv, CauseInv, Created, EndsForCause
<1>7. DeadlineInv' BY <1>4, SessionsAssumption, Zenon DEF IInv, DeadlineInv, Writer, Fresh
<1> QED BY <1>3, <1>4, <1>5, <1>6, <1>7, Zenon DEF IInv

\* An interval is over.  A file that is open for writing is in remoteLocks,
\* its refresh of the last interval is done, and the next one is due.
LEMMA TickHolds ==
    ASSUME IInv, Tick
    PROVE  IInv'
<1>1. Shape BY Zenon DEF IInv
<1>2. /\ file' = [file EXCEPT !.ddl = IF @ = 0 THEN 0 ELSE @ - 1]
      /\ timer' = [c \in Client |-> IF Running(c) /\ remote[c]
                                    THEN [Rested EXCEPT !.pc = "run"] ELSE Rested]
      /\ UNCHANGED <<slave, thr, alive, remote, plock, fails, cleared, removed, trouble>>
  BY Zenon DEF Tick, local, history
<1>3. /\ file' \in Ino /\ file'.valid = file.valid
      /\ file'.ddl = IF file.ddl = 0 THEN 0 ELSE file.ddl - 1
  <2>1. file \in Ino /\ LockTicks \in Nat BY <1>1, SessionsAssumption, Zenon DEF Shape
  <2>2. (IF file.ddl = 0 THEN 0 ELSE file.ddl - 1) \in 0 .. LockTicks BY <2>1 DEF Ino
  <2> QED BY <1>2, <2>1, <2>2, Zenon DEF Ino
<1>4. /\ Rested \in TimerState /\ [Rested EXCEPT !.pc = "run"] \in TimerState
      /\ Rested.tries = 0 /\ Rested.req = None
      /\ [Rested EXCEPT !.pc = "run"].tries = 0 /\ [Rested EXCEPT !.pc = "run"].req = None
      /\ [Rested EXCEPT !.pc = "run"].pc = "run"
  BY DEF Rested, TimerState
<1>5. /\ timer' \in [Client -> TimerState]
      /\ \A c \in Client : /\ timer'[c].tries = 0 /\ timer'[c].req = None
                           /\ Running(c) /\ remote[c] => timer'[c].pc = "run"
  BY <1>2, <1>4, Zenon
<1>6. Shape' BY <1>1, <1>2, <1>3, <1>5, Zenon DEF Shape
<1>7. /\ \A t \in Thread : PlaceOf(thr'[t]) /\ RequestOf(thr'[t])
      /\ LockInv' /\ ReaderInv'
      /\ \A c \in Client : Kept(c)' <=> Kept(c)
  BY <1>2, ClientsSame, Zenon
<1>8. PlaceInv' BY <1>5, <1>7, Zenon DEF PlaceInv, PlaceOf, RequestOf
<1>9. CauseInv'
  <2>1. \A c \in Client : timer'[c].tries <= fails' BY <1>1, <1>2, <1>5 DEF Shape
  <2> QED BY <1>2, <1>3, <2>1, Zenon DEF IInv, CauseInv, Created, EndsForCause
<1>10. DeadlineInv'
  <2>1. SUFFICES ASSUME NEW t \in Thread, Kept(owner[t])', Writer(t)', thr'[t].pc \in Recorded
                 PROVE  remote'[owner[t]] /\ Fresh(owner[t])'
    BY Zenon DEF DeadlineInv
  <2> DEFINE c == owner[t]
  <2>2. c \in Client /\ LockTicks \in Nat /\ LockTicks > 1 BY SessionsAssumption
  <2>3. Kept(c) /\ remote[c] /\ Fresh(c)
    BY <1>2, <1>7, <2>1, <2>2, Zenon DEF IInv, DeadlineInv, Writer
  <2>4. Running(c) BY <2>3, Zenon DEF Kept, Sound
  <2>5. timer[c].pc # "run" BY <2>2, <2>4, Zenon DEF Tick
  <2>6. timer'[c].pc = "run" BY <1>5, <2>2, <2>3, <2>4, Zenon
  <2>7. file'.valid /\ ~ cleared' => file'.ddl = LockTicks - 1
    BY <1>2, <1>3, <2>2, <2>3, <2>5 DEF Fresh
  <2> QED BY <1>2, <2>3, <2>6, <2>7, Zenon DEF Fresh
<1> QED BY <1>6, <1>7, <1>8, <1>9, <1>10, Zenon DEF IInv

-----------------------------------------------------------------------------
(* The theorems.                                                           *)

\* Nothing is open and nothing is locked at the start.
LEMMA InitHolds == Init => IInv
<1> SUFFICES ASSUME Init PROVE IInv OBVIOUS
<1>1. /\ Idle \in ThreadState /\ Idle.pc = "idle" /\ Idle.again = FALSE /\ Idle.req = None
      /\ Rested \in TimerState /\ Rested.tries = 0 /\ Rested.req = None
  BY DEF Idle, ThreadState, Op, Pc, Rested, TimerState
<1>2. \A t \in Thread : thr[t] = Idle BY Zenon DEF Init
<1>3. Shape
  <2>1. Gone \in Ino BY SessionsAssumption DEF Gone, Ino
  <2>2. slave \in [valid : BOOLEAN, size : 0 .. 1] BY DEF Init
  <2>3. thr \in [Thread -> ThreadState] /\ timer \in [Client -> TimerState]
    BY <1>1, Zenon DEF Init
  <2>4. plock \in [Client -> Int] BY DEF Init, Absent
  <2>5. /\ alive \in [Client -> BOOLEAN] /\ remote \in [Client -> BOOLEAN]
        /\ trouble \in [Client -> SUBSET Trouble]
    BY Zenon DEF Init
  <2>6. fails \in Nat /\ cleared \in BOOLEAN /\ removed \in BOOLEAN BY Zenon DEF Init
  <2> QED BY <2>1, <2>2, <2>3, <2>4, <2>5, <2>6, Zenon DEF Init, Shape
<1>4. PlaceInv BY <1>1, <1>2, Zenon DEF Init, PlaceInv, PlaceOf, RequestOf
<1>5. LockInv
  <2>1. \A c \in Client : Sessions(c) = {} BY <1>1, <1>2, Zenon DEF Sessions, Holds
  <2>2. \A c \in Client : Readers(c) = 0 BY Zenon DEF Init, Readers
  <2> QED BY <2>1, <2>2, FS_EmptySet, Zenon DEF LockInv, LockOf
<1>6. CauseInv
  <2>1. slave.valid = FALSE /\ fails = 0 BY Zenon DEF Init
  <2>2. \A c \in Client : timer[c].tries <= fails BY <1>1, <2>1, SMTT(30) DEF Init
  <2> QED BY <1>1, <1>2, <2>1, <2>2, Zenon DEF Init, CauseInv, EndsForCause
<1>7. DeadlineInv BY <1>1, <1>2, Zenon DEF DeadlineInv, Recorded
<1>8. ReaderInv
  <2>1. Cardinality(Thread) \in Nat BY SessionsAssumption, FS_CardinalityType, Zenon
  <2>2. \A c \in Client : Reading(c) = {} BY <1>1, <1>2, Zenon DEF Reading, Reads, Holds
  <2>3. \A c \in Client : plock[c] = Absent BY Zenon DEF Init
  <2>4. Absent >= Absent /\ Absent <= Cardinality(Thread) /\ Absent <= 0 BY <2>1 DEF Absent
  <2> QED BY <2>2, <2>3, <2>4, FS_EmptySet, Zenon DEF ReaderInv
<1> QED BY <1>3, <1>4, <1>5, <1>6, <1>7, <1>8, Zenon DEF IInv

\* Every step preserves the invariant.
LEMMA NextHolds == IInv /\ [Next]_vars => IInv'
<1> SUFFICES ASSUME IInv, [Next]_vars PROVE IInv' OBVIOUS
<1>1. ASSUME NEW t \in Thread,
             \/ \E op \in Ops[t] : Begin(t, op)
             \/ Step(t) \/ Lost(t) \/ LsLost(t)
             \/ write_data(t) \/ NoInode(t) \/ fsync(t) \/ close(t)
      PROVE  IInv'
  <2>1. CASE \E op \in Ops[t] : Begin(t, op) BY <2>1, BeginHolds, Zenon
  <2>2. CASE Step(t)
    BY <2>2, PrepareHolds, RefusedHolds, AnsweredHolds, OrphanedHolds, EncodedHolds,
       WriteLockHolds, ReadLockHolds, UpdateInodeHolds, SMTT(20) DEF Step
  <2>3. CASE Lost(t) BY <2>3, LostHolds, Zenon
  <2>4. CASE LsLost(t) BY <2>4, LsLostHolds, Zenon
  <2>5. CASE write_data(t)
    <3>1. UNCHANGED <<file, slave, thr, timer, alive, remote, plock, fails, history, trouble>>
      BY <2>5, Zenon DEF write_data
    <3> QED BY <3>1, StutterKeeps, Zenon
  <2>6. CASE NoInode(t) BY <2>6, NoInodeHolds, Zenon
  <2>7. CASE fsync(t) BY <2>7, UploadHolds, Zenon DEF fsync
  <2>8. CASE close(t) BY <2>8, CloseHolds, Zenon
  <2> QED BY <1>1, <2>1, <2>2, <2>3, <2>4, <2>5, <2>6, <2>7, <2>8, SMTT(20)
<1>2. ASSUME NEW c \in Client, TimerStep(c) \/ TimerLost(c)
      PROVE  IInv'
  BY <1>2, TimerPrepareHolds, TimerAnsweredHolds, TimerRefusedHolds, TimerLostHolds, Zenon DEF TimerStep
<1>3. CASE Replicate
  <2>1. /\ UNCHANGED <<file, thr, timer, alive, remote, plock, fails, cleared, removed, trouble>>
        /\ slave' = [valid |-> file.valid, size |-> file.size]
    BY <1>3, Zenon DEF Replicate, local, history
  <2> QED BY <2>1, ReplicateHolds, Zenon
<1>4. CASE Tick BY <1>4, TickHolds, Zenon
<1>5. CASE UNCHANGED vars
  <2>1. UNCHANGED <<file, slave, thr, timer, alive, remote, plock, fails, cleared, removed, trouble>>
    BY <1>5, Zenon DEF vars, local, history
  <2> QED BY <2>1, ReplicateHolds, Zenon
<1> QED BY <1>1, <1>2, <1>3, <1>4, <1>5, Zenon DEF Next

\* Every step of a thread, of the refresh timer, of the clock and of the
\* replication to the slave preserves the inductive invariant (SDK, FUSE,
\* PathLocks, IntervalTimer, Inode::update_ddl_lock).
THEOREM Invariance == Spec => []IInv
<1> QED BY InitHolds, NextHolds, PTL DEF Spec

-----------------------------------------------------------------------------
(* The other variables, and that all stay in their bounds.                 *)

LocalShape ==
    /\ cache \in [Client -> {None} \cup 0 .. 1]
    /\ pending \in [Client -> BOOLEAN]

CountInv == LocalShape /\ calls \in 0 .. MaxCalls /\ fails \in 0 .. MaxFails

\* What a client may do with its cache and its write directory.
LocalEffect(c) ==
    /\ cache' = cache \/ \E v \in {None} \cup 0 .. 1 : cache' = [cache EXCEPT ![c] = v]
    /\ pending' = pending \/ \E v \in BOOLEAN : pending' = [pending EXCEPT ![c] = v]

\* Such changes keep their types.
LEMMA LocalKept ==
    ASSUME LocalShape, NEW c \in Client, LocalEffect(c)
    PROVE  LocalShape'
<1>1. cache' \in [Client -> {None} \cup 0 .. 1] BY Zenon DEF LocalShape, LocalEffect
<1>2. pending' \in [Client -> BOOLEAN] BY Zenon DEF LocalShape, LocalEffect
<1> QED BY <1>1, <1>2, Zenon DEF LocalShape

\* A new SDK has an empty local_inode_cache.
LEMMA ReinitLocal ==
    ASSUME NEW t \in Thread, NEW c \in Client, reinit(c, t), pending' = pending
    PROVE  LocalEffect(c)
BY Zenon DEF reinit, LocalEffect

\* A lost RPC: the second try, with a new SDK, or the end of the operation.
LEMMA RuntimeErrorLocal ==
    ASSUME NEW t \in Thread, RuntimeError(t)
    PROVE  LocalEffect(owner[t])
<1>1. owner[t] \in Client BY SessionsAssumption, Zenon
<1>2. CASE UNCHANGED local BY <1>2, Zenon DEF local, LocalEffect
<1>3. CASE reinit(owner[t], t) /\ UNCHANGED <<alive, pending>> BY <1>1, <1>3, ReinitLocal, Zenon
<1> QED BY <1>2, <1>3, Zenon DEF RuntimeError, local

\* The end of fsync, and of close with its unlock.
LEMMA SyncedLocal ==
    ASSUME NEW t \in Thread, Synced(t)
    PROVE  LocalEffect(owner[t])
<1>1. CASE Closed(t) BY <1>1, Zenon DEF Closed, LocalEffect
<1>2. CASE UNCHANGED local BY <1>2, Zenon DEF local, LocalEffect
<1> QED BY <1>1, <1>2, Zenon DEF Synced

\* An RPC that was answered.
LEMMA SucceededLocal ==
    ASSUME IInv, NEW t \in Thread, Answered(t)
    PROVE  LocalEffect(owner[t])
<1>1. thr[t].pc \in Rpcs /\ PlaceOf(thr[t])
  BY Zenon DEF Answered, IInv, PlaceInv, RequestOf
<1>2. Succeeded(t) BY Zenon DEF Answered
<1>3. CASE thr[t].pc \in {"put", "put_lock", "put_ok", "rm"}
  <2>1. thr[t].pc = "put_ok" => thr[t].op \in {"create", "put"} BY <1>1, Zenon DEF PlaceOf
  <2>2. UNCHANGED local BY <1>2, <1>3, <2>1, Zenon DEF Succeeded
  <2> QED BY <2>2, Zenon DEF local, LocalEffect
<1>4. CASE thr[t].pc = "lock_remote"
  <2>1. LockedRemote(t) BY <1>2, <1>4, Zenon DEF Succeeded
  <2> QED BY <2>1, Zenon DEF LockedRemote, LocalEffect
<1>5. CASE thr[t].pc = "shrink"
  <2>1. Shrunk(t) BY <1>2, <1>5, Zenon DEF Succeeded
  <2> QED BY <2>1, Zenon DEF Shrunk, LocalEffect
<1>6. CASE thr[t].pc \in {"fsync", "close"}
  <2>1. Synced(t) BY <1>2, <1>6, Zenon DEF Succeeded
  <2> QED BY <2>1, SyncedLocal, Zenon
<1> QED BY <1>1, <1>3, <1>4, <1>5, <1>6, Zenon DEF Rpcs, PutOks

\* Every step of a thread touches the cache and the write directory of its
\* own client only.
LEMMA StepLocal ==
    ASSUME IInv, NEW t \in Thread,
           \/ \E op \in Ops[t] : Begin(t, op)
           \/ Step(t) \/ Lost(t) \/ LsLost(t)
           \/ write_data(t) \/ NoInode(t) \/ fsync(t) \/ close(t)
    PROVE  LocalEffect(owner[t])
<1> DEFINE c == owner[t]
<1>1. c \in Client /\ slave.size \in 0 .. 1 BY SessionsAssumption, Zenon DEF IInv, Shape
<1>2. ASSUME UNCHANGED <<cache, pending>> PROVE LocalEffect(c) BY <1>2, Zenon DEF LocalEffect
<1>3. CASE \E op \in Ops[t] : Begin(t, op) BY <1>2, <1>3, Zenon DEF Begin, local
<1>4. CASE Prepare(t) \/ Orphaned(t) BY <1>2, <1>4, Zenon DEF Prepare, Orphaned, local
<1>5. CASE Encoded(t) \/ write_lock(t) \/ read_lock(t)
  BY <1>2, <1>5, Zenon DEF Encoded, write_lock, read_lock
<1>6. CASE Refused(t)
  <2>1. CASE Synced(t) BY <2>1, SyncedLocal, Zenon
  <2>2. CASE UNCHANGED local BY <1>2, <2>2, Zenon DEF local
  <2> QED BY <1>6, <2>1, <2>2, Zenon DEF Refused
<1>7. CASE Answered(t) BY <1>7, SucceededLocal, Zenon
<1>8. CASE update_inode(t)
  <2>1. pending' = pending BY <1>8, Zenon DEF update_inode
  <2>2. cache' = [cache EXCEPT ![c] = slave.size] \/ cache' = cache
    BY <1>8, Zenon DEF update_inode, Updated
  <2> QED BY <1>1, <2>1, <2>2, Zenon DEF LocalEffect
<1>9. CASE Lost(t)
  <2>1. CASE Synced(t) BY <2>1, SyncedLocal, Zenon
  <2>2. CASE RuntimeError(t) BY <2>2, RuntimeErrorLocal, Zenon
  <2> QED BY <1>9, <2>1, <2>2, Zenon DEF Lost
<1>10. CASE LsLost(t) BY <1>10, RuntimeErrorLocal, Zenon DEF LsLost
<1>11. CASE write_data(t) BY <1>11, Zenon DEF write_data, LocalEffect
<1>12. CASE NoInode(t) BY <1>1, <1>12, ReinitLocal, Zenon DEF NoInode
<1>13. ASSUME NEW pc, Upload(t, pc) PROVE LocalEffect(c)
  BY <1>13, Zenon DEF Upload, LocalEffect
<1>14. CASE close(t)
  <2>1. CASE Closed(t) BY <2>1, Zenon DEF Closed, LocalEffect
  <2>2. CASE reinit(c, t) /\ pending' = pending BY <1>1, <2>2, ReinitLocal, Zenon
  <2> QED BY <1>13, <1>14, <2>1, <2>2, Zenon DEF close
<1> QED BY <1>3, <1>4, <1>5, <1>6, <1>7, <1>8, <1>9, <1>10, <1>11, <1>12, <1>13, <1>14, Zenon
        DEF Step, fsync

\* The bounds on operations and on lost RPCs hold.
LEMMA CountSteps ==
    ASSUME calls \in 0 .. MaxCalls, fails \in 0 .. MaxFails, Next
    PROVE  calls' \in 0 .. MaxCalls /\ fails' \in 0 .. MaxFails
<1>1. MaxCalls \in Nat /\ MaxFails \in Nat BY SessionsAssumption, Zenon
<1>2. \/ calls' = calls
      \/ calls < MaxCalls /\ calls' = calls + 1
  BY ZenonT(40) DEF Next, Begin, Step, Lost, LsLost, write_data, NoInode, fsync, close, Upload,
     Prepare, Refused, Answered, Orphaned, Encoded, write_lock, read_lock, update_inode,
     TimerStep, TimerPrepare, TimerAnswered, TimerRefused, TimerLost, Replicate, Tick
<1>3. \/ fails' = fails
      \/ fails < MaxFails /\ fails' = fails + 1
  BY ZenonT(40) DEF Next, Begin, Step, Lost, LsLost, write_data, NoInode, fsync, close, Upload,
     Prepare, Refused, Answered, Orphaned, Encoded, write_lock, read_lock, update_inode,
     TimerStep, TimerPrepare, TimerAnswered, TimerRefused, TimerLost, Replicate, Tick
<1> QED BY <1>1, <1>2, <1>3

\* So the types of these variables are kept by every step.
LEMMA CountHolds == IInv /\ CountInv /\ [Next]_vars => CountInv'
<1> SUFFICES ASSUME IInv, CountInv, [Next]_vars PROVE CountInv' OBVIOUS
<1>1. CASE UNCHANGED vars BY <1>1, Zenon DEF vars, local, CountInv, LocalShape
<1>2. CASE Next
  <2>1. calls' \in 0 .. MaxCalls /\ fails' \in 0 .. MaxFails
    BY <1>2, CountSteps, Zenon DEF CountInv
  <2>2. ASSUME NEW t \in Thread, LocalEffect(owner[t]) PROVE LocalShape'
    BY <2>2, SessionsAssumption, LocalKept, Zenon DEF CountInv
  <2>3. ASSUME UNCHANGED local PROVE LocalShape'
    BY <2>3, Zenon DEF local, CountInv, LocalShape
  <2>4. ASSUME NEW c \in Client, TimerStep(c) \/ TimerLost(c) PROVE UNCHANGED local
    BY <2>4, Zenon DEF TimerStep, TimerLost, TimerPrepare, TimerAnswered, TimerRefused
  <2>5. ASSUME Replicate \/ Tick PROVE UNCHANGED local BY <2>5, Zenon DEF Replicate, Tick
  <2>6. LocalShape' BY <1>2, <2>2, <2>3, <2>4, <2>5, StepLocal, Zenon DEF Next
  <2> QED BY <2>1, <2>6, Zenon DEF CountInv
<1> QED BY <1>1, <1>2, Zenon

\* Every variable keeps its type.  The count of readers in a path lock is at
\* most the number of threads also where locks leak, are given back twice or
\* are lost with a replaced SDK (PathLocks::read_lock, PathLocks::unlock,
\* FUSE::reinit).
THEOREM TypeCorrect == Spec => []TypeOK
<1>1. Init => CountInv
  <2>1. SUFFICES ASSUME Init PROVE CountInv OBVIOUS
  <2>2. LocalShape BY <2>1, Zenon DEF Init, LocalShape
  <2>3. calls \in 0 .. MaxCalls /\ fails \in 0 .. MaxFails BY <2>1, SessionsAssumption DEF Init
  <2> QED BY <2>2, <2>3, Zenon DEF CountInv
<1>2. Spec => []CountInv BY <1>1, CountHolds, Invariance, PTL DEF Spec
<1>3. ASSUME IInv, CountInv PROVE TypeOK
  <2>1. plock \in [Client -> Absent .. Cardinality(Thread)]
    <3>1. plock \in [Client -> Int] BY <1>3, Zenon DEF IInv, Shape
    <3>2. Cardinality(Thread) \in Nat BY SessionsAssumption, FS_CardinalityType, Zenon
    <3>3. ASSUME NEW c \in Client PROVE plock[c] \in Absent .. Cardinality(Thread)
      BY <1>3, <3>1, <3>2 DEF IInv, ReaderInv, Absent
    <3> QED BY <3>1, <3>3, Zenon
  <2> QED BY <1>3, <2>1, Zenon DEF IInv, Shape, ThreadState, TimerState, CountInv, LocalShape, TypeOK
<1> QED BY <1>2, <1>3, Invariance, PTL

-----------------------------------------------------------------------------
(* Locks, deadlines, and the ends of processes.                            *)

\* PathLocks in every process say what its sessions say, whatever the
\* other threads and processes do (SDK::open, close, truncate; PathLocks).
THEOREM LocalLocksHold == Spec => []LocalLocks
<1>1. IInv => LocalLocks BY Zenon DEF IInv, LockInv, LockOf, LocalLocks
<1> QED BY <1>1, Invariance, PTL

\* The refresh timer keeps the deadline of a file that is open for writing
\* ahead of the clock, for every LOCK_REFRESH_INTERVAL of two intervals of
\* the timer or more.
THEOREM DeadlineStands == Spec => []DeadlineHolds
<1>1. ASSUME IInv PROVE DeadlineHolds
  <2>1. SUFFICES ASSUME NEW t \in Thread, Kept(owner[t]), Writer(t),
                        thr[t].pc \in {"update", "open"}, file.valid, ~ cleared
                 PROVE  file.ddl > 0
    BY Zenon DEF DeadlineHolds, Kept
  <2>2. Fresh(owner[t]) BY <1>1, <2>1, Zenon DEF IInv, DeadlineInv, Recorded
  <2> QED BY <2>1, <2>2, SessionsAssumption DEF Fresh
<1> QED BY <1>1, Invariance, PTL

\* One lost RPC never ends a process: the second try of an operation and
\* the four tries of the timer make it good.
THEOREM ProcessEndsForCause == Spec => []EndsForCause
<1>1. IInv => EndsForCause BY Zenon DEF IInv, CauseInv
<1> QED BY <1>1, Invariance, PTL
=============================================================================
