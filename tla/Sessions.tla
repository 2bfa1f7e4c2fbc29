------------------------------ MODULE Sessions ------------------------------
(***************************************************************************)
(* Several threads of several clients use one file: the FUSE operations    *)
(* (fuse.cpp), the sessions, locks and the refresh timer of class SDK      *)
(* (sdk.cpp), the path locks (pathlocks.cpp), and the deadline ddl_lock    *)
(* that the namenode keeps (inode.cpp).                                    *)
(*                                                                         *)
(* The namenode side is the leader's inode of the file; an RPC reads it    *)
(* (Prepare) and its entry is applied later, so entries of others come in  *)
(* between.  ls asks a slave, which lags behind.  Content is a size, 0 or  *)
(* 1.  Time goes in steps of the timer's interval; an RPC takes less.      *)
(***************************************************************************)
EXTENDS Integers, FiniteSets

CONSTANTS
    Client,     \* processes with an SDK
    Thread,     \* threads of applications that use them
    owner,      \* owner[t]: the process that t uses
    Ops,        \* Ops[t]: the operations that t calls
    None,
    LockTicks,  \* LOCK_REFRESH_INTERVAL in intervals of the timer
    MaxCalls,   \* bound on operations
    MaxFails    \* bound on lost RPCs

Op == {"create", "put", "open_r", "open_w", "open_trunc", "truncate", "rm"}

Ino == [valid : BOOLEAN, ddl : 0 .. LockTicks, size : 0 .. 1]

ASSUME SessionsAssumption ==
    /\ IsFiniteSet(Thread)
    /\ owner \in [Thread -> Client] /\ Ops \in [Thread -> SUBSET Op]
    /\ LockTicks \in Nat \ {0, 1} /\ MaxCalls \in Nat /\ MaxFails \in Nat

ASSUME NoneAssumption == None \notin Ino /\ None \notin Int

VARIABLES
    file,      \* the leader's inode; ddl: intervals until the deadline
    slave,     \* what ls says
    thr,       \* thr[t]: operation, place in it, second try?, prepared entry
    timer,     \* timer[c]: state of the refresh in this interval
    alive,     \* alive[c]: the process has not ended
    remote,    \* remote[c]: the file is in remoteLocks
    plock,     \* plock[c]: its entry in pathlocks
    cache,     \* cache[c]: its entry in local_inode_cache, a size
    pending,   \* pending[c]: there are blocks in the write directory
    calls,     \* operations called
    fails,     \* lost RPCs
    cleared,   \* history: the last entry to set the deadline was a put_ok
    removed,   \* history: an rm has been applied
    trouble    \* history: trouble[c], what has gone wrong in c

local == <<remote, plock, cache, pending>>
history == <<cleared, removed>>
vars == <<file, slave, thr, timer, alive, local, calls, fails, history, trouble>>

\* Calls of the namenode that write, and their places in the operations.
PutOks == {"put_ok", "shrink", "fsync", "close"}
Rpcs == PutOks \cup {"put", "put_lock", "lock_remote", "rm"}

Pc == Rpcs \cup {"idle", "encode", "write_lock", "read_lock", "update", "open"}

\* A path lock: not in the map, free, locked, or the number of readers.
Absent == -2
Locked == -1

Trouble ==
    {"early_unlock", "reinit", "leak", "dropped", "swallowed", "empty_refresh", "undefined"}

TypeOK ==
    /\ file \in Ino
    /\ slave \in [valid : BOOLEAN, size : 0 .. 1]
    /\ thr \in [Thread -> [op : Op, pc : Pc, again : BOOLEAN, req : Ino \cup {None}]]
    /\ timer \in [Client -> [pc : {"run", "done"}, tries : 0 .. 3, req : Ino \cup {None}]]
    /\ alive \in [Client -> BOOLEAN]
    /\ remote \in [Client -> BOOLEAN]
    /\ plock \in [Client -> Absent .. Cardinality(Thread)]
    /\ cache \in [Client -> {None} \cup 0 .. 1]
    /\ pending \in [Client -> BOOLEAN]
    /\ calls \in 0 .. MaxCalls /\ fails \in 0 .. MaxFails
    /\ cleared \in BOOLEAN /\ removed \in BOOLEAN
    /\ trouble \in [Client -> SUBSET Trouble]

Gone == [valid |-> FALSE, ddl |-> 0, size |-> 0]

Idle == [op |-> "rm", pc |-> "idle", again |-> FALSE, req |-> None]

Rested == [pc |-> "done", tries |-> 0, req |-> None]

Init ==
    /\ file = Gone /\ slave = [valid |-> FALSE, size |-> 0]
    /\ thr = [t \in Thread |-> Idle]
    /\ timer = [c \in Client |-> Rested]
    /\ alive = [c \in Client |-> TRUE]
    /\ remote = [c \in Client |-> FALSE]
    /\ plock = [c \in Client |-> Absent]
    /\ cache = [c \in Client |-> None]
    /\ pending = [c \in Client |-> FALSE]
    /\ calls = 0 /\ fails = 0 /\ cleared = TRUE /\ removed = FALSE
    /\ trouble = [c \in Client |-> {}]

-----------------------------------------------------------------------------
(* The namenode.                                                           *)

\* What the handler of an RPC checks: Inode::lock for a put, that the file
\* is there for the others.
Check(rpc) == IF rpc = "put" THEN file.ddl = 0 ELSE file.valid

\* The entry it builds.
Entry(op, rpc) ==
    CASE rpc = "put" -> [file EXCEPT !.valid = TRUE, !.ddl = LockTicks]
      [] rpc \in {"put_lock", "lock_remote"} -> [file EXCEPT !.ddl = LockTicks]
      [] rpc = "rm" -> Gone
      [] rpc = "shrink" -> [file EXCEPT !.size = 0]
      [] rpc = "put_ok" -> [file EXCEPT !.size = IF op = "put" THEN 1 ELSE 0]
      [] rpc \in {"fsync", "close"} -> [file EXCEPT !.size = 1]

\* on_apply of that entry.
Applied(rpc, e) ==
    /\ file' = IF rpc \in PutOks THEN [file EXCEPT !.ddl = 0, !.size = e.size] ELSE e
    /\ cleared' = (rpc \in PutOks)
    /\ removed' = (removed \/ rpc = "rm")

\* The slave catches up.
Replicate ==
    /\ slave' = [valid |-> file.valid, size |-> file.size]
    /\ UNCHANGED <<file, thr, timer, alive, local, calls, fails, history, trouble>>

-----------------------------------------------------------------------------
(* PathLocks.                                                              *)

Free(c) == plock[c] \in {Absent, 0}

Readers(c) == IF plock[c] = Absent THEN 0 ELSE plock[c]

\* n calls of unlock: of a key that is not in the map it does nothing; of a
\* free lock it is undefined.
AfterUnlock(c, n) ==
    CASE plock[c] = Absent -> Absent
      [] plock[c] = Locked -> IF n = 1 THEN 0 ELSE None
      [] plock[c] >= n -> plock[c] - n
      [] OTHER -> None

\* SDK::unlock, n times.
unlock(c, n) ==
    /\ remote' = [remote EXCEPT ![c] = FALSE]
    /\ IF AfterUnlock(c, n) = None
         THEN /\ trouble' = [trouble EXCEPT ![c] = @ \cup {"undefined"}]
              /\ plock' = plock
         ELSE /\ plock' = [plock EXCEPT ![c] = AfterUnlock(c, n)]
              /\ UNCHANGED trouble

-----------------------------------------------------------------------------
(* Exceptions.                                                             *)

Goto(t, pc) == thr' = [thr EXCEPT ![t].pc = pc, ![t].req = None]

FirstPc(op) ==
    CASE op \in {"create", "put"} -> "put"
      [] op = "rm" -> "rm"
      [] op = "open_r" -> "read_lock"
      [] OTHER -> "write_lock"

Opens == {"open_r", "open_w", "open_trunc"}

\* Places of an operation after its path lock is taken and before it is
\* given back.
Holds(t) == thr[t].pc \in {"lock_remote", "update", "shrink", "open", "fsync", "close"}

\* A MessageException ends the operation.  FUSE::open swallows it, and the
\* file counts as open; on its second try it does not, and spkdfs_open does
\* not catch it either.  After the others a lock that was taken stays taken.
MessageException(t) ==
    LET c == owner[t]
        opens == thr[t].op \in Opens
    IN
    /\ IF opens /\ ~ thr[t].again THEN Goto(t, "open") ELSE thr' = [thr EXCEPT ![t] = Idle]
    /\ alive' = [alive EXCEPT ![c] = ~ (opens /\ thr[t].again)]
    /\ trouble' = [trouble EXCEPT ![c] = @ \cup
                     CASE opens -> {"swallowed"}
                       [] ~ opens /\ Holds(t) -> {"leak"}
                       [] OTHER -> {}]

\* FUSE::reinit: a new SDK.  A call of another thread that is under way, or
\* a refresh, goes on with the old one, whose stubs are deleted.
reinit(c, t) ==
    /\ timer' = [timer EXCEPT ![c] = IF @.pc = "run" THEN @ ELSE Rested]
    /\ remote' = [remote EXCEPT ![c] = FALSE]
    /\ plock' = [plock EXCEPT ![c] = Absent]
    /\ cache' = [cache EXCEPT ![c] = None]
    /\ trouble' = [trouble EXCEPT ![c] = @ \cup {"reinit"} \cup
                     IF \/ timer[c].pc = "run"
                        \/ \E u \in Thread \ {t} :
                             owner[u] = c /\ thr[u].pc \notin {"idle", "open"}
                     THEN {"undefined"} ELSE {}]

\* Any other exception, in an operation that opens, creates or removes: a
\* new SDK and a second try.  The command line has none.  spkdfs_open does
\* not catch what the second try throws.
RuntimeError(t) ==
    LET c == owner[t]
        op == thr[t].op
    IN
    IF op = "put"
    THEN thr' = [thr EXCEPT ![t] = Idle] /\ UNCHANGED <<timer, alive, local, trouble>>
    ELSE IF ~ thr[t].again
    THEN /\ reinit(c, t)
         /\ thr' = [thr EXCEPT ![t].pc = FirstPc(op), ![t].again = TRUE, ![t].req = None]
         /\ UNCHANGED <<alive, pending>>
    ELSE /\ alive' = [alive EXCEPT ![c] = (op \notin Opens)]
         /\ thr' = [thr EXCEPT ![t] = Idle]
         /\ trouble' = IF Holds(t) THEN [trouble EXCEPT ![c] = @ \cup {"leak"}] ELSE trouble
         /\ UNCHANGED <<timer, local>>

-----------------------------------------------------------------------------
(* The operations.  A client goes on until it ends or does something that  *)
(* is undefined.                                                           *)

Running(c) == alive[c] /\ "undefined" \notin trouble[c]

\* The kernel looks a path up (getattr, ls of the slave) before it calls
\* create or one of the others; the command line does not.
Begin(t, op) ==
    /\ Running(owner[t]) /\ thr[t].pc = "idle"
    /\ calls < MaxCalls /\ calls' = calls + 1
    /\ op # "put" => slave.valid = (op # "create")
    /\ thr' = [thr EXCEPT ![t] = [Idle EXCEPT !.op = op, !.pc = FirstPc(op)]]
    /\ UNCHANGED <<file, slave, timer, alive, local, fails, history, trouble>>

\* An RPC is handled: its entry is built.
Prepare(t) ==
    /\ Running(owner[t]) /\ thr[t].pc \in Rpcs /\ thr[t].req = None
    /\ Check(thr[t].pc)
    /\ thr' = [thr EXCEPT ![t].req = Entry(thr[t].op, thr[t].pc)]
    /\ UNCHANGED <<file, slave, timer, alive, local, calls, fails, history, trouble>>

\* The end of SDK::close.
Closed(t) ==
    /\ cache' = [cache EXCEPT ![owner[t]] = None]
    /\ unlock(owner[t], 1)
    /\ thr' = [thr EXCEPT ![t] = Idle]
    /\ UNCHANGED pending

\* What t does when fsync, which does not look at the answer, has called
\* put_ok.
Synced(t) ==
    IF thr[t].pc = "close" THEN Closed(t)
    ELSE Goto(t, "open") /\ UNCHANGED <<local, trouble>>

\* Its check fails.
Refused(t) ==
    /\ Running(owner[t]) /\ thr[t].pc \in Rpcs /\ thr[t].req = None
    /\ ~ Check(thr[t].pc)
    /\ IF thr[t].pc \in {"fsync", "close"} THEN Synced(t) /\ UNCHANGED alive
       ELSE MessageException(t) /\ UNCHANGED local
    /\ UNCHANGED <<file, slave, timer, calls, fails, history>>

\* Mutant: lock_remote does not record the path.
LockedRemote_unrecorded(t) ==
    /\ Goto(t, "update")
    /\ pending' = [pending EXCEPT ![owner[t]] = FALSE]
    /\ UNCHANGED <<remote, plock, cache, trouble>>

\* SDK::open after lock_remote: the path is recorded, the write directory
\* emptied.
LockedRemote(t) ==
    /\ Goto(t, "update")
    /\ remote' = [remote EXCEPT ![owner[t]] = TRUE]
    /\ pending' = [pending EXCEPT ![owner[t]] = FALSE]
    /\ UNCHANGED <<plock, cache, trouble>>

\* _truncate has called put_ok and unlocks; SDK::truncate unlocks again.
Shrunk(t) ==
    LET c == owner[t]
        n == IF thr[t].op = "truncate" THEN 2 ELSE 1
    IN
    /\ IF thr[t].op = "truncate" THEN thr' = [thr EXCEPT ![t] = Idle] ELSE Goto(t, "open")
    /\ remote' = [remote EXCEPT ![c] = FALSE]
    /\ LET l == AfterUnlock(c, n) IN
       /\ plock' = IF l = None THEN plock ELSE [plock EXCEPT ![c] = l]
       /\ trouble' = [trouble EXCEPT ![c] = @ \cup {"early_unlock"} \cup
                        IF l = None THEN {"undefined"} ELSE {}]
    /\ UNCHANGED <<cache, pending>>

\* What t does when its RPC has succeeded.
Succeeded(t) ==
    LET pc == thr[t].pc IN
    CASE pc = "put" -> Goto(t, "put_lock") /\ UNCHANGED <<local, trouble>>
      [] pc = "put_lock" -> Goto(t, "encode") /\ UNCHANGED <<local, trouble>>
      [] pc = "put_ok" /\ thr[t].op = "create" ->
           Goto(t, "write_lock") /\ UNCHANGED <<local, trouble>>
      [] pc = "rm" \/ (pc = "put_ok" /\ thr[t].op = "put") ->
           thr' = [thr EXCEPT ![t] = Idle] /\ UNCHANGED <<local, trouble>>
      [] pc = "lock_remote" -> LockedRemote(t)
      [] pc = "shrink" -> Shrunk(t)
      [] pc \in {"fsync", "close"} -> Synced(t)

\* The entry is applied and the RPC answered.
Answered(t) ==
    /\ Running(owner[t]) /\ thr[t].req # None
    /\ Applied(thr[t].pc, thr[t].req)
    /\ Succeeded(t)
    /\ UNCHANGED <<slave, timer, alive, calls, fails>>

\* The caller has ended; the entry is applied all the same.
Orphaned(t) ==
    /\ ~ Running(owner[t]) /\ thr[t].req # None
    /\ Applied(thr[t].pc, thr[t].req)
    /\ thr' = [thr EXCEPT ![t].req = None]
    /\ UNCHANGED <<slave, timer, alive, local, calls, fails, trouble>>

\* The RPC, or its answer, is lost.
Lost(t) ==
    /\ Running(owner[t]) /\ thr[t].pc \in Rpcs
    /\ fails < MaxFails /\ fails' = fails + 1
    /\ \/ UNCHANGED <<file, history>>
       \/ thr[t].req # None /\ Applied(thr[t].pc, thr[t].req)
    /\ IF thr[t].pc \in {"fsync", "close"}
         THEN Synced(t) /\ UNCHANGED <<timer, alive>>
         ELSE RuntimeError(t)
    /\ UNCHANGED <<slave, calls>>

\* SDK::put has encoded its blocks and calls _unlock_remote, which drops the
\* path also if another thread has locked it.
Encoded(t) ==
    LET c == owner[t] IN
    /\ Running(c) /\ thr[t].pc = "encode"
    /\ Goto(t, "put_ok")
    /\ remote' = [remote EXCEPT ![c] = FALSE]
    /\ trouble' = IF remote[c] THEN [trouble EXCEPT ![c] = @ \cup {"dropped"}] ELSE trouble
    /\ UNCHANGED <<file, slave, timer, alive, plock, cache, pending, calls, fails, history>>

\* Mutant: a writer takes the lock although there are readers.
write_lock_over_readers(t) ==
    /\ Running(owner[t]) /\ thr[t].pc = "write_lock"
    /\ plock[owner[t]] # Locked
    /\ plock' = [plock EXCEPT ![owner[t]] = Locked]
    /\ Goto(t, "lock_remote")
    /\ UNCHANGED <<file, slave, timer, alive, remote, cache, pending, calls, fails, history, trouble>>

\* PathLocks::write_lock
write_lock(t) ==
    /\ Running(owner[t]) /\ thr[t].pc = "write_lock"
    /\ Free(owner[t])
    /\ plock' = [plock EXCEPT ![owner[t]] = Locked]
    /\ Goto(t, "lock_remote")
    /\ UNCHANGED <<file, slave, timer, alive, remote, cache, pending, calls, fails, history, trouble>>

\* PathLocks::read_lock
read_lock(t) ==
    /\ Running(owner[t]) /\ thr[t].pc = "read_lock"
    /\ plock[owner[t]] # Locked
    /\ plock' = [plock EXCEPT ![owner[t]] = Readers(owner[t]) + 1]
    /\ Goto(t, "update")
    /\ UNCHANGED <<file, slave, timer, alive, remote, cache, pending, calls, fails, history, trouble>>

\* update_inode, and how _truncate starts: it returns at once for a file of
\* the size asked for, after which SDK::truncate unlocks.
Updated(t) ==
    LET c == owner[t] IN
    /\ cache' = [cache EXCEPT ![c] = slave.size]
    /\ IF thr[t].op \in {"open_trunc", "truncate"} /\ slave.size # 0
         THEN Goto(t, "shrink") /\ UNCHANGED <<remote, plock, trouble>>
       ELSE IF thr[t].op = "truncate"
         THEN thr' = [thr EXCEPT ![t] = Idle] /\ unlock(c, 1)
       ELSE Goto(t, "open") /\ UNCHANGED <<remote, plock, trouble>>

update_inode(t) ==
    /\ Running(owner[t]) /\ thr[t].pc = "update"
    /\ IF slave.valid THEN Updated(t) /\ UNCHANGED alive
       ELSE MessageException(t) /\ UNCHANGED <<remote, plock, cache>>
    /\ UNCHANGED <<file, slave, timer, pending, calls, fails, history>>

\* ls is lost.
LsLost(t) ==
    /\ Running(owner[t]) /\ thr[t].pc = "update"
    /\ fails < MaxFails /\ fails' = fails + 1
    /\ RuntimeError(t)
    /\ UNCHANGED <<file, slave, calls, history>>

-----------------------------------------------------------------------------
(* A file that is open.                                                    *)

Writer(t) == thr[t].op \notin {"open_r", "put", "rm"}

\* write_data
write_data(t) ==
    LET c == owner[t] IN
    /\ Running(c) /\ thr[t].pc = "open" /\ Writer(t)
    /\ cache[c] # None
    /\ pending' = [pending EXCEPT ![c] = TRUE]
    /\ UNCHANGED <<file, slave, thr, timer, alive, remote, plock, cache, calls, fails, history, trouble>>

\* read_data, write_data or fsync finds no inode in the cache, gets a new
\* SDK, and finds none there either.
NoInode(t) ==
    LET c == owner[t] IN
    /\ Running(c) /\ thr[t].pc = "open"
    /\ cache[c] = None
    /\ reinit(c, t)
    /\ UNCHANGED <<file, slave, thr, alive, pending, calls, fails, history>>

\* fsync and close upload what is in the write directory and empty it.
Upload(t, pc) ==
    LET c == owner[t] IN
    /\ Running(c) /\ thr[t].pc = "open"
    /\ pending[c] /\ cache[c] # None
    /\ pending' = [pending EXCEPT ![c] = FALSE]
    /\ Goto(t, pc)
    /\ UNCHANGED <<file, slave, timer, alive, remote, plock, cache, calls, fails, history, trouble>>

fsync(t) == Upload(t, "fsync")

\* SDK::close, with something to upload, without, and without an inode.
close(t) ==
    LET c == owner[t] IN
    \/ Upload(t, "close")
    \/ /\ Running(c) /\ thr[t].pc = "open" /\ ~ pending[c]
       /\ Closed(t)
       /\ UNCHANGED <<file, slave, timer, alive, calls, fails, history>>
    \/ /\ Running(c) /\ thr[t].pc = "open" /\ pending[c] /\ cache[c] = None
       /\ reinit(c, t)
       /\ thr' = [thr EXCEPT ![t] = Idle]
       /\ UNCHANGED <<file, slave, alive, pending, calls, fails, history>>

-----------------------------------------------------------------------------
(* The timer of the SDK: refresh of the deadline.                          *)

\* It copies remoteLocks and calls update_lock.
TimerPrepare(c) ==
    /\ Running(c) /\ timer[c].pc = "run" /\ timer[c].req = None
    /\ remote[c] /\ file.valid
    /\ timer' = [timer EXCEPT ![c].req = [file EXCEPT !.ddl = LockTicks]]
    /\ UNCHANGED <<file, slave, thr, alive, local, calls, fails, history, trouble>>

TimerAnswered(c) ==
    /\ timer[c].req # None
    /\ Applied("lock_remote", timer[c].req)
    /\ timer' = [timer EXCEPT ![c] = Rested]
    /\ UNCHANGED <<slave, thr, alive, local, calls, fails, trouble>>

\* Mutant: one try too many.
Retry_once_more(c) ==
    IF timer[c].tries = 4
    THEN /\ alive' = [alive EXCEPT ![c] = FALSE]
         /\ timer' = [timer EXCEPT ![c] = Rested]
    ELSE /\ timer' = [timer EXCEPT ![c].tries = @ + 1, ![c].req = None]
         /\ UNCHANGED alive

\* Mutant: no retry.
Retry_never(c) ==
    /\ alive' = [alive EXCEPT ![c] = FALSE]
    /\ timer' = [timer EXCEPT ![c] = Rested]

\* The fourth failure ends the process: an exception leaves the thread.
Retry(c) ==
    IF timer[c].tries = 3
    THEN /\ alive' = [alive EXCEPT ![c] = FALSE]
         /\ timer' = [timer EXCEPT ![c] = Rested]
    ELSE /\ timer' = [timer EXCEPT ![c].tries = @ + 1, ![c].req = None]
         /\ UNCHANGED alive

\* There is no such file any more, or no path left to refresh: update_lock
\* refuses an empty list.
TimerRefused(c) ==
    /\ Running(c) /\ timer[c].pc = "run" /\ timer[c].req = None
    /\ ~ remote[c] \/ ~ file.valid
    /\ Retry(c)
    /\ trouble' = IF remote[c] THEN trouble
                  ELSE [trouble EXCEPT ![c] = @ \cup {"empty_refresh"}]
    /\ UNCHANGED <<file, slave, thr, local, calls, fails, history>>

TimerLost(c) ==
    /\ Running(c) /\ timer[c].pc = "run"
    /\ fails < MaxFails /\ fails' = fails + 1
    /\ \/ UNCHANGED <<file, history>>
       \/ timer[c].req # None /\ Applied("lock_remote", timer[c].req)
    /\ Retry(c)
    /\ UNCHANGED <<slave, thr, local, calls, trouble>>

\* An interval is over: every timer has run, and no RPC has taken as long.
\* The timer returns if remoteLocks is empty.
Tick ==
    /\ \A c \in Client : Running(c) => timer[c].pc = "done"
    /\ \A c \in Client : timer[c].req = None
    /\ \A t \in Thread : thr[t].req = None
    /\ file' = [file EXCEPT !.ddl = IF @ = 0 THEN 0 ELSE @ - 1]
    /\ timer' = [c \in Client |-> IF Running(c) /\ remote[c]
                                 THEN [Rested EXCEPT !.pc = "run"] ELSE Rested]
    /\ UNCHANGED <<slave, thr, alive, local, calls, fails, history, trouble>>

-----------------------------------------------------------------------------

Step(t) ==
    \/ Prepare(t) \/ Refused(t) \/ Answered(t) \/ Orphaned(t)
    \/ Encoded(t) \/ write_lock(t) \/ read_lock(t) \/ update_inode(t)

TimerStep(c) ==
    TimerPrepare(c) \/ TimerAnswered(c) \/ TimerRefused(c)

Next ==
    \/ \E t \in Thread :
         \/ \E op \in Ops[t] : Begin(t, op)
         \/ Step(t) \/ Lost(t) \/ LsLost(t)
         \/ write_data(t) \/ NoInode(t) \/ fsync(t) \/ close(t)
    \/ \E c \in Client : TimerStep(c) \/ TimerLost(c)
    \/ Replicate \/ Tick

Spec == Init /\ [][Next]_vars

-----------------------------------------------------------------------------
(* Properties.                                                             *)

Sound(c) == Running(c) /\ trouble[c] \cap {"early_unlock", "reinit", "leak"} = {}

Sessions(c) == {t \in Thread : owner[t] = c /\ Holds(t)}

\* The path lock of a client is what its sessions say: one writer and
\* nobody else, or readers, or free.  This holds through every order of
\* opens, creates, truncations of empty files and closes, until one of the
\* three things named in Sound happens.
LocalLocks ==
    \A c \in Client : Sound(c) =>
        LET S == Sessions(c)
            W == {t \in S : Writer(t)}
        IN
        IF W # {} THEN plock[c] = Locked /\ Cardinality(S) = 1
        ELSE Readers(c) = Cardinality(S)

\* The deadline of a file that is open for writing is not over, unless a
\* put_ok has cleared it since it was last set: no other client's put gets
\* past Inode::lock, however long the file stays open.
DeadlineHolds ==
    \A t \in Thread :
        /\ Sound(owner[t]) /\ trouble[owner[t]] \cap {"dropped", "swallowed"} = {}
        /\ Writer(t)
        /\ thr[t].pc \in {"update", "open"} /\ file.valid /\ ~ cleared
        => file.ddl > 0

\* A process ends only when a file was removed, when the timer found
\* remoteLocks emptied by a close since it had looked, or when more than one
\* RPC was lost: one lost RPC is made good by the second try of an operation
\* or by the timer's.
EndsForCause ==
    \A c \in Client :
        ~ alive[c] => removed \/ fails > 1 \/ "empty_refresh" \in trouble[c]
=============================================================================
