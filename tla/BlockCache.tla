----------------------------- MODULE BlockCache -----------------------------
(***************************************************************************)
(* The client's cache of one block of one file: SDK::read_data (sdk.cpp),  *)
(* which several FUSE threads run at once, and the lock of class PathLocks *)
(* (pathlocks.cpp) under which the block is pulled from the datanodes.     *)
(*                                                                         *)
(* The cached block is a file under /tmp.  A thread that finds it there    *)
(* and not empty reads it without the lock; another one takes the lock,    *)
(* looks again, and pulls the block.  Writing it takes several write calls *)
(* (a block is megabytes, a stream buffer kilobytes).                      *)
(***************************************************************************)
CONSTANTS
    Thread,
    Nobody        \* the lock is free

ASSUME ThreadAssumption == Nobody \notin Thread

VARIABLES
    file,     \* the cache file: "absent", "empty", "part" or "whole"
    locks,    \* PathLocks::locks: is there an entry for the path?
    holder,   \* who holds the shared_mutex of that entry
    pc,       \* pc[t]: where t is in read_data
    block     \* block[t]: what t has read: "none", "empty", "part", "whole"

vars == <<file, locks, holder, pc, block>>

TypeOK ==
    /\ file \in {"absent", "empty", "part", "whole"}
    /\ locks \in BOOLEAN
    /\ holder \in Thread \cup {Nobody}
    /\ pc \in [Thread -> {"look", "read", "lock", "waiting", "look again",
                          "read again", "open", "pull", "write", "close",
                          "unlock", "done", "failed"}]
    /\ block \in [Thread -> {"none", "empty", "part", "whole"}]

Init ==
    /\ file \in {"absent", "whole"}
    /\ locks = FALSE
    /\ holder = Nobody
    /\ pc = [t \in Thread |-> "look"]
    /\ block = [t \in Thread |-> "none"]

Goto(t, from, to) == pc[t] = from /\ pc' = [pc EXCEPT ![t] = to]

\* Mutant: no check at all.
HasData_unchecked == TRUE

\* fs::exists(tmp_path) && fs::file_size(tmp_path) > 0
HasData == file \in {"part", "whole"}

Look(t) ==
    /\ Goto(t, "look", IF HasData THEN "read" ELSE "lock")
    /\ UNCHANGED <<file, locks, holder, block>>

\* Mutant: the second look is skipped.
LookAgain_skipped(t) ==
    /\ Goto(t, "look again", "open")
    /\ UNCHANGED <<file, locks, holder, block>>

LookAgain(t) ==
    /\ Goto(t, "look again", IF HasData THEN "read again" ELSE "open")
    /\ UNCHANGED <<file, locks, holder, block>>

\* Mutant: a thread that finds the block pulled does not unlock.
ReadFile_keeps_lock(t) ==
    /\ Goto(t, "read", "done") \/ Goto(t, "read again", "done")
    /\ block' = [block EXCEPT ![t] = file]
    /\ UNCHANGED <<file, locks, holder>>

\* read_file(tmp_path), without the lock or with it.
ReadFile(t) ==
    /\ Goto(t, "read", "done") \/ Goto(t, "read again", "unlock")
    /\ block' = [block EXCEPT ![t] = file]
    /\ UNCHANGED <<file, locks, holder>>

\* PathLocks::write_lock: make sure there is an entry, then lock it.
WriteLock(t) ==
    /\ Goto(t, "lock", "waiting")
    /\ locks' = TRUE
    /\ UNCHANGED <<file, holder, block>>

\* Mutant: the lock does not exclude (as lock_shared would not).
Acquire_shared(t) ==
    /\ Goto(t, "waiting", "look again")
    /\ holder' = t
    /\ UNCHANGED <<file, locks, block>>

Acquire(t) ==
    /\ Goto(t, "waiting", "look again")
    /\ holder = Nobody
    /\ holder' = t
    /\ UNCHANGED <<file, locks, block>>

\* ofstream ofile(tmp_path): creates or truncates the file.
OpenFile(t) ==
    /\ Goto(t, "open", "pull")
    /\ file' = "empty"
    /\ UNCHANGED <<locks, holder, block>>

\* The exception leaves read_data without unlocking.
OpenFails(t) ==
    /\ Goto(t, "open", "failed")
    /\ UNCHANGED <<file, locks, holder, block>>

\* decode_one returns the block, or "" if too many fragments are missing.
Pull(t) ==
    /\ \E b \in {"empty", "whole"} :
         /\ Goto(t, "pull", IF b = "empty" THEN "close" ELSE "write")
         /\ block' = [block EXCEPT ![t] = b]
    /\ UNCHANGED <<file, locks, holder>>

\* ofile << block: some of it is in the file, then all of it is.
WritePart(t) ==
    /\ Goto(t, "write", "close")
    /\ file' = "part"
    /\ UNCHANGED <<locks, holder, block>>

CloseFile(t) ==
    /\ Goto(t, "close", "unlock")
    /\ file' = IF block[t] = "whole" THEN "whole" ELSE file
    /\ UNCHANGED <<locks, holder, block>>

\* PathLocks::unlock
Unlock(t) ==
    /\ Goto(t, "unlock", "done")
    /\ holder' = IF locks THEN Nobody ELSE holder
    /\ UNCHANGED <<file, locks, block>>

\* The application reads the block again.
ReadAgain(t) ==
    /\ Goto(t, "done", "look")
    /\ block' = [block EXCEPT ![t] = "none"]
    /\ UNCHANGED <<file, locks, holder>>

read_data(t) ==
    \/ Look(t) \/ ReadFile(t) \/ WriteLock(t) \/ Acquire(t) \/ LookAgain(t)
    \/ OpenFile(t) \/ OpenFails(t) \/ Pull(t) \/ WritePart(t) \/ CloseFile(t)
    \/ Unlock(t)

Next == \E t \in Thread : read_data(t) \/ ReadAgain(t)

Spec == Init /\ [][Next]_vars

\* Threads run on.  Which of several waiting threads gets the lock next is
\* up to the shared_mutex.
FairSpec == Spec /\ \A t \in Thread : WF_vars(read_data(t))

-----------------------------------------------------------------------------
(* Properties.                                                             *)

\* A cached block is never truncated and pulled again: the second look,
\* under the lock, sees what any other thread has pulled meanwhile.
NeverPulledTwice ==
    [][HasData => HasData']_vars

\* While a pull is under way the thread that pulls holds the lock, so no
\* other thread pulls, and what a thread reads under the lock is whole.
LockedReadsAreWhole ==
    \A t \in Thread : pc[t] = "unlock" => block[t] # "part"

\* A thread that has the lock gives it back, whether it pulls the block,
\* gets nothing from the datanodes or finds the block pulled.  The one
\* exception is a cache file that cannot be opened (sdk.cpp:554).
LockReleased ==
    \A t \in Thread : (holder = t) ~> (holder # t \/ pc[t] = "failed")

\* "it will cause subsequent requests to block and wait for the first pull
\* to complete" (README.md:72): no read returns a block that is still being
\* written.
ReadsAreWhole ==
    \A t \in Thread : block[t] # "part"
=============================================================================
