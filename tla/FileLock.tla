------------------------------- MODULE FileLock -------------------------------
(***************************************************************************)
(* The advisory lock of autocitefetch-std, `lock_the_file_at`.             *)
(*                                                                         *)
(* A lock is a file at a path.  The store UNLINKS lock files while it      *)
(* still holds them, so a process may end up with the lock of a file that  *)
(* no longer has a name; the code therefore compares (dev, ino) of the     *)
(* locked file with the file the path names and starts over when they      *)
(* differ.  The model keeps every system call separate: open(create),      *)
(* flock, fstat/stat, unlink, close.                                       *)
(*                                                                         *)
(* Inode numbers are reused by the file system as soon as nothing refers   *)
(* to the file, so a finite set of them loses no behaviour: one for the    *)
(* path and one per open descriptor is always enough.                      *)
(***************************************************************************)
EXTENDS Integers

CONSTANTS
  Procs,        \* processes contending for one lock path
  Inodes,       \* the inode numbers the file system hands out
  Retries,      \* LOCK_RACE_RETRIES
  MaxCrashes,   \* bound: how many crashes a behaviour may contain
  NoInode,      \* the path names nothing / no descriptor is open
  NoProc        \* nobody holds the flock of an inode

ASSUME RetriesAssumption == Retries \in Nat \ {0}
ASSUME MaxCrashesAssumption == MaxCrashes \in Nat
ASSUME NoInodeAssumption == NoInode \notin Inodes
ASSUME NoProcAssumption == NoProc \notin Procs

VARIABLES
  named,        \* the inode the path names
  flock,        \* flock[i]: who holds the advisory lock of inode i
  fd,           \* fd[p]: the file p's current attempt has open
  blocking,     \* blocking[p]: Blocking::Yes (lock_exclusive) or No (try_)
  tries,        \* tries[p]: rounds of the retry loop p has used up
  pc,
  crashes       \* crashes so far (bookkeeping for MaxCrashes)

vars == <<named, flock, fd, blocking, tries, pc, crashes>>

Phases == {"idle", "open", "acquire", "verify", "held", "unlinked"}

\* Every inode something refers to: the file system may not hand it out again.
Live == {named} \cup {fd[p] : p \in Procs}

Init ==
  /\ named = NoInode
  /\ flock = [i \in Inodes |-> NoProc]
  /\ fd = [p \in Procs |-> NoInode]
  /\ blocking = [p \in Procs |-> FALSE]
  /\ tries = [p \in Procs |-> 0]
  /\ pc = [p \in Procs |-> "idle"]
  /\ crashes = 0

\* Closing a descriptor drops the flock this process had through it.
Close(p) ==
  /\ fd' = [fd EXCEPT ![p] = NoInode]
  /\ flock' = [i \in Inodes |-> IF flock[i] = p THEN NoProc ELSE flock[i]]

\* lock_exclusive (b = TRUE) or try_lock_exclusive (b = FALSE) is called.
Call(p, b) ==
  /\ pc[p] = "idle"
  /\ pc' = [pc EXCEPT ![p] = "open"]
  /\ blocking' = [blocking EXCEPT ![p] = b]
  /\ tries' = [tries EXCEPT ![p] = 0]
  /\ UNCHANGED <<named, flock, fd, crashes>>

\* open(create, no truncate): the file at the path, a fresh one if there is none.
Open(p) ==
  /\ pc[p] = "open"
  /\ \E i \in Inodes :
       /\ IF named = NoInode THEN i \notin Live ELSE i = named
       /\ named' = i
       /\ fd' = [fd EXCEPT ![p] = i]
  /\ pc' = [pc EXCEPT ![p] = "acquire"]
  /\ UNCHANGED <<flock, blocking, tries, crashes>>

\* The flock is free: both modes take it.  A blocking caller waits until then.
Acquire(p) ==
  /\ pc[p] = "acquire"
  /\ flock[fd[p]] = NoProc
  /\ flock' = [flock EXCEPT ![fd[p]] = p]
  /\ pc' = [pc EXCEPT ![p] = "verify"]
  /\ UNCHANGED <<named, fd, blocking, tries, crashes>>

\* WouldBlock in non-blocking mode: Ok(None), "owner alive".
WouldBlock(p) ==
  /\ pc[p] = "acquire"
  /\ ~blocking[p]
  /\ flock[fd[p]] # NoProc
  /\ Close(p)
  /\ pc' = [pc EXCEPT ![p] = "idle"]
  /\ UNCHANGED <<named, blocking, tries, crashes>>

\* Mutant of LockedTheFileAtPath: no check that the locked file is still named.
LockedAnyFile(p) == TRUE

\* locked_the_file_at_path: is the file we locked still the one at the path?
LockedTheFileAtPath(p) == named = fd[p]

Confirm(p) ==
  /\ pc[p] = "verify"
  /\ LockedTheFileAtPath(p)
  /\ pc' = [pc EXCEPT ![p] = "held"]
  /\ UNCHANGED <<named, flock, fd, blocking, tries, crashes>>

\* Mutant of StartOver: the stale file is not dropped before the next round.
StartOverLeaking(p) ==
  /\ pc[p] = "verify"
  /\ ~LockedTheFileAtPath(p)
  /\ tries' = [tries EXCEPT ![p] = @ + 1]
  /\ pc' = [pc EXCEPT ![p] = IF tries[p] + 1 < Retries THEN "open" ELSE "idle"]
  /\ UNCHANGED <<named, flock, fd, blocking, crashes>>

\* It is not: drop the file and go round again, or give up after Retries rounds
\* (Ok(None); lock_exclusive turns it into an error).
StartOver(p) ==
  /\ pc[p] = "verify"
  /\ ~LockedTheFileAtPath(p)
  /\ Close(p)
  /\ tries' = [tries EXCEPT ![p] = @ + 1]
  /\ pc' = [pc EXCEPT ![p] = IF tries[p] + 1 < Retries THEN "open" ELSE "idle"]
  /\ UNCHANGED <<named, blocking, crashes>>

\* The holder unlinks the lock file while still holding its lock: the last act
\* of FileCacheStore::flush, and what it does to a reaped or own companion.
Unlink(p) ==
  /\ pc[p] = "held"
  /\ named' = NoInode
  /\ pc' = [pc EXCEPT ![p] = "unlinked"]
  /\ UNCHANGED <<flock, fd, blocking, tries, crashes>>

\* StdGuard::drop.  From "held" when the section ends early (a flush that
\* returns an error leaves its lock file behind), from "unlinked" otherwise.
Release(p) ==
  /\ pc[p] \in {"held", "unlinked"}
  /\ Close(p)
  /\ pc' = [pc EXCEPT ![p] = "idle"]
  /\ UNCHANGED <<named, blocking, tries, crashes>>

\* The process dies at any point: the kernel closes its descriptors.
Crash(p) ==
  /\ pc[p] # "idle"
  /\ crashes < MaxCrashes
  /\ crashes' = crashes + 1
  /\ Close(p)
  /\ pc' = [pc EXCEPT ![p] = "idle"]
  /\ UNCHANGED <<named, blocking, tries>>

Step(p) ==
  \/ Open(p) \/ Acquire(p) \/ WouldBlock(p) \/ Confirm(p) \/ StartOver(p)
  \/ Unlink(p) \/ Release(p)

Next ==
  \E p \in Procs :
    \/ \E b \in BOOLEAN : Call(p, b)
    \/ Step(p)
    \/ Crash(p)

Spec == Init /\ [][Next]_vars

\* Every process the operating system schedules takes its next step eventually;
\* nobody is obliged to ask for the lock, and nobody is obliged to crash.
FairSpec == Spec /\ \A p \in Procs : WF_vars(Step(p))

------------------------------------------------------------------------------
TypeOK ==
  /\ named \in Inodes \cup {NoInode}
  /\ flock \in [Inodes -> Procs \cup {NoProc}]
  /\ fd \in [Procs -> Inodes \cup {NoInode}]
  /\ blocking \in [Procs -> BOOLEAN]
  /\ tries \in [Procs -> 0..Retries]
  /\ pc \in [Procs -> Phases]
  /\ crashes \in 0..MaxCrashes
  /\ \A p \in Procs :
       /\ (fd[p] = NoInode) <=> (pc[p] \in {"idle", "open"})
       /\ pc[p] # "idle" => tries[p] < Retries

Holders == {p \in Procs : pc[p] = "held"}

\* Two processes never both believe they hold the lock at the path, although
\* files are unlinked while locked, recreated, and their inode numbers reused
\* (store.rs, lock_the_file_at: "Both would believe they hold the lock").
MutualExclusion == \A p, q \in Holders : p = q

\* A holder guards the file everybody else is contending for: the one the path
\* names, with its flock.  (filecache.rs: "There is no instant at which the path
\* exists and its lock is free while its owner is still using it".)
HolderGuardsPath == \A p \in Holders : named = fd[p] /\ flock[fd[p]] = p

\* The lock is a Mutex.
LockAbs == INSTANCE Mutex WITH holders <- Holders
ImplementsMutex == LockAbs!Spec

\* Waiting never wedges: while a process waits for the lock, somebody holds it
\* sooner or later, or the process stops waiting (WouldBlock, retries used up).
\* Only finitely many crashes: a peer that died between its flock and its check
\* again and again could starve a waiter for ever.
NoWedge ==
  \A p \in Procs :
    pc[p] \in {"open", "acquire", "verify"} ~> (Holders # {} \/ pc[p] = "idle")
==============================================================================
