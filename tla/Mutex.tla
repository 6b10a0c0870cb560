-------------------------------- MODULE Mutex --------------------------------
(***************************************************************************)
(* What a lock path promises its users: `holders` is the set of processes  *)
(* inside the section the lock guards, and it never has two members.       *)
(* `lock_exclusive` / `try_lock_exclusive` of CacheFs are specified to     *)
(* give exactly this (filecache.rs: "verify, after acquiring, that the     *)
(* file they locked is still the one at the path").  FileLock implements   *)
(* this module; FileCache relies on it for its compaction lock.            *)
(***************************************************************************)
CONSTANT Procs

VARIABLE holders

Init == holders = {}

\* A lock guard is handed out.
Enter(p) == holders = {} /\ holders' = {p}

\* The guard is dropped, or the file is unlinked by its holder on the way out.
Leave(p) == holders = {p} /\ holders' = {}

Next == \E p \in Procs : Enter(p) \/ Leave(p)

Spec == Init /\ [][Next]_holders
==============================================================================
