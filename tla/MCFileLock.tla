------------------------------ MODULE MCFileLock ------------------------------
(* Three contenders, one inode for the path and one per descriptor.          *)
EXTENDS FileLock, TLC
Symmetry == Permutations(Procs) \cup Permutations(Inodes)
==============================================================================
