---------------------------- MODULE FileLock_proofs ----------------------------
(***************************************************************************)
(* For any number of processes and inodes, any retry budget and any number *)
(* of crashes, FileLock excludes and implements Mutex.                     *)
(*                                                                         *)
(* MutualExclusion is not inductive: that a second process cannot get past *)
(* Confirm follows from WHO has the flock of the named inode, and so from  *)
(* where the flock is taken (FlockTaken below), together with the fact     *)
(* that only a holder ever takes the name away (HolderGuardsPath).         *)
(***************************************************************************)
EXTENDS FileLock, TLAPS

\* From flock to close the process owns the lock of the file it has open.
FlockTaken ==
  \A p \in Procs : pc[p] \in {"verify", "held", "unlinked"} => flock[fd[p]] = p

IInv == TypeOK /\ FlockTaken /\ HolderGuardsPath

LEMMA Assumptions ==
  /\ Retries \in Nat \ {0}
  /\ MaxCrashes \in Nat
  /\ NoInode \notin Inodes
  /\ NoProc \notin Procs
BY RetriesAssumption, MaxCrashesAssumption, NoInodeAssumption, NoProcAssumption

\* The variables keep their types: in particular a descriptor is open exactly
\* between open(2) and close(2) of the current round.
THEOREM TypeCorrect == Spec => []TypeOK
<1>1. Init => TypeOK
  BY Assumptions DEF Init, TypeOK, Phases
<1>2. TypeOK /\ [Next]_vars => TypeOK'
  <2> SUFFICES ASSUME TypeOK, [Next]_vars PROVE TypeOK'
    OBVIOUS
  <2> USE Assumptions DEF TypeOK, Phases
  <2>call. ASSUME NEW p \in Procs, NEW b \in BOOLEAN, Call(p, b) PROVE TypeOK'
    BY <2>call DEF Call
  <2>open. ASSUME NEW p \in Procs, Open(p) PROVE TypeOK'
    BY <2>open DEF Open
  <2>acquire. ASSUME NEW p \in Procs, Acquire(p) PROVE TypeOK'
    BY <2>acquire DEF Acquire
  <2>wouldBlock. ASSUME NEW p \in Procs, WouldBlock(p) PROVE TypeOK'
    BY <2>wouldBlock DEF WouldBlock, Close
  <2>confirm. ASSUME NEW p \in Procs, Confirm(p) PROVE TypeOK'
    BY <2>confirm DEF Confirm
  <2>startOver. ASSUME NEW p \in Procs, StartOver(p) PROVE TypeOK'
    <3>1. tries[p] + 1 \in 0..Retries
      BY <2>startOver DEF StartOver
    <3>2. tries' \in [Procs -> 0..Retries]
      BY <2>startOver, <3>1 DEF StartOver
    <3>3. CASE tries[p] + 1 < Retries
      BY <2>startOver, <3>1, <3>2, <3>3 DEF StartOver, Close
    <3>4. CASE ~(tries[p] + 1 < Retries)
      BY <2>startOver, <3>1, <3>2, <3>4 DEF StartOver, Close
    <3>5. QED BY <3>3, <3>4
  <2>unlink. ASSUME NEW p \in Procs, Unlink(p) PROVE TypeOK'
    BY <2>unlink DEF Unlink
  <2>release. ASSUME NEW p \in Procs, Release(p) PROVE TypeOK'
    BY <2>release DEF Release, Close
  <2>crash. ASSUME NEW p \in Procs, Crash(p) PROVE TypeOK'
    BY <2>crash DEF Crash, Close
  <2>still. CASE UNCHANGED vars
    BY <2>still DEF vars
  <2> QED
    BY <2>call, <2>open, <2>acquire, <2>wouldBlock, <2>confirm, <2>startOver, <2>unlink, <2>release, <2>crash, <2>still
    DEF Next, Step
<1>3. QED BY <1>1, <1>2, PTL DEF Spec

\* The two facts that make exclusion inductive hold throughout.
LEMMA Exclusion == Spec => []IInv
<1>1. Init => IInv
  BY Assumptions DEF Init, IInv, TypeOK, Phases, FlockTaken, HolderGuardsPath,
     Holders
<1>2. IInv /\ TypeOK' /\ [Next]_vars => IInv'
  <2> SUFFICES ASSUME IInv, TypeOK', [Next]_vars PROVE IInv'
    OBVIOUS
  <2> USE Assumptions
      DEF IInv, TypeOK, Phases, FlockTaken, HolderGuardsPath, Holders
  <2>call. ASSUME NEW p \in Procs, NEW b \in BOOLEAN, Call(p, b) PROVE IInv'
    BY <2>call DEF Call
  <2>open. ASSUME NEW p \in Procs, Open(p) PROVE IInv'
    BY <2>open DEF Open
  <2>acquire. ASSUME NEW p \in Procs, Acquire(p) PROVE IInv'
    BY <2>acquire DEF Acquire
  <2>wouldBlock. ASSUME NEW p \in Procs, WouldBlock(p) PROVE IInv'
    BY <2>wouldBlock DEF WouldBlock, Close
  <2>confirm. ASSUME NEW p \in Procs, Confirm(p) PROVE IInv'
    BY <2>confirm DEF Confirm, LockedTheFileAtPath
  <2>startOver. ASSUME NEW p \in Procs, StartOver(p) PROVE IInv'
    BY <2>startOver DEF StartOver, Close, LockedTheFileAtPath
  <2>unlink. ASSUME NEW p \in Procs, Unlink(p) PROVE IInv'
    <3>1. \A q \in Procs : pc[q] = "held" => q = p
      BY <2>unlink DEF Unlink
    <3>2. QED BY <2>unlink, <3>1 DEF Unlink
  <2>release. ASSUME NEW p \in Procs, Release(p) PROVE IInv'
    BY <2>release DEF Release, Close
  <2>crash. ASSUME NEW p \in Procs, Crash(p) PROVE IInv'
    BY <2>crash DEF Crash, Close
  <2>still. CASE UNCHANGED vars
    BY <2>still DEF vars
  <2> QED
    BY <2>call, <2>open, <2>acquire, <2>wouldBlock, <2>confirm, <2>startOver, <2>unlink, <2>release, <2>crash, <2>still
    DEF Next, Step
<1>3. QED BY <1>1, <1>2, TypeCorrect, PTL DEF Spec

\* One holder at a time, whatever is unlinked, recreated and reused meanwhile.
THEOREM HoldersExclude == Spec => []MutualExclusion
<1>1. IInv => MutualExclusion
  BY DEF IInv, TypeOK, HolderGuardsPath, MutualExclusion, Holders
<1>2. QED BY <1>1, Exclusion, PTL

\* The holder's file is the one at the path, locked, until the holder unlinks it.
THEOREM HoldersGuard == Spec => []HolderGuardsPath
<1>1. IInv => HolderGuardsPath
  BY DEF IInv
<1>2. QED BY <1>1, Exclusion, PTL

------------------------------------------------------------------------------
(* What users of the lock see of each system call.                           *)

\* Only a check that succeeds lets a process in, and then it is alone.
LEMMA ConfirmEnters ==
  ASSUME TypeOK, HolderGuardsPath', NEW p \in Procs, Confirm(p)
  PROVE  LockAbs!Enter(p)
<1>alone. \A q \in Procs : pc'[q] = "held" => q = p
  BY DEF TypeOK, Confirm, HolderGuardsPath, Holders
<1> QED
  BY <1>alone DEF TypeOK, Confirm, Holders, LockAbs!Enter

\* A holder leaves by unlinking the file, by dropping the guard, or by dying; a
\* process that is no holder does none of that visibly.
LEMMA HolderLeaves ==
  ASSUME TypeOK, MutualExclusion, NEW p \in Procs, Unlink(p) \/ Release(p) \/ Crash(p)
  PROVE  IF p \in Holders THEN LockAbs!Leave(p) ELSE UNCHANGED Holders
<1>gone. Holders' = Holders \ {p}
  BY DEF TypeOK, Holders, Unlink, Release, Crash
<1>sole. p \in Holders => Holders = {p}
  BY DEF MutualExclusion, Holders
<1> QED
  BY <1>gone, <1>sole DEF LockAbs!Leave

\* Asking for the lock, opening, waiting and starting over go unnoticed.
LEMMA WaitingUnseen ==
  ASSUME TypeOK, NEW p \in Procs,
         \/ \E b \in BOOLEAN : Call(p, b)
         \/ Open(p) \/ Acquire(p) \/ WouldBlock(p) \/ StartOver(p)
  PROVE  UNCHANGED Holders
BY DEF TypeOK, Holders, Call, Open, Acquire, WouldBlock, StartOver

\* Every step of the lock protocol is a step of Mutex or does not show there.
THEOREM LockRefines == Spec => ImplementsMutex
<1>empty. Init => LockAbs!Init
  BY DEF Init, LockAbs!Init, Holders
<1>shown. ASSUME TypeOK, MutualExclusion, HolderGuardsPath', NEW p \in Procs,
                 Step(p) \/ Crash(p) \/ \E b \in BOOLEAN : Call(p, b)
          PROVE  LockAbs!Enter(p) \/ LockAbs!Leave(p) \/ UNCHANGED Holders
  BY <1>shown, ConfirmEnters, HolderLeaves, WaitingUnseen DEF Step
<1>idle. UNCHANGED vars => UNCHANGED Holders
  BY DEF vars, Holders
<1>step. TypeOK /\ MutualExclusion /\ HolderGuardsPath' /\ [Next]_vars
           => [LockAbs!Next]_Holders
  BY <1>shown, <1>idle DEF Next, LockAbs!Next
<1> QED
  BY <1>empty, <1>step, TypeCorrect, HoldersExclude, HoldersGuard, PTL
     DEF Spec, ImplementsMutex, LockAbs!Spec
==============================================================================
