--------------------------- MODULE FileCache_proofs ---------------------------
(***************************************************************************)
(* What the design of the cache directory is for, for any number of        *)
(* writers, ids, writes, flushes, crashes and failing calls.               *)
(*                                                                         *)
(* HeldInv and DataInv hold over any host.  A file a flush takes away has  *)
(* its companion locked by that flush (TakenHeld), and a flush's own log   *)
(* stays in its sight until it is unlinked (OwnLogKept).  An append is     *)
(* made under the companion or is in `forgone` (AppendHeld); what a fold   *)
(* could reap is captured and then committed, but for what is forgone      *)
(* (FoldedSafe); a torn tail says which writes of its owner are left       *)
(* (TornTail).  OnlyTornTailLoses, SidecarVouchedFor and                   *)
(* OnlyOwnerReapsLive follow, each with the exceptions it names.           *)
(*                                                                         *)
(* Over a host whose try_lock_exclusive is atomic and whose unlinks and    *)
(* reads of logs work (TraitHost) no write is forgone: a running writer's  *)
(* companion is never there unlocked (VouchInv), so no peer can lock it,   *)
(* neither from a folded log nor from a listed orphan.  There              *)
(* LiveWritesSurvive holds when no append fails (NoTornLines), and two     *)
(* more invariants say what a run leaves behind.  StrandInv: a dead        *)
(* writer's log without its companion is a stranded one and stays that.    *)
(* LeftInv: whatever else a dead writer left is in sight of the flush that *)
(* began after its death.                                                  *)
(*                                                                         *)
(* RecordInv, over any host: the logs, the views and the compactions hold  *)
(* writes of the right id and kind, and never the older of two of one      *)
(* writer.  SeqInv, where no line is torn: of an id one running writer     *)
(* alone writes, its log, the main file, every fold in progress and its    *)
(* memory together hold its latest write.                                  *)
(***************************************************************************)
EXTENDS FileCache, WellFoundedInduction, SequenceTheorems, TLAPS

TraitHost == ~SplitTryLock /\ FaultKinds \cap {"read", "remove"} = {}

Reaps == {"reap", "unlinkLog", "unlinkComp"}
Sweeps == {"sweep", "unlinkOrphan"}

\* The phases of a flush past its lock are those of the lock's holder.
LockPhase ==
  \A w \in Writers :
    /\ pc[w] \in Reaps \cup Sweeps => lock = w
    /\ lock = w => pc[w] \in {"list", "fold"} \cup Reaps \cup Sweeps

\* A running writer's companion is its own, or not there; it is its own from the
\* append that creates the log to the flush that unlinks it.
CompanionHeld ==
  \A w \in Writers :
    /\ Alive(w) => comp[w] \in {"absent", "own"}
    /\ Alive(w) /\ (w \in logs \/ pc[w] = "append") => comp[w] = "own"
    /\ pc[w] # "flock"

\* Until it is reaped, a flush's own log is listed and then folded.
OwnLogSeen ==
  \A w \in Writers : lock = w /\ w \in logs =>
    /\ pc[w] = "fold" => w \in todo[w] \cup folded[w]
    /\ pc[w] \in Reaps => w \in folded[w]
    /\ pc[w] \notin Sweeps

\* What a flush holds for reaping or sweeping belongs to a dead writer.
OnlyDeadTaken ==
  \A w \in Writers :
    /\ pc[w] \in {"unlinkLog", "unlinkComp"} => ~Alive(Candidate(w))
    /\ pc[w] = "unlinkOrphan" => ~Alive(Least(orphans[w]))
    /\ lock = w /\ pc[w] # "list" =>
         \A x \in orphans[w] : Alive(x) => comp[x] = "own"

VouchInv ==
  ControlTypeOK /\ LockPhase /\ CompanionHeld /\ OwnLogSeen /\ OnlyDeadTaken

------------------------------------------------------------------------------
\* The sidecar of least name is one of them.
LEMMA LeastIn ==
  ASSUME NEW S \in SUBSET Writers, S # {}
  PROVE  Least(S) \in S
<1>1. S \subseteq Nat
  BY WritersAssumption
<1> DEFINE R == {p \in Nat \X Nat : p[1] < p[2]}
<1>2. IsWellFoundedOn(R, Nat)
  BY NatLessThanWellFounded DEF OpToRel
<1>3. \A x, y \in Nat : x < y => <<x, y>> \in R
  OBVIOUS
<1> HIDE DEF R
<1>4. PICK m \in S : \A y \in S : ~(<<y, m>> \in R)
  BY <1>1, <1>2, WFMin
<1>5. \A y \in S : m <= y
  <2>1. ASSUME NEW y \in S PROVE ~(y < m)
    BY <1>1, <1>3, <1>4
  <2> QED
    BY <1>1, <2>1
<1> QED
  BY <1>5 DEF Least

\* Over such a host no unlink and no read of a log fails.
LEMMA NoFault ==
  ASSUME TraitHost PROVE ~Fails("remove") /\ ~Fails("read")
BY DEF TraitHost, Fails

\* At the start there are no files and nobody flushes.
LEMMA InitVouch == Init => VouchInv
BY NoWriterAssumption, BoundsAssumption
  DEF Init, VouchInv, ControlTypeOK, LockPhase, CompanionHeld, OwnLogSeen,
      OnlyDeadTaken, Companion, Phases, Reaps, Sweeps, Alive

\* Every step keeps the control state in its type.
LEMMA ControlStep ==
  ASSUME ControlTypeOK, [Next]_vars PROVE ControlTypeOK'
<1> USE BoundsAssumption, NoWriterAssumption
    DEF ControlTypeOK, Companion, Phases, To, Works, Fails, bounds, store,
        scan, history
<1>1. ASSUME NEW w \in Writers, NEW k \in Keys, NEW kind \in Kinds,
              Write(w, k, kind)
      PROVE  ControlTypeOK'
  BY <1>1 DEF Write
<1>2. ASSUME NEW w \in Writers, Open(w) PROVE ControlTypeOK'
  BY <1>2 DEF Open, ReadMain
<1>3. ASSUME NEW w \in Writers, FlushCall(w) PROVE ControlTypeOK'
  BY <1>3 DEF FlushCall
<1>4. ASSUME NEW w \in Writers, FlushLock(w) PROVE ControlTypeOK'
  BY <1>4 DEF FlushLock, ReadMain, DeadWriters
<1>5. ASSUME NEW w \in Writers, List(w) PROVE ControlTypeOK'
  BY <1>5 DEF List, Orphans
<1>6. ASSUME NEW w \in Writers, LoadFails(w) PROVE ControlTypeOK'
  BY <1>6 DEF LoadFails, Forget
<1>7. ASSUME NEW w \in Writers, FoldNext(w) PROVE ControlTypeOK'
  <2> DEFINE x == Least(todo[w])
  <2>1. /\ todo' = [todo EXCEPT ![w] = @ \ {x}]
        /\ folded' = [folded EXCEPT ![w] = @ \cup {x}]
    BY <1>7 DEF FoldNext
  <2>2. todo[w] # {} /\ todo[w] \in SUBSET Writers
    BY <1>7 DEF FoldNext
  <2>3. x \in Writers
    BY <2>2, LeastIn
  <2> HIDE DEF x
  <2>4. todo' \in [Writers -> SUBSET Writers] /\ folded' \in [Writers -> SUBSET Writers]
    BY <2>1, <2>3
  <2> QED
    BY <1>7, <2>4 DEF FoldNext
<1>8. ASSUME NEW w \in Writers, FoldUnreadable(w) PROVE ControlTypeOK'
  BY <1>8 DEF FoldUnreadable
<1>9. ASSUME NEW w \in Writers, OpenDone(w) PROVE ControlTypeOK'
  BY <1>9 DEF OpenDone, Opened, Forget
<1>10. ASSUME NEW w \in Writers, EnsureLifelock(w) PROVE ControlTypeOK'
  BY <1>10 DEF EnsureLifelock
<1>11. ASSUME NEW w \in Writers, OpenCompanion(w) PROVE ControlTypeOK'
  BY <1>11 DEF OpenCompanion
<1>12. ASSUME NEW w \in Writers, FlockCompanion(w) PROVE ControlTypeOK'
  BY <1>12 DEF FlockCompanion
<1>13. ASSUME NEW w \in Writers, AppendLine(w) PROVE ControlTypeOK'
  BY <1>13 DEF AppendLine
<1>14. ASSUME NEW w \in Writers, AppendFails(w) PROVE ControlTypeOK'
  BY <1>14 DEF AppendFails
<1>15. ASSUME NEW w \in Writers, Replace(w) PROVE ControlTypeOK'
  BY <1>15 DEF Replace
<1>16. ASSUME NEW w \in Writers, ReplaceFails(w) PROVE ControlTypeOK'
  BY <1>16 DEF ReplaceFails, Forget
<1>17. ASSUME NEW w \in Writers, ReapOwn(w) PROVE ControlTypeOK'
  <2>1. CASE Works /\ UnlinkSidecar(w) /\ UNCHANGED ownGone
    BY <1>17, <2>1 DEF ReapOwn, UnlinkSidecar
  <2>2. CASE Fails("remove") /\ UNCHANGED <<logs, lines, torn>>
    <3>1. ownGone' \in [Writers -> BOOLEAN]
      BY <1>17 DEF ReapOwn
    <3> QED
      BY <1>17, <2>2, <3>1 DEF ReapOwn
  <2> QED
    BY <1>17, <2>1, <2>2 DEF ReapOwn
<1>18. ASSUME NEW w \in Writers, SkipPeer(w) PROVE ControlTypeOK'
  BY <1>18 DEF SkipPeer
<1>19. ASSUME NEW w \in Writers, ProbePeer(w) PROVE ControlTypeOK'
  BY <1>19 DEF ProbePeer
<1>20. ASSUME NEW w \in Writers, UnlinkPeerLog(w) PROVE ControlTypeOK'
  BY <1>20 DEF UnlinkPeerLog, UnlinkSidecar
<1>21. ASSUME NEW w \in Writers, UnlinkPeerComp(w) PROVE ControlTypeOK'
  BY <1>21 DEF UnlinkPeerComp, DropCompanion
<1>22. ASSUME NEW w \in Writers, ReapDone(w) PROVE ControlTypeOK'
  BY <1>22 DEF ReapDone
<1>23. ASSUME NEW w \in Writers, SkipOrphan(w) PROVE ControlTypeOK'
  BY <1>23 DEF SkipOrphan
<1>24. ASSUME NEW w \in Writers, ProbeOrphan(w) PROVE ControlTypeOK'
  BY <1>24 DEF ProbeOrphan
<1>25. ASSUME NEW w \in Writers, UnlinkOrphan(w) PROVE ControlTypeOK'
  BY <1>25 DEF UnlinkOrphan, DropCompanion
<1>26. ASSUME NEW w \in Writers, FlushDone(w) PROVE ControlTypeOK'
  BY <1>26 DEF FlushDone, DropCompanion, Forget
<1>27. ASSUME NEW w \in Writers, Crash(w) PROVE ControlTypeOK'
  BY <1>27 DEF Crash, Forget
<1>28. CASE UNCHANGED vars
  BY <1>28 DEF vars
<1> QED
  BY <1>1, <1>2, <1>3, <1>4, <1>5, <1>6, <1>7, <1>8, <1>9, <1>10, <1>11, <1>12,
     <1>13, <1>14, <1>15, <1>16, <1>17, <1>18, <1>19, <1>20, <1>21, <1>22,
     <1>23, <1>24, <1>25, <1>26, <1>27, <1>28
  DEF Next, Step, Load, Companions, Appends, Commit, Reap, Sweep

\* Every step leaves the phases past the lock to its holder.
LEMMA LockPhaseStep ==
  ASSUME ControlTypeOK, LockPhase, [Next]_vars PROVE LockPhase'
<1> USE NoWriterAssumption DEF ControlTypeOK, LockPhase, To, store, Reaps, Sweeps
<1>1. ASSUME NEW w \in Writers, NEW k \in Keys, NEW kind \in Kinds,
              Write(w, k, kind)
      PROVE  LockPhase'
  BY <1>1 DEF Write
<1>2. ASSUME NEW w \in Writers, Open(w) PROVE LockPhase'
  BY <1>2 DEF Open
<1>3. ASSUME NEW w \in Writers, FlushCall(w) PROVE LockPhase'
  BY <1>3 DEF FlushCall
<1>4. ASSUME NEW w \in Writers, FlushLock(w) PROVE LockPhase'
  BY <1>4 DEF FlushLock
<1>5. ASSUME NEW w \in Writers, List(w) PROVE LockPhase'
  BY <1>5 DEF List
<1>6. ASSUME NEW w \in Writers, LoadFails(w) PROVE LockPhase'
  BY <1>6 DEF LoadFails
<1>7. ASSUME NEW w \in Writers, FoldNext(w) PROVE LockPhase'
  BY <1>7 DEF FoldNext
<1>8. ASSUME NEW w \in Writers, FoldUnreadable(w) PROVE LockPhase'
  BY <1>8 DEF FoldUnreadable
<1>9. ASSUME NEW w \in Writers, OpenDone(w) PROVE LockPhase'
  BY <1>9 DEF OpenDone, Opened, Forget
<1>10. ASSUME NEW w \in Writers, EnsureLifelock(w) PROVE LockPhase'
  BY <1>10 DEF EnsureLifelock
<1>11. ASSUME NEW w \in Writers, OpenCompanion(w) PROVE LockPhase'
  BY <1>11 DEF OpenCompanion
<1>12. ASSUME NEW w \in Writers, FlockCompanion(w) PROVE LockPhase'
  BY <1>12 DEF FlockCompanion
<1>13. ASSUME NEW w \in Writers, AppendLine(w) PROVE LockPhase'
  BY <1>13 DEF AppendLine
<1>14. ASSUME NEW w \in Writers, AppendFails(w) PROVE LockPhase'
  BY <1>14 DEF AppendFails
<1>15. ASSUME NEW w \in Writers, Replace(w) PROVE LockPhase'
  BY <1>15 DEF Replace
<1>16. ASSUME NEW w \in Writers, ReplaceFails(w) PROVE LockPhase'
  BY <1>16 DEF ReplaceFails
<1>17. ASSUME NEW w \in Writers, ReapOwn(w) PROVE LockPhase'
  BY <1>17 DEF ReapOwn, Reaping, UnlinkSidecar
<1>18. ASSUME NEW w \in Writers, SkipPeer(w) PROVE LockPhase'
  BY <1>18 DEF SkipPeer, Reaping
<1>19. ASSUME NEW w \in Writers, ProbePeer(w) PROVE LockPhase'
  BY <1>19 DEF ProbePeer, Reaping
<1>20. ASSUME NEW w \in Writers, UnlinkPeerLog(w) PROVE LockPhase'
  BY <1>20 DEF UnlinkPeerLog
<1>21. ASSUME NEW w \in Writers, UnlinkPeerComp(w) PROVE LockPhase'
  BY <1>21 DEF UnlinkPeerComp
<1>22. ASSUME NEW w \in Writers, ReapDone(w) PROVE LockPhase'
  BY <1>22 DEF ReapDone
<1>23. ASSUME NEW w \in Writers, SkipOrphan(w) PROVE LockPhase'
  BY <1>23 DEF SkipOrphan
<1>24. ASSUME NEW w \in Writers, ProbeOrphan(w) PROVE LockPhase'
  BY <1>24 DEF ProbeOrphan
<1>25. ASSUME NEW w \in Writers, UnlinkOrphan(w) PROVE LockPhase'
  BY <1>25 DEF UnlinkOrphan
<1>26. ASSUME NEW w \in Writers, FlushDone(w) PROVE LockPhase'
  BY <1>26 DEF FlushDone
<1>27. ASSUME NEW w \in Writers, Crash(w) PROVE LockPhase'
  BY <1>27 DEF Crash
<1>28. CASE UNCHANGED vars
  BY <1>28 DEF vars
<1> QED
  BY <1>1, <1>2, <1>3, <1>4, <1>5, <1>6, <1>7, <1>8, <1>9, <1>10, <1>11, <1>12,
     <1>13, <1>14, <1>15, <1>16, <1>17, <1>18, <1>19, <1>20, <1>21, <1>22, <1>23,
     <1>24, <1>25, <1>26, <1>27, <1>28
  DEF Next, Step, Load, Companions, Appends, Commit, Reap, Sweep

\* The file a flush is taking away is a peer's, and its companion is locked by the
\* flush, whoever its owner is and whether or not that owner runs.
TakenHeld ==
  \A w \in Writers :
    /\ pc[w] \in {"unlinkLog", "unlinkComp"} =>
         folded[w] # {} /\ Candidate(w) # w /\ comp[Candidate(w)] = "peer"
    /\ pc[w] = "unlinkOrphan" =>
         orphans[w] # {} /\ comp[Least(orphans[w])] = "peer"

\* As long as no log could not be read, a flush's own log is in its sight until it
\* is unlinked, or that failed.
OwnLogKept ==
  "read" \notin failed => \A w \in Writers : lock = w /\ w \in logs =>
    /\ pc[w] = "fold" => w \in todo[w] \cup folded[w]
    /\ pc[w] \in Reaps => w \in folded[w] \/ ~ownGone[w]
    /\ pc[w] \in Sweeps => ~ownGone[w]

HeldInv == ControlTypeOK /\ LockPhase /\ TakenHeld /\ OwnLogKept

\* Every step keeps it, over any host and whatever calls fail.
LEMMA HeldStep ==
  ASSUME HeldInv, [Next]_vars PROVE HeldInv'
<1> USE NoWriterAssumption
    DEF To, Works, bounds, store, scan, Reaps, Sweeps, Candidate
<1> DEFINE Held == TakenHeld /\ OwnLogKept
<1>0. /\ ControlTypeOK /\ ControlTypeOK' /\ LockPhase /\ LockPhase'
      /\ TakenHeld /\ OwnLogKept
  BY ControlStep, LockPhaseStep DEF HeldInv
<1>1. ASSUME NEW w \in Writers, NEW k \in Keys, NEW kind \in Kinds,
              Write(w, k, kind)
      PROVE  Held'
  <2>1. /\ UNCHANGED <<logs, comp, lock, todo, folded, orphans, ownGone, failed>>
        /\ pc[w] = "idle"
        /\ pc' = pc \/ \E p \in {"append", "lifelock"} : pc' = [pc EXCEPT ![w] = p]
    BY <1>1 DEF Write
  <2> QED
    BY <1>0, <2>1, SMTT(30) DEF ControlTypeOK, LockPhase, TakenHeld, OwnLogKept
<1>2. ASSUME NEW w \in Writers, Open(w) PROVE Held'
  BY <1>0, <1>2, LeastIn, SMTT(30)
  DEF Open, ReadMain, ControlTypeOK, LockPhase, TakenHeld, OwnLogKept
<1>3. ASSUME NEW w \in Writers, FlushCall(w) PROVE Held'
  BY <1>0, <1>3, LeastIn, SMTT(30)
  DEF FlushCall, ControlTypeOK, LockPhase, TakenHeld, OwnLogKept
<1>4. ASSUME NEW w \in Writers, FlushLock(w) PROVE Held'
  BY <1>0, <1>4, LeastIn, SMTT(30)
  DEF FlushLock, ReadMain, ControlTypeOK, LockPhase, TakenHeld, OwnLogKept
<1>5. ASSUME NEW w \in Writers, List(w) PROVE Held'
  BY <1>0, <1>5, LeastIn, SMTT(30)
  DEF List, ControlTypeOK, LockPhase, TakenHeld, OwnLogKept
<1>6. ASSUME NEW w \in Writers, LoadFails(w) PROVE Held'
  BY <1>0, <1>6, LeastIn, SMTT(30)
  DEF LoadFails, Forget, Fails, ControlTypeOK, LockPhase, TakenHeld, OwnLogKept
<1>7. ASSUME NEW w \in Writers, FoldNext(w) PROVE Held'
  BY <1>0, <1>7, LeastIn, SMTT(30)
  DEF FoldNext, ControlTypeOK, LockPhase, TakenHeld, OwnLogKept
<1>8. ASSUME NEW w \in Writers, FoldUnreadable(w) PROVE Held'
  BY <1>0, <1>8, LeastIn, SMTT(30)
  DEF FoldUnreadable, Fails, ControlTypeOK, LockPhase, TakenHeld, OwnLogKept
<1>9. ASSUME NEW w \in Writers, OpenDone(w) PROVE Held'
  BY <1>0, <1>9, LeastIn, SMTT(30)
  DEF OpenDone, Opened, Forget, ControlTypeOK, LockPhase, TakenHeld, OwnLogKept
<1>10. ASSUME NEW w \in Writers, EnsureLifelock(w) PROVE Held'
  BY <1>0, <1>10, LeastIn, SMTT(30)
  DEF EnsureLifelock, ControlTypeOK, LockPhase, TakenHeld, OwnLogKept
<1>11. ASSUME NEW w \in Writers, OpenCompanion(w) PROVE Held'
  BY <1>0, <1>11, LeastIn, SMTT(30)
  DEF OpenCompanion, ControlTypeOK, LockPhase, TakenHeld, OwnLogKept
<1>12. ASSUME NEW w \in Writers, FlockCompanion(w) PROVE Held'
  BY <1>0, <1>12, LeastIn, SMTT(30)
  DEF FlockCompanion, ControlTypeOK, LockPhase, TakenHeld, OwnLogKept
<1>13. ASSUME NEW w \in Writers, AppendLine(w) PROVE Held'
  BY <1>0, <1>13, LeastIn, SMTT(30)
  DEF AppendLine, ControlTypeOK, LockPhase, TakenHeld, OwnLogKept
<1>14. ASSUME NEW w \in Writers, AppendFails(w) PROVE Held'
  BY <1>0, <1>14, LeastIn, SMTT(30)
  DEF AppendFails, Fails, ControlTypeOK, LockPhase, TakenHeld, OwnLogKept
<1>15. ASSUME NEW w \in Writers, Replace(w) PROVE Held'
  BY <1>0, <1>15, LeastIn, SMTT(30)
  DEF Replace, ControlTypeOK, LockPhase, TakenHeld, OwnLogKept
<1>16. ASSUME NEW w \in Writers, ReplaceFails(w) PROVE Held'
  BY <1>0, <1>16, LeastIn, SMTT(30)
  DEF ReplaceFails, Forget, ControlTypeOK, LockPhase, TakenHeld, OwnLogKept
<1>17. ASSUME NEW w \in Writers, ReapOwn(w) PROVE Held'
  BY <1>0, <1>17, LeastIn, SMTT(30)
  DEF ReapOwn, Reaping, UnlinkSidecar, Fails, ControlTypeOK, LockPhase,
      TakenHeld, OwnLogKept
<1>18. ASSUME NEW w \in Writers, SkipPeer(w) PROVE Held'
  BY <1>0, <1>18, LeastIn, SMTT(30)
  DEF SkipPeer, Reaping, ControlTypeOK, LockPhase, TakenHeld, OwnLogKept
<1>19. ASSUME NEW w \in Writers, ProbePeer(w) PROVE Held'
  BY <1>0, <1>19, LeastIn, SMTT(30)
  DEF ProbePeer, Reaping, ControlTypeOK, LockPhase, TakenHeld, OwnLogKept
<1>20. ASSUME NEW w \in Writers, UnlinkPeerLog(w) PROVE Held'
  BY <1>0, <1>20, LeastIn, SMTT(30)
  DEF UnlinkPeerLog, UnlinkSidecar, Fails, ControlTypeOK, LockPhase, TakenHeld,
      OwnLogKept
<1>21. ASSUME NEW w \in Writers, UnlinkPeerComp(w) PROVE Held'
  BY <1>0, <1>21, LeastIn, SMTT(30)
  DEF UnlinkPeerComp, DropCompanion, Fails, ControlTypeOK, LockPhase, TakenHeld,
      OwnLogKept
<1>22. ASSUME NEW w \in Writers, ReapDone(w) PROVE Held'
  BY <1>0, <1>22, LeastIn, SMTT(30)
  DEF ReapDone, ControlTypeOK, LockPhase, TakenHeld, OwnLogKept
<1>23. ASSUME NEW w \in Writers, SkipOrphan(w) PROVE Held'
  BY <1>0, <1>23, LeastIn, SMTT(30)
  DEF SkipOrphan, ControlTypeOK, LockPhase, TakenHeld, OwnLogKept
<1>24. ASSUME NEW w \in Writers, ProbeOrphan(w) PROVE Held'
  BY <1>0, <1>24, LeastIn, SMTT(30)
  DEF ProbeOrphan, ControlTypeOK, LockPhase, TakenHeld, OwnLogKept
<1>25. ASSUME NEW w \in Writers, UnlinkOrphan(w) PROVE Held'
  BY <1>0, <1>25, LeastIn, SMTT(30)
  DEF UnlinkOrphan, DropCompanion, Fails, ControlTypeOK, LockPhase, TakenHeld,
      OwnLogKept
<1>26. ASSUME NEW w \in Writers, FlushDone(w) PROVE Held'
  BY <1>0, <1>26, LeastIn, SMTT(30)
  DEF FlushDone, DropCompanion, Forget, Fails, ControlTypeOK, LockPhase,
      TakenHeld, OwnLogKept
<1>27. ASSUME NEW w \in Writers, Crash(w) PROVE Held'
  BY <1>0, <1>27, LeastIn, SMTT(30)
  DEF Crash, Forget, ControlTypeOK, LockPhase, TakenHeld, OwnLogKept
<1>28. CASE UNCHANGED vars
  <2>1. UNCHANGED <<pc, logs, comp, lock, todo, folded, orphans, ownGone, failed>>
    BY <1>28 DEF vars
  <2> QED
    BY <1>0, <2>1 DEF HeldInv, TakenHeld, OwnLogKept
<1> QED
  BY <1>0, <1>1, <1>2, <1>3, <1>4, <1>5, <1>6, <1>7, <1>8, <1>9, <1>10, <1>11,
     <1>12, <1>13, <1>14, <1>15, <1>16, <1>17, <1>18, <1>19, <1>20, <1>21,
     <1>22, <1>23, <1>24, <1>25, <1>26, <1>27, <1>28
  DEF HeldInv, Next, Step, Load, Companions, Appends, Commit, Reap, Sweep

\* Every step keeps what vouches for the logs.
LEMMA VouchStep ==
  ASSUME TraitHost, VouchInv, [Next]_vars PROVE VouchInv'
<1> USE NoWriterAssumption, NoFault
    DEF To, bounds, store, scan, history, Reaps, Sweeps, Alive, Candidate
<1> DEFINE Vouch == LockPhase /\ CompanionHeld /\ OwnLogSeen /\ OnlyDeadTaken
<1>0. ControlTypeOK /\ ControlTypeOK'
  BY ControlStep DEF VouchInv
<1>1. ASSUME NEW w \in Writers, NEW k \in Keys, NEW kind \in Kinds,
              Write(w, k, kind)
      PROVE  Vouch'
  <2>1. UNCHANGED <<logs, comp, lock, todo, folded, orphans>> /\ pc[w] = "idle"
    BY <1>1 DEF Write
  <2>2. CASE pc' = pc
    BY <2>1, <2>2
    DEF VouchInv, LockPhase, CompanionHeld, OwnLogSeen, OnlyDeadTaken
  <2>3. CASE pc' = [pc EXCEPT ![w] = IF comp[w] = "own" THEN "append" ELSE "lifelock"]
    BY <1>0, <2>1, <2>3, SMTT(30)
    DEF VouchInv, ControlTypeOK, LockPhase, CompanionHeld, OwnLogSeen,
        OnlyDeadTaken
  <2> QED
    BY <1>1, <2>2, <2>3 DEF Write
<1>2. ASSUME NEW w \in Writers, Open(w) PROVE Vouch'
  BY <1>0, <1>2, SMTT(30)
  DEF Open, ReadMain, VouchInv, ControlTypeOK, LockPhase, CompanionHeld,
      OwnLogSeen, OnlyDeadTaken
<1>3. ASSUME NEW w \in Writers, FlushCall(w) PROVE Vouch'
  BY <1>0, <1>3, SMTT(30)
  DEF FlushCall, VouchInv, ControlTypeOK, LockPhase, CompanionHeld, OwnLogSeen,
      OnlyDeadTaken
<1>4. ASSUME NEW w \in Writers, FlushLock(w) PROVE Vouch'
  BY <1>0, <1>4, SMTT(30)
  DEF FlushLock, ReadMain, VouchInv, ControlTypeOK, LockPhase, CompanionHeld,
      OwnLogSeen, OnlyDeadTaken
<1>5. ASSUME NEW w \in Writers, List(w) PROVE Vouch'
  BY <1>0, <1>5, SMTT(30)
  DEF List, Orphans, VouchInv, ControlTypeOK, LockPhase, CompanionHeld,
      OwnLogSeen, OnlyDeadTaken
<1>6. ASSUME NEW w \in Writers, LoadFails(w) PROVE Vouch'
  BY <1>0, <1>6, SMTT(30)
  DEF LoadFails, Forget, VouchInv, ControlTypeOK, LockPhase, CompanionHeld,
      OwnLogSeen, OnlyDeadTaken
<1>7. ASSUME NEW w \in Writers, FoldNext(w) PROVE Vouch'
  BY <1>0, <1>7, SMTT(30)
  DEF FoldNext, VouchInv, ControlTypeOK, LockPhase, CompanionHeld, OwnLogSeen,
      OnlyDeadTaken
<1>8. ASSUME NEW w \in Writers, FoldUnreadable(w) PROVE Vouch'
  BY <1>0, <1>8, SMTT(30)
  DEF FoldUnreadable, VouchInv, ControlTypeOK, LockPhase, CompanionHeld,
      OwnLogSeen, OnlyDeadTaken
<1>9. ASSUME NEW w \in Writers, OpenDone(w) PROVE Vouch'
  BY <1>0, <1>9, SMTT(30)
  DEF OpenDone, Opened, Forget, VouchInv, ControlTypeOK, LockPhase,
      CompanionHeld, OwnLogSeen, OnlyDeadTaken
<1>10. ASSUME NEW w \in Writers, EnsureLifelock(w) PROVE Vouch'
  BY <1>0, <1>10, SMTT(30)
  DEF EnsureLifelock, VouchInv, ControlTypeOK, LockPhase, CompanionHeld,
      OwnLogSeen, OnlyDeadTaken
<1>11. ASSUME NEW w \in Writers, OpenCompanion(w) PROVE Vouch'
  BY <1>11 DEF OpenCompanion, TraitHost
<1>12. ASSUME NEW w \in Writers, FlockCompanion(w) PROVE Vouch'
  BY <1>0, <1>12, SMTT(30)
  DEF FlockCompanion, VouchInv, ControlTypeOK, LockPhase, CompanionHeld,
      OwnLogSeen, OnlyDeadTaken
<1>13. ASSUME NEW w \in Writers, AppendLine(w) PROVE Vouch'
  BY <1>0, <1>13, SMTT(30)
  DEF AppendLine, VouchInv, ControlTypeOK, LockPhase, CompanionHeld,
      OwnLogSeen, OnlyDeadTaken
<1>14. ASSUME NEW w \in Writers, AppendFails(w) PROVE Vouch'
  BY <1>0, <1>14, SMTT(30)
  DEF AppendFails, VouchInv, ControlTypeOK, LockPhase, CompanionHeld,
      OwnLogSeen, OnlyDeadTaken
<1>15. ASSUME NEW w \in Writers, Replace(w) PROVE Vouch'
  BY <1>0, <1>15, SMTT(30)
  DEF Replace, VouchInv, ControlTypeOK, LockPhase, CompanionHeld, OwnLogSeen,
      OnlyDeadTaken
<1>16. ASSUME NEW w \in Writers, ReplaceFails(w) PROVE Vouch'
  BY <1>0, <1>16, SMTT(30)
  DEF ReplaceFails, Forget, VouchInv, ControlTypeOK, LockPhase, CompanionHeld,
      OwnLogSeen, OnlyDeadTaken
<1>17. ASSUME NEW w \in Writers, ReapOwn(w) PROVE Vouch'
  BY <1>0, <1>17, SMTT(30)
  DEF ReapOwn, Reaping, UnlinkSidecar, VouchInv, ControlTypeOK, LockPhase,
      CompanionHeld, OwnLogSeen, OnlyDeadTaken
<1>18. ASSUME NEW w \in Writers, SkipPeer(w) PROVE Vouch'
  BY <1>0, <1>18, SMTT(30)
  DEF SkipPeer, Reaping, VouchInv, ControlTypeOK, LockPhase, CompanionHeld,
      OwnLogSeen, OnlyDeadTaken
<1>19. ASSUME NEW w \in Writers, ProbePeer(w) PROVE Vouch'
  BY <1>0, <1>19, SMTT(30)
  DEF ProbePeer, Reaping, VouchInv, ControlTypeOK, LockPhase, CompanionHeld,
      OwnLogSeen, OnlyDeadTaken
<1>20. ASSUME NEW w \in Writers, UnlinkPeerLog(w) PROVE Vouch'
  BY <1>0, <1>20, SMTT(30)
  DEF UnlinkPeerLog, UnlinkSidecar, VouchInv, ControlTypeOK, LockPhase,
      CompanionHeld, OwnLogSeen, OnlyDeadTaken
<1>21. ASSUME NEW w \in Writers, UnlinkPeerComp(w) PROVE Vouch'
  BY <1>0, <1>21, SMTT(30)
  DEF UnlinkPeerComp, DropCompanion, VouchInv, ControlTypeOK, LockPhase,
      CompanionHeld, OwnLogSeen, OnlyDeadTaken
<1>22. ASSUME NEW w \in Writers, ReapDone(w) PROVE Vouch'
  BY <1>0, <1>22, SMTT(30)
  DEF ReapDone, VouchInv, ControlTypeOK, LockPhase, CompanionHeld, OwnLogSeen,
      OnlyDeadTaken
<1>23. ASSUME NEW w \in Writers, SkipOrphan(w) PROVE Vouch'
  BY <1>0, <1>23, SMTT(30)
  DEF SkipOrphan, VouchInv, ControlTypeOK, LockPhase, CompanionHeld,
      OwnLogSeen, OnlyDeadTaken
<1>24. ASSUME NEW w \in Writers, ProbeOrphan(w) PROVE Vouch'
  <2> DEFINE x == Least(orphans[w])
  <2>1. x \in orphans[w] /\ orphans[w] \in SUBSET Writers
    BY <1>0, <1>24, LeastIn DEF ProbeOrphan, ControlTypeOK
  <2>2. lock = w /\ comp[x] # "own"
    BY <1>24 DEF ProbeOrphan, VouchInv, LockPhase
  <2>3. ~Alive(x)
    BY <1>24, <2>1, <2>2 DEF ProbeOrphan, VouchInv, OnlyDeadTaken
  <2>4. comp' = [comp EXCEPT ![x] = "peer"] /\ pc' = [pc EXCEPT ![w] = "unlinkOrphan"]
    BY <1>24 DEF ProbeOrphan
  <2>5. UNCHANGED <<logs, lock, todo, folded, orphans>> /\ pc[w] = "sweep"
    BY <1>24 DEF ProbeOrphan
  <2>6. LockPhase' /\ OwnLogSeen'
    BY <1>0, <2>4, <2>5 DEF VouchInv, ControlTypeOK, LockPhase, OwnLogSeen
  <2>7. OnlyDeadTaken'
    <3>1. Least(orphans[w])' = x
      BY <2>5
    <3> HIDE DEF x
    <3> QED
      BY <1>0, <2>2, <2>3, <2>4, <2>5, <3>1, SMTT(30)
      DEF VouchInv, ControlTypeOK, OnlyDeadTaken
  <2> HIDE DEF x
  <2>8. CompanionHeld'
    BY <1>0, <2>1, <2>3, <2>4, <2>5 DEF VouchInv, ControlTypeOK, CompanionHeld
  <2> QED
    BY <2>6, <2>7, <2>8
<1>25. ASSUME NEW w \in Writers, UnlinkOrphan(w) PROVE Vouch'
  BY <1>0, <1>25, SMTT(30)
  DEF UnlinkOrphan, DropCompanion, VouchInv, ControlTypeOK, LockPhase,
      CompanionHeld, OwnLogSeen, OnlyDeadTaken
<1>26. ASSUME NEW w \in Writers, FlushDone(w) PROVE Vouch'
  BY <1>0, <1>26, SMTT(30)
  DEF FlushDone, DropCompanion, GivesBack, Forget, VouchInv, ControlTypeOK,
      LockPhase, CompanionHeld, OwnLogSeen, OnlyDeadTaken
<1>27. ASSUME NEW w \in Writers, Crash(w) PROVE Vouch'
  BY <1>0, <1>27, SMTT(30)
  DEF Crash, Forget, VouchInv, ControlTypeOK, LockPhase, CompanionHeld,
      OwnLogSeen, OnlyDeadTaken
<1>28. CASE UNCHANGED vars
  <2>1. UNCHANGED <<pc, logs, comp, lock, todo, folded, orphans>>
    BY <1>28 DEF vars
  <2> QED
    BY <1>0, <2>1
    DEF VouchInv, LockPhase, CompanionHeld, OwnLogSeen, OnlyDeadTaken
<1> QED
  BY <1>0, <1>1, <1>2, <1>3, <1>4, <1>5, <1>6, <1>7, <1>8, <1>9, <1>10, <1>11,
     <1>12, <1>13, <1>14, <1>15, <1>16, <1>17, <1>18, <1>19, <1>20, <1>21,
     <1>22, <1>23, <1>24, <1>25, <1>26, <1>27, <1>28
  DEF VouchInv, Next, Step, Load, Companions, Appends, Commit, Reap, Sweep

------------------------------------------------------------------------------
\* What keeps a running writer's companion its own, for every behaviour over such a
\* host.
LEMMA AlwaysVouched == ASSUME TraitHost PROVE Spec => []VouchInv
<1>1. Init => VouchInv
  BY InitVouch
<1>2. VouchInv /\ [Next]_vars => VouchInv'
  BY VouchStep
<1> QED
  BY <1>1, <1>2, PTL DEF Spec

\* The fields the flush and its peers decide on keep their types, with any
\* faults: ControlTypeOK is inductive by itself.
THEOREM ControlTypes == Spec => []ControlTypeOK
<1>1. Init => ControlTypeOK
  BY InitVouch DEF VouchInv
<1>2. ControlTypeOK /\ [Next]_vars => ControlTypeOK'
  BY ControlStep
<1> QED
  BY <1>1, <1>2, PTL DEF Spec

LEMMA HeldAlways == Spec => []HeldInv
<1>1. Init => HeldInv
  <2>1. Init => ControlTypeOK /\ LockPhase
    BY InitVouch DEF VouchInv
  <2> QED
    BY <2>1, NoWriterAssumption DEF Init, HeldInv, TakenHeld, OwnLogKept, Sweeps
<1>2. HeldInv /\ [Next]_vars => HeldInv'
  BY HeldStep
<1> QED
  BY <1>1, <1>2, PTL DEF Spec

------------------------------------------------------------------------------
(* No acknowledged write of a running writer is lost, except that a torn     *)
(* tail swallows the line appended to it and a write may forgo its companion.*)

Due == {"lifelock", "flock", "append"}

DataTypes ==
  /\ lines \in [Writers -> Seq(Nat)]
  /\ pending \in [Writers -> Nat]
  /\ captured \in [Writers -> SUBSET Nat]
  /\ hist \in Seq([w : Writers, id : Keys, kind : Kinds])
  /\ acked \subseteq DOMAIN hist
  /\ forgone \subseteq DOMAIN hist

\* No line is due between two calls.
NoneDue == \A w \in Writers : pc[w] \notin Due => pending[w] = 0

\* The line about to be appended is the log's owner's last write.
AppendDue ==
  \A w \in Writers : pc[w] \in Due =>
    /\ pending[w] \in Persisted(w) \ acked
    /\ \A j \in Persisted(w) : j <= pending[w]

\* Behind a torn tail is the last write of its owner, or the last but the one about
\* to be appended, and it was not acknowledged.
TornTail ==
  \A w \in Writers : w \in torn /\ Alive(w) =>
    /\ "append" \in FaultKinds
    /\ \E m \in Persisted(w) \ acked :
         /\ pc[w] \in Due => m < pending[w]
         /\ \A j \in Persisted(w) : j <= m \/ (pc[w] \in Due /\ j = pending[w])

\* An append is made under the companion, or has forgone it.
AppendHeld ==
  \A w \in Writers : pc[w] = "append" => comp[w] = "own" \/ pending[w] \in forgone

\* What a flush folded and could reap, its own log and those of running peers that
\* do not hold their companion, was captured by its fold and is committed once it
\* reaps, but for lines that forwent the companion.
Reapable(w, x) == x \in folded[w] /\ Alive(x) /\ (x = w \/ comp[x] # "own")
FoldedSafe ==
  \A w, x \in Writers : lock = w /\ Reapable(w, x) =>
    /\ pc[w] = "fold" => ToSet(lines[x]) \subseteq captured[w] \cup forgone
    /\ pc[w] \in Reaps => ToSet(lines[x]) \subseteq committed \cup forgone

Excused(n) ==
  n \in forgone \/ ("append" \in FaultKinds /\ AfterFailedAppend(n))
WritesKept ==
  \A n \in acked : Persistent(n) /\ Alive(hist[n].w) => Safe(n) \/ Excused(n)

DataInv ==
  /\ DataTypes /\ NoneDue /\ AppendDue /\ TornTail
  /\ AppendHeld /\ FoldedSafe /\ WritesKept

\* Who is excused depends on the writes, their acknowledgements and what they forwent.
LEMMA ExcusedStays ==
  ASSUME UNCHANGED <<hist, acked>>, forgone \subseteq forgone'
  PROVE  /\ \A n : Excused(n) => Excused(n)'
         /\ \A w : Persisted(w)' = Persisted(w)
<1>1. \A n : Persistent(n)' <=> Persistent(n)
  BY DEF Persistent
<1>2. \A w : Persisted(w)' = Persisted(w)
  BY <1>1 DEF Persisted
<1> QED
  BY <1>2 DEF Excused, AfterFailedAppend

\* The elements of a sequence, after one more.
LEMMA ToSetAppend ==
  ASSUME NEW s \in Seq(Nat), NEW e \in Nat
  PROVE  ToSet(Append(s, e)) = ToSet(s) \cup {e}
<1>1. DOMAIN Append(s, e) = DOMAIN s \cup {Len(s) + 1}
  OBVIOUS
<1>2. \A i \in DOMAIN s : Append(s, e)[i] = s[i]
  OBVIOUS
<1>3. Append(s, e)[Len(s) + 1] = e
  OBVIOUS
<1> QED
  BY <1>1, <1>2, <1>3, Zenon DEF ToSet

\* At the start nothing is acknowledged.
LEMMA InitData == Init => DataInv
<1> SUFFICES ASSUME Init PROVE DataInv
  OBVIOUS
<1> USE DEF Init
<1>1. DataTypes
  BY DEF DataTypes
<1>2. NoneDue /\ AppendDue /\ TornTail /\ AppendHeld /\ FoldedSafe
  BY NoWriterAssumption
  DEF NoneDue, AppendDue, TornTail, AppendHeld, FoldedSafe, Due
<1>3. WritesKept
  BY DEF WritesKept
<1> QED
  BY <1>1, <1>2, <1>3 DEF DataInv

\* Every write has a writer.
LEMMA HistWriters ==
  ASSUME DataInv PROVE \A n \in acked : n \in DOMAIN hist /\ hist[n].w \in Writers
<1> DEFINE R == [w : Writers, id : Keys, kind : Kinds]
<1>1. hist \in Seq(R) /\ acked \subseteq DOMAIN hist
  BY DEF DataInv, DataTypes
<1> HIDE DEF R
<1>2. \A n \in DOMAIN hist : hist[n] \in R
  BY <1>1
<1> USE DEF R
<1> QED
  BY <1>1, <1>2

\* A step of w that touches no log, write or commit, starts no append but under the
\* companion or without it for good, and puts nothing new within reach of a reap.
Quiet(w) ==
  /\ UNCHANGED <<logs, lines, torn, hist, acked, committed>>
  /\ forgone \subseteq forgone' /\ forgone' \subseteq DOMAIN hist
  /\ failed \subseteq failed'
  /\ pending' \in [Writers -> Nat] /\ captured' \in [Writers -> SUBSET Nat]
  /\ \A x \in Writers \ {w} : /\ pc'[x] = pc[x] /\ pending'[x] = pending[x]
                             /\ folded'[x] = folded[x] /\ captured'[x] = captured[x]
  /\ IF pc'[w] = "dead" THEN pending'[w] = 0
     ELSE pending'[w] = pending[w] /\ pc[w] # "dead" /\ (pc'[w] \in Due <=> pc[w] \in Due)
  /\ pc'[w] = "append" => comp'[w] = "own" \/ pending[w] \in forgone'
  /\ lock' \in {lock, NoWriter} \/ (lock' = w /\ pc'[w] = "list")
  /\ folded'[w] \subseteq folded[w]
  /\ pc'[w] = "fold" =>
       folded'[w] = {} \/ (pc[w] = "fold" /\ captured'[w] = captured[w])
  /\ pc'[w] \in Reaps => pc[w] \in Reaps
  /\ \A x \in Writers : comp[x] = "own" =>
       \/ comp'[x] = "own" \/ pc'[x] = "dead"
       \/ pc'[x] = "idle" /\ lock' = NoWriter /\ ("read" \in failed \/ x \notin logs)

\* A quiet step keeps DataInv.
LEMMA QuietStep ==
  ASSUME DataInv, NEW w \in Writers, Quiet(w) PROVE DataInv'
<1> USE DEF Quiet
<1>1. DataTypes'
  BY DEF DataInv, DataTypes
<1>5. AppendHeld'
  BY DEF DataInv, AppendHeld, Due
<1>2. NoneDue' /\ AppendDue' /\ TornTail'
  <2>1. UNCHANGED <<hist, acked, torn>>
    OBVIOUS
  <2>2. \A x : Persisted(x)' = Persisted(x)
    BY ExcusedStays, <2>1
  <2>3. \A x \in Writers : /\ Alive(x)' => Alive(x)
                           /\ pc'[x] \in Due => pc[x] \in Due
                           /\ pc[x] \in Due => pc'[x] \in Due \/ ~Alive(x)'
                           /\ Alive(x)' => pending'[x] = pending[x]
    BY DEF Alive, Due
  <2>4. NoneDue'
    <3> SUFFICES ASSUME NEW x \in Writers, pc'[x] \notin Due PROVE pending'[x] = 0
      BY DEF NoneDue
    <3>1. pc[x] \notin Due => pending[x] = 0
      BY DEF DataInv, NoneDue
    <3> QED
      BY <3>1
  <2>5. \A x \in Writers : pc'[x] \in Due => Alive(x)'
    BY DEF Alive, Due
  <2>6. AppendDue'
    BY <2>1, <2>2, <2>3, <2>5 DEF DataInv, AppendDue
  <2>7. TornTail'
    <3> SUFFICES ASSUME NEW x \in Writers, x \in torn, Alive(x)'
        PROVE /\ "append" \in FaultKinds
              /\ \E m \in Persisted(x) \ acked :
                   /\ pc'[x] \in Due => m < pending'[x]
                   /\ \A j \in Persisted(x) :
                        j <= m \/ (pc'[x] \in Due /\ j = pending'[x])
      BY <2>1, <2>2 DEF TornTail
    <3>1. pc'[x] \in Due <=> pc[x] \in Due
      BY <2>3
    <3> QED
      BY <2>3, <3>1 DEF DataInv, TornTail
  <2> QED
    BY <2>4, <2>6, <2>7
<1>3. FoldedSafe'
  <2> SUFFICES ASSUME NEW y \in Writers, NEW x \in Writers, lock' = y, Reapable(y, x)'
      PROVE /\ pc'[y] = "fold" => ToSet(lines[x]) \subseteq captured'[y] \cup forgone'
            /\ pc'[y] \in Reaps => ToSet(lines[x]) \subseteq committed \cup forgone'
    BY DEF FoldedSafe
  <2>1. x \in folded'[y] /\ pc'[x] # "dead" /\ (x = y \/ comp'[x] # "own")
    BY DEF Reapable, Alive
  <2>2. pc[x] # "dead" /\ folded'[y] \subseteq folded[y]
    BY <2>1
  <2>3. x = y \/ comp[x] # "own"
    BY <2>1, NoWriterAssumption
  <2>4. Reapable(y, x)
    BY <2>1, <2>2, <2>3 DEF Reapable, Alive
  <2>5. pc'[y] \in {"fold"} \cup Reaps => lock = y
    BY NoWriterAssumption DEF Reaps
  <2>6. pc'[y] = "fold" => pc[y] = "fold" /\ captured'[y] = captured[y]
    BY <2>1
  <2>7. pc'[y] \in Reaps => pc[y] \in Reaps
    OBVIOUS
  <2> QED
    BY <2>4, <2>5, <2>6, <2>7 DEF DataInv, FoldedSafe
<1>4. WritesKept'
  <2>1. \A n \in acked : hist[n].w \in Writers
    BY HistWriters
  <2>0. \A n : Excused(n) => Excused(n)'
    BY ExcusedStays
  <2>2. \A x \in Writers : Alive(x)' => Alive(x)
    BY DEF Alive
  <2>3. \A n : Safe(n)' <=> Safe(n)
    BY DEF Safe
  <2> QED
    BY <2>0, <2>1, <2>2, <2>3 DEF DataInv, WritesKept, Persistent, Alive
<1> QED
  BY <1>1, <1>2, <1>3, <1>4, <1>5 DEF DataInv

\* Every step of a call but a write, an append, a fold, a replace or an unlink of a
\* log is such a step, over any host and whatever calls fail.
QuietAction(w) ==
  \/ Open(w) \/ FlushCall(w) \/ FlushLock(w) \/ List(w) \/ LoadFails(w)
  \/ FoldUnreadable(w) \/ OpenDone(w) \/ Companions(w) \/ ReplaceFails(w)
  \/ SkipPeer(w) \/ ProbePeer(w) \/ UnlinkPeerComp(w) \/ ReapDone(w)
  \/ Sweep(w) \/ Crash(w)
LEMMA QuietActions ==
  ASSUME HeldInv, DataInv, NEW w \in Writers, QuietAction(w) PROVE Quiet(w)
<1> USE NoWriterAssumption
    DEF To, Works, Fails, bounds, store, scan, history, Reaps, Sweeps, Alive, Candidate
<1>0. /\ ControlTypeOK /\ LockPhase /\ TakenHeld /\ OwnLogKept
      /\ DataTypes /\ NoneDue /\ AppendHeld
  BY DEF HeldInv, DataInv
<1>19. \A x \in Writers : pc[x] \in Due => pending[x] \in DOMAIN hist
  BY DEF DataInv, AppendDue, Persisted
<1> USE DEF Quiet, ControlTypeOK, LockPhase, TakenHeld, DataTypes, NoneDue, AppendHeld, Due
<1>1. CASE Open(w)
  BY <1>0, <1>19, <1>1, LeastIn, SMTT(30) DEF Open, ReadMain
<1>2. CASE FlushCall(w)
  BY <1>0, <1>19, <1>2, LeastIn, SMTT(30) DEF FlushCall
<1>3. CASE FlushLock(w)
  BY <1>0, <1>19, <1>3, LeastIn, SMTT(30) DEF FlushLock, ReadMain
<1>4. CASE EnsureLifelock(w) \/ OpenCompanion(w)
  BY <1>0, <1>19, <1>4, LeastIn, SMTT(30) DEF EnsureLifelock, OpenCompanion, Forgoes
<1>5. CASE FlockCompanion(w)
  <2>1. /\ pc[w] = "flock" /\ forgone' \in {forgone, forgone \cup {pending[w]}}
        /\ comp[w] = "peer" => pending[w] \in forgone'
        /\ comp' = comp \/ comp' = [comp EXCEPT ![w] = "own"]
        /\ comp[w] = "free" => comp'[w] = "own"
        /\ comp[w] = "absent" => pc' = [pc EXCEPT ![w] = "lifelock"]
        /\ pc' = [pc EXCEPT ![w] = "lifelock"] \/ pc' = [pc EXCEPT ![w] = "append"]
        /\ UNCHANGED <<logs, lines, torn, hist, acked, committed, pending, captured,
                        folded, lock, failed>>
    BY <1>0, <1>5 DEF FlockCompanion, Forgoes
  <2> QED
    BY <1>0, <1>19, <2>1 DEF Companion
<1>6. CASE SkipPeer(w) \/ ProbePeer(w)
  BY <1>0, <1>19, <1>6, LeastIn, SMTT(30) DEF SkipPeer, ProbePeer, Reaping
<1>7. CASE UnlinkPeerComp(w)
  BY <1>0, <1>19, <1>7, LeastIn, SMTT(30) DEF UnlinkPeerComp, DropCompanion
<1>8. CASE ReapDone(w)
  BY <1>0, <1>19, <1>8, LeastIn, SMTT(30) DEF ReapDone
<1>9. CASE UnlinkOrphan(w)
  BY <1>0, <1>19, <1>9, LeastIn, SMTT(30) DEF UnlinkOrphan, DropCompanion
<1>10. CASE FlushDone(w)
  <2>1. /\ pc[w] = "sweep" /\ pc' = [pc EXCEPT ![w] = "idle"] /\ lock' = NoWriter
        /\ UNCHANGED <<logs, lines, torn, pending, hist, acked, committed, forgone>>
        /\ folded' = [folded EXCEPT ![w] = {}] /\ captured' = [captured EXCEPT ![w] = {}]
        /\ failed \subseteq failed'
    BY <1>10 DEF FlushDone, DropCompanion, Forget
  <2>2. comp' = comp \/ (GivesBack(w) /\ \E c \in Companion : comp' = [comp EXCEPT ![w] = c])
    BY <1>10 DEF FlushDone, DropCompanion, Companion
  <2>3. GivesBack(w) => "read" \in failed \/ w \notin logs
    BY <1>0, <2>1 DEF GivesBack, OwnLogKept
  <2> QED
    BY <1>0, <2>1, <2>2, <2>3
<1>11. CASE Crash(w)
  BY <1>0, <1>19, <1>11, LeastIn, SMTT(30) DEF Crash, Forget
<1>12. CASE SkipOrphan(w)
  BY <1>0, <1>19, <1>12, LeastIn, SMTT(30) DEF SkipOrphan
<1>13. CASE ProbeOrphan(w)
  BY <1>0, <1>19, <1>13, LeastIn, SMTT(30) DEF ProbeOrphan
<1>14. CASE List(w)
  BY <1>0, <1>19, <1>14, LeastIn, SMTT(30) DEF List
<1>15. CASE LoadFails(w)
  BY <1>0, <1>19, <1>15, LeastIn, SMTT(30) DEF LoadFails, Forget
<1>16. CASE FoldUnreadable(w)
  BY <1>0, <1>19, <1>16, LeastIn, SMTT(30) DEF FoldUnreadable
<1>17. CASE OpenDone(w)
  BY <1>0, <1>19, <1>17, LeastIn, SMTT(30) DEF OpenDone, Opened, Forget
<1>18. CASE ReplaceFails(w)
  BY <1>0, <1>19, <1>18, LeastIn, SMTT(30) DEF ReplaceFails, Forget
<1> QED
  BY <1>1, <1>2, <1>3, <1>4, <1>5, <1>6, <1>7, <1>8, <1>9, <1>10, <1>11,
     <1>12, <1>13, <1>14, <1>15, <1>16, <1>17, <1>18
  DEF QuietAction, Companions, Sweep

\* Every step keeps what vouches for the writes.
LEMMA DataStep ==
  ASSUME HeldInv, DataInv, [Next]_vars PROVE DataInv'
<1> USE NoWriterAssumption
    DEF To, bounds, store, scan, history, Reaps, Sweeps, Alive, Candidate
<1>0. /\ ControlTypeOK /\ ControlTypeOK' /\ LockPhase /\ TakenHeld
      /\ DataTypes /\ NoneDue /\ AppendHeld
  BY ControlStep DEF HeldInv, DataInv
<1>1. ASSUME NEW w \in Writers, QuietAction(w) PROVE DataInv'
  BY <1>1, QuietActions, QuietStep
<1>2. ASSUME NEW w \in Writers, NEW k \in Keys, NEW kind \in Kinds,
              Write(w, k, kind)
       PROVE  DataInv'
  <2> DEFINE n == Len(hist) + 1
             R == [w : Writers, id : Keys, kind : Kinds]
             e == [w |-> w, id |-> k, kind |-> kind]
  <2>1. hist' = Append(hist, e) /\ hist \in Seq(R) /\ e \in R
    BY <1>2 DEF Write, DataInv, DataTypes
  <2>2. /\ n \in Nat /\ pc[w] = "idle"
        /\ UNCHANGED <<lines, torn, captured, committed, folded, lock, comp, forgone>>
    BY <1>2, <2>1 DEF Write, scan
  <2>3. \/ acked' = acked \cup {n} /\ UNCHANGED <<pc, pending>> /\ kind = "ephemeral"
        \/ /\ UNCHANGED acked
           /\ pending' = [pending EXCEPT ![w] = n]
           /\ \E p \in {"append", "lifelock"} : pc' = [pc EXCEPT ![w] = p]
    BY <1>2 DEF Write, StopsInMemory
  <2> HIDE DEF R, e
  <2>4. /\ hist' \in Seq(R) /\ DOMAIN hist' = DOMAIN hist \cup {n}
        /\ \A m \in DOMAIN hist : hist'[m] = hist[m]
        /\ hist'[n] = e
    BY <2>1
  <2>5. e.w = w /\ e.kind = kind
    BY DEF e
  <2> HIDE DEF n
  <2>6. DataTypes'
    BY <2>2, <2>3, <2>4 DEF DataInv, DataTypes, R
  <2>10. DOMAIN hist \subseteq Nat /\ n \notin DOMAIN hist /\ n \in Nat
         /\ \A m \in DOMAIN hist : m < n
    BY <2>1 DEF n
  <2>11. \A x \in Writers : /\ Persisted(x) \subseteq DOMAIN hist
                            /\ Persisted(x) \subseteq Persisted(x)'
                            /\ Persisted(x)' \subseteq Persisted(x) \cup {n}
                            /\ n \in Persisted(x)' <=> x = w /\ kind # "ephemeral"
    BY <2>4, <2>5, <2>10 DEF Persisted, Persistent
  <2>12. acked \subseteq DOMAIN hist /\ acked' \subseteq acked \cup {n}
    BY <2>3 DEF DataInv, DataTypes
  <2>13. \A x \in Writers \ {w} : /\ pc'[x] = pc[x] /\ pending'[x] = pending[x]
                                  /\ Persisted(x)' = Persisted(x)
    <3> SUFFICES ASSUME NEW x \in Writers \ {w}
                 PROVE  /\ pc'[x] = pc[x] /\ pending'[x] = pending[x]
                        /\ Persisted(x)' = Persisted(x)
      OBVIOUS
    <3>1. pc'[x] = pc[x] /\ pending'[x] = pending[x]
      BY <1>0, <2>3 DEF DataInv, DataTypes, ControlTypeOK
    <3>2. /\ Persisted(x) \subseteq Persisted(x)'
          /\ Persisted(x)' \subseteq Persisted(x) \cup {n} /\ n \notin Persisted(x)'
      BY <2>11
    <3> QED
      BY <3>1, <3>2, Zenon
  <2>7. AppendDue'
    <3> SUFFICES ASSUME NEW x \in Writers, pc'[x] \in Due
                 PROVE  /\ pending'[x] \in Persisted(x)' \ acked'
                        /\ \A j \in Persisted(x)' : j <= pending'[x]
      BY DEF AppendDue
    <3>1. CASE x = w
      <4>1. pending'[w] = n /\ acked' = acked
        BY <1>0, <2>2, <2>3, <3>1 DEF DataInv, DataTypes, ControlTypeOK, Due
      <4>2. kind # "ephemeral"
        BY <1>2, <1>0, <2>2, <3>1 DEF Write, StopsInMemory, ControlTypeOK, Due
      <4> QED
        BY <2>10, <2>11, <2>12, <3>1, <4>1, <4>2
    <3>2. CASE x # w
      <4>1. pending[x] \in Persisted(x) \ acked /\ \A j \in Persisted(x) : j <= pending[x]
        BY <2>13, <3>2 DEF DataInv, AppendDue
      <4> QED
        BY <2>10, <2>11, <2>12, <2>13, <3>2, <4>1
    <3> QED
      BY <3>1, <3>2
  <2>15. NoneDue' /\ AppendHeld'
    <3>1. pc'[w] = "append" => comp[w] = "own"
      BY <1>0, <1>2, <2>2 DEF Write, ControlTypeOK
    <3>2. pc'[w] \notin Due => pending'[w] = pending[w] /\ pc[w] \notin Due
      BY <1>0, <2>2, <2>3 DEF ControlTypeOK, Due
    <3> QED
      BY <1>0, <2>2, <2>13, <3>1, <3>2 DEF NoneDue, AppendHeld
  <2>14. TornTail'
    <3> SUFFICES ASSUME NEW x \in Writers, x \in torn, Alive(x)'
        PROVE /\ "append" \in FaultKinds
              /\ \E m \in Persisted(x)' \ acked' :
                   /\ pc'[x] \in Due => m < pending'[x]
                   /\ \A j \in Persisted(x)' :
                        j <= m \/ (pc'[x] \in Due /\ j = pending'[x])
      BY <2>2 DEF TornTail
    <3>1. Alive(x)
      BY <1>0, <2>2, <2>13
    <3>2. PICK m \in Persisted(x) \ acked :
            /\ "append" \in FaultKinds
            /\ pc[x] \in Due => m < pending[x]
            /\ \A j \in Persisted(x) : j <= m \/ (pc[x] \in Due /\ j = pending[x])
      BY <3>1 DEF DataInv, TornTail
    <3>3. m \in Persisted(x)' \ acked' /\ m < n
      BY <2>10, <2>11, <2>12, <3>2
    <3>4. CASE x = w
      <4>1. pc[w] \notin Due /\ \A j \in Persisted(w) : j <= m
        BY <2>2, <3>2, <3>4 DEF Due
      <4>2. CASE kind = "ephemeral"
        <5>1. Persisted(w)' = Persisted(w) /\ pc' = pc
          BY <1>2, <2>11, <4>2 DEF Write, StopsInMemory
        <5> QED
          BY <3>2, <3>3, <3>4, <4>1, <5>1
      <4>3. CASE kind # "ephemeral"
        <5>1. pending'[w] = n /\ pc'[w] \in Due
          BY <1>0, <2>2, <2>3, <4>3 DEF DataInv, DataTypes, ControlTypeOK, Due
        <5> QED
          BY <2>11, <3>2, <3>3, <3>4, <4>1, <5>1
      <4> QED
        BY <4>2, <4>3
    <3>5. CASE x # w
      BY <2>13, <3>2, <3>3, <3>5
    <3> QED
      BY <3>4, <3>5
  <2>8. FoldedSafe'
    <3>1. \A x \in Writers : /\ pc[x] = "dead" => pc'[x] = "dead"
                             /\ pc'[x] \in {"fold"} \cup Reaps => pc'[x] = pc[x]
      BY <1>0, <2>2, <2>3 DEF ControlTypeOK
    <3> QED
      BY <2>2, <3>1 DEF DataInv, FoldedSafe, Reapable
  <2>9. WritesKept'
    <3> SUFFICES ASSUME NEW m \in acked', Persistent(m)', Alive(hist[m].w)'
                 PROVE  Safe(m)' \/ Excused(m)'
      BY DEF WritesKept
    <3>1. m \in acked
      BY <2>3, <2>4, <2>5 DEF Persistent
    <3>2. m \in DOMAIN hist /\ hist'[m] = hist[m]
      BY <2>4, <3>1 DEF DataInv, DataTypes
    <3>3. Alive(hist[m].w)
      <4>1. \A x \in Writers : pc[x] = "dead" /\ x # w => pc'[x] = "dead"
        BY <1>0, <2>3 DEF ControlTypeOK
      <4> QED
        BY <2>2, <3>1, <3>2, <4>1, HistWriters
    <3>4. hist[m].w \in Writers /\ (Safe(m) \/ Excused(m))
      BY <3>1, <3>2, <3>3, HistWriters DEF Persistent, DataInv, WritesKept
    <3>5. Excused(m) => Excused(m)'
      <4> SUFFICES ASSUME Excused(m), m \notin forgone PROVE Excused(m)'
        BY <2>2 DEF Excused
      <4>1. PICK p \in Persisted(hist[m].w) \ acked :
              p < m /\ \A j \in Persisted(hist[m].w) : ~(p < j /\ j < m)
        BY DEF Excused, AfterFailedAppend
      <4>2. p \in Persisted(hist[m].w)' \ acked' /\ m < n
        BY <2>10, <2>11, <2>12, <3>2, <3>4, <4>1
      <4>3. \A j \in Persisted(hist[m].w)' : ~(p < j /\ j < m)
        BY <2>10, <2>11, <3>2, <3>4, <4>1
      <4> QED
        BY <3>2, <4>1, <4>2, <4>3 DEF Excused, AfterFailedAppend
    <3> QED
      BY <2>2, <3>2, <3>4, <3>5 DEF Safe
  <2> QED
    BY <2>6, <2>7, <2>8, <2>9, <2>14, <2>15 DEF DataInv
<1>3. ASSUME NEW w \in Writers, AppendLine(w) PROVE DataInv'
  <2> DEFINE n == pending[w]
  <2>1. /\ n \in Persisted(w) \ acked /\ \A j \in Persisted(w) : j <= n
        /\ n \in DOMAIN hist /\ hist[n].w = w
    BY <1>3 DEF AppendLine, DataInv, AppendDue, Due, Persisted
  <2>2. /\ lines' = [lines EXCEPT ![w] = IF w \in torn THEN lines[w]
                                         ELSE Append(lines[w], n)]
        /\ lines[w] \in Seq(Nat)
        /\ n \in Nat /\ torn' = torn \ {w} /\ acked' = acked \cup {n}
        /\ pending' = [pending EXCEPT ![w] = 0] /\ pc' = [pc EXCEPT ![w] = "idle"]
        /\ UNCHANGED <<hist, captured, committed, folded, lock, comp, forgone>>
        /\ pc[w] = "append"
    BY <1>3 DEF AppendLine, DataInv, DataTypes, scan
  <2>3. \A x \in Writers : ToSet(lines'[x]) =
          ToSet(lines[x]) \cup (IF x = w /\ w \notin torn THEN {n} ELSE {})
    BY <2>2, ToSetAppend DEF DataInv, DataTypes
  <2>4. \A x : Persisted(x)' = Persisted(x)
    BY <2>2 DEF Persisted, Persistent
  <2>5. \A x \in Writers \ {w} :
          pc'[x] = pc[x] /\ pending'[x] = pending[x] /\ n \notin Persisted(x)
    BY <1>0, <2>1, <2>2 DEF DataInv, DataTypes, ControlTypeOK, Persisted
  <2> HIDE DEF n
  <2>6. DataTypes'
    BY <2>1, <2>2 DEF DataInv, DataTypes
  <2>7. NoneDue' /\ AppendDue' /\ AppendHeld'
    <3>1. pc'[w] = "idle" /\ pending'[w] = 0
      BY <1>0, <2>2 DEF ControlTypeOK, DataTypes
    <3> QED
      BY <2>2, <2>4, <2>5, <3>1 DEF DataInv, NoneDue, AppendDue, AppendHeld, Due
  <2>8. TornTail'
    <3> SUFFICES ASSUME NEW x \in Writers \ {w}, x \in torn, Alive(x)
        PROVE /\ "append" \in FaultKinds
              /\ \E m \in Persisted(x) \ acked' :
                   /\ pc[x] \in Due => m < pending[x]
                   /\ \A j \in Persisted(x) :
                        j <= m \/ (pc[x] \in Due /\ j = pending[x])
      BY <2>2, <2>4, <2>5 DEF TornTail
    <3> QED
      BY <2>2, <2>5 DEF DataInv, TornTail
  <2>9. FoldedSafe'
    <3> SUFFICES ASSUME NEW y \in Writers, NEW x \in Writers, lock = y,
                        Reapable(y, x)'
        PROVE /\ pc'[y] = "fold" => ToSet(lines'[x]) \subseteq captured[y] \cup forgone
              /\ pc'[y] \in Reaps => ToSet(lines'[x]) \subseteq committed \cup forgone
      BY <2>2 DEF FoldedSafe
    <3>1. y # w /\ pc'[y] = pc[y]
      BY <1>0, <2>2, <2>5 DEF LockPhase
    <3>2. Reapable(y, x)
      BY <2>2, <2>5 DEF Reapable
    <3>3. x = w => n \in forgone
      BY <1>0, <2>2, <3>1, <3>2 DEF Reapable, AppendHeld, n
    <3>4. ToSet(lines'[x]) \subseteq ToSet(lines[x]) \cup forgone
      BY <2>3, <3>3
    <3> QED
      BY <3>1, <3>2, <3>4 DEF DataInv, FoldedSafe
  <2>10. WritesKept'
    <3> SUFFICES ASSUME NEW m \in acked', Persistent(m), Alive(hist[m].w)'
                 PROVE  Safe(m)' \/ Excused(m)'
      BY <2>2 DEF WritesKept, Persistent
    <3>1. CASE m = n /\ w \notin torn
      BY <2>1, <2>2, <2>3, <3>1 DEF Safe
    <3>2. CASE m = n /\ w \in torn
      <4>1. PICK p \in Persisted(w) \ acked :
              /\ "append" \in FaultKinds /\ p < pending[w]
              /\ \A j \in Persisted(w) : j <= p \/ j = pending[w]
        BY <2>2, <3>2 DEF DataInv, TornTail, Due
      <4>2. p < n /\ \A j \in Persisted(w) : j <= p \/ j = n
        BY <4>1 DEF n
      <4>3. Persisted(w) \subseteq Nat
        BY DEF Persisted, DataInv, DataTypes
      <4>4. hist'[m].w = w /\ hist[m].w = w /\ p # n /\ p \notin acked'
        BY <2>1, <2>2, <3>2, <4>1, <4>2, <4>3
      <4>5. p \in Persisted(hist[m].w)' \ acked' /\ p < m
        BY <2>4, <3>2, <4>1, <4>2, <4>4
      <4>6. \A j \in Persisted(hist[m].w)' : ~(p < j /\ j < m)
        BY <2>2, <2>4, <3>2, <4>1, <4>2, <4>3, <4>4
      <4> QED
        BY <2>2, <4>1, <4>5, <4>6 DEF Excused, AfterFailedAppend
    <3>3. CASE m # n
      <4>1. m \in acked /\ Alive(hist[m].w)
        BY <1>0, <2>2, <3>3 DEF ControlTypeOK
      <4>2. hist[m].w \in Writers /\ (Safe(m) \/ Excused(m))
        BY <4>1, HistWriters DEF DataInv, WritesKept
      <4>3. Safe(m) => Safe(m)'
        BY <2>2, <2>3, <4>2 DEF Safe
      <4>4. ASSUME Excused(m), m \notin forgone PROVE Excused(m)'
        <5>1. PICK p \in Persisted(hist[m].w) \ acked :
                p < m /\ \A j \in Persisted(hist[m].w) : ~(p < j /\ j < m)
          BY <4>4 DEF Excused, AfterFailedAppend
        <5>2. m \in DOMAIN hist /\ m \in Nat /\ m \in Persisted(hist[m].w)
          BY <4>1 DEF DataInv, DataTypes, Persisted
        <5>3. p \in Nat
          BY <5>1 DEF DataInv, DataTypes, Persisted
        <5>4. hist[m].w = w => m <= n
          BY <2>1, <5>2
        <5>5. p # n
          BY <2>2, <2>5, <4>2, <5>1, <5>2, <5>3, <5>4
        <5> QED
          BY <2>2, <2>4, <4>4, <5>1, <5>5 DEF Excused, AfterFailedAppend
      <4> QED
        BY <2>2, <4>2, <4>3, <4>4 DEF Excused
    <3> QED
      BY <3>1, <3>2, <3>3
  <2> QED
    BY <2>6, <2>7, <2>8, <2>9, <2>10 DEF DataInv
<1>4. ASSUME NEW w \in Writers, AppendFails(w) PROVE DataInv'
  <2>1. /\ pc[w] = "append" /\ pc' = [pc EXCEPT ![w] = "idle"]
        /\ "append" \in FaultKinds /\ torn' \subseteq torn \cup {w}
        /\ pending' = [pending EXCEPT ![w] = 0]
        /\ UNCHANGED <<lines, hist, acked, captured, committed, folded, lock, comp,
                       forgone>>
    BY <1>4 DEF AppendFails, Fails, scan, history
  <2>2. \A x : Persisted(x)' = Persisted(x)
    BY <2>1, ExcusedStays
  <2>3. \A x \in Writers \ {w} : pc'[x] = pc[x] /\ pending'[x] = pending[x]
    BY <1>0, <2>1 DEF DataInv, DataTypes, ControlTypeOK
  <2>4. DataTypes' /\ FoldedSafe'
    BY <1>0, <2>1 DEF DataInv, DataTypes, FoldedSafe, Reapable, ControlTypeOK
  <2>5. NoneDue' /\ AppendDue' /\ AppendHeld'
    BY <1>0, <2>1, <2>2, <2>3
    DEF DataInv, DataTypes, NoneDue, AppendDue, AppendHeld, ControlTypeOK, Due
  <2>6. TornTail'
    <3> SUFFICES ASSUME NEW x \in Writers, x \in torn', Alive(x)'
        PROVE \E m \in Persisted(x) \ acked :
                /\ pc'[x] \in Due => m < pending'[x]
                /\ \A j \in Persisted(x) :
                     j <= m \/ (pc'[x] \in Due /\ j = pending'[x])
      BY <2>1, <2>2 DEF TornTail
    <3>1. CASE x = w
      <4>1. pending[w] \in Persisted(w) \ acked /\ \A j \in Persisted(w) : j <= pending[w]
        BY <2>1 DEF DataInv, AppendDue, Due
      <4>2. pc'[w] \notin Due
        BY <1>0, <2>1 DEF ControlTypeOK, Due
      <4> QED
        BY <3>1, <4>1, <4>2
    <3>2. CASE x # w
      BY <2>1, <2>3, <3>2 DEF DataInv, TornTail
    <3> QED
      BY <3>1, <3>2
  <2>7. WritesKept'
    <3>1. \A n : Excused(n) => Excused(n)'
      BY <2>1, ExcusedStays
    <3>2. \A x \in Writers : Alive(x)' => Alive(x)
      BY <1>0, <2>1 DEF ControlTypeOK
    <3>3. \A n : Safe(n)' <=> Safe(n)
      BY <2>1 DEF Safe
    <3> QED
      BY <2>1, <3>1, <3>2, <3>3, HistWriters DEF DataInv, WritesKept, Persistent
  <2> QED
    BY <2>4, <2>5, <2>6, <2>7 DEF DataInv
<1>5. ASSUME NEW w \in Writers, FoldNext(w) PROVE DataInv'
  <2> DEFINE x == Least(todo[w])
  <2>1. x \in Writers
    BY <1>0, <1>5, LeastIn DEF FoldNext, ControlTypeOK
  <2>2. /\ captured' = [captured EXCEPT ![w] = @ \cup ToSet(lines[x])]
        /\ folded' = [folded EXCEPT ![w] = @ \cup {x}] /\ pc[w] = "fold"
        /\ UNCHANGED <<lines, torn, pending, hist, acked, committed, pc, lock, comp,
                       forgone>>
    BY <1>5 DEF FoldNext
  <2> HIDE DEF x
  <2>3. ToSet(lines[x]) \subseteq Nat
    BY <2>1 DEF DataInv, DataTypes, ToSet
  <2>4. DataTypes' /\ NoneDue' /\ AppendDue' /\ TornTail' /\ AppendHeld' /\ WritesKept'
    BY <2>2, <2>3, ExcusedStays
    DEF DataInv, DataTypes, NoneDue, AppendDue, TornTail, AppendHeld, WritesKept, Safe,
        Persistent
  <2>5. FoldedSafe'
    BY <1>0, <2>1, <2>2 DEF DataInv, DataTypes, FoldedSafe, Reapable, ControlTypeOK
  <2> QED
    BY <2>4, <2>5 DEF DataInv
<1>6. ASSUME NEW w \in Writers, Replace(w) PROVE DataInv'
  <2>1. /\ committed' = committed \cup captured[w] /\ pc' = [pc EXCEPT ![w] = "reap"]
        /\ pc[w] = "fold" /\ lock = w
        /\ UNCHANGED <<lines, torn, pending, hist, acked, captured, folded, lock, comp,
                       forgone>>
    BY <1>6 DEF Replace
  <2>2. DataTypes' /\ FoldedSafe'
    BY <1>0, <2>1 DEF DataInv, DataTypes, FoldedSafe, Reapable, ControlTypeOK
  <2>3. \A x \in Writers : /\ Alive(x)' => Alive(x)
                           /\ pc'[x] \in Due <=> pc[x] \in Due
                           /\ pc'[x] = "append" => pc[x] = "append"
    BY <1>0, <2>1 DEF ControlTypeOK, Due
  <2>4. NoneDue' /\ AppendDue' /\ TornTail' /\ AppendHeld'
    BY <2>1, <2>3, ExcusedStays DEF DataInv, NoneDue, AppendDue, TornTail, AppendHeld
  <2>5. WritesKept'
    BY <2>1, <2>3, ExcusedStays, HistWriters
    DEF DataInv, WritesKept, Safe, Persistent
  <2> QED
    BY <2>2, <2>4, <2>5 DEF DataInv
<1>7. ASSUME NEW w \in Writers, NEW x \in Writers,
              x \in folded[w], Alive(x) => x = w \/ comp[x] # "own", lock = w,
              pc[w] \in Reaps, pc' \in {pc, [pc EXCEPT ![w] = "unlinkComp"]},
              \A y \in Writers : folded'[y] \subseteq folded[y],
              \/ UNCHANGED <<lines, torn>>
              \/ lines' = [lines EXCEPT ![x] = <<>>] /\ torn' = torn \ {x},
              UNCHANGED <<pending, hist, acked, committed, captured, lock, comp, forgone>>
       PROVE  DataInv'
  <2>0. \A y \in Writers : lines'[y] = lines[y] \/ lines'[y] = <<>>
    BY <1>0, <1>7 DEF DataTypes
  <2>1. \A y \in Writers : /\ lines'[y] \in Seq(Nat)
                           /\ y # x => lines'[y] = lines[y]
    <3>1. <<>> \in Seq(Nat) /\ \A y \in Writers : lines[y] \in Seq(Nat)
      BY <1>0 DEF DataTypes
    <3> QED
      BY <1>0, <1>7, <2>0, <3>1 DEF DataTypes
  <2>2. \A y \in Writers : ToSet(lines'[y]) \subseteq ToSet(lines[y])
    BY <2>0 DEF ToSet
  <2>3. \A y \in Writers : /\ Alive(y)' <=> Alive(y)
                           /\ pc'[y] \in Due <=> pc[y] \in Due
                           /\ pc'[y] = "append" => pc[y] = "append"
                           /\ pc'[y] = "fold" => pc[y] = "fold"
                           /\ pc'[y] \in Reaps => pc[y] \in Reaps
    BY <1>0, <1>7 DEF ControlTypeOK, Due
  <2>4. DataTypes'
    <3>1. lines' \in [Writers -> Seq(Nat)]
      BY <1>0, <1>7, <2>1 DEF DataTypes
    <3> QED
      BY <1>0, <1>7, <3>1 DEF DataTypes
  <2>5. NoneDue' /\ AppendDue' /\ TornTail' /\ AppendHeld'
    BY <1>7, <2>3, ExcusedStays
    DEF DataInv, NoneDue, AppendDue, TornTail, AppendHeld
  <2>6. FoldedSafe'
    <3>1. \A y, z \in Writers : Reapable(y, z)' => Reapable(y, z)
      BY <1>7, <2>3 DEF Reapable
    <3> QED
      BY <1>7, <2>2, <2>3, <3>1 DEF DataInv, FoldedSafe
  <2>7. WritesKept'
    <3> SUFFICES ASSUME NEW m \in acked, Persistent(m), Alive(hist[m].w), ~Excused(m)
                 PROVE  Safe(m)'
      BY <1>7, <2>3, ExcusedStays, HistWriters DEF WritesKept, Persistent
    <3>1. Safe(m) /\ hist[m].w \in Writers
      BY HistWriters DEF DataInv, WritesKept
    <3>2. CASE hist[m].w = x
      <4>1. ToSet(lines[x]) \subseteq committed \cup forgone
        BY <1>7, <3>2 DEF DataInv, FoldedSafe, Reapable
      <4> QED
        BY <1>7, <3>1, <3>2, <4>1 DEF Safe, Excused
    <3>3. CASE hist[m].w # x
      BY <1>7, <2>1, <3>1, <3>3 DEF Safe
    <3> QED
      BY <3>2, <3>3
  <2> QED
    BY <2>4, <2>5, <2>6, <2>7 DEF DataInv
<1>8. ASSUME NEW w \in Writers, ReapOwn(w) \/ UnlinkPeerLog(w) PROVE DataInv'
  <2> DEFINE x == Candidate(w)
  <2>1. folded[w] # {} /\ x # w => comp[x] = "peer"
    BY <1>0, <1>8 DEF ReapOwn, Reaping, UnlinkPeerLog, TakenHeld
  <2>2. x \in folded[w] /\ x \in Writers /\ lock = w /\ pc[w] \in Reaps
    BY <1>0, <1>8, <2>1, LeastIn
    DEF ReapOwn, Reaping, UnlinkPeerLog, TakenHeld, ControlTypeOK, LockPhase
  <2>3. /\ pc' \in {pc, [pc EXCEPT ![w] = "unlinkComp"]}
        /\ \A y \in Writers : folded'[y] \subseteq folded[y]
        /\ \/ UNCHANGED <<lines, torn>>
           \/ lines' = [lines EXCEPT ![x] = <<>>] /\ torn' = torn \ {x}
        /\ UNCHANGED <<pending, hist, acked, committed, captured, lock, comp, forgone>>
    BY <1>0, <1>8 DEF ReapOwn, Reaping, UnlinkPeerLog, UnlinkSidecar, ControlTypeOK
  <2> QED
    BY <1>7, <2>1, <2>2, <2>3
<1>9. CASE UNCHANGED vars
  <2>1. DataTypes' /\ NoneDue' /\ AppendDue' /\ TornTail'
    BY <1>9, ExcusedStays DEF vars, DataInv, DataTypes, NoneDue, AppendDue, TornTail
  <2>2. AppendHeld' /\ FoldedSafe'
    BY <1>9 DEF vars, DataInv, AppendHeld, FoldedSafe, Reapable
  <2>3. WritesKept'
    BY <1>9, ExcusedStays DEF vars, DataInv, WritesKept, Safe, Persistent
  <2> QED
    BY <2>1, <2>2, <2>3 DEF DataInv
<1> QED
  BY <1>1, <1>2, <1>3, <1>4, <1>5, <1>6, <1>8, <1>9
  DEF Next, Step, Load, Companions, Appends, Commit, Reap, Sweep, QuietAction

\* The invariant of the data, for every behaviour.
LEMMA DataAlways == Spec => []DataInv
<1>1. Init => DataInv
  BY InitData
<1>2. HeldInv /\ DataInv /\ [Next]_vars => DataInv'
  BY DataStep
<1> QED
  BY <1>1, <1>2, HeldAlways, PTL DEF Spec

\* Of the acknowledged writes of a writer that still runs, only two kinds can be
\* lost: one that continues a torn line, and one that forwent its companion because
\* a peer had it.  For any number of writers, ids, writes, flushes, crashes and
\* failing calls, over an atomic or a split try_lock.
THEOREM OnlyTornTailsLose == Spec => []OnlyTornTailLoses
<1>1. DataInv => OnlyTornTailLoses
  BY DEF DataInv, WritesKept, Excused, OnlyTornTailLoses
<1> QED
  BY <1>1, DataAlways, PTL

\* What w attempted last depends on the writes and on the line due.
LEMMA AttemptStays ==
  ASSUME NEW w \in Writers, UNCHANGED hist, pending'[w] = pending[w], NEW n
  PROVE  LastAttempt(w, n)' <=> LastAttempt(w, n)
BY DEF LastAttempt, Persisted, Persistent

\* A write that is issued is not attempted yet.
LEMMA AttemptAtWrite ==
  ASSUME DataTypes, NoneDue, NEW w \in Writers, NEW k \in Keys, NEW kind \in Kinds,
         Write(w, k, kind)
  PROVE  \A x \in Writers : \A m : LastAttempt(x, m) => LastAttempt(x, m)'
<1> DEFINE e == [w |-> w, id |-> k, kind |-> kind]
           n == Len(hist) + 1
<1>1. /\ pc[w] = "idle" /\ hist' = Append(hist, e)
      /\ IF kind = "ephemeral" THEN UNCHANGED pending
         ELSE pending' = [pending EXCEPT ![w] = n]
  BY DEF Write, StopsInMemory
<1>2. /\ hist \in Seq([w : Writers, id : Keys, kind : Kinds])
      /\ pending[w] = 0 /\ pending \in [Writers -> Nat]
  BY <1>1 DEF DataTypes, NoneDue, Due
<1>3. /\ DOMAIN hist = 1..Len(hist) /\ DOMAIN hist' = DOMAIN hist \cup {n}
      /\ \A m \in DOMAIN hist : hist'[m] = hist[m]
      /\ hist'[n] = e /\ Len(hist) \in Nat
  BY <1>1, <1>2
<1>4. n \notin DOMAIN hist /\ 0 \notin DOMAIN hist'
  BY <1>3
<1> HIDE DEF n
<1>5. \A x \in Writers : Persisted(x)' =
        Persisted(x) \cup (IF x = w /\ kind # "ephemeral" THEN {n} ELSE {})
  BY <1>3, <1>4 DEF Persisted, Persistent
<1>6. 0 \notin Persisted(w) /\ n \notin Persisted(w) /\ n # 0
  BY <1>3, <1>4 DEF Persisted
<1>7. \A x \in Writers \ {w} : pending'[x] = pending[x] /\ Persisted(x)' = Persisted(x)
  BY <1>1, <1>2, <1>5
<1>8. pending'[w] = IF kind = "ephemeral" THEN 0 ELSE n
  BY <1>1, <1>2
<1>9. \A x \in Writers : Persisted(x)' \ {pending'[x]} = Persisted(x) \ {pending[x]}
  BY <1>2, <1>5, <1>6, <1>7, <1>8
<1> QED
  BY <1>9 DEF LastAttempt

\* One step keeps every log of a running writer vouched for.
LEMMA VouchedStep ==
  ASSUME HeldInv, DataInv, SidecarVouchedFor, [Next]_vars PROVE SidecarVouchedFor'
<1> USE DEF bounds, store, scan, history
<1>0. ControlTypeOK /\ LockPhase /\ DataTypes /\ NoneDue /\ AppendDue /\ AppendHeld
  BY DEF HeldInv, DataInv
<1>1. ASSUME logs' \subseteq logs, forgone \subseteq forgone', failed \subseteq failed',
             UNCHANGED hist,
             \A x \in logs' : pc'[x] # "dead" =>
               /\ pc[x] # "dead" /\ pending'[x] = pending[x]
               /\ "read" \in failed \/ (comp[x] = "own" => comp'[x] = "own")
      PROVE  SidecarVouchedFor'
  <2> SUFFICES ASSUME "read" \notin failed', NEW x \in logs', pc'[x] # "dead",
                      comp'[x] # "own"
               PROVE  \E n \in forgone' : LastAttempt(x, n)'
    BY DEF SidecarVouchedFor, Alive
  <2>1. PICK n \in forgone : LastAttempt(x, n)
    BY <1>1 DEF SidecarVouchedFor, Alive
  <2>2. x \in Writers
    BY <1>0, <1>1 DEF ControlTypeOK
  <2> QED
    BY <1>1, <2>1, <2>2, AttemptStays
<1>2. ASSUME NEW w \in Writers, QuietAction(w) PROVE SidecarVouchedFor'
  <2>1. Quiet(w)
    BY <1>2, QuietActions
  <2>2. \A x \in logs' : pc'[x] # "dead" =>
          /\ pc[x] # "dead" /\ pending'[x] = pending[x]
          /\ "read" \in failed \/ (comp[x] = "own" => comp'[x] = "own")
    BY <1>0, <2>1 DEF Quiet, ControlTypeOK
  <2> QED
    BY <1>1, <2>1, <2>2 DEF Quiet
<1>3. ASSUME NEW w \in Writers,
             FoldNext(w) \/ Replace(w) \/ ReapOwn(w) \/ UnlinkPeerLog(w)
      PROVE  SidecarVouchedFor'
  <2>1. /\ logs' \subseteq logs /\ failed \subseteq failed'
        /\ UNCHANGED <<hist, forgone, comp, pending>>
        /\ \A x \in Writers : pc'[x] # "dead" => pc[x] # "dead"
    BY <1>0, <1>3
    DEF FoldNext, Replace, ReapOwn, Reaping, UnlinkPeerLog, UnlinkSidecar, Works,
        Fails, To, ControlTypeOK
  <2> QED
    BY <1>0, <1>1, <2>1 DEF ControlTypeOK
<1>4. ASSUME NEW w \in Writers, Appends(w) PROVE SidecarVouchedFor'
  <2>1. /\ pc[w] = "append" /\ logs' \subseteq logs \cup {w} /\ failed \subseteq failed'
        /\ UNCHANGED <<hist, forgone, comp>> /\ pending' = [pending EXCEPT ![w] = 0]
        /\ pc' = [pc EXCEPT ![w] = "idle"]
    BY <1>4 DEF Appends, AppendLine, AppendFails, Fails, Works, To
  <2> SUFFICES ASSUME "read" \notin failed', NEW x \in logs', Alive(x)', comp'[x] # "own"
               PROVE  \E n \in forgone' : LastAttempt(x, n)'
    BY DEF SidecarVouchedFor
  <2>2. CASE x = w
    <3>1. pending[w] \in forgone
      BY <1>0, <2>1, <2>2 DEF AppendHeld
    <3>2. pending[w] \in Persisted(w) /\ \A m \in Persisted(w) : m <= pending[w]
      BY <1>0, <2>1 DEF AppendDue, Due
    <3>3. Persisted(w)' = Persisted(w) /\ pending'[w] = 0 /\ 0 \notin Persisted(w)
      BY <1>0, <2>1 DEF Persisted, Persistent, DataTypes
    <3> QED
      BY <2>1, <2>2, <3>1, <3>2, <3>3 DEF LastAttempt
  <2>3. CASE x # w
    <3>1. x \in logs /\ x \in Writers
      BY <1>0, <2>1, <2>3 DEF ControlTypeOK
    <3>2. pending'[x] = pending[x] /\ Alive(x)
      BY <1>0, <2>1, <2>3, <3>1 DEF ControlTypeOK, DataTypes, Alive
    <3>3. PICK n \in forgone : LastAttempt(x, n)
      BY <2>1, <3>1, <3>2 DEF SidecarVouchedFor
    <3> QED
      BY <2>1, <3>1, <3>2, <3>3, AttemptStays
  <2> QED
    BY <2>2, <2>3
<1>5. ASSUME NEW w \in Writers, NEW k \in Keys, NEW kind \in Kinds, Write(w, k, kind)
      PROVE  SidecarVouchedFor'
  <2>1. UNCHANGED <<logs, comp, forgone, failed>>
    BY <1>5 DEF Write
  <2>2. \A x \in Writers : Alive(x)' => Alive(x)
    BY <1>0, <1>5 DEF Write, To, Alive, ControlTypeOK
  <2>3. \A x \in Writers : \A m : LastAttempt(x, m) => LastAttempt(x, m)'
    BY <1>0, <1>5, AttemptAtWrite
  <2> QED
    BY <1>0, <2>1, <2>2, <2>3 DEF SidecarVouchedFor, ControlTypeOK
<1>6. CASE UNCHANGED vars
  BY <1>1, <1>6 DEF vars
<1> QED
  BY <1>2, <1>3, <1>4, <1>5, <1>6
  DEF Next, Step, Load, Commit, Reap, QuietAction

LEMMA VouchedAlways == Spec => [](HeldInv /\ DataInv /\ SidecarVouchedFor)
<1>1. Init => SidecarVouchedFor
  BY DEF Init, SidecarVouchedFor
<1>2. HeldInv /\ DataInv /\ SidecarVouchedFor /\ [Next]_vars => SidecarVouchedFor'
  BY VouchedStep
<1> QED
  BY <1>1, <1>2, HeldAlways, DataAlways, PTL DEF Spec

\* "The invariant `our sidecar exists => we hold our companion` never breaks"
\* (filecache.rs): every log of a running writer has its companion locked by that
\* writer, or the last append to it forwent that, as long as every log can be read.
THEOREM LiveLogsSafe == Spec => []SidecarVouchedFor
BY VouchedAlways, PTL

\* A log that disappears while its writer runs is unlinked by that writer, in the
\* reap of its own flush, but for the same two exceptions.
THEOREM OwnerReaps == Spec => OnlyOwnerReapsLive
<1>1. HeldInv /\ DataInv /\ SidecarVouchedFor /\ [Next]_vars
        => [\A w \in logs \ logs' :
              Alive(w) /\ "read" \notin failed
                => \/ Reaping(w) /\ Candidate(w) = w
                   \/ \E n \in forgone : LastAttempt(w, n)]_vars
  <2> SUFFICES ASSUME HeldInv, DataInv, SidecarVouchedFor, Next, NEW x \in logs \ logs',
                      Alive(x), "read" \notin failed
               PROVE  \/ Reaping(x) /\ Candidate(x) = x
                      \/ \E n \in forgone : LastAttempt(x, n)
    BY DEF vars
  <2>1. PICK w \in Writers :
          \/ QuietAction(w) \/ (\E k \in Keys, kind \in Kinds : Write(w, k, kind))
          \/ FoldNext(w) \/ Replace(w) \/ ReapOwn(w) \/ UnlinkPeerLog(w) \/ Appends(w)
    BY DEF Next, Step, Load, Commit, Reap, QuietAction
  <2>2. ~QuietAction(w)
    BY QuietActions DEF Quiet
  <2>3. ~(FoldNext(w) \/ Replace(w) \/ Appends(w))
    BY DEF FoldNext, Replace, Appends, AppendLine, AppendFails, store
  <2>4. ~\E k \in Keys, kind \in Kinds : Write(w, k, kind)
    BY DEF Write, store
  <2>5. CASE ReapOwn(w)
    BY <2>5 DEF ReapOwn, UnlinkSidecar
  <2>6. CASE UnlinkPeerLog(w)
    <3>1. x = Candidate(w) /\ comp[x] = "peer"
      BY <2>6 DEF UnlinkPeerLog, UnlinkSidecar, HeldInv, TakenHeld
    <3> QED
      BY <3>1 DEF SidecarVouchedFor
  <2> QED
    BY <2>1, <2>2, <2>3, <2>4, <2>5, <2>6
<1> QED
  BY <1>1, VouchedAlways, PTL DEF Spec, OnlyOwnerReapsLive

\* Over a host whose try_lock_exclusive is atomic and whose unlinks and reads of
\* logs work, no write ever meets a peer at its writer's companion: there the last
\* three theorems leave the torn tail as the only exception.
THEOREM NothingForgone == ASSUME TraitHost PROVE Spec => [](forgone = {})
<1>1. VouchInv /\ forgone = {} /\ [Next]_vars => (forgone = {})'
  <2> SUFFICES ASSUME VouchInv, forgone = {}, [Next]_vars PROVE forgone' = {}
    OBVIOUS
  <2> USE DEF history, Forget
  <2>1. CASE UNCHANGED vars
    BY <2>1 DEF vars
  <2>2. ASSUME NEW w \in Writers, Companions(w) PROVE forgone' = {}
    BY <2>2 DEF Companions, EnsureLifelock, OpenCompanion, FlockCompanion, Forgoes,
                TraitHost, VouchInv, CompanionHeld, Alive
  <2>3. ASSUME NEW w \in Writers, \/ Open(w) \/ FlushCall(w) \/ Crash(w)
                                  \/ (\E k \in Keys, kind \in Kinds : Write(w, k, kind))
        PROVE  forgone' = {}
    BY <2>3 DEF Open, FlushCall, Crash, Write
  <2>4. ASSUME NEW w \in Writers, Step(w), ~Companions(w) PROVE forgone' = {}
    <3>1. CASE Load(w) \/ FlushLock(w)
      BY <3>1 DEF Load, List, LoadFails, FoldNext, FoldUnreadable, OpenDone, FlushLock
    <3>2. CASE Appends(w) \/ Commit(w)
      BY <3>2 DEF Appends, AppendLine, AppendFails, Commit, Replace, ReplaceFails
    <3>3. CASE Reap(w)
      BY <3>3 DEF Reap, ReapOwn, SkipPeer, ProbePeer, UnlinkPeerLog, UnlinkPeerComp,
                  ReapDone
    <3>4. CASE Sweep(w)
      BY <3>4 DEF Sweep, SkipOrphan, ProbeOrphan, UnlinkOrphan, FlushDone
    <3> QED
      BY <2>4, <3>1, <3>2, <3>3, <3>4 DEF Step
  <2> QED
    BY <2>1, <2>2, <2>3, <2>4 DEF Next
<1>2. Init => forgone = {}
  BY DEF Init
<1> QED
  BY <1>1, <1>2, AlwaysVouched, PTL DEF Spec

NoTornLines == TraitHost /\ "append" \notin FaultKinds

\* When no append fails either, such a write is in its log or in a committed
\* compaction.
COROLLARY LiveWritesKept ==
  ASSUME NoTornLines PROVE Spec => []LiveWritesSurvive
<1>1. DataInv /\ forgone = {} => LiveWritesSurvive
  BY DEF NoTornLines, DataInv, WritesKept, Excused, LiveWritesSurvive
<1> QED
  BY <1>1, DataAlways, NothingForgone, PTL DEF NoTornLines

\* What crashes and sweeps leave of the logs of dead writers.  A log without its
\* companion is a stranded one, a stranded one is out of every flush's reach, and the
\* companion of a reaped log goes after it.
DeadVouched ==
  \A x \in logs : ~Alive(x) => comp[x] # "absent" \/ x \in stranded
StrandedStay ==
  \A x \in stranded :
    /\ x \in logs /\ ~Alive(x) /\ comp[x] = "absent"
    /\ \A w \in Writers : lock = w /\ pc[w] # "list" => x \notin orphans[w]
CandidateGone == \A w \in Writers : pc[w] = "unlinkComp" => Candidate(w) \notin logs

StrandInv == DeadVouched /\ StrandedStay /\ CandidateGone

\* Every step keeps it.
LEMMA StrandStep ==
  ASSUME TraitHost, VouchInv, HeldInv, StrandInv, [Next]_vars PROVE StrandInv'
<1> USE NoWriterAssumption, NoFault
    DEF To, store, scan, history, Reaps, Sweeps, Alive, Candidate
<1>0. ControlTypeOK /\ ControlTypeOK' /\ LockPhase /\ TakenHeld
  BY ControlStep DEF VouchInv, HeldInv
<1> USE DEF VouchInv, ControlTypeOK, LockPhase, TakenHeld, CompanionHeld, OnlyDeadTaken,
            StrandInv, DeadVouched, StrandedStay, CandidateGone
<1>1. ASSUME NEW w \in Writers, NEW k \in Keys, NEW kind \in Kinds, Write(w, k, kind)
      PROVE  StrandInv'
  BY <1>0, <1>1, SMTT(30) DEF Write
<1>2. ASSUME NEW w \in Writers, Open(w) \/ FlushCall(w) \/ FlushLock(w) \/ List(w)
      PROVE  StrandInv'
  BY <1>0, <1>2, LeastIn, SMTT(30)
  DEF Open, FlushCall, FlushLock, List, ReadMain, Orphans
<1>3. ASSUME NEW w \in Writers, LoadFails(w) \/ FoldNext(w) \/ FoldUnreadable(w) \/ OpenDone(w)
      PROVE  StrandInv'
  BY <1>0, <1>3, LeastIn, SMTT(30)
  DEF LoadFails, FoldNext, FoldUnreadable, OpenDone, Opened, Forget
<1>4. ASSUME NEW w \in Writers, Companions(w) PROVE StrandInv'
  BY <1>0, <1>4, LeastIn, SMTT(30)
  DEF Companions, EnsureLifelock, OpenCompanion, FlockCompanion, TraitHost
<1>5. ASSUME NEW w \in Writers, Appends(w) PROVE StrandInv'
  BY <1>0, <1>5, LeastIn, SMTT(30)
  DEF Appends, AppendLine, AppendFails
<1>6. ASSUME NEW w \in Writers, Commit(w) PROVE StrandInv'
  BY <1>0, <1>6, LeastIn, SMTT(30)
  DEF Commit, Replace, ReplaceFails, Forget
<1>7. ASSUME NEW w \in Writers, ReapOwn(w) \/ SkipPeer(w) \/ ReapDone(w)
      PROVE  StrandInv'
  BY <1>0, <1>7, LeastIn, SMTT(30)
  DEF ReapOwn, SkipPeer, ReapDone, Reaping, UnlinkSidecar
<1>8. ASSUME NEW w \in Writers, ProbePeer(w) \/ UnlinkPeerLog(w) PROVE StrandInv'
  BY <1>0, <1>8, LeastIn, SMTT(30)
  DEF ProbePeer, UnlinkPeerLog, Reaping, UnlinkSidecar
<1>9. ASSUME NEW w \in Writers, UnlinkPeerComp(w) PROVE StrandInv'
  BY <1>0, <1>9, LeastIn, SMTT(30)
  DEF UnlinkPeerComp, DropCompanion
<1>10. ASSUME NEW w \in Writers, SkipOrphan(w) \/ ProbeOrphan(w) PROVE StrandInv'
  BY <1>0, <1>10, LeastIn, SMTT(30)
  DEF SkipOrphan, ProbeOrphan
<1>11. ASSUME NEW w \in Writers, UnlinkOrphan(w) PROVE StrandInv'
  BY <1>0, <1>11, LeastIn, SMTT(30)
  DEF UnlinkOrphan, DropCompanion
<1>12. ASSUME NEW w \in Writers, FlushDone(w) PROVE StrandInv'
  BY <1>0, <1>12, LeastIn, SMTT(30)
  DEF FlushDone, DropCompanion, Forget
<1>13. ASSUME NEW w \in Writers, Crash(w) PROVE StrandInv'
  BY <1>0, <1>13, LeastIn, SMTT(30)
  DEF Crash, Forget
<1>14. CASE UNCHANGED vars
  BY <1>14 DEF vars
<1> QED
  BY <1>1, <1>2, <1>3, <1>4, <1>5, <1>6, <1>7, <1>8, <1>9, <1>10, <1>11, <1>12,
     <1>13, <1>14
  DEF Next, Step, Load, Reap, Sweep

LEMMA StrandAlways == ASSUME TraitHost PROVE Spec => []StrandInv
<1>1. Init => StrandInv
  BY DEF Init, StrandInv, DeadVouched, StrandedStay, CandidateGone
<1>2. VouchInv /\ HeldInv /\ StrandInv /\ [Next]_vars => StrandInv'
  BY StrandStep
<1> QED
  BY <1>1, <1>2, AlwaysVouched, HeldAlways, PTL DEF Spec

\* A dead writer's companion is locked only while a flush takes it away.
TakenFrom(w, x) ==
  \/ pc[w] \in {"unlinkLog", "unlinkComp"} /\ x = Candidate(w)
  \/ pc[w] = "unlinkOrphan" /\ x = Least(orphans[w])
DeadUnlocked ==
  \A x \in Writers : ~Alive(x) =>
    /\ comp[x] # "own"
    /\ comp[x] = "peer" => \E w \in Writers : lock = w /\ TakenFrom(w, x)

\* The leftovers a flush found when it began: none is out of its sight.
Sighted(w, x) ==
  /\ ~Alive(x)
  /\ x \in logs \ stranded =>
       /\ comp[x] # "absent"
       /\ pc[w] = "fold" => x \in todo[w] \cup folded[w]
       /\ pc[w] \in Reaps => x \in folded[w]
       /\ pc[w] = "unlinkComp" => x # Candidate(w)
       /\ pc[w] \notin Sweeps
  /\ x \notin logs /\ pc[w] # "list" =>
       comp[x] = "absent" \/ x \in orphans[w] \/ (pc[w] = "unlinkComp" /\ x = Candidate(w))
LeftoversSeen == \A w \in Writers : lock = w => \A x \in deadThen[w] : Sighted(w, x)

LeftInv == DeadUnlocked /\ LeftoversSeen /\ \A w \in Writers : ownGone[w]

LEMMA InitLeft == Init => LeftInv
BY NoWriterAssumption DEF Init, LeftInv, DeadUnlocked, LeftoversSeen, Alive

\* Every step keeps it.
LEMMA LeftStep ==
  ASSUME TraitHost, VouchInv, StrandInv, LeftInv, [Next]_vars PROVE LeftInv'
<1> USE NoWriterAssumption, NoFault
    DEF To, bounds, store, scan, history, Reaps, Sweeps, Alive, Candidate,
        TakenFrom, Sighted
<1>0. ControlTypeOK /\ ControlTypeOK'
  BY ControlStep DEF VouchInv
<1>1. ASSUME NEW w \in Writers, NEW k \in Keys, NEW kind \in Kinds,
              Write(w, k, kind)
      PROVE  LeftInv'
  <2>1. UNCHANGED <<logs, comp, lock, todo, folded, orphans, ownGone, deadThen, stranded>>
    BY <1>1 DEF Write
  <2>2. /\ pc[w] = "idle"
        /\ \/ pc' = pc
           \/ pc' = [pc EXCEPT ![w] = IF comp[w] = "own" THEN "append" ELSE "lifelock"]
    BY <1>1 DEF Write
  <2> QED
    BY <1>0, <2>1, <2>2, SMTT(30)
    DEF VouchInv, ControlTypeOK, LockPhase, LeftInv, DeadUnlocked,
        LeftoversSeen
<1>2. ASSUME NEW w \in Writers, Open(w) PROVE LeftInv'
  BY <1>0, <1>2, SMTT(30)
  DEF Open, ReadMain, VouchInv, ControlTypeOK, LockPhase, CompanionHeld,
      OwnLogSeen, OnlyDeadTaken, LeftInv, DeadUnlocked,
      LeftoversSeen
<1>3. ASSUME NEW w \in Writers, FlushCall(w) PROVE LeftInv'
  BY <1>0, <1>3, SMTT(30)
  DEF FlushCall, VouchInv, ControlTypeOK, LockPhase, CompanionHeld, OwnLogSeen,
      OnlyDeadTaken, LeftInv, DeadUnlocked, LeftoversSeen
<1>4. ASSUME NEW w \in Writers, FlushLock(w) PROVE LeftInv'
  BY <1>0, <1>4, SMTT(30)
  DEF FlushLock, ReadMain, DeadWriters, StrandInv, DeadVouched, VouchInv, ControlTypeOK, LockPhase,
      CompanionHeld, OwnLogSeen, OnlyDeadTaken, LeftInv, DeadUnlocked, LeftoversSeen
<1>5. ASSUME NEW w \in Writers, List(w) PROVE LeftInv'
  BY <1>0, <1>5, SMTT(30)
  DEF List, Orphans, VouchInv, ControlTypeOK, LockPhase, CompanionHeld,
      OwnLogSeen, OnlyDeadTaken, LeftInv, DeadUnlocked,
      LeftoversSeen
<1>6. ASSUME NEW w \in Writers, LoadFails(w) PROVE LeftInv'
  BY <1>0, <1>6, SMTT(30)
  DEF LoadFails, Forget, VouchInv, ControlTypeOK, LockPhase, CompanionHeld,
      OwnLogSeen, OnlyDeadTaken, LeftInv, DeadUnlocked,
      LeftoversSeen
<1>7. ASSUME NEW w \in Writers, FoldNext(w) PROVE LeftInv'
  BY <1>0, <1>7, SMTT(30)
  DEF FoldNext, VouchInv, ControlTypeOK, LockPhase, CompanionHeld, OwnLogSeen,
      OnlyDeadTaken, LeftInv, DeadUnlocked, LeftoversSeen
<1>8. ASSUME NEW w \in Writers, FoldUnreadable(w) PROVE LeftInv'
  BY <1>0, <1>8, SMTT(30)
  DEF FoldUnreadable, VouchInv, ControlTypeOK, LockPhase, CompanionHeld,
      OwnLogSeen, OnlyDeadTaken, LeftInv, DeadUnlocked,
      LeftoversSeen
<1>9. ASSUME NEW w \in Writers, OpenDone(w) PROVE LeftInv'
  BY <1>0, <1>9, SMTT(30)
  DEF OpenDone, Opened, Forget, VouchInv, ControlTypeOK, LockPhase,
      CompanionHeld, OwnLogSeen, OnlyDeadTaken, LeftInv, DeadUnlocked, LeftoversSeen
<1>10. ASSUME NEW w \in Writers, EnsureLifelock(w) PROVE LeftInv'
  BY <1>0, <1>10, SMTT(30)
  DEF EnsureLifelock, VouchInv, ControlTypeOK, LockPhase, CompanionHeld,
      OwnLogSeen, OnlyDeadTaken, LeftInv, DeadUnlocked,
      LeftoversSeen
<1>11. ASSUME NEW w \in Writers, OpenCompanion(w) PROVE LeftInv'
  BY <1>0, <1>11, SMTT(30)
  DEF OpenCompanion, TraitHost, VouchInv, ControlTypeOK, LockPhase,
      CompanionHeld, OwnLogSeen, OnlyDeadTaken, LeftInv, DeadUnlocked, LeftoversSeen
<1>12. ASSUME NEW w \in Writers, FlockCompanion(w) PROVE LeftInv'
  BY <1>0, <1>12, SMTT(30)
  DEF FlockCompanion, VouchInv, ControlTypeOK, LockPhase, CompanionHeld,
      OwnLogSeen, OnlyDeadTaken, LeftInv, DeadUnlocked,
      LeftoversSeen
<1>13. ASSUME NEW w \in Writers, AppendLine(w) PROVE LeftInv'
  BY <1>0, <1>13, SMTT(30)
  DEF AppendLine, VouchInv, ControlTypeOK, LockPhase, CompanionHeld, OwnLogSeen,
      OnlyDeadTaken, LeftInv, DeadUnlocked, LeftoversSeen
<1>14. ASSUME NEW w \in Writers, AppendFails(w) PROVE LeftInv'
  BY <1>0, <1>14, SMTT(30)
  DEF AppendFails, VouchInv, ControlTypeOK, LockPhase, CompanionHeld, OwnLogSeen,
      OnlyDeadTaken, LeftInv, DeadUnlocked, LeftoversSeen
<1>15. ASSUME NEW w \in Writers, Replace(w) PROVE LeftInv'
  BY <1>0, <1>15, SMTT(30)
  DEF Replace, VouchInv, ControlTypeOK, LockPhase, CompanionHeld, OwnLogSeen,
      OnlyDeadTaken, LeftInv, DeadUnlocked, LeftoversSeen
<1>16. ASSUME NEW w \in Writers, ReplaceFails(w) PROVE LeftInv'
  BY <1>0, <1>16, SMTT(30)
  DEF ReplaceFails, Forget, VouchInv, ControlTypeOK, LockPhase, CompanionHeld,
      OwnLogSeen, OnlyDeadTaken, LeftInv, DeadUnlocked,
      LeftoversSeen
<1>17. ASSUME NEW w \in Writers, ReapOwn(w) PROVE LeftInv'
  BY <1>0, <1>17, SMTT(30)
  DEF ReapOwn, Reaping, UnlinkSidecar, VouchInv, ControlTypeOK, LockPhase,
      CompanionHeld, OwnLogSeen, OnlyDeadTaken, LeftInv, DeadUnlocked, LeftoversSeen
<1>18. ASSUME NEW w \in Writers, SkipPeer(w) PROVE LeftInv'
  <2>1. LeftoversSeen'
    <3> DEFINE c == Candidate(w)
    <3>1. c \in Writers /\ comp[c] \in Companion /\ comp[c] # "free" /\ pc[w] = "reap"
      BY <1>0, <1>18, LeastIn DEF SkipPeer, Reaping, ControlTypeOK
    <3>2. lock = w
      BY <3>1 DEF VouchInv, LockPhase
    <3>3. c \in deadThen[w] => c \notin logs \ stranded
      BY <3>1, <3>2 DEF LeftInv, DeadUnlocked, LeftoversSeen, Companion
    <3>4. folded' = [folded EXCEPT ![w] = @ \ {c}]
          /\ UNCHANGED <<logs, comp, lock, pc, todo, orphans, deadThen, stranded>>
      BY <1>18 DEF SkipPeer
    <3> HIDE DEF c
    <3> QED
      BY <1>0, <3>1, <3>2, <3>3, <3>4 DEF ControlTypeOK, LeftInv, LeftoversSeen
  <2>2. DeadUnlocked' /\ \A x \in Writers : ownGone'[x]
    BY <1>0, <1>18, SMTT(30)
    DEF SkipPeer, Reaping, VouchInv, ControlTypeOK, LockPhase, CompanionHeld,
        OwnLogSeen, OnlyDeadTaken, LeftInv, DeadUnlocked
  <2> QED
    BY <2>1, <2>2 DEF LeftInv
<1>19. ASSUME NEW w \in Writers, ProbePeer(w) PROVE LeftInv'
  BY <1>0, <1>19, SMTT(30)
  DEF ProbePeer, Reaping, VouchInv, ControlTypeOK, LockPhase, CompanionHeld,
      OwnLogSeen, OnlyDeadTaken, LeftInv, DeadUnlocked,
      LeftoversSeen
<1>20. ASSUME NEW w \in Writers, UnlinkPeerLog(w) PROVE LeftInv'
  BY <1>0, <1>20, SMTT(30)
  DEF UnlinkPeerLog, UnlinkSidecar, VouchInv, ControlTypeOK, LockPhase,
      CompanionHeld, OwnLogSeen, OnlyDeadTaken, LeftInv, DeadUnlocked, LeftoversSeen
<1>21. ASSUME NEW w \in Writers, UnlinkPeerComp(w) PROVE LeftInv'
  <2>1. LeftoversSeen'
    <3> DEFINE c == Candidate(w)
    <3>1. comp' = [comp EXCEPT ![c] = "absent"] /\ folded' = [folded EXCEPT ![w] = @ \ {c}]
          /\ pc' = [pc EXCEPT ![w] = "reap"] /\ pc[w] = "unlinkComp"
          /\ UNCHANGED <<logs, lock, todo, orphans, deadThen, stranded>>
      BY <1>21 DEF UnlinkPeerComp, DropCompanion
    <3>2. lock = w /\ lock' = w
      BY <3>1 DEF VouchInv, LockPhase
    <3>3. \A x \in deadThen[w] :
            /\ ~Alive(x)
            /\ x \in logs \ stranded => x # c /\ comp[x] # "absent" /\ x \in folded[w]
            /\ x \notin logs => comp[x] = "absent" \/ x \in orphans[w] \/ x = c
      BY <3>1, <3>2 DEF LeftInv, LeftoversSeen
    <3> HIDE DEF c
    <3>4. deadThen[w] \subseteq Writers
      BY <1>0 DEF ControlTypeOK
    <3>5. \A x \in deadThen[w] :
            /\ ~Alive(x)'
            /\ x \in logs \ stranded => comp'[x] # "absent" /\ x \in folded'[w]
            /\ x \notin logs => comp'[x] = "absent" \/ x \in orphans[w]
      BY <1>0, <3>1, <3>3, <3>4 DEF ControlTypeOK
    <3>6. pc'[w] = "reap"
      BY <1>0, <3>1 DEF ControlTypeOK
    <3> QED
      <4>1. \A x \in deadThen[w] : Sighted(w, x)'
        BY <3>1, <3>5, <3>6
      <4> QED
        BY <3>1, <3>2, <4>1 DEF LeftoversSeen
  <2>2. DeadUnlocked' /\ \A x \in Writers : ownGone'[x]
    BY <1>0, <1>21, SMTT(30)
    DEF UnlinkPeerComp, DropCompanion, VouchInv, ControlTypeOK, LockPhase,
        CompanionHeld, OwnLogSeen, OnlyDeadTaken, LeftInv,   DeadUnlocked
  <2> QED
    BY <2>1, <2>2 DEF LeftInv
<1>22. ASSUME NEW w \in Writers, ReapDone(w) PROVE LeftInv'
  BY <1>0, <1>22, SMTT(30)
  DEF ReapDone, VouchInv, ControlTypeOK, LockPhase, CompanionHeld, OwnLogSeen,
      OnlyDeadTaken, LeftInv, DeadUnlocked, LeftoversSeen
<1>23. ASSUME NEW w \in Writers, SkipOrphan(w) PROVE LeftInv'
  BY <1>0, <1>23, SMTT(30)
  DEF SkipOrphan, VouchInv, ControlTypeOK, LockPhase, CompanionHeld, OwnLogSeen,
      OnlyDeadTaken, LeftInv, DeadUnlocked, LeftoversSeen
<1>24. ASSUME NEW w \in Writers, ProbeOrphan(w) PROVE LeftInv'
  <2>1. LeftoversSeen'
    <3> DEFINE c == Least(orphans[w])
    <3>1. comp' = [comp EXCEPT ![c] = "peer"]
          /\ pc' = [pc EXCEPT ![w] = "unlinkOrphan"] /\ pc[w] = "sweep"
          /\ UNCHANGED <<logs, lock, todo, folded, orphans, deadThen, stranded>>
      BY <1>24 DEF ProbeOrphan
    <3>2. lock = w /\ lock' = w
      BY <3>1 DEF VouchInv, LockPhase
    <3>3. c \in orphans[w]
      BY <1>0, <1>24, LeastIn DEF ProbeOrphan, ControlTypeOK
    <3> HIDE DEF c
    <3>4. \A x \in deadThen[w] :
            /\ ~Alive(x) /\ x \notin logs \ stranded
            /\ x \notin logs => comp[x] = "absent" \/ x \in orphans[w]
      BY <3>1, <3>2 DEF LeftInv, LeftoversSeen
    <3>5. \A x \in deadThen[w] :
            /\ ~Alive(x)' /\ x \notin logs \ stranded
            /\ x \notin logs => comp'[x] = "absent" \/ x \in orphans[w]
      BY <1>0, <3>1, <3>3, <3>4 DEF ControlTypeOK
    <3>6. pc'[w] = "unlinkOrphan"
      BY <1>0, <3>1 DEF ControlTypeOK
    <3> QED
      <4>1. \A x \in deadThen[w] : Sighted(w, x)'
        BY <3>1, <3>5, <3>6
      <4> QED
        BY <3>1, <3>2, <4>1 DEF LeftoversSeen
  <2>2. DeadUnlocked' /\ \A x \in Writers : ownGone'[x]
    BY <1>0, <1>24, SMTT(30)
    DEF ProbeOrphan, VouchInv, ControlTypeOK, LockPhase, CompanionHeld,
        OwnLogSeen, OnlyDeadTaken, LeftInv, DeadUnlocked
  <2> QED
    BY <2>1, <2>2 DEF LeftInv
<1>25. ASSUME NEW w \in Writers, UnlinkOrphan(w) PROVE LeftInv'
  BY <1>0, <1>25, SMTT(30)
  DEF UnlinkOrphan, DropCompanion, VouchInv, ControlTypeOK, LockPhase,
      CompanionHeld, OwnLogSeen, OnlyDeadTaken, LeftInv, DeadUnlocked, LeftoversSeen
<1>26. ASSUME NEW w \in Writers, FlushDone(w) PROVE LeftInv'
  BY <1>0, <1>26, SMTT(30)
  DEF FlushDone, DropCompanion, GivesBack, Forget, VouchInv, ControlTypeOK,
      LockPhase, CompanionHeld, OwnLogSeen, OnlyDeadTaken, LeftInv,
      DeadUnlocked, LeftoversSeen
<1>27. ASSUME NEW w \in Writers, Crash(w) PROVE LeftInv'
  BY <1>0, <1>27, SMTT(30)
  DEF Crash, Forget, VouchInv, ControlTypeOK, LockPhase, CompanionHeld,
      OwnLogSeen, OnlyDeadTaken, LeftInv, DeadUnlocked,
      LeftoversSeen
<1>28. CASE UNCHANGED vars
  BY <1>28 DEF vars, LeftInv, DeadUnlocked, LeftoversSeen
<1> QED
  BY <1>1, <1>2, <1>3, <1>4, <1>5, <1>6, <1>7, <1>8, <1>9, <1>10, <1>11, <1>12,
     <1>13, <1>14, <1>15, <1>16, <1>17, <1>18, <1>19, <1>20, <1>21, <1>22, <1>23,
     <1>24, <1>25, <1>26, <1>27, <1>28
  DEF Next, Step, Load, Companions, Appends, Commit, Reap, Sweep

\* The invariant of what is left behind, for every behaviour over such a host.
LEMMA LeftAlways == ASSUME TraitHost PROVE Spec => []LeftInv
<1>1. Init => LeftInv
  BY InitLeft
<1>2. VouchInv /\ StrandInv /\ LeftInv /\ [Next]_vars => LeftInv'
  BY LeftStep
<1> QED
  BY <1>1, <1>2, AlwaysVouched, StrandAlways, PTL DEF Spec

\* A running writer holds its companion for its log, for the append that creates it,
\* until the flush that unlinked it ends, or because that append failed.
Attempted(w) == \E n \in DOMAIN hist \ acked : LastAttempt(w, n)
Using(w) == w \in logs \/ pc[w] = "append" \/ (lock = w /\ pc[w] \in Reaps \cup Sweeps)
CompanionUsed ==
  \A w \in Writers : Alive(w) /\ comp[w] = "own" => Using(w) \/ Attempted(w)

\* Every step keeps it.
LEMMA UsedStep ==
  ASSUME TraitHost, VouchInv, HeldInv, DataInv, LeftInv, CompanionUsed, [Next]_vars
  PROVE  CompanionUsed'
<1> USE NoWriterAssumption, NoFault
    DEF To, bounds, store, scan, history, Reaps, Sweeps, Alive, Candidate
<1>0. ControlTypeOK /\ LockPhase /\ TakenHeld /\ DataTypes /\ NoneDue /\ AppendDue
  BY DEF HeldInv, DataInv
<1>1. ASSUME UNCHANGED <<hist, acked>>,
             \A x \in Writers : Alive(x)' /\ comp'[x] = "own" =>
               /\ Alive(x) /\ pending'[x] = pending[x]
               /\ Using(x)' \/ (comp[x] = "own" /\ (Using(x) => Using(x)'))
      PROVE  CompanionUsed'
  BY <1>1, AttemptStays DEF CompanionUsed, Attempted
<1>2. ASSUME NEW w \in Writers, QuietAction(w) PROVE CompanionUsed'
  <2>1. Quiet(w)
    BY <1>2, QuietActions
  <2>2. \A x \in Writers : Alive(x)' /\ comp'[x] = "own" =>
          Using(x)' \/ (comp[x] = "own" /\ (Using(x) => Using(x)'))
    <3>1. CASE \/ Open(w) \/ FlushCall(w) \/ FlushLock(w) \/ List(w) \/ LoadFails(w)
               \/ FoldUnreadable(w) \/ OpenDone(w)
      BY <1>0, <3>1
      DEF Open, FlushCall, FlushLock, List, LoadFails, FoldUnreadable, OpenDone, Opened,
          Using, ControlTypeOK, LockPhase
    <3>2. CASE ReplaceFails(w) \/ SkipPeer(w) \/ ReapDone(w) \/ SkipOrphan(w)
      BY <1>0, <3>2
      DEF ReplaceFails, SkipPeer, Reaping, ReapDone, SkipOrphan, Using, ControlTypeOK,
          LockPhase
    <3>3. CASE Companions(w)
      BY <1>0, <3>3
      DEF Companions, EnsureLifelock, OpenCompanion, FlockCompanion, VouchInv,
          CompanionHeld, TraitHost, Using, ControlTypeOK, LockPhase
    <3>4. CASE ProbePeer(w) \/ ProbeOrphan(w)
      BY <1>0, <3>4
      DEF ProbePeer, Reaping, ProbeOrphan, Using, ControlTypeOK, LockPhase
    <3>5. CASE UnlinkPeerComp(w) \/ UnlinkOrphan(w)
      BY <1>0, <3>5
      DEF UnlinkPeerComp, UnlinkOrphan, DropCompanion, Using, ControlTypeOK, LockPhase
    <3>6. CASE FlushDone(w)
      BY <1>0, <3>6
      DEF FlushDone, DropCompanion, GivesBack, LeftInv, Using, ControlTypeOK, LockPhase
    <3>7. CASE Crash(w)
      BY <1>0, <3>7 DEF Crash, Using, ControlTypeOK, LockPhase
    <3> QED
      BY <1>2, <3>1, <3>2, <3>3, <3>4, <3>5, <3>6, <3>7 DEF QuietAction, Sweep
  <2>3. \A x \in Writers : Alive(x)' => Alive(x) /\ pending'[x] = pending[x]
    BY <1>0, <2>1 DEF Quiet
  <2> QED
    BY <1>1, <2>1, <2>2, <2>3 DEF Quiet
<1>3. ASSUME NEW w \in Writers,
             FoldNext(w) \/ Replace(w) \/ ReapOwn(w) \/ UnlinkPeerLog(w)
      PROVE  CompanionUsed'
  <2>1. /\ UNCHANGED <<hist, acked, comp, pending>>
        /\ \A x \in Writers : Alive(x)' => Alive(x)
    BY <1>0, <1>3
    DEF FoldNext, Replace, ReapOwn, Reaping, UnlinkPeerLog, ControlTypeOK
  <2>2. \A x \in Writers : Alive(x)' /\ comp[x] = "own" /\ Using(x) => Using(x)'
    BY <1>0, <1>3
    DEF FoldNext, Replace, ReapOwn, Reaping, UnlinkPeerLog, UnlinkSidecar, Using,
        ControlTypeOK, LockPhase, TakenHeld
  <2> QED
    BY <1>1, <2>1, <2>2
<1>4. ASSUME NEW w \in Writers, Appends(w) PROVE CompanionUsed'
  <2>1. /\ pc[w] = "append" /\ pc' = [pc EXCEPT ![w] = "idle"]
        /\ pending' = [pending EXCEPT ![w] = 0]
        /\ UNCHANGED <<hist, comp, lock>>
        /\ \/ acked' = acked \cup {pending[w]} /\ logs' = logs \cup {w}
           \/ acked' = acked /\ logs' \in {logs, logs \cup {w}}
    BY <1>4 DEF Appends, AppendLine, AppendFails
  <2>2. pending[w] \in Persisted(w) \ acked /\ \A m \in Persisted(w) : m <= pending[w]
    BY <1>0, <2>1 DEF AppendDue, Due
  <2> SUFFICES ASSUME NEW x \in Writers, Alive(x)', comp[x] = "own", x \notin logs'
               PROVE  Using(x)' \/ Attempted(x)'
    BY <2>1 DEF CompanionUsed, Using
  <2>3. CASE x = w
    <3>1. acked' = acked
      BY <2>1, <2>3
    <3>2. /\ Persisted(w)' = Persisted(w) /\ Persisted(w) \subseteq DOMAIN hist
          /\ pending'[w] = 0 /\ 0 \notin Persisted(w)
      BY <1>0, <2>1 DEF Persisted, Persistent, DataTypes
    <3>3. PICK n \in DOMAIN hist \ acked : n = pending[w]
      BY <2>2, <3>2
    <3>4. LastAttempt(w, n)'
      BY <2>2, <3>2, <3>3 DEF LastAttempt
    <3> QED
      BY <2>1, <2>3, <3>1, <3>3, <3>4 DEF Attempted
  <2>4. CASE x # w
    <3>1. /\ pc'[x] = pc[x] /\ pending'[x] = pending[x]
          /\ x \notin logs /\ Using(x) => Using(x)'
      BY <1>0, <2>1, <2>4 DEF ControlTypeOK, DataTypes, Using
    <3>2. ASSUME Attempted(x) PROVE Attempted(x)'
      <4>1. PICK n \in DOMAIN hist \ acked : LastAttempt(x, n)
        BY <3>2 DEF Attempted
      <4>2. n # pending[w]
        BY <2>2, <2>4, <4>1 DEF LastAttempt, Persisted
      <4> QED
        BY <2>1, <3>1, <4>1, <4>2, AttemptStays DEF Attempted
    <3> QED
      BY <2>1, <3>1, <3>2 DEF CompanionUsed
  <2> QED
    BY <2>3, <2>4
<1>5. ASSUME NEW w \in Writers, NEW k \in Keys, NEW kind \in Kinds, Write(w, k, kind)
      PROVE  CompanionUsed'
  <2>1. /\ pc[w] = "idle" /\ UNCHANGED <<logs, comp, lock>>
        /\ acked' \subseteq acked \cup {Len(hist) + 1}
        /\ \/ UNCHANGED pc
           \/ pc' = [pc EXCEPT ![w] = IF comp[w] = "own" THEN "append" ELSE "lifelock"]
    BY <1>5 DEF Write
  <2>2. \A n \in DOMAIN hist \ acked : n \in DOMAIN hist' \ acked'
    <3>1. DOMAIN hist = 1..Len(hist) /\ Len(hist) \in Nat
      BY <1>0 DEF DataTypes
    <3>2. DOMAIN hist' = 1..Len(hist) + 1
      BY <1>0, <1>5 DEF Write, DataTypes
    <3> QED
      BY <2>1, <3>1, <3>2
  <2>4. \A x \in Writers : \A n : LastAttempt(x, n) => LastAttempt(x, n)'
    BY <1>0, <1>5, AttemptAtWrite
  <2>3. \A x \in Writers : /\ Alive(x)' => Alive(x)
                           /\ comp[x] = "own" /\ Using(x) => Using(x)'
    BY <1>0, <2>1 DEF Using, ControlTypeOK
  <2> QED
    BY <2>1, <2>2, <2>3, <2>4 DEF CompanionUsed, Attempted
<1>6. CASE UNCHANGED vars
  BY <1>1, <1>6 DEF vars, Using
<1> QED
  BY <1>2, <1>3, <1>4, <1>5, <1>6
  DEF Next, Step, Load, Commit, Reap, QuietAction

LEMMA UsedAlways == ASSUME TraitHost PROVE Spec => []CompanionUsed
<1>1. Init => CompanionUsed
  BY DEF Init, CompanionUsed
<1>2. /\ VouchInv /\ HeldInv /\ DataInv /\ LeftInv /\ CompanionUsed /\ [Next]_vars
      => CompanionUsed'
  BY UsedStep
<1> QED
  BY <1>1, <1>2, AlwaysVouched, HeldAlways, DataAlways, LeftAlways, PTL DEF Spec

\* "A run that ends cleanly leaves only the main file" (filecache.rs): once nobody is
\* in a call and the logs are gone, so is every companion, but for that of a writer
\* whose last append failed before there was a log.
THEOREM CleanRunLeavesNothing ==
  ASSUME TraitHost PROVE Spec => []NothingLeftAround
<1>1. VouchInv /\ LeftInv /\ CompanionUsed => NothingLeftAround
  BY NoWriterAssumption
  DEF VouchInv, ControlTypeOK, CompanionHeld, LeftInv, CompanionUsed, Using, Attempted,
      NothingLeftAround, Alive
<1> QED
  BY <1>1, AlwaysVouched, LeftAlways, UsedAlways, PTL

\* "A sidecar left behind by a *crashed* writer must still be reclaimed"
\* (filecache.rs): by the first flush that begins after its death and ends, whoever
\* crashed meanwhile, unless an orphan sweep had taken its companion away before: a
\* log without its companion is always such a stranded one, and stays.
THEOREM DeadLeaveNothing == ASSUME TraitHost PROVE Spec => []DeadReclaimed
<1>1. VouchInv /\ LeftInv /\ StrandInv => DeadReclaimed
  <2> SUFFICES ASSUME VouchInv, LeftInv, StrandInv, NEW w \in Writers, pc[w] = "sweep",
                      orphans[w] = {}, NEW x \in deadThen[w]
               PROVE  comp[x] = "absent" /\ (x \in logs => x \in stranded)
    BY DEF DeadReclaimed
  <2>1. Sighted(w, x)
    BY DEF VouchInv, LockPhase, LeftInv, LeftoversSeen, Sweeps
  <2> QED
    BY <2>1 DEF Sighted, Sweeps, StrandInv, StrandedStay
<1> QED
  BY <1>1, AlwaysVouched, LeftAlways, StrandAlways, PTL

\* What a map can hold for k: nothing, or a write to k (one that reaches the disk).
Viewed(k) == {Absent} \cup {n \in DOMAIN hist : hist[n].id = k}
Stored(k) == {Absent} \cup {n \in DOMAIN hist : hist[n].id = k /\ Persistent(n)}

\* The writes of committed compactions and of the one x is working on.
Gathered(x) == committed \cup captured[x]

RecordTypes ==
  /\ lines \in [Writers -> Seq(Nat)] /\ torn \subseteq logs
  /\ pending \in [Writers -> Records]
  /\ captured \in [Writers -> SUBSET Nat]
  /\ committed \subseteq Nat
  /\ main \in [Keys -> Nat]
  /\ map \in [Writers -> [Keys -> Nat]]
  /\ mem \in [Writers -> [Keys -> Nat]]
  /\ hist \in Seq([w : Writers, id : Keys, kind : Kinds])
  /\ Len(hist) <= MaxWrites
  /\ acked \subseteq DOMAIN hist
  /\ keysThen \in [Writers -> SUBSET Keys]

\* A log holds acknowledged persistent writes of its owner, in the order issued; a
\* compaction gathers such writes; the views hold writes to the ids they are for.
LinesOwned == \A w \in Writers : ToSet(lines[w]) \subseteq acked \cap Persisted(w)
Ascending ==
  \A w \in Writers : \A i, j \in DOMAIN lines[w] : i < j => lines[w][i] < lines[w][j]
GatheredKept ==
  /\ \A n \in committed : n \in acked /\ Persistent(n)
  /\ \A x \in Writers : \A n \in Gathered(x) : n \in acked /\ Persistent(n)
ViewsShown ==
  \A k \in Keys :
    /\ main[k] \in Stored(k)
    /\ \A w \in Writers : map[w][k] \in Stored(k) /\ mem[w][k] \in Viewed(k)

\* Of one writer's gathered writes, those later than a line of its log are still in
\* that log: no log keeps a line older than one that was unlinked.
NoLateLine ==
  \A w, x \in Writers : \A n \in ToSet(lines[w]), m \in Gathered(x) :
    hist[m].w = w /\ n < m => m \in ToSet(lines[w])

\* In f, no record is older than one of the same writer and id in S.
Newest(f, S) ==
  \A k \in Keys : f[k] # Absent =>
    \A m \in S : hist[m].w = hist[f[k]].w /\ hist[m].id = k => m <= f[k]
FoldsNewest ==
  /\ Newest(main, committed)
  /\ \A x \in Writers : lock = x => Newest(map[x], Gathered(x))

RecordInv ==
  /\ RecordTypes /\ AppendDue /\ LinesOwned /\ Ascending /\ GatheredKept /\ ViewsShown
  /\ NoLateLine /\ FoldsNewest

\* A step of w that commits and writes nothing, at most empties logs, and leaves w's
\* map alone, reads the main file into it, or drops it.
Calm(w) ==
  /\ UNCHANGED <<hist, acked, committed, main>>
  /\ RecordTypes'
  /\ \A x \in Writers :
       /\ lines'[x] = lines[x] \/ lines'[x] = <<>>
       /\ pc'[x] \in Due => pc[x] \in Due /\ pending'[x] = pending[x]
  /\ \A x \in Writers \ {w} :
       /\ map'[x] = map[x] /\ captured'[x] = captured[x] /\ mem'[x] = mem[x]
       /\ lock' = x => lock = x
  /\ \/ map'[w] = map[w] /\ captured'[w] = captured[w] /\ (lock' = w => lock = w)
     \/ map'[w] \in {main, EmptyMap} /\ captured'[w] = {}
  /\ \A k \in Keys : mem'[w][k] \in {mem[w][k], map[w][k], Absent}

LEMMA InitRecord == Init => RecordInv
<1> SUFFICES ASSUME Init PROVE RecordInv
  OBVIOUS
<1> USE NoWriterAssumption, BoundsAssumption DEF Init, EmptyMap, Absent, Records
<1>1. RecordTypes
  BY DEF RecordTypes
<1>2. AppendDue /\ LinesOwned /\ Ascending /\ GatheredKept /\ NoLateLine
  BY
  DEF AppendDue, LinesOwned, Ascending, GatheredKept, NoLateLine, Gathered, Due,
         ToSet
<1>3. ViewsShown /\ FoldsNewest
  BY DEF ViewsShown, Stored, Viewed, FoldsNewest, Newest
<1> QED
  BY <1>1, <1>2, <1>3 DEF RecordInv

\* What a write is does not change.
LEMMA WriteStays ==
  ASSUME UNCHANGED hist
  PROVE  /\ \A n : Persistent(n)' <=> Persistent(n)
         /\ \A w : Persisted(w)' = Persisted(w)
         /\ \A k : Stored(k)' = Stored(k) /\ Viewed(k)' = Viewed(k)
<1>1. \A n : Persistent(n)' <=> Persistent(n)
  BY DEF Persistent
<1> QED
  BY <1>1 DEF Persisted, Stored, Viewed

\* A calm step keeps RecordInv.
LEMMA CalmStep ==
  ASSUME RecordInv, NEW w \in Writers, Calm(w) PROVE RecordInv'
<1>1. RecordTypes'
  BY DEF Calm
<1>2. UNCHANGED hist /\ UNCHANGED acked /\ UNCHANGED committed /\ UNCHANGED main
  BY DEF Calm
<1>3. \A x \in Writers : ToSet(lines'[x]) \subseteq ToSet(lines[x])
                         /\ (ToSet(lines'[x]) = ToSet(lines[x]) \/ ToSet(lines'[x]) = {})
  BY DEF Calm, ToSet
<1>4. AppendDue'
  BY <1>2, WriteStays DEF Calm, RecordInv, AppendDue
<1>5. LinesOwned'
  BY <1>2, <1>3, WriteStays DEF RecordInv, LinesOwned
<1>6. Ascending'
  BY DEF Calm, RecordInv, Ascending
<1>7. \A x \in Writers :
        captured'[x] \subseteq captured[x] /\ Gathered(x)' \subseteq Gathered(x)
  BY DEF Calm, Gathered
<1>8. GatheredKept'
  BY <1>2, <1>7, WriteStays DEF RecordInv, GatheredKept
<1>9. NoLateLine'
  BY <1>2, <1>3, <1>7 DEF RecordInv, NoLateLine
<1>10. ViewsShown'
  <2>1. \A k \in Keys : /\ Stored(k)' = Stored(k) /\ Viewed(k)' = Viewed(k)
                       /\ Stored(k) \subseteq Viewed(k) /\ Absent \in Stored(k)
    BY <1>2, WriteStays DEF Stored, Viewed
  <2>2. \A x \in Writers, k \in Keys : map'[x][k] \in {map[x][k], main[k], Absent}
    BY DEF Calm, EmptyMap
  <2>3. \A x \in Writers, k \in Keys : mem'[x][k] \in {mem[x][k], map[x][k], Absent}
    BY DEF Calm
  <2> QED
    BY <1>2, <2>1, <2>2, <2>3 DEF RecordInv, ViewsShown
<1>11. FoldsNewest'
  <2>1. Newest(main, committed)'
    BY <1>2 DEF RecordInv, FoldsNewest, Newest
  <2>2. ASSUME NEW x \in Writers, lock' = x PROVE Newest(map[x], Gathered(x))'
    <3>1. CASE map'[x] = map[x] /\ lock = x
      BY <1>2, <1>7, <2>2, <3>1 DEF RecordInv, FoldsNewest, Newest
    <3>2. CASE map'[x] = main /\ captured'[x] = {}
      BY <1>2, <2>1, <3>2 DEF Newest, Gathered
    <3>3. CASE map'[x] = EmptyMap
      BY <3>3 DEF Newest, EmptyMap
    <3> QED
      BY <2>2, <3>1, <3>2, <3>3 DEF Calm
  <2> QED
    BY <2>1, <2>2 DEF FoldsNewest
<1> QED
  BY <1>1, <1>4, <1>5, <1>6, <1>8, <1>9, <1>10, <1>11 DEF RecordInv

\* Unlinking a log empties it and touches no other.
LEMMA UnlinkEmpties ==
  ASSUME RecordTypes, NEW x, UnlinkSidecar(x) \/ UNCHANGED <<logs, lines, torn>>
  PROVE  /\ lines' \in [Writers -> Seq(Nat)] /\ torn' \subseteq logs'
         /\ \A y \in Writers : lines'[y] = lines[y] \/ lines'[y] = <<>>
<1>1. CASE UnlinkSidecar(x)
  <2>1. lines' = [lines EXCEPT ![x] = <<>>] /\ DOMAIN lines = Writers
    BY <1>1 DEF UnlinkSidecar, RecordTypes
  <2>2. \A y \in Writers : lines'[y] = lines[y] \/ lines'[y] = <<>>
    BY <2>1
  <2>3. lines' = [y \in Writers |-> lines'[y]]
    BY <2>1
  <2>4. \A y \in Writers : lines'[y] \in Seq(Nat)
    <3>1. lines \in [Writers -> Seq(Nat)] /\ <<>> \in Seq(Nat)
      BY DEF RecordTypes
    <3> QED
      BY <2>2, <3>1
  <2>5. lines' \in [Writers -> Seq(Nat)]
    BY <2>3, <2>4
  <2> QED
    BY <1>1, <2>2, <2>5 DEF UnlinkSidecar, RecordTypes
<1>2. CASE UNCHANGED <<logs, lines, torn>>
  BY <1>2 DEF RecordTypes
<1> QED
  BY <1>1, <1>2

\* Every step that commits, writes and folds nothing is calm.
LEMMA CalmSteps ==
  ASSUME ControlTypeOK, LockPhase, RecordInv, NEW w \in Writers
  PROVE  /\ Open(w) \/ FlushCall(w) \/ FlushLock(w) \/ Crash(w) => Calm(w)
         /\ Companions(w) \/ AppendFails(w) \/ ReplaceFails(w) => Calm(w)
         /\ Load(w) => FoldNext(w) \/ Calm(w)
         /\ Reap(w) \/ Sweep(w) => Calm(w)
<1> USE NoWriterAssumption
    DEF ControlTypeOK, To, bounds, store, scan, history, Due, EmptyMap, Absent
<1>0. RecordTypes /\ 0 \in Records
  BY BoundsAssumption DEF RecordInv, Records
<1>1. ASSUME Open(w) PROVE Calm(w)
  BY <1>0, <1>1, SMTT(30)
  DEF Open, ReadMain, Calm, RecordTypes, LockPhase, Reaps, Sweeps
<1>2. ASSUME FlushCall(w) PROVE Calm(w)
  BY <1>0, <1>2, SMTT(30)
  DEF FlushCall, Calm, RecordTypes, LockPhase, Reaps, Sweeps
<1>3. ASSUME FlushLock(w) PROVE Calm(w)
  BY <1>0, <1>3, SMTT(30)
  DEF FlushLock, ReadMain, Calm, RecordTypes, LockPhase, Reaps, Sweeps
<1>4. ASSUME List(w) PROVE Calm(w)
  BY <1>0, <1>4, SMTT(30) DEF List, Calm, RecordTypes, LockPhase, Reaps, Sweeps
<1>5. ASSUME LoadFails(w) PROVE Calm(w)
  BY <1>0, <1>5, SMTT(30)
  DEF LoadFails, Forget, Calm, RecordTypes, LockPhase, Reaps, Sweeps
<1>6. ASSUME FoldUnreadable(w) PROVE Calm(w)
  BY <1>0, <1>6, SMTT(30)
  DEF FoldUnreadable, Calm, RecordTypes, LockPhase, Reaps, Sweeps
<1>7. ASSUME OpenDone(w) PROVE Calm(w)
  BY <1>0, <1>7, SMTT(30)
  DEF OpenDone, Opened, Forget, Calm, RecordTypes, LockPhase, Reaps, Sweeps
<1>8. ASSUME EnsureLifelock(w) PROVE Calm(w)
  BY <1>0, <1>8, SMTT(30)
  DEF EnsureLifelock, Calm, RecordTypes, LockPhase, Reaps, Sweeps
<1>9. ASSUME OpenCompanion(w) PROVE Calm(w)
  BY <1>0, <1>9, SMTT(30)
  DEF OpenCompanion, Calm, RecordTypes, LockPhase, Reaps, Sweeps
<1>10. ASSUME FlockCompanion(w) PROVE Calm(w)
  BY <1>0, <1>10, SMTT(30)
  DEF FlockCompanion, Calm, RecordTypes, LockPhase, Reaps, Sweeps
<1>11. ASSUME AppendFails(w) PROVE Calm(w)
  BY <1>0, <1>11, SMTT(30)
  DEF AppendFails, Calm, RecordTypes, LockPhase, Reaps, Sweeps
<1>12. ASSUME ReplaceFails(w) PROVE Calm(w)
  BY <1>0, <1>12, SMTT(30)
  DEF ReplaceFails, Forget, Calm, RecordTypes, LockPhase, Reaps, Sweeps
<1>13. ASSUME ReapOwn(w) PROVE Calm(w)
  <2>1. UnlinkSidecar(w) \/ UNCHANGED <<logs, lines, torn>>
    BY <1>13 DEF ReapOwn
  <2>2. /\ lines' \in [Writers -> Seq(Nat)] /\ torn' \subseteq logs'
        /\ \A y \in Writers : lines'[y] = lines[y] \/ lines'[y] = <<>>
    BY <1>0, <2>1, UnlinkEmpties
  <2>3. /\ UNCHANGED <<main, lock, pending, mem, map, captured, hist, acked,
                      committed, keysThen>>
        /\ \A y \in Writers : pc'[y] \in Due => pc[y] \in Due
    BY <1>13 DEF ReapOwn
  <2> QED
    BY <1>0, <2>2, <2>3 DEF Calm, RecordTypes
<1>14. ASSUME SkipPeer(w) PROVE Calm(w)
  BY <1>0, <1>14, SMTT(30)
  DEF SkipPeer, Reaping, Calm, RecordTypes, LockPhase, Reaps, Sweeps
<1>15. ASSUME ProbePeer(w) PROVE Calm(w)
  BY <1>0, <1>15, SMTT(30)
  DEF ProbePeer, Reaping, Calm, RecordTypes, LockPhase, Reaps, Sweeps
<1>16. ASSUME UnlinkPeerLog(w) PROVE Calm(w)
  <2>1. UnlinkSidecar(Candidate(w)) \/ UNCHANGED <<logs, lines, torn>>
    BY <1>16 DEF UnlinkPeerLog
  <2>2. /\ lines' \in [Writers -> Seq(Nat)] /\ torn' \subseteq logs'
        /\ \A y \in Writers : lines'[y] = lines[y] \/ lines'[y] = <<>>
    BY <1>0, <2>1, UnlinkEmpties
  <2>3. /\ UNCHANGED <<main, lock, pending, mem, map, captured, hist, acked,
                      committed, keysThen>>
        /\ \A y \in Writers : pc'[y] \in Due => pc[y] \in Due
    BY <1>16 DEF UnlinkPeerLog
  <2> QED
    BY <1>0, <2>2, <2>3 DEF Calm, RecordTypes
<1>17. ASSUME UnlinkPeerComp(w) PROVE Calm(w)
  BY <1>0, <1>17, SMTT(30)
  DEF UnlinkPeerComp, DropCompanion, Calm, RecordTypes, LockPhase, Reaps, Sweeps
<1>18. ASSUME ReapDone(w) PROVE Calm(w)
  BY <1>0, <1>18, SMTT(30)
  DEF ReapDone, Calm, RecordTypes, LockPhase, Reaps, Sweeps
<1>19. ASSUME SkipOrphan(w) PROVE Calm(w)
  BY <1>0, <1>19, SMTT(30)
  DEF SkipOrphan, Calm, RecordTypes, LockPhase, Reaps, Sweeps
<1>20. ASSUME ProbeOrphan(w) PROVE Calm(w)
  BY <1>0, <1>20, SMTT(30)
  DEF ProbeOrphan, Calm, RecordTypes, LockPhase, Reaps, Sweeps
<1>21. ASSUME UnlinkOrphan(w) PROVE Calm(w)
  BY <1>0, <1>21, SMTT(30)
  DEF UnlinkOrphan, DropCompanion, Calm, RecordTypes, LockPhase, Reaps, Sweeps
<1>22. ASSUME FlushDone(w) PROVE Calm(w)
  BY <1>0, <1>22, SMTT(30)
  DEF FlushDone, DropCompanion, Forget, Calm, RecordTypes, LockPhase, Reaps,
      Sweeps
<1>23. ASSUME Crash(w) PROVE Calm(w)
  BY <1>0, <1>23, SMTT(30)
  DEF Crash, Forget, Calm, RecordTypes, LockPhase, Reaps, Sweeps
<1> QED
  BY <1>1, <1>2, <1>3, <1>4, <1>5, <1>6, <1>7, <1>8, <1>9, <1>10, <1>11, <1>12,
     <1>13, <1>14, <1>15, <1>16, <1>17, <1>18, <1>19, <1>20, <1>21, <1>22, <1>23
  DEF Companions, Load, Reap, Sweep

\* What a write makes of its id.
Value(n) == IF hist[n].kind = "remove" THEN Absent ELSE n

\* A bounded set of positive numbers has a greatest one.
LEMMA GreatestIn ==
  ASSUME NEW N \in Nat, NEW S \in SUBSET (1..N), S # {}
  PROVE  Greatest(S) \in S /\ \A y \in S : y <= Greatest(S)
<1> DEFINE U == {b \in Nat : \A y \in S : y <= b}
           R == {p \in Nat \X Nat : p[1] < p[2]}
<1>1. IsWellFoundedOn(R, Nat)
  BY NatLessThanWellFounded DEF OpToRel
<1>2. N \in U /\ U \subseteq Nat
  OBVIOUS
<1>3. \A x, y \in Nat : x < y => <<x, y>> \in R
  OBVIOUS
<1> HIDE DEF R
<1>4. PICK b \in U : \A y \in U : ~(<<y, b>> \in R)
  BY <1>1, <1>2, WFMin
<1>5. b \in S
  <2>1. SUFFICES ASSUME b \notin S PROVE FALSE
    OBVIOUS
  <2>2. b \in Nat /\ \A y \in S : y \in Nat /\ y <= b /\ y # b /\ y >= 1
    BY <2>1
  <2>5. b - 1 \in Nat
    <3>1. PICK y \in S : TRUE
      OBVIOUS
    <3>2. b >= 1
      BY <2>2, <3>1
    <3> QED
      BY <2>2, <3>2
  <2>3. b - 1 \in U
    BY <2>2, <2>5
  <2>4. <<b - 1, b>> \in R
    BY <1>3, <2>2, <2>3
  <2> QED
    BY <1>4, <2>3, <2>4
<1>6. \A y \in S : y <= b
  OBVIOUS
<1> HIDE DEF U
<1> QED
  BY <1>5, <1>6 DEF Greatest

\* A replayed log leaves an id it does not name as it was, and makes of any other what
\* its owner's latest write to it says.
LEMMA FoldedLog ==
  ASSUME RecordInv, NEW x \in Writers, NEW m \in [Keys -> Nat]
  PROVE  /\ FoldSidecar(m, lines[x]) \in [Keys -> Nat]
         /\ \A k \in Keys :
              \/ /\ \A n \in ToSet(lines[x]) : hist[n].id # k
                 /\ FoldSidecar(m, lines[x])[k] = m[k]
              \/ \E n \in ToSet(lines[x]) :
                   /\ hist[n].id = k /\ FoldSidecar(m, lines[x])[k] = Value(n)
                   /\ \A j \in ToSet(lines[x]) : hist[j].id = k => j <= n
<1> DEFINE ls == lines[x]
           F == FoldSidecar(m, ls)
<1>1. ls \in Seq(Nat) /\ ToSet(ls) \subseteq DOMAIN hist
  BY DEF RecordInv, RecordTypes, LinesOwned
<1>2. \A i, j \in DOMAIN ls : i < j => ls[i] < ls[j]
  BY DEF RecordInv, Ascending
<1> HIDE DEF ls
<1>3. ASSUME NEW k \in Keys
      PROVE  /\ F[k] \in Nat
             /\ \/ /\ \A n \in ToSet(ls) : hist[n].id # k
                   /\ F[k] = m[k]
                \/ \E n \in ToSet(ls) :
                     /\ hist[n].id = k /\ F[k] = Value(n)
                     /\ \A j \in ToSet(ls) : hist[j].id = k => j <= n
  <2> DEFINE N == Naming(ls, k)
  <2>1. N \in SUBSET (1..Len(ls)) /\ Len(ls) \in Nat
    BY <1>1 DEF Naming
  <2>2. CASE N = {}
    <3>1. F[k] = m[k]
      BY <2>2 DEF FoldSidecar
    <3>2. \A n \in ToSet(ls) : hist[n].id # k
      BY <2>2 DEF Naming, ToSet
    <3> QED
      BY <3>1, <3>2
  <2>3. CASE N # {}
    <3> DEFINE g == Greatest(N)
               n == ls[g]
    <3>1. g \in N /\ \A i \in N : i <= g
      BY <2>1, <2>3, GreatestIn
    <3>2. F[k] = FoldLine(m, n)[k]
      BY <2>3 DEF FoldSidecar
    <3> HIDE DEF g
    <3>3. g \in DOMAIN ls /\ hist[n].id = k
      BY <3>1 DEF Naming
    <3>4. n \in ToSet(ls) /\ n \in Nat
      BY <1>1, <3>3 DEF ToSet
    <3>5. F[k] = Value(n)
      BY <3>2, <3>3 DEF FoldLine, Value
    <3>6. ASSUME NEW j \in ToSet(ls), hist[j].id = k PROVE j <= n
      <4>1. PICK i \in DOMAIN ls : ls[i] = j
        BY DEF ToSet
      <4>2. i \in N /\ i <= g
        BY <3>1, <3>6, <4>1 DEF Naming
      <4> QED
        BY <1>1, <1>2, <2>1, <3>3, <3>4, <4>1, <4>2
    <3>7. F[k] \in Nat
      BY <3>4, <3>5 DEF Value, Absent
    <3> QED
      BY <3>3, <3>4, <3>5, <3>6, <3>7
  <2> QED
    BY <2>2, <2>3
<1>4. F = [k \in Keys |-> F[k]]
  BY DEF FoldSidecar
<1> HIDE DEF F
<1>5. F \in [Keys -> Nat]
  BY <1>3, <1>4
<1> QED
  BY <1>3, <1>5 DEF F, ls

\* Writes are numbered from 1.
LEMMA HistDomain ==
  ASSUME RecordTypes
  PROVE  /\ DOMAIN hist = 1..Len(hist) /\ Len(hist) \in Nat /\ DOMAIN hist \subseteq Nat
         /\ \A n \in DOMAIN hist : hist[n] \in [w : Writers, id : Keys, kind : Kinds]
<1> DEFINE R == [w : Writers, id : Keys, kind : Kinds]
<1>1. hist \in Seq(R)
  BY DEF RecordTypes
<1> HIDE DEF R
<1>2. /\ DOMAIN hist = 1..Len(hist) /\ Len(hist) \in Nat /\ DOMAIN hist \subseteq Nat
      /\ \A n \in DOMAIN hist : hist[n] \in R
  BY <1>1
<1> QED
  BY <1>2 DEF R

\* What the writes that happened are, after one more.
LEMMA OneMoreWrite ==
  ASSUME RecordTypes, NEW w \in Writers, NEW k \in Keys, NEW kind \in Kinds,
         hist' = Append(hist, [w |-> w, id |-> k, kind |-> kind])
  PROVE  LET n == Len(hist) + 1 IN
         /\ n \in Nat /\ DOMAIN hist \subseteq Nat
         /\ hist' \in Seq([w : Writers, id : Keys, kind : Kinds])
         /\ Len(hist') = n /\ DOMAIN hist' = DOMAIN hist \cup {n}
         /\ n \notin DOMAIN hist /\ \A m \in DOMAIN hist : m < n /\ hist'[m] = hist[m]
         /\ hist'[n].w = w /\ hist'[n].id = k /\ hist'[n].kind = kind
         /\ \A m \in DOMAIN hist : Persistent(m)' <=> Persistent(m)
         /\ \A x : /\ Persisted(x) \subseteq DOMAIN hist
                   /\ Persisted(x)' =
                        Persisted(x) \cup (IF x = w /\ kind # "ephemeral" THEN {n} ELSE {})
         /\ \A j : Stored(j) \subseteq Stored(j)' /\ Viewed(j) \subseteq Viewed(j)'
         /\ n \in Viewed(k)'
<1> DEFINE R == [w : Writers, id : Keys, kind : Kinds]
           e == [w |-> w, id |-> k, kind |-> kind]
           n == Len(hist) + 1
<1>1. hist \in Seq(R) /\ e \in R /\ hist' = Append(hist, e)
  BY DEF RecordTypes
<1>2. e.w = w /\ e.id = k /\ e.kind = kind
  OBVIOUS
<1> HIDE DEF R, e
<1>3. /\ n \in Nat /\ DOMAIN hist \subseteq Nat /\ hist' \in Seq(R)
      /\ Len(hist') = n /\ DOMAIN hist' = DOMAIN hist \cup {n}
      /\ n \notin DOMAIN hist /\ \A m \in DOMAIN hist : m < n /\ hist'[m] = hist[m]
      /\ hist'[n] = e
  BY <1>1
<1> HIDE DEF n
<1>4. \A m \in DOMAIN hist : Persistent(m)' <=> Persistent(m)
  BY <1>3 DEF Persistent
<1>5. hist'[n].w = w /\ hist'[n].id = k /\ hist'[n].kind = kind
  BY <1>2, <1>3
<1>6. \A x : /\ Persisted(x) \subseteq DOMAIN hist
             /\ Persisted(x)' =
                  Persisted(x) \cup (IF x = w /\ kind # "ephemeral" THEN {n} ELSE {})
  BY <1>3, <1>4, <1>5 DEF Persisted, Persistent
<1>7. \A j : Stored(j) \subseteq Stored(j)' /\ Viewed(j) \subseteq Viewed(j)'
  BY <1>3, <1>4 DEF Stored, Viewed
<1>8. n \in Viewed(k)'
  BY <1>2, <1>3 DEF Viewed
<1> QED
  BY <1>2, <1>3, <1>4, <1>6, <1>7, <1>8 DEF n, R

\* Every step keeps RecordInv, over any host and with any failing calls.
LEMMA RecordStep ==
  ASSUME ControlTypeOK, LockPhase, RecordInv, [Next]_vars PROVE RecordInv'
<1> USE DEF To, scan, Due
<1>0. RecordTypes
  BY DEF RecordInv
<1>7. DOMAIN hist \subseteq Nat
  BY <1>0, HistDomain
<1>1. ASSUME NEW w \in Writers, NEW k \in Keys, NEW kind \in Kinds,
              Write(w, k, kind)
      PROVE  RecordInv'
  <2> DEFINE n == Len(hist) + 1
  <2>1. hist' = Append(hist, [w |-> w, id |-> k, kind |-> kind])
    BY <1>1 DEF Write
  <2>2. /\ n \in Nat /\ DOMAIN hist \subseteq Nat
        /\ hist' \in Seq([w : Writers, id : Keys, kind : Kinds])
        /\ Len(hist') = n /\ DOMAIN hist' = DOMAIN hist \cup {n}
        /\ n \notin DOMAIN hist /\ \A m \in DOMAIN hist : m < n /\ hist'[m] = hist[m]
        /\ hist'[n].w = w /\ hist'[n].id = k
        /\ \A m \in DOMAIN hist : Persistent(m)' <=> Persistent(m)
        /\ \A j : Stored(j) \subseteq Stored(j)' /\ Viewed(j) \subseteq Viewed(j)'
        /\ n \in Viewed(k)'
    BY <1>0, <2>1, OneMoreWrite
  <2>3. \A x : /\ Persisted(x) \subseteq DOMAIN hist
               /\ Persisted(x)' =
                    Persisted(x) \cup (IF x = w /\ kind # "ephemeral" THEN {n} ELSE {})
    BY <1>0, <2>1, OneMoreWrite
  <2>4. /\ n <= MaxWrites /\ pc[w] = "idle"
        /\ mem' = [mem EXCEPT ![w][k] = IF kind = "remove" THEN Absent ELSE n]
        /\ UNCHANGED <<main, logs, lines, torn, lock, map, captured, committed, keysThen>>
    BY <1>1 DEF Write, store
  <2>5. \/ /\ acked' = acked \cup {n} /\ UNCHANGED <<pc, pending>>
        \/ /\ UNCHANGED acked /\ kind # "ephemeral"
           /\ pending' = [pending EXCEPT ![w] = n]
           /\ \E p \in Due : pc' = [pc EXCEPT ![w] = p]
    BY <1>1 DEF Write, StopsInMemory
  <2> HIDE DEF n
  <2>6. RecordTypes'
    <3>1. mem' \in [Writers -> [Keys -> Nat]]
      BY <1>0, <2>2, <2>4 DEF RecordTypes, Absent
    <3>2. pending' \in [Writers -> Records]
      <4>1. n \in Records
        BY <2>2, <2>4, BoundsAssumption DEF Records
      <4> QED
        BY <1>0, <2>5, <4>1 DEF RecordTypes
    <3>3. acked' \subseteq DOMAIN hist' /\ Len(hist') <= MaxWrites
      BY <1>0, <2>2, <2>4, <2>5 DEF RecordTypes
    <3> QED
      BY <1>0, <2>2, <2>4, <3>1, <3>2, <3>3 DEF RecordTypes
  <2>7. AppendDue'
    <3> SUFFICES ASSUME NEW x \in Writers, pc'[x] \in Due
                 PROVE  /\ pending'[x] \in Persisted(x)' \ acked'
                        /\ \A j \in Persisted(x)' : j <= pending'[x]
      BY DEF AppendDue
    <3>1. CASE x = w
      <4>1. /\ UNCHANGED acked /\ kind # "ephemeral"
            /\ pending' = [pending EXCEPT ![w] = n]
        BY <2>4, <2>5, <3>1
      <4>2. pending'[w] = n /\ acked \subseteq DOMAIN hist
        BY <1>0, <4>1 DEF RecordTypes
      <4> QED
        BY <2>2, <2>3, <3>1, <4>1, <4>2
    <3>2. CASE x # w
      <4>1. pc'[x] = pc[x] /\ pending'[x] = pending[x] /\ acked' \subseteq acked \cup {n}
        BY <1>0, <2>5, <3>2 DEF ControlTypeOK, RecordTypes
      <4>2. Persisted(x)' = Persisted(x)
        BY <2>3, <3>2
      <4>3. pending[x] \in Persisted(x) \ acked /\ \A j \in Persisted(x) : j <= pending[x]
        BY <4>1 DEF RecordInv, AppendDue
      <4> QED
        BY <2>2, <2>3, <4>1, <4>2, <4>3
    <3> QED
      BY <3>1, <3>2
  <2>8. LinesOwned' /\ Ascending'
    BY <2>3, <2>4, <2>5 DEF RecordInv, LinesOwned, Ascending
  <2>9. \A x \in Writers : Gathered(x)' = Gathered(x) /\ Gathered(x) \subseteq DOMAIN hist
    BY <1>0, <2>4 DEF Gathered, RecordInv, GatheredKept, RecordTypes
  <2>10. GatheredKept'
    <3>1. committed' \subseteq DOMAIN hist
      BY <1>0, <2>4 DEF RecordInv, GatheredKept, RecordTypes
    <3> QED
      BY <2>2, <2>4, <2>5, <2>9, <3>1 DEF RecordInv, GatheredKept
  <2>11. NoLateLine'
    BY <2>2, <2>4, <2>9 DEF RecordInv, NoLateLine
  <2>12. ViewsShown'
    <3>1. ASSUME NEW x \in Writers, NEW j \in Keys PROVE mem'[x][j] \in Viewed(j)'
      <4>1. CASE x = w /\ j = k
        BY <1>0, <2>2, <2>4, <4>1 DEF RecordTypes, Viewed
      <4>2. CASE ~(x = w /\ j = k)
        <5>1. mem'[x][j] = mem[x][j]
          BY <1>0, <2>4, <4>2 DEF RecordTypes
        <5> QED
          BY <2>2, <5>1 DEF RecordInv, ViewsShown
      <4> QED
        BY <4>1, <4>2
    <3> QED
      BY <2>2, <2>4, <3>1 DEF RecordInv, ViewsShown
  <2>13. FoldsNewest'
    <3>1. \A f \in {main} \cup {map[x] : x \in Writers}, j \in Keys :
            f[j] # Absent => f[j] \in DOMAIN hist
      BY DEF RecordInv, ViewsShown, Stored
    <3>2. committed \subseteq DOMAIN hist
      BY <1>0 DEF RecordInv, GatheredKept, Gathered, RecordTypes
    <3>3. Newest(main, committed)'
      BY <2>2, <2>4, <3>1, <3>2 DEF RecordInv, FoldsNewest, Newest
    <3>4. \A x \in Writers : lock = x => Newest(map[x], Gathered(x))'
      BY <2>2, <2>4, <2>9, <3>1 DEF RecordInv, FoldsNewest, Newest
    <3> QED
      BY <2>4, <3>3, <3>4 DEF FoldsNewest
  <2> QED
    BY <2>6, <2>7, <2>8, <2>10, <2>11, <2>12, <2>13 DEF RecordInv
<1>2. ASSUME NEW w \in Writers, AppendLine(w) PROVE RecordInv'
  <2> DEFINE n == pending[w]
  <2>1. /\ pc[w] = "append" /\ pc' = [pc EXCEPT ![w] = "idle"]
        /\ logs' = logs \cup {w} /\ torn' = torn \ {w} /\ acked' = acked \cup {n}
        /\ lines' = [lines EXCEPT ![w] =
                       IF w \in torn THEN lines[w] ELSE Append(lines[w], n)]
        /\ pending' = [pending EXCEPT ![w] = 0]
        /\ UNCHANGED <<main, lock, mem, map, captured, hist, committed, keysThen>>
    BY <1>2 DEF AppendLine
  <2>2. n \in Persisted(w) \ acked /\ \A j \in Persisted(w) : j <= n
    BY <2>1 DEF RecordInv, AppendDue
  <2>3. n \in DOMAIN hist /\ n \in Nat /\ hist[n].w = w /\ Persistent(n)
    BY <1>7, <2>2 DEF Persisted
  <2> HIDE DEF n
  <2>4. /\ \A m : Persistent(m)' <=> Persistent(m)
        /\ \A x : Persisted(x)' = Persisted(x)
        /\ \A j : Stored(j)' = Stored(j) /\ Viewed(j)' = Viewed(j)
    BY <2>1, WriteStays
  <2>5. \A x \in Writers : ToSet(lines'[x]) =
          ToSet(lines[x]) \cup (IF x = w /\ w \notin torn THEN {n} ELSE {})
    BY <1>0, <2>1, <2>3, ToSetAppend DEF RecordTypes
  <2>6. RecordTypes'
    <3>1. 0 \in Records /\ \A x \in Writers : lines[x] \in Seq(Nat)
      BY <1>0, BoundsAssumption DEF Records, RecordTypes
    <3>2. lines' \in [Writers -> Seq(Nat)]
      BY <1>0, <2>1, <2>3, <3>1 DEF RecordTypes
    <3> QED
      BY <1>0, <2>1, <2>3, <3>1, <3>2 DEF RecordTypes
  <2>7. AppendDue'
    <3> SUFFICES ASSUME NEW x \in Writers, pc'[x] \in Due
                 PROVE  /\ pending'[x] \in Persisted(x) \ acked'
                        /\ \A j \in Persisted(x) : j <= pending'[x]
      BY <2>4 DEF AppendDue
    <3>1. x # w /\ pc'[x] = pc[x] /\ pending'[x] = pending[x]
      BY <1>0, <2>1 DEF ControlTypeOK, RecordTypes
    <3>2. n \notin Persisted(x)
      BY <2>3, <3>1 DEF Persisted
    <3> QED
      BY <2>1, <3>1, <3>2 DEF RecordInv, AppendDue
  <2>8. LinesOwned'
    BY <2>1, <2>2, <2>4, <2>5 DEF RecordInv, LinesOwned
  <2>9. Ascending'
    <3> SUFFICES ASSUME NEW i \in DOMAIN lines'[w], NEW j \in DOMAIN lines'[w], i < j
                 PROVE  lines'[w][i] < lines'[w][j]
      BY <1>0, <2>1 DEF RecordInv, Ascending, RecordTypes
    <3>1. CASE w \in torn
      BY <1>0, <2>1, <3>1 DEF RecordInv, Ascending, RecordTypes
    <3>2. CASE w \notin torn
      <4> DEFINE s == lines[w]
      <4>1. lines'[w] = Append(s, n) /\ s \in Seq(Nat)
        BY <1>0, <2>1, <3>2 DEF RecordTypes
      <4>2. \A p, q \in DOMAIN s : p < q => s[p] < s[q]
        BY DEF RecordInv, Ascending
      <4>3. \A p \in DOMAIN s : s[p] \in Persisted(w) \cap acked
        BY DEF RecordInv, LinesOwned, ToSet
      <4>4. \A p \in DOMAIN s : s[p] \in Nat /\ s[p] <= n /\ s[p] # n
        BY <2>2, <4>1, <4>3
      <4> HIDE DEF s
      <4>5. i \in 1..Len(s) + 1 /\ j \in 1..Len(s) + 1 /\ Len(s) \in Nat
            /\ DOMAIN s = 1..Len(s)
        BY <4>1
      <4>6. i \in DOMAIN s
        BY <4>5
      <4>7. CASE j \in DOMAIN s
        BY <4>1, <4>2, <4>6, <4>7
      <4>8. CASE j = Len(s) + 1
        BY <2>3, <4>1, <4>4, <4>6, <4>8
      <4> QED
        BY <4>5, <4>7, <4>8
    <3> QED
      BY <3>1, <3>2
  <2>10. \A x \in Writers : Gathered(x)' = Gathered(x)
    BY <2>1 DEF Gathered
  <2>11. GatheredKept'
    BY <2>1, <2>4, <2>10 DEF RecordInv, GatheredKept
  <2>12. NoLateLine'
    <3> SUFFICES ASSUME NEW y \in Writers, NEW x \in Writers,
                        NEW l \in ToSet(lines'[y]), NEW m \in Gathered(x),
                        hist[m].w = y, l < m
                 PROVE  m \in ToSet(lines'[y])
      BY <2>1, <2>10 DEF NoLateLine
    <3>1. CASE l \in ToSet(lines[y])
      BY <2>5, <3>1 DEF RecordInv, NoLateLine
    <3>2. CASE l = n /\ y = w
      <4>1. m \in Persisted(w)
        BY <1>0, <3>2 DEF RecordInv, GatheredKept, Persisted, RecordTypes
      <4>2. m \in Nat /\ m <= n
        BY <1>7, <2>2, <4>1 DEF Persisted
      <4> QED
        BY <2>3, <3>2, <4>2
    <3> QED
      BY <2>5, <3>1, <3>2
  <2>13. ViewsShown' /\ FoldsNewest'
    BY <2>1, <2>4, <2>10 DEF RecordInv, ViewsShown, FoldsNewest, Newest
  <2> QED
    BY <2>6, <2>7, <2>8, <2>9, <2>11, <2>12, <2>13 DEF RecordInv
<1>3. ASSUME NEW w \in Writers, FoldNext(w) PROVE RecordInv'
  <2> DEFINE x == Least(todo[w])
             F == FoldSidecar(map[w], lines[x])
  <2>1. x \in Writers
    BY <1>3, LeastIn DEF FoldNext, ControlTypeOK
  <2>2. /\ map' = [map EXCEPT ![w] = F]
        /\ captured' = [captured EXCEPT ![w] = @ \cup ToSet(lines[x])]
        /\ UNCHANGED <<main, logs, lines, torn, lock, pc, pending, mem, hist, acked,
                       committed, keysThen>>
    BY <1>3 DEF FoldNext, store, history
  <2> HIDE DEF x
  <2>3. map[w] \in [Keys -> Nat]
    BY <1>0 DEF RecordTypes
  <2>4. F \in [Keys -> Nat]
    BY <2>1, <2>3, FoldedLog
  <2>5. \A k \in Keys :
          \/ (\A n \in ToSet(lines[x]) : hist[n].id # k) /\ F[k] = map[w][k]
          \/ \E n \in ToSet(lines[x]) :
               /\ hist[n].id = k /\ F[k] = Value(n)
               /\ \A j \in ToSet(lines[x]) : hist[j].id = k => j <= n
    BY <2>1, <2>3, FoldedLog
  <2>6. /\ \A m : Persistent(m)' <=> Persistent(m)
        /\ \A z : Persisted(z)' = Persisted(z)
        /\ \A j : Stored(j)' = Stored(j) /\ Viewed(j)' = Viewed(j)
    BY <2>2, WriteStays
  <2>7. ToSet(lines[x]) \subseteq acked \cap Persisted(x)
    BY <2>1 DEF RecordInv, LinesOwned
  <2>8. \A n \in ToSet(lines[x]) :
          n \in DOMAIN hist /\ n \in Nat /\ hist[n].w = x /\ Persistent(n)
    BY <1>7, <2>7 DEF Persisted
  <2> HIDE DEF F
  <2>9. RecordTypes'
    BY <1>0, <2>2, <2>4, <2>8 DEF RecordTypes
  <2>10. AppendDue' /\ LinesOwned' /\ Ascending'
    BY <2>2, <2>6 DEF RecordInv, AppendDue, LinesOwned, Ascending
  <2>11. \A y \in Writers :
           Gathered(y)' = Gathered(y) \cup (IF y = w THEN ToSet(lines[x]) ELSE {})
    BY <1>0, <2>2 DEF Gathered, RecordTypes
  <2>12. GatheredKept'
    BY <2>2, <2>6, <2>7, <2>8, <2>11 DEF RecordInv, GatheredKept
  <2>13. NoLateLine'
    BY <2>2, <2>8, <2>11 DEF RecordInv, NoLateLine
  <2>14. ViewsShown'
    <3>1. ASSUME NEW k \in Keys PROVE F[k] \in Stored(k)
      <4>1. map[w][k] \in Stored(k)
        BY DEF RecordInv, ViewsShown
      <4>2. \A n \in ToSet(lines[x]) : hist[n].id = k => Value(n) \in Stored(k)
        BY <2>8 DEF Value, Stored
      <4> QED
        BY <2>5, <4>1, <4>2
    <3> QED
      BY <1>0, <2>2, <2>6, <3>1 DEF RecordInv, ViewsShown, RecordTypes
  <2>15. FoldsNewest'
    <3>1. ASSUME lock = w, NEW k \in Keys, F[k] # Absent, NEW m \in Gathered(w)',
                 hist[m].w = hist[F[k]].w, hist[m].id = k
          PROVE  m <= F[k]
      <4>1. CASE (\A n \in ToSet(lines[x]) : hist[n].id # k) /\ F[k] = map[w][k]
        <5>1. m \in Gathered(w)
          BY <2>11, <3>1, <4>1
        <5> QED
          BY <3>1, <4>1, <5>1 DEF RecordInv, FoldsNewest, Newest
      <4>2. CASE \E n \in ToSet(lines[x]) :
                   /\ hist[n].id = k /\ F[k] = Value(n)
                   /\ \A j \in ToSet(lines[x]) : hist[j].id = k => j <= n
        <5>1. PICK n \in ToSet(lines[x]) :
                /\ hist[n].id = k /\ F[k] = Value(n)
                /\ \A j \in ToSet(lines[x]) : hist[j].id = k => j <= n
          BY <4>2
        <5>2. F[k] = n /\ n \in Nat /\ hist[n].w = x
          BY <2>8, <3>1, <5>1 DEF Value
        <5>3. m \in Nat
          BY <1>0, <2>8, <2>11, <3>1 DEF Gathered, RecordTypes
        <5>4. n < m => m \in ToSet(lines[x])
          BY <2>1, <2>11, <3>1, <5>2 DEF RecordInv, NoLateLine
        <5> QED
          BY <3>1, <5>1, <5>2, <5>3, <5>4
      <4> QED
        BY <2>5, <4>1, <4>2
    <3>2. lock = w => Newest(map[w], Gathered(w))'
      <4>1. map'[w] = F
        BY <1>0, <2>2 DEF RecordTypes
      <4> QED
        BY <2>2, <3>1, <4>1 DEF Newest
    <3>3. \A y \in Writers \ {w} : map'[y] = map[y] /\ Gathered(y)' = Gathered(y)
      BY <1>0, <2>2, <2>11 DEF RecordTypes
    <3> QED
      BY <2>2, <3>2, <3>3 DEF RecordInv, FoldsNewest, Newest
  <2> QED
    BY <2>9, <2>10, <2>12, <2>13, <2>14, <2>15 DEF RecordInv
<1>4. ASSUME NEW w \in Writers, Replace(w) PROVE RecordInv'
  <2>1. /\ lock = w /\ main' = map[w] /\ committed' = committed \cup captured[w]
        /\ pc[w] = "fold" /\ pc' = [pc EXCEPT ![w] = "reap"]
        /\ UNCHANGED <<logs, lines, torn, lock, pending, mem, map, captured, hist, acked,
                       keysThen>>
    BY <1>4 DEF Replace
  <2>2. /\ \A m : Persistent(m)' <=> Persistent(m)
        /\ \A z : Persisted(z)' = Persisted(z)
        /\ \A j : Stored(j)' = Stored(j) /\ Viewed(j)' = Viewed(j)
    BY <2>1, WriteStays
  <2>3. RecordTypes'
    BY <1>0, <2>1 DEF RecordTypes
  <2>4. AppendDue' /\ LinesOwned' /\ Ascending'
    BY <2>1, <2>2 DEF ControlTypeOK, RecordInv, AppendDue, LinesOwned, Ascending
  <2>5. /\ \A x \in Writers : Gathered(x)' \subseteq Gathered(x) \cup Gathered(w)
        /\ committed' = Gathered(w)
    BY <2>1 DEF Gathered
  <2>6. GatheredKept' /\ NoLateLine'
    BY <2>1, <2>2, <2>5 DEF RecordInv, GatheredKept, NoLateLine
  <2>7. ViewsShown'
    BY <2>1, <2>2 DEF RecordInv, ViewsShown
  <2>8. Gathered(w)' = Gathered(w) /\ committed' = Gathered(w)
    BY <2>1 DEF Gathered
  <2>9. FoldsNewest'
    BY <2>1, <2>8 DEF RecordInv, FoldsNewest, Newest
  <2> QED
    BY <2>3, <2>4, <2>6, <2>7, <2>9 DEF RecordInv
<1>5. CASE UNCHANGED vars
  <2>1. RecordTypes'
    BY <1>0, <1>5 DEF vars, store, history, RecordTypes
  <2>2. \A x \in Writers : Gathered(x)' = Gathered(x)
    BY <1>5 DEF vars, history, Gathered
  <2> QED
    BY <1>5, <2>1, <2>2, WriteStays
    DEF vars, store, history, RecordInv, AppendDue, LinesOwned, Ascending,
        GatheredKept, ViewsShown, NoLateLine, FoldsNewest, Newest
<1>6. ASSUME NEW w \in Writers, Calm(w) PROVE RecordInv'
  BY <1>6, CalmStep
<1> QED
  BY <1>1, <1>2, <1>3, <1>4, <1>5, <1>6, CalmSteps DEF Next, Step, Appends, Commit

\* RecordInv and what it rests on, for every behaviour.
LEMMA RecordAlways == Spec => [](ControlTypeOK /\ LockPhase /\ RecordInv)
<1>1. Init => ControlTypeOK /\ LockPhase /\ RecordInv
  BY InitVouch, InitRecord DEF VouchInv
<1>2. ControlTypeOK /\ LockPhase /\ RecordInv /\ [Next]_vars
        => ControlTypeOK' /\ LockPhase' /\ RecordInv'
  BY ControlStep, LockPhaseStep, RecordStep
<1> QED
  BY <1>1, <1>2, PTL DEF Spec

\* A sequence is one over any set that holds its elements.
LEMMA SeqOver ==
  ASSUME NEW s \in Seq(Nat), NEW S, ToSet(s) \subseteq S PROVE s \in Seq(S)
<1>1. s \in [1..Len(s) -> S] /\ Len(s) \in Nat
  BY DEF ToSet
<1> QED
  BY <1>1, SeqDef

\* The whole state keeps its type, and no TTL-0 record ever reaches the main file.
THEOREM TypeCorrect == Spec => []TypeOK
<1>1. ControlTypeOK /\ RecordInv /\ DataInv => TypeOK
  <2> SUFFICES ASSUME ControlTypeOK, RecordInv, DataInv PROVE DataTypeOK
    BY DEF TypeOK
  <2>0. RecordTypes
    BY DEF RecordInv
  <2>1. DOMAIN hist \subseteq 1..MaxWrites
    <3>1. Len(hist) <= MaxWrites
      BY <2>0 DEF RecordTypes
    <3> QED
      BY <2>0, <3>1, HistDomain, BoundsAssumption
  <2>2. \A k \in Keys : Stored(k) \subseteq Records /\ Viewed(k) \subseteq Records
    BY <2>1, BoundsAssumption DEF Stored, Viewed, Records, Absent
  <2>3. main \in Maps /\ mem \in [Writers -> Maps] /\ map \in [Writers -> Maps]
    BY <2>0, <2>2 DEF RecordInv, RecordTypes, ViewsShown, Maps
  <2>4. \A k \in Keys : ~IsEphemeral(main[k])
    BY DEF RecordInv, ViewsShown, Stored, IsEphemeral, Persistent
  <2>5. lines \in [Writers -> Seq(1..MaxWrites)]
    <3>1. \A w \in Writers : lines[w] \in Seq(Nat) /\ ToSet(lines[w]) \subseteq 1..MaxWrites
      BY <2>0, <2>1 DEF RecordInv, RecordTypes, LinesOwned
    <3>2. \A w \in Writers : lines[w] \in Seq(1..MaxWrites)
      BY <3>1, SeqOver
    <3> QED
      BY <2>0, <3>2 DEF RecordTypes
  <2>6. captured \in [Writers -> SUBSET (1..MaxWrites)] /\ committed \subseteq 1..MaxWrites
    <3>1. \A x \in Writers : Gathered(x) \subseteq 1..MaxWrites
      BY <2>0, <2>1 DEF RecordInv, RecordTypes, GatheredKept
    <3>2. \A x \in Writers : captured[x] \subseteq 1..MaxWrites
      BY <3>1 DEF Gathered
    <3>3. captured \in [Writers -> SUBSET (1..MaxWrites)]
      BY <2>0, <3>2 DEF RecordTypes
    <3>4. committed \subseteq 1..MaxWrites
      BY <2>0, <2>1 DEF RecordInv, RecordTypes, GatheredKept
    <3> QED
      BY <3>3, <3>4
  <2> QED
    BY <2>0, <2>1, <2>3, <2>4, <2>5, <2>6 DEF RecordTypes, DataTypeOK, DataInv, DataTypes
<1> QED
  BY <1>1, RecordAlways, DataAlways, PTL

\* A committed id never falls back to an older write of the same writer, over any host
\* and whatever calls fail.
THEOREM OwnOrderKept == Spec => []OwnOrderCommitted
<1>1. RecordInv => OwnOrderCommitted
  <2> SUFFICES ASSUME RecordInv, NEW n \in committed, NEW m \in committed, n < m,
                      hist[n].w = hist[m].w, hist[n].id = hist[m].id,
                      main[hist[n].id] = n
               PROVE  FALSE
    BY DEF OwnOrderCommitted
  <2>0. RecordTypes /\ Newest(main, committed)
    BY DEF RecordInv, FoldsNewest
  <2>1. \A j \in committed : j \in DOMAIN hist /\ j \in Nat
    <3>1. \A j \in committed : j \in acked /\ acked \subseteq DOMAIN hist
      BY <2>0 DEF RecordInv, GatheredKept, RecordTypes
    <3> QED
      BY <2>0, <3>1, HistDomain
  <2>2. hist[n].id \in Keys
    BY <2>0, <2>1, HistDomain
  <2>3. n # Absent
    BY <2>0, <2>1, HistDomain DEF Absent
  <2> QED
    BY <2>0, <2>1, <2>2, <2>3 DEF Newest
<1> QED
  BY <1>1, RecordAlways, PTL

\* Only w has written k; w's acknowledged persistent writes; w's log names k.
Solo(w, k) == \A n \in DOMAIN hist : hist[n].id = k => hist[n].w = w
Kept(w) == acked \cap Persisted(w)
InLog(w, k) == \E n \in ToSet(lines[w]) : hist[n].id = k

\* v is what the latest write to k in S makes of k.
Latest(S, k, v) ==
  \/ v = Absent /\ \A n \in S : hist[n].id # k
  \/ \E n \in S : /\ hist[n].id = k /\ v = Value(n)
                  /\ \A m \in S : hist[m].id = k => m <= n

\* Where a load stands: w is being opened; the flush of x has yet to fold w's log; the
\* flush of w has folded, or reaped, its own.
Opening(w) == pc[w] = "closed" \/ (pc[w] \in {"list", "fold"} /\ lock # w)
YetToFold(x, w) == pc[x] = "list" \/ (pc[x] = "fold" /\ w \notin folded[x])
FoldedOwn(w) == (pc[w] = "fold" /\ w \in folded[w]) \/ pc[w] \in Reaps \cup Sweeps

\* A log holds the latest of its running owner's writes, or none of them.
LogRecent ==
  \A w \in Writers :
    /\ w \notin logs => lines[w] = <<>>
    /\ Alive(w) => \A n \in ToSet(lines[w]), m \in Kept(w) : n < m => m \in ToSet(lines[w])
\* A running writer's persistent writes are acknowledged, but for the pending one, and
\* it has none before it is open.
WritesDone ==
  \A w \in Writers :
    /\ Alive(w) => \A n \in Persisted(w) : n \in acked \/ (pc[w] \in Due /\ n = pending[w])
    /\ Opening(w) => \A n \in DOMAIN hist : hist[n].w # w
\* The main file is what a flush past its commit made it.
MainIsMap == \A w \in Writers : pc[w] \in Reaps \cup Sweeps => main = map[w]
\* For an id only w writes: what the main file holds when w's log does not name it, ...
DiskLatest ==
  \A w \in Writers, k \in Keys :
    Alive(w) /\ Solo(w, k) /\ ~InLog(w, k) => Latest(Kept(w), k, main[k])
\* ... what a peer's fold makes of it as long as it has not seen a line naming it, ...
FoldKeeps ==
  \A x, w \in Writers, k \in Keys :
    (/\ lock = x /\ pc[x] \in {"list", "fold"}
     /\ Alive(w) /\ Solo(w, k)
     /\ YetToFold(x, w) \/ ~InLog(w, k)) => map[x][k] = main[k]
\* ... what w's own fold makes of it, ...
OwnLatest ==
  \A w \in Writers, k \in Keys :
    lock = w /\ FoldedOwn(w) /\ Solo(w, k) => Latest(Kept(w), k, map[w][k])
\* ... and what w sees, whose latest write may be ephemeral or pending.
MemLatest ==
  \A w \in Writers, k \in Keys :
    Alive(w) /\ Solo(w, k) => Latest(DOMAIN hist, k, mem[w][k])

SeqInv ==
  /\ LogRecent /\ WritesDone /\ MainIsMap
  /\ DiskLatest /\ FoldKeeps /\ OwnLatest /\ MemLatest

LEMMA InitSeq == Init => SeqInv
<1> SUFFICES ASSUME Init PROVE SeqInv
  OBVIOUS
<1> USE NoWriterAssumption DEF Init, EmptyMap
<1>1. LogRecent /\ WritesDone /\ MainIsMap
  BY DEF LogRecent, WritesDone, MainIsMap, Persisted, Reaps, Sweeps, ToSet
<1>2. DiskLatest /\ FoldKeeps /\ OwnLatest /\ MemLatest
  BY DEF DiskLatest, FoldKeeps, OwnLatest, MemLatest, Latest, Kept
<1> QED
  BY <1>1, <1>2 DEF SeqInv

\* A step of w that writes, commits, unlinks and folds nothing, and leaves w's view
\* alone unless w is being opened or dies.
Still(w) ==
  /\ UNCHANGED <<hist, acked, main, lines>> /\ logs \subseteq logs'
  /\ \A x \in Writers \ {w} :
       /\ map'[x] = map[x] /\ mem'[x] = mem[x] /\ pending'[x] = pending[x]
       /\ pc'[x] = pc[x] /\ folded'[x] = folded[x]
       /\ lock' = x <=> lock = x
  /\ pc[w] = "dead" => pc'[w] = "dead"
  /\ pc[w] \in Due => pc'[w] = "dead" \/ (pc'[w] \in Due /\ pending'[w] = pending[w])
  /\ Opening(w)' => Opening(w)
  /\ pc'[w] \in Reaps \cup Sweeps => pc[w] \in Reaps \cup Sweeps /\ map'[w] = map[w]
  /\ lock' = w /\ FoldedOwn(w)' => lock = w /\ FoldedOwn(w) /\ map'[w] = map[w]
  /\ lock' = w /\ pc'[w] \in {"list", "fold"} =>
       \/ map'[w] = main
       \/ /\ map'[w] = map[w] /\ lock = w /\ pc[w] \in {"list", "fold"}
          /\ \A x \in Writers : YetToFold(w, x)' => YetToFold(w, x)
  /\ pc'[w] = "dead" \/ mem'[w] = mem[w] \/ (Opening(w) /\ mem'[w] = map[w])

\* A still step keeps SeqInv.
LEMMA StillStep ==
  ASSUME RecordInv, SeqInv, NEW w \in Writers, Still(w) PROVE SeqInv'
<1>1. UNCHANGED hist /\ UNCHANGED acked /\ UNCHANGED main /\ UNCHANGED lines
  BY DEF Still
<1>2. /\ \A x : Persisted(x)' = Persisted(x)
      /\ \A x : Kept(x)' = Kept(x)
      /\ \A x, k : (Solo(x, k)' <=> Solo(x, k)) /\ (InLog(x, k)' <=> InLog(x, k))
  BY <1>1, WriteStays DEF Kept, Solo, InLog
<1>3. \A x \in Writers : /\ Alive(x)' => Alive(x)
                         /\ Opening(x)' => Opening(x)
                         /\ pc'[x] \in Reaps \cup Sweeps =>
                              pc[x] \in Reaps \cup Sweeps /\ map'[x] = map[x]
                         /\ lock' = x /\ FoldedOwn(x)' =>
                              lock = x /\ FoldedOwn(x) /\ map'[x] = map[x]
  BY DEF Still, Alive, Opening, FoldedOwn
<1>4. LogRecent'
  BY <1>1, <1>2, <1>3 DEF Still, SeqInv, LogRecent
<1>5. WritesDone'
  BY <1>1, <1>2, <1>3 DEF Still, SeqInv, WritesDone, Alive
<1>6. MainIsMap'
  BY <1>1, <1>3 DEF SeqInv, MainIsMap
<1>7. DiskLatest'
  BY <1>1, <1>2, <1>3 DEF SeqInv, DiskLatest, Latest, Value
<1>8. OwnLatest'
  BY <1>1, <1>2, <1>3 DEF SeqInv, OwnLatest, Latest, Value
<1>9. FoldKeeps'
  BY <1>1, <1>2, <1>3 DEF Still, SeqInv, FoldKeeps, YetToFold
<1>10. MemLatest'
  <2> SUFFICES ASSUME NEW x \in Writers, NEW k \in Keys, Alive(x)', Solo(x, k)
               PROVE  Latest(DOMAIN hist, k, mem[x][k])'
    BY <1>2 DEF MemLatest
  <2>1. CASE mem'[x] = mem[x]
    BY <1>1, <1>3, <2>1 DEF SeqInv, MemLatest, Latest, Value
  <2>2. CASE Opening(x) /\ mem'[x] = map[x]
    <3>1. \A n \in DOMAIN hist : hist[n].id # k
      BY <2>2 DEF SeqInv, WritesDone, Solo
    <3>2. map[x][k] = Absent
      BY <3>1 DEF RecordInv, ViewsShown, Stored
    <3> QED
      BY <1>1, <2>2, <3>1, <3>2 DEF Latest
  <2> QED
    BY <2>1, <2>2 DEF Still, Alive
<1> QED
  BY <1>4, <1>5, <1>6, <1>7, <1>8, <1>9, <1>10 DEF SeqInv

\* The other steps are still.
LEMMA StillSteps ==
  ASSUME NoTornLines, ControlTypeOK, LockPhase, RecordTypes, NEW w \in Writers
  PROVE  /\ Open(w) \/ FlushCall(w) \/ FlushLock(w) \/ Crash(w) => Still(w)
         /\ Load(w) => FoldNext(w) \/ Still(w)
         /\ Companions(w) \/ AppendFails(w) \/ ReplaceFails(w) => Still(w)
         /\ Reap(w) => ReapOwn(w) \/ UnlinkPeerLog(w) \/ Still(w)
         /\ Sweep(w) => FlushDone(w) \/ Still(w)
<1> USE NoWriterAssumption, NoFault
    DEF ControlTypeOK, To, bounds, store, scan, history, Due, Opening, YetToFold,
        FoldedOwn, Reaps, Sweeps
<1>1. ASSUME Open(w) PROVE Still(w)
  BY <1>1, SMTT(30) DEF Open, ReadMain, Still, RecordTypes, LockPhase
<1>2. ASSUME FlushCall(w) PROVE Still(w)
  BY <1>2, SMTT(30) DEF FlushCall, Still, RecordTypes, LockPhase
<1>3. ASSUME FlushLock(w) PROVE Still(w)
  BY <1>3, SMTT(30) DEF FlushLock, ReadMain, Still, RecordTypes, LockPhase
<1>4. ASSUME List(w) PROVE Still(w)
  BY <1>4, SMTT(30) DEF List, Still, RecordTypes, LockPhase
<1>5. ASSUME LoadFails(w) PROVE Still(w)
  BY <1>5, SMTT(30) DEF LoadFails, Forget, Still, RecordTypes, LockPhase
<1>6. ~FoldUnreadable(w)
  BY DEF FoldUnreadable, NoTornLines
<1>7. ASSUME OpenDone(w) PROVE Still(w)
  BY <1>7, SMTT(30) DEF OpenDone, Opened, Forget, Still, RecordTypes, LockPhase
<1>8. ASSUME EnsureLifelock(w) PROVE Still(w)
  BY <1>8, SMTT(30) DEF EnsureLifelock, Still, RecordTypes, LockPhase
<1>9. ASSUME OpenCompanion(w) PROVE Still(w)
  BY <1>9, SMTT(30) DEF OpenCompanion, Still, RecordTypes, LockPhase
<1>10. ASSUME FlockCompanion(w) PROVE Still(w)
  BY <1>10, SMTT(30) DEF FlockCompanion, Still, RecordTypes, LockPhase
<1>11. ~AppendFails(w)
  BY DEF AppendFails, Fails, NoTornLines
<1>12. ASSUME ReplaceFails(w) PROVE Still(w)
  BY <1>12, SMTT(30) DEF ReplaceFails, Forget, Still, RecordTypes, LockPhase
<1>13. ASSUME SkipPeer(w) PROVE Still(w)
  BY <1>13, SMTT(30) DEF SkipPeer, Reaping, Still, RecordTypes, LockPhase
<1>14. ASSUME ProbePeer(w) PROVE Still(w)
  BY <1>14, SMTT(30) DEF ProbePeer, Reaping, Still, RecordTypes, LockPhase
<1>15. ASSUME UnlinkPeerComp(w) PROVE Still(w)
  BY <1>15, SMTT(30)
  DEF UnlinkPeerComp, DropCompanion, Still, RecordTypes, LockPhase
<1>16. ASSUME ReapDone(w) PROVE Still(w)
  BY <1>16, SMTT(30) DEF ReapDone, Still, RecordTypes, LockPhase
<1>17. ASSUME SkipOrphan(w) PROVE Still(w)
  BY <1>17, SMTT(30) DEF SkipOrphan, Still, RecordTypes, LockPhase
<1>18. ASSUME ProbeOrphan(w) PROVE Still(w)
  BY <1>18, SMTT(30) DEF ProbeOrphan, Still, RecordTypes, LockPhase
<1>19. ASSUME UnlinkOrphan(w) PROVE Still(w)
  BY <1>19, SMTT(30)
  DEF UnlinkOrphan, DropCompanion, Still, RecordTypes, LockPhase
<1>20. ASSUME Crash(w) PROVE Still(w)
  BY <1>20, SMTT(30) DEF Crash, Forget, Still, RecordTypes, LockPhase
<1> QED
  BY <1>1, <1>2, <1>3, <1>4, <1>5, <1>6, <1>7, <1>8, <1>9, <1>10, <1>11, <1>12,
     <1>13, <1>14, <1>15, <1>16, <1>17, <1>18, <1>19, <1>20
  DEF Companions, Load, Reap, Sweep

\* Every step keeps SeqInv.
LEMMA SeqStep ==
  ASSUME NoTornLines, VouchInv, DataInv, RecordInv, SeqInv, [Next]_vars PROVE SeqInv'
<1> USE NoWriterAssumption DEF To, store, scan, history
<1>0. ControlTypeOK /\ LockPhase /\ TraitHost /\ RecordTypes
  BY DEF VouchInv, NoTornLines, RecordInv
<1>1. /\ DOMAIN hist \subseteq Nat
      /\ \A x : Persisted(x) \subseteq DOMAIN hist /\ Kept(x) \subseteq DOMAIN hist
      /\ \A x \in Writers : ToSet(lines[x]) \subseteq Kept(x)
      /\ \A x, n : n \in Persisted(x) => hist[n].w = x
  BY <1>0, HistDomain DEF Persisted, Kept, RecordInv, LinesOwned
<1>2. ASSUME NEW w \in Writers, NEW k \in Keys, NEW kind \in Kinds,
              Write(w, k, kind)
      PROVE  SeqInv'
  <2> DEFINE n == Len(hist) + 1
  <2>1. hist' = Append(hist, [w |-> w, id |-> k, kind |-> kind])
    BY <1>2 DEF Write
  <2>2. /\ n \in Nat /\ DOMAIN hist' = DOMAIN hist \cup {n}
        /\ n \notin DOMAIN hist /\ \A m \in DOMAIN hist : m < n /\ hist'[m] = hist[m]
        /\ hist'[n].w = w /\ hist'[n].id = k /\ hist'[n].kind = kind
    BY <1>0, <2>1, OneMoreWrite
  <2>3. \A x : Persisted(x)' =
                 Persisted(x) \cup (IF x = w /\ kind # "ephemeral" THEN {n} ELSE {})
    BY <1>0, <2>1, OneMoreWrite
  <2>4. /\ pc[w] = "idle"
        /\ mem' = [mem EXCEPT ![w][k] = IF kind = "remove" THEN Absent ELSE n]
        /\ UNCHANGED <<main, logs, lines, lock, map, folded>>
    BY <1>2 DEF Write
  <2>5. \/ /\ acked' = acked \cup {n} /\ UNCHANGED <<pc, pending>> /\ kind = "ephemeral"
        \/ /\ UNCHANGED acked
           /\ pending' = [pending EXCEPT ![w] = n]
           /\ \E p \in {"append", "lifelock"} : pc' = [pc EXCEPT ![w] = p]
    BY <1>2 DEF Write, StopsInMemory
  <2> HIDE DEF n
  <2>6. \A x : Kept(x)' = Kept(x)
    <3>1. n \notin acked /\ \A x : n \notin Persisted(x)
      BY <1>0, <1>1, <2>2 DEF RecordTypes
    <3> QED
      BY <2>3, <2>5, <3>1 DEF Kept
  <2>7. \A x \in Writers, j \in Keys : /\ Solo(x, j)' => Solo(x, j) /\ (j = k => x = w)
                                       /\ InLog(x, j)' <=> InLog(x, j)
    BY <1>1, <2>2, <2>4 DEF Solo, InLog
  <2>8. \A x \in Writers \ {w} : pc'[x] = pc[x] /\ pending'[x] = pending[x]
    BY <1>0, <2>5 DEF ControlTypeOK, RecordTypes
  <2>9. pc'[w] \in {"idle", "append", "lifelock"}
    BY <1>0, <2>4, <2>5 DEF ControlTypeOK
  <2>10. \A x \in Writers : /\ Alive(x)' <=> Alive(x)
                            /\ Opening(x)' => Opening(x) /\ x # w
                            /\ pc'[x] \in Reaps \cup Sweeps => pc[x] \in Reaps \cup Sweeps
                            /\ FoldedOwn(x)' <=> FoldedOwn(x)
                            /\ pc'[x] \in {"list", "fold"} => pc[x] \in {"list", "fold"}
                            /\ \A y : YetToFold(x, y)' <=> YetToFold(x, y)
    BY <2>4, <2>8, <2>9 DEF Alive, Opening, FoldedOwn, YetToFold, Reaps, Sweeps
  <2>11. \A v : \A S \in SUBSET DOMAIN hist, j \in Keys :
           Latest(S, j, v) =>
             \/ v = Absent /\ \A m \in S : hist'[m].id # j
             \/ \E m \in S : /\ hist'[m].id = j
                             /\ v = IF hist'[m].kind = "remove" THEN Absent ELSE m
                             /\ \A i \in S : hist'[i].id = j => i <= m
    BY <2>2 DEF Latest, Value
  <2>12. LogRecent' /\ MainIsMap'
    BY <2>4, <2>6, <2>10 DEF SeqInv, LogRecent, MainIsMap
  <2>13. WritesDone'
    <3>1. \A m \in Persisted(w) : m \in acked
      BY <2>4 DEF SeqInv, WritesDone, Alive, Due
    <3>2. kind # "ephemeral" => pc'[w] \in Due /\ pending'[w] = n
      BY <1>0, <2>5 DEF ControlTypeOK, RecordTypes, Due
    <3>3. \A x \in Writers : Alive(x)' =>
            \A m \in Persisted(x)' : m \in acked' \/ (pc'[x] \in Due /\ m = pending'[x])
      BY <2>3, <2>5, <2>8, <2>10, <3>1, <3>2 DEF SeqInv, WritesDone
    <3>4. \A x \in Writers : Opening(x)' => \A m \in DOMAIN hist' : hist'[m].w # x
      BY <2>2, <2>10 DEF SeqInv, WritesDone
    <3> QED
      BY <3>3, <3>4 DEF WritesDone
  <2>17. \A x, j, v :
           Latest(Kept(x), j, v) =>
             \/ v = Absent /\ \A m \in Kept(x) : hist'[m].id # j
             \/ \E m \in Kept(x) :
                  /\ hist'[m].id = j
                  /\ v = IF hist'[m].kind = "remove" THEN Absent ELSE m
                  /\ \A i \in Kept(x) : hist'[i].id = j => i <= m
    <3>1. \A x : \A m \in Kept(x) : hist'[m] = hist[m]
      BY <1>1, <2>2
    <3> QED
      BY <3>1 DEF Latest, Value
  <2>14. DiskLatest'
    <3> SUFFICES ASSUME NEW x \in Writers, NEW j \in Keys,
                        Alive(x)', Solo(x, j)', ~InLog(x, j)'
                 PROVE  Latest(Kept(x), j, main[j])'
      BY DEF DiskLatest
    <3>1. Latest(Kept(x), j, main[j])
      BY <2>7, <2>10 DEF SeqInv, DiskLatest
    <3>2. \/ main[j] = Absent /\ \A m \in Kept(x) : hist'[m].id # j
          \/ \E m \in Kept(x) :
               /\ hist'[m].id = j
               /\ main[j] = IF hist'[m].kind = "remove" THEN Absent ELSE m
               /\ \A i \in Kept(x) : hist'[i].id = j => i <= m
      BY <2>17, <3>1
    <3>3. main'[j] = main[j] /\ Kept(x)' = Kept(x)
      BY <2>4, <2>6
    <3> QED
      BY <3>2, <3>3 DEF Latest, Value
  <2>18. OwnLatest'
    <3> SUFFICES ASSUME NEW x \in Writers, NEW j \in Keys,
                        lock' = x, FoldedOwn(x)', Solo(x, j)'
                 PROVE  Latest(Kept(x), j, map[x][j])'
      BY DEF OwnLatest
    <3>1. Latest(Kept(x), j, map[x][j])
      BY <2>4, <2>7, <2>10 DEF SeqInv, OwnLatest
    <3>2. \/ map[x][j] = Absent /\ \A m \in Kept(x) : hist'[m].id # j
          \/ \E m \in Kept(x) :
               /\ hist'[m].id = j
               /\ map[x][j] = IF hist'[m].kind = "remove" THEN Absent ELSE m
               /\ \A i \in Kept(x) : hist'[i].id = j => i <= m
      BY <2>17, <3>1
    <3>3. map'[x][j] = map[x][j] /\ Kept(x)' = Kept(x)
      BY <2>4, <2>6
    <3> QED
      BY <3>2, <3>3 DEF Latest, Value
  <2>15. FoldKeeps'
    BY <2>4, <2>7, <2>10 DEF SeqInv, FoldKeeps
  <2>16. MemLatest'
    <3> SUFFICES ASSUME NEW x \in Writers, NEW j \in Keys, Alive(x), Solo(x, j)'
                 PROVE  Latest(DOMAIN hist, j, mem[x][j])'
      BY <2>10 DEF MemLatest
    <3>1. CASE j = k
      <4>1. mem'[x][j] = IF kind = "remove" THEN Absent ELSE n
        BY <1>0, <2>4, <2>7, <3>1 DEF RecordTypes
      <4>2. \A m \in DOMAIN hist' : m <= n
        BY <1>1, <2>2
      <4> QED
        BY <2>2, <3>1, <4>1, <4>2 DEF Latest, Value
    <3>2. CASE j # k
      <4>1. mem'[x][j] = mem[x][j]
        BY <1>0, <2>4, <3>2 DEF RecordTypes
      <4>2. Latest(DOMAIN hist, j, mem[x][j])
        BY <2>7 DEF SeqInv, MemLatest
      <4> QED
        BY <2>2, <2>11, <3>2, <4>1, <4>2 DEF Latest, Value
    <3> QED
      BY <3>1, <3>2
  <2> QED
    BY <2>12, <2>13, <2>14, <2>15, <2>16, <2>18 DEF SeqInv
<1>3. ASSUME NEW w \in Writers, AppendLine(w) PROVE SeqInv'
  <2> DEFINE n == pending[w]
  <2>1. w \notin torn
    BY <1>3 DEF AppendLine, DataInv, TornTail, NoTornLines, Alive
  <2>2. /\ pc[w] = "append" /\ pc' = [pc EXCEPT ![w] = "idle"]
        /\ logs' = logs \cup {w} /\ acked' = acked \cup {n}
        /\ lines' = [lines EXCEPT ![w] = Append(lines[w], n)]
        /\ pending' = [pending EXCEPT ![w] = 0]
        /\ UNCHANGED <<main, lock, mem, map, folded, hist>>
    BY <1>3, <2>1 DEF AppendLine
  <2>3. n \in Persisted(w) \ acked /\ \A j \in Persisted(w) : j <= n
    BY <2>2 DEF RecordInv, AppendDue, Due
  <2>4. n \in DOMAIN hist /\ n \in Nat /\ hist[n].w = w
    BY <1>1, <2>3
  <2> HIDE DEF n
  <2>5. \A x : Persisted(x)' = Persisted(x)
    BY <2>2, WriteStays
  <2>6. \A x : Kept(x)' = Kept(x) \cup (IF x = w THEN {n} ELSE {})
    BY <1>1, <2>2, <2>3, <2>4, <2>5 DEF Kept
  <2>7. \A x \in Writers : ToSet(lines'[x]) =
          ToSet(lines[x]) \cup (IF x = w THEN {n} ELSE {})
    BY <1>0, <2>2, <2>4, ToSetAppend DEF RecordTypes
  <2>8. \A x \in Writers \ {w} : pc'[x] = pc[x] /\ pending'[x] = pending[x]
                                 /\ lines'[x] = lines[x]
    BY <1>0, <2>2 DEF ControlTypeOK, RecordTypes
  <2>9. pc'[w] = "idle" /\ lock # w
    BY <1>0, <2>2 DEF ControlTypeOK, LockPhase, Reaps, Sweeps
  <2>10. \A x \in Writers : /\ Alive(x)' <=> Alive(x)
                            /\ Opening(x)' => Opening(x)
                            /\ pc'[x] \in Reaps \cup Sweeps => pc[x] \in Reaps \cup Sweeps
                            /\ FoldedOwn(x)' <=> FoldedOwn(x)
                            /\ pc'[x] \in {"list", "fold"} => pc[x] \in {"list", "fold"}
                            /\ \A y : YetToFold(x, y)' <=> YetToFold(x, y)
    BY <2>2, <2>8, <2>9 DEF Alive, Opening, FoldedOwn, YetToFold, Reaps, Sweeps
  <2>11. \A x, k : (Solo(x, k)' <=> Solo(x, k))
    BY <2>2 DEF Solo
  <2>12. LogRecent'
    <3>1. \A l, m \in Kept(w) : l \in Nat /\ m \in Nat /\ m <= n
      BY <1>1, <2>3 DEF Kept
    <3>2. \A x \in Writers : Alive(x)' =>
            \A l \in ToSet(lines'[x]), m \in Kept(x)' : l < m => m \in ToSet(lines'[x])
      BY <1>1, <2>4, <2>6, <2>7, <2>10, <3>1 DEF SeqInv, LogRecent
    <3>3. \A x \in Writers : x \notin logs' => lines'[x] = <<>>
      BY <2>2, <2>8 DEF SeqInv, LogRecent
    <3> QED
      BY <3>2, <3>3 DEF LogRecent
  <2>13. WritesDone'
    BY <2>2, <2>5, <2>8, <2>10 DEF SeqInv, WritesDone, n
  <2>14. MainIsMap' /\ MemLatest'
    BY <2>2, <2>10, <2>11 DEF SeqInv, MainIsMap, MemLatest, Latest, Value
  <2>15. DiskLatest'
    <3> SUFFICES ASSUME NEW x \in Writers, NEW k \in Keys, Alive(x), Solo(x, k),
                        ~InLog(x, k)'
                 PROVE  Latest(Kept(x)', k, main[k])
      BY <2>2, <2>10, <2>11 DEF DiskLatest, Latest, Value
    <3>1. ~InLog(x, k) /\ (x = w => hist[n].id # k)
      BY <2>2, <2>7 DEF InLog
    <3>2. Latest(Kept(x), k, main[k])
      BY <3>1 DEF SeqInv, DiskLatest
    <3> QED
      BY <2>6, <3>1, <3>2 DEF Latest
  <2>16. FoldKeeps'
    <3>1. \A x \in Writers, k \in Keys : InLog(x, k) => InLog(x, k)'
      BY <2>2, <2>7 DEF InLog
    <3> QED
      BY <2>2, <2>10, <2>11, <3>1 DEF SeqInv, FoldKeeps
  <2>17. OwnLatest'
    BY <2>2, <2>6, <2>9, <2>10, <2>11 DEF SeqInv, OwnLatest, Latest, Value
  <2> QED
    BY <2>12, <2>13, <2>14, <2>15, <2>16, <2>17 DEF SeqInv
<1>4. ASSUME NEW w \in Writers, FoldNext(w) PROVE SeqInv'
  <2> DEFINE x == Least(todo[w])
             F == FoldSidecar(map[w], lines[x])
  <2>1. x \in Writers
    BY <1>0, <1>4, LeastIn DEF FoldNext, ControlTypeOK
  <2>2. /\ map' = [map EXCEPT ![w] = F] /\ folded' = [folded EXCEPT ![w] = @ \cup {x}]
        /\ pc[w] = "fold"
        /\ UNCHANGED <<main, logs, lines, lock, pc, pending, mem, hist, acked>>
    BY <1>4 DEF FoldNext
  <2> HIDE DEF x
  <2>3. \A k \in Keys :
          \/ (\A n \in ToSet(lines[x]) : hist[n].id # k) /\ F[k] = map[w][k]
          \/ \E n \in ToSet(lines[x]) :
               /\ hist[n].id = k /\ F[k] = Value(n)
               /\ \A j \in ToSet(lines[x]) : hist[j].id = k => j <= n
    <3>1. map[w] \in [Keys -> Nat]
      BY <1>0 DEF RecordTypes
    <3> QED
      BY <2>1, <3>1, FoldedLog
  <2> HIDE DEF F
  <2>4. /\ map'[w] = F /\ folded'[w] = folded[w] \cup {x}
        /\ \A y \in Writers \ {w} : map'[y] = map[y] /\ folded'[y] = folded[y]
    BY <1>0, <2>2 DEF ControlTypeOK, RecordTypes
  <2>5. /\ \A y : Persisted(y)' = Persisted(y)
        /\ \A y : Kept(y)' = Kept(y)
        /\ \A y, k : (Solo(y, k)' <=> Solo(y, k)) /\ (InLog(y, k)' <=> InLog(y, k))
    BY <2>2, WriteStays DEF Kept, Solo, InLog
  <2>6. \A y \in Writers \ {x}, k \in Keys : Solo(y, k) => F[k] = map[w][k]
    BY <1>1, <2>1, <2>3 DEF Solo, Kept
  <2>7. \A k \in Keys : ~InLog(x, k) => F[k] = map[w][k]
    BY <2>3 DEF InLog
  <2>8. LogRecent' /\ WritesDone' /\ MainIsMap' /\ DiskLatest' /\ MemLatest'
    <3>1. \A y \in Writers : pc[y] \in Reaps \cup Sweeps => map'[y] = map[y]
      BY <2>2, <2>4 DEF Reaps, Sweeps
    <3> QED
      BY <2>2, <2>5, <3>1
      DEF SeqInv, LogRecent, WritesDone, MainIsMap, DiskLatest, MemLatest, Alive,
          Opening, Latest, Value
  <2>9. FoldKeeps'
    <3> SUFFICES ASSUME NEW z \in Writers, NEW y \in Writers, NEW k \in Keys,
                        lock = z, pc[z] \in {"list", "fold"}, Alive(y), Solo(y, k),
                        YetToFold(z, y)' \/ ~InLog(y, k)
                 PROVE  map'[z][k] = main[k]
      BY <2>2, <2>5 DEF FoldKeeps, Alive
    <3>1. CASE z # w
      BY <2>2, <2>4, <3>1 DEF SeqInv, FoldKeeps, YetToFold
    <3>2. CASE z = w
      <4>1. YetToFold(w, y)' => YetToFold(w, y) /\ y # x
        BY <2>2, <2>4 DEF YetToFold
      <4>2. F[k] = map[w][k]
        BY <2>6, <2>7, <3>2, <4>1
      <4> QED
        BY <2>4, <3>2, <4>1, <4>2 DEF SeqInv, FoldKeeps
    <3> QED
      BY <3>1, <3>2
  <2>10. OwnLatest'
    <3> SUFFICES ASSUME NEW y \in Writers, NEW k \in Keys, lock = y, FoldedOwn(y)',
                        Solo(y, k)
                 PROVE  Latest(Kept(y), k, map'[y][k])
      BY <2>2, <2>5 DEF OwnLatest, Latest, Value
    <3>1. CASE y # w
      BY <2>2, <2>4, <3>1 DEF SeqInv, OwnLatest, FoldedOwn
    <3>2. CASE y = w /\ x # w
      <4>1. FoldedOwn(w) /\ F[k] = map[w][k]
        BY <2>2, <2>4, <2>6, <3>2 DEF FoldedOwn
      <4> QED
        BY <2>4, <3>2, <4>1 DEF SeqInv, OwnLatest
    <3>3. CASE y = w /\ x = w
      <4>1. CASE ~InLog(w, k)
        <5>1. Latest(Kept(w), k, main[k])
          BY <2>2, <3>3, <4>1 DEF SeqInv, DiskLatest, Alive
        <5>2. map[w][k] = main[k]
          BY <2>2, <3>3, <4>1 DEF SeqInv, FoldKeeps, Alive
        <5> QED
          BY <2>4, <2>7, <3>3, <4>1, <5>1, <5>2
      <4>2. CASE InLog(w, k)
        <5>1. PICK n \in ToSet(lines[w]) :
                /\ hist[n].id = k /\ F[k] = Value(n)
                /\ \A j \in ToSet(lines[w]) : hist[j].id = k => j <= n
          BY <2>3, <3>3, <4>2 DEF InLog
        <5>2. \A m \in Kept(w) : n < m => m \in ToSet(lines[w])
          BY <2>2 DEF SeqInv, LogRecent, Alive
        <5>3. n \in Kept(w) /\ \A m \in Kept(w) : m \in Nat /\ n \in Nat
          BY <1>1
        <5>4. \A m \in Kept(w) : hist[m].id = k => m <= n
          BY <5>1, <5>2, <5>3
        <5> QED
          BY <2>4, <3>3, <5>1, <5>3, <5>4 DEF Latest
      <4> QED
        BY <4>1, <4>2
    <3> QED
      BY <3>1, <3>2, <3>3
  <2> QED
    BY <2>8, <2>9, <2>10 DEF SeqInv
<1>5. ASSUME NEW w \in Writers, Replace(w) PROVE SeqInv'
  <2>1. /\ lock = w /\ main' = map[w] /\ todo[w] = {}
        /\ pc[w] = "fold" /\ pc' = [pc EXCEPT ![w] = "reap"]
        /\ UNCHANGED <<logs, lines, lock, pending, mem, map, hist, acked, folded>>
    BY <1>5 DEF Replace
  <2>2. /\ \A y : Persisted(y)' = Persisted(y)
        /\ \A y : Kept(y)' = Kept(y)
        /\ \A y, k : (Solo(y, k)' <=> Solo(y, k)) /\ (InLog(y, k)' <=> InLog(y, k))
    BY <2>1, WriteStays DEF Kept, Solo, InLog
  <2>3. pc'[w] = "reap" /\ \A y \in Writers \ {w} : pc'[y] = pc[y]
    BY <1>0, <2>1 DEF ControlTypeOK
  <2>4. LogRecent' /\ WritesDone' /\ MemLatest'
    BY <2>1, <2>2, <2>3
    DEF SeqInv, LogRecent, WritesDone, MemLatest, Alive, Opening, Due, Latest,
        Value
  <2>5. MainIsMap'
    BY <1>0, <2>1, <2>3 DEF MainIsMap, LockPhase
  <2>6. ASSUME NEW y \in Writers, NEW k \in Keys, Alive(y), Solo(y, k), ~InLog(y, k)
        PROVE  Latest(Kept(y), k, map[w][k])
    <3>1. map[w][k] = main[k]
      BY <2>1, <2>6 DEF SeqInv, FoldKeeps
    <3> QED
      BY <2>6, <3>1 DEF SeqInv, DiskLatest
  <2>7. DiskLatest'
    BY <2>1, <2>2, <2>3, <2>6 DEF DiskLatest, Alive, Latest, Value
  <2>8. FoldKeeps'
    BY <2>1, <2>3 DEF FoldKeeps
  <2>9. OwnLatest'
    <3> SUFFICES ASSUME NEW k \in Keys, Solo(w, k) PROVE Latest(Kept(w), k, map[w][k])
      BY <2>1, <2>2 DEF OwnLatest, Latest, Value
    <3>1. CASE w \in folded[w]
      BY <2>1, <3>1 DEF SeqInv, OwnLatest, FoldedOwn
    <3>2. CASE w \notin folded[w]
      <4>1. w \notin logs
        BY <2>1, <3>2 DEF VouchInv, OwnLogSeen
      <4>2. ~InLog(w, k)
        BY <4>1 DEF SeqInv, LogRecent, InLog, ToSet
      <4> QED
        BY <2>1, <2>6, <4>2 DEF Alive
    <3> QED
      BY <3>1, <3>2
  <2> QED
    BY <2>4, <2>5, <2>7, <2>8, <2>9 DEF SeqInv
<1>6. ASSUME NEW w \in Writers, ReapOwn(w) PROVE SeqInv'
  <2>1. /\ pc[w] = "reap" /\ lines' = [lines EXCEPT ![w] = <<>>] /\ logs' = logs \ {w}
        /\ folded' = [folded EXCEPT ![w] = @ \ {w}]
        /\ UNCHANGED <<main, lock, pc, pending, mem, map, hist, acked>>
    BY <1>0, <1>6, NoFault DEF ReapOwn, Reaping, UnlinkSidecar
  <2>2. lock = w
    BY <1>0, <2>1 DEF LockPhase, Reaps
  <2>3. /\ lines'[w] = <<>> /\ ToSet(lines'[w]) = {}
        /\ \A y \in Writers \ {w} : lines'[y] = lines[y]
    BY <1>0, <2>1 DEF RecordTypes, ToSet
  <2>4. /\ \A y : Persisted(y)' = Persisted(y)
        /\ \A y : Kept(y)' = Kept(y)
        /\ \A y, k : Solo(y, k)' <=> Solo(y, k)
    BY <2>1, WriteStays DEF Kept, Solo
  <2>5. LogRecent'
    BY <2>1, <2>3, <2>4 DEF SeqInv, LogRecent, Alive
  <2>6. WritesDone' /\ MainIsMap' /\ MemLatest'
    BY <2>1, <2>4
    DEF SeqInv, WritesDone, MainIsMap, MemLatest, Alive, Opening, Latest, Value
  <2>7. DiskLatest'
    <3> SUFFICES ASSUME NEW y \in Writers, NEW k \in Keys, Alive(y), Solo(y, k),
                        ~InLog(y, k)'
                 PROVE  Latest(Kept(y), k, main[k])
      BY <2>1, <2>4 DEF DiskLatest, Alive, Latest, Value
    <3>1. CASE y = w
      <4>1. main = map[w]
        BY <2>1 DEF SeqInv, MainIsMap, Reaps
      <4>2. Latest(Kept(w), k, map[w][k])
        BY <2>1, <2>2, <3>1 DEF SeqInv, OwnLatest, FoldedOwn, Reaps
      <4> QED
        BY <3>1, <4>1, <4>2
    <3>2. CASE y # w
      BY <2>1, <2>3, <3>2 DEF SeqInv, DiskLatest, InLog
    <3> QED
      BY <3>1, <3>2
  <2>8. FoldKeeps'
    BY <2>1, <2>2 DEF FoldKeeps
  <2>9. OwnLatest'
    BY <2>1, <2>2, <2>4 DEF SeqInv, OwnLatest, FoldedOwn, Reaps, Latest, Value
  <2> QED
    BY <2>5, <2>6, <2>7, <2>8, <2>9 DEF SeqInv
<1>7. ASSUME NEW w \in Writers, UnlinkPeerLog(w) PROVE SeqInv'
  <2> DEFINE x == Candidate(w)
  <2>1. /\ pc[w] = "unlinkLog" /\ logs' = logs \ {x}
        /\ lines' = [lines EXCEPT ![x] = <<>>]
        /\ pc' = [pc EXCEPT ![w] = "unlinkComp"]
        /\ UNCHANGED <<main, lock, pending, mem, map, hist, acked, folded>>
    BY <1>0, <1>7, NoFault DEF UnlinkPeerLog, UnlinkSidecar
  <2>2. ~Alive(x) /\ lock = w
    BY <1>0, <2>1 DEF VouchInv, OnlyDeadTaken, LockPhase, Reaps
  <2> HIDE DEF x
  <2>3. pc'[w] = "unlinkComp" /\ \A y \in Writers \ {w} : pc'[y] = pc[y]
    BY <1>0, <2>1 DEF ControlTypeOK
  <2>4. \A y \in Writers : /\ lines'[y] = IF y = x THEN <<>> ELSE lines[y]
                           /\ Alive(y)' => Alive(y) /\ y # x
    BY <1>0, <2>1, <2>2, <2>3 DEF RecordTypes, Alive
  <2>5. /\ \A y : Persisted(y)' = Persisted(y)
        /\ \A y : Kept(y)' = Kept(y)
        /\ \A y, k : Solo(y, k)' <=> Solo(y, k)
    BY <2>1, WriteStays DEF Kept, Solo
  <2>6. \A y \in Writers, k \in Keys : Alive(y)' => (InLog(y, k)' <=> InLog(y, k))
    BY <2>1, <2>4 DEF InLog
  <2>7. LogRecent' /\ DiskLatest'
    BY <2>1, <2>4, <2>5, <2>6 DEF SeqInv, LogRecent, DiskLatest, Latest, Value
  <2>8. WritesDone' /\ MainIsMap'
    BY <2>1, <2>3, <2>4, <2>5
    DEF SeqInv, WritesDone, MainIsMap, Opening, Due, Reaps, Sweeps
  <2>9. FoldKeeps'
    BY <2>1, <2>2, <2>3 DEF FoldKeeps
  <2>10. OwnLatest' /\ MemLatest'
    BY <2>1, <2>2, <2>3, <2>4, <2>5
    DEF SeqInv, OwnLatest, MemLatest, FoldedOwn, Reaps, Latest, Value
  <2> QED
    BY <2>7, <2>8, <2>9, <2>10 DEF SeqInv
<1>8. ASSUME NEW w \in Writers, FlushDone(w) PROVE SeqInv'
  <2>1. /\ pc[w] = "sweep" /\ pc' = [pc EXCEPT ![w] = "idle"]
        /\ mem' = [mem EXCEPT ![w] =
             [k \in Keys |-> IF IsEphemeral(mem[w][k]) THEN mem[w][k] ELSE map[w][k]]]
        /\ map' = [map EXCEPT ![w] = EmptyMap] /\ folded' = [folded EXCEPT ![w] = {}]
        /\ lock' = NoWriter
        /\ UNCHANGED <<main, logs, lines, pending, hist, acked>>
    BY <1>8 DEF FlushDone, Forget
  <2>2. lock = w
    BY <1>0, <2>1 DEF LockPhase, Sweeps
  <2>3. /\ pc'[w] = "idle" /\ \A y \in Writers \ {w} : pc'[y] = pc[y]
        /\ \A y \in Writers \ {w} : mem'[y] = mem[y] /\ map'[y] = map[y]
        /\ \A k \in Keys :
             mem'[w][k] = IF IsEphemeral(mem[w][k]) THEN mem[w][k] ELSE map[w][k]
    BY <1>0, <2>1 DEF ControlTypeOK, RecordTypes
  <2>4. /\ \A y : Persisted(y)' = Persisted(y)
        /\ \A y : Kept(y)' = Kept(y)
        /\ \A y, k : (Solo(y, k)' <=> Solo(y, k)) /\ (InLog(y, k)' <=> InLog(y, k))
    BY <2>1, WriteStays DEF Kept, Solo, InLog
  <2>5. \A y \in Writers : /\ Alive(y)' <=> Alive(y)
                           /\ Opening(y)' => Opening(y)
                           /\ pc'[y] \in Due <=> pc[y] \in Due
                           /\ pc'[y] \in Reaps \cup Sweeps =>
                                y # w /\ pc[y] \in Reaps \cup Sweeps
    BY <2>1, <2>2, <2>3 DEF Alive, Opening, Due, Reaps, Sweeps
  <2>6. LogRecent' /\ WritesDone' /\ MainIsMap' /\ DiskLatest'
    BY <2>1, <2>3, <2>4, <2>5
    DEF SeqInv, LogRecent, WritesDone, MainIsMap, DiskLatest, Latest, Value
  <2>7. FoldKeeps' /\ OwnLatest'
    BY <2>1 DEF FoldKeeps, OwnLatest
  <2>8. MemLatest'
    <3> SUFFICES ASSUME NEW y \in Writers, NEW k \in Keys, Alive(y), Solo(y, k)
                 PROVE  Latest(DOMAIN hist, k, mem'[y][k])
      BY <2>1, <2>4, <2>5 DEF MemLatest, Latest, Value
    <3>1. Latest(DOMAIN hist, k, mem[y][k])
      BY DEF SeqInv, MemLatest
    <3>2. CASE y = w /\ ~IsEphemeral(mem[w][k])
      <4>1. Latest(Kept(w), k, map[w][k])
        BY <2>1, <2>2, <3>2 DEF SeqInv, OwnLatest, FoldedOwn, Sweeps
      <4>2. CASE \A n \in DOMAIN hist : hist[n].id # k
        BY <1>1, <2>3, <3>2, <4>1, <4>2 DEF Latest
      <4>3. CASE ~\A n \in DOMAIN hist : hist[n].id # k
        <5>1. PICK l \in DOMAIN hist :
                /\ hist[l].id = k /\ mem[w][k] = Value(l)
                /\ \A m \in DOMAIN hist : hist[m].id = k => m <= l
          BY <3>1, <3>2, <4>3 DEF Latest
        <5>2. l # Absent
          BY <1>0, HistDomain DEF Absent
        <5>3. Persistent(l)
          BY <3>2, <5>1, <5>2 DEF IsEphemeral, Value, Persistent
        <5>4. l \in Kept(w)
          BY <2>1, <3>2, <5>1, <5>3
          DEF SeqInv, WritesDone, Kept, Persisted, Solo, Due
        <5>5. PICK n \in Kept(w) :
                /\ hist[n].id = k /\ map[w][k] = Value(n)
                /\ \A m \in Kept(w) : hist[m].id = k => m <= n
          BY <4>1, <5>1, <5>4 DEF Latest
        <5>6. n = l
          BY <1>1, <5>1, <5>4, <5>5
        <5> QED
          BY <2>3, <3>2, <5>1, <5>5, <5>6 DEF Latest
      <4> QED
        BY <4>2, <4>3
    <3> QED
      BY <2>3, <3>1, <3>2
  <2> QED
    BY <2>6, <2>7, <2>8 DEF SeqInv
<1>9. CASE UNCHANGED vars
  <2>1. /\ \A y : Persisted(y)' = Persisted(y)
        /\ \A y : Kept(y)' = Kept(y)
        /\ \A y, k : (Solo(y, k)' <=> Solo(y, k)) /\ (InLog(y, k)' <=> InLog(y, k))
    BY <1>9, WriteStays DEF vars, Kept, Solo, InLog
  <2> QED
    BY <1>9, <2>1
    DEF vars, SeqInv, LogRecent, WritesDone, MainIsMap, DiskLatest, FoldKeeps,
        OwnLatest, MemLatest, Alive, Opening, YetToFold, FoldedOwn, Latest, Value
<1>10. ASSUME NEW w \in Writers, Still(w) PROVE SeqInv'
  BY <1>10, StillStep
<1> QED
  BY <1>0, <1>2, <1>3, <1>4, <1>5, <1>6, <1>7, <1>8, <1>9, <1>10, StillSteps
  DEF Next, Step, Appends, Commit

\* The views of the running writers, for every behaviour over a host where no append
\* fails.
LEMMA SeqAlways == ASSUME NoTornLines PROVE Spec => []SeqInv
<1>1. Init => SeqInv
  BY InitSeq
<1>2. VouchInv /\ DataInv /\ RecordInv /\ SeqInv /\ [Next]_vars => SeqInv'
  BY SeqStep
<1> QED
  BY <1>1, <1>2, AlwaysVouched, DataAlways, RecordAlways, PTL
  DEF Spec, NoTornLines

\* Each writer's own sequence of operations is honoured exactly: between calls a writer
\* sees, of an id that only it writes, its last acknowledged write.
THEOREM OwnSequenceKept == ASSUME NoTornLines PROVE Spec => []OwnSequenceHonoured
<1>1. RecordInv /\ SeqInv => OwnSequenceHonoured
  <2> SUFFICES ASSUME RecordInv, SeqInv, NEW k \in Keys, NEW w \in Writers,
                      pc[w] = "idle", NEW i \in DOMAIN hist, hist[i].id = k,
                      \A n \in DOMAIN hist : hist[n].id = k => hist[n].w = w
               PROVE  mem[w][k] = FoldLine(EmptyMap, LastWrite(k))[k]
    BY DEF OwnSequenceHonoured
  <2>1. Latest(DOMAIN hist, k, mem[w][k])
    BY DEF SeqInv, MemLatest, Alive, Solo
  <2>2. PICK l \in DOMAIN hist : /\ hist[l].id = k /\ mem[w][k] = Value(l)
                                 /\ \A m \in DOMAIN hist : hist[m].id = k => m <= l
    BY <2>1 DEF Latest
  <2>3. DOMAIN hist \subseteq Nat
    BY HistDomain DEF RecordInv
  <2>4. LastWrite(k) = l
    <3>1. LastWrite(k) \in DOMAIN hist /\ hist[LastWrite(k)].id = k /\ l <= LastWrite(k)
      BY <2>2 DEF LastWrite
    <3>2. LastWrite(k) <= l
      BY <2>2, <3>1
    <3> QED
      BY <2>3, <3>1, <3>2
  <2> QED
    BY <2>2, <2>4 DEF FoldLine, EmptyMap, Value
<1> QED
  BY <1>1, RecordAlways, SeqAlways, PTL

\* Only a crash makes a writer dead.
CrashedAre == \A w \in Writers : ~Alive(w) => crashes > 0

\* As long as no writer has crashed, every acknowledged persistent write is in its
\* writer's log or in a committed compaction.
THEOREM AckedWritesKept ==
  ASSUME NoTornLines PROVE Spec => [](crashes = 0 => AckedWritesSurvive)
<1> DEFINE Inv == crashes \in Nat /\ CrashedAre
<1>1. Init => Inv
  BY DEF Init, CrashedAre, Alive
<1>2. ControlTypeOK /\ Inv /\ [Next]_vars => Inv'
  <2> SUFFICES ASSUME ControlTypeOK, Inv, [Next]_vars PROVE Inv'
    OBVIOUS
  <2> DEFINE Survived == crashes' = crashes /\ \A x \in Writers : Alive(x) => Alive(x)'
  <2> USE DEF ControlTypeOK, To, Works, Fails, bounds, Alive
  <2>1. ASSUME NEW w \in Writers, NEW k \in Keys, NEW kind \in Kinds, Write(w, k, kind)
        PROVE  Survived
    BY <2>1 DEF Write
  <2>2. ASSUME NEW w \in Writers, Open(w) \/ FlushCall(w) \/ FlushLock(w) PROVE Survived
    BY <2>2 DEF Open, FlushCall, FlushLock
  <2>3. ASSUME NEW w \in Writers, Load(w) PROVE Survived
    BY <2>3 DEF Load, List, LoadFails, FoldNext, FoldUnreadable, OpenDone, Opened
  <2>4. ASSUME NEW w \in Writers, Companions(w) \/ Appends(w) PROVE Survived
    BY <2>4
    DEF Companions, EnsureLifelock, OpenCompanion, FlockCompanion, Appends,
        AppendLine, AppendFails
  <2>5. ASSUME NEW w \in Writers, Commit(w) \/ Reap(w) PROVE Survived
    <3>1. CASE Commit(w) \/ ReapDone(w)
      BY <3>1 DEF Commit, Replace, ReplaceFails, ReapDone
    <3>2. CASE ReapOwn(w)
      BY <3>2 DEF ReapOwn
    <3>3. CASE SkipPeer(w) \/ ProbePeer(w)
      BY <3>3 DEF SkipPeer, ProbePeer
    <3>4. CASE UnlinkPeerLog(w)
      BY <3>4 DEF UnlinkPeerLog
    <3>5. CASE UnlinkPeerComp(w)
      BY <3>5 DEF UnlinkPeerComp, DropCompanion
    <3> QED
      BY <2>5, <3>1, <3>2, <3>3, <3>4, <3>5 DEF Reap
  <2>6. ASSUME NEW w \in Writers, Sweep(w) PROVE Survived
    <3>1. CASE SkipOrphan(w) \/ ProbeOrphan(w)
      BY <3>1 DEF SkipOrphan, ProbeOrphan
    <3>2. CASE UnlinkOrphan(w)
      BY <3>2 DEF UnlinkOrphan, DropCompanion
    <3>3. CASE FlushDone(w)
      BY <3>3 DEF FlushDone, DropCompanion
    <3> QED
      BY <2>6, <3>1, <3>2, <3>3 DEF Sweep
  <2>7. ASSUME NEW w \in Writers, Crash(w) PROVE Inv'
    BY <2>7 DEF Crash, CrashedAre
  <2>8. CASE UNCHANGED vars
    BY <2>8 DEF vars, CrashedAre
  <2>9. Survived => Inv'
    BY DEF CrashedAre
  <2> QED
    BY <2>1, <2>2, <2>3, <2>4, <2>5, <2>6, <2>7, <2>8, <2>9 DEF Next, Step
<1>3. RecordInv /\ Inv /\ LiveWritesSurvive => (crashes = 0 => AckedWritesSurvive)
  <2> SUFFICES ASSUME RecordInv, Inv, LiveWritesSurvive, crashes = 0,
                      NEW n \in acked, Persistent(n)
               PROVE  Safe(n)
    BY DEF AckedWritesSurvive
  <2>1. hist[n].w \in Writers
    BY HistDomain DEF RecordInv, RecordTypes
  <2> QED
    BY <2>1 DEF LiveWritesSurvive, CrashedAre
<1> QED
  BY <1>1, <1>2, <1>3, RecordAlways, LiveWritesKept, PTL DEF Spec
==============================================================================
