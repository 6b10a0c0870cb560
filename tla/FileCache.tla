------------------------------- MODULE FileCache -------------------------------
(***************************************************************************)
(* FileCacheStore: one committable main file and, per writer, an append    *)
(* log (sidecar) vouched for by a companion lock file.  Appends take no    *)
(* lock; flush, the only compaction, works under the compaction lock.      *)
(*                                                                         *)
(* One action per file-system call of put, remove, open and flush, so that *)
(* everything a peer may do between two calls can happen there.  The       *)
(* compaction lock is the Mutex that FileLock implements.                  *)
(*                                                                         *)
(* A record is the number of the write that stored it: hist[n] says who    *)
(* wrote what.  The variables of `history` are history variables: no guard *)
(* reads them except to stop at a bound.                                   *)
(***************************************************************************)
EXTENDS Integers, FiniteSets, Sequences, SequencesExt

CONSTANTS
  Writers,        \* writer ids; their order is the order of the sidecar names
  Keys,           \* record ids
  Kinds,          \* which writes happen: subset of {"put","remove","ephemeral"}
  MaxWrites,      \* bound: writes issued by all writers together
  MaxFlushes,     \* bound: flushes called by all writers together
  MaxCrashes,     \* bound: crashes (and exits without flush)
  FaultKinds,     \* file-system calls that may fail
  MaxFaults,      \* bound: failed calls
  SplitTryLock,   \* TRUE: try_lock_exclusive is open, then flock (std host)
                  \* FALSE: it is the atomic test-and-lock CacheFs specifies
  NoWriter        \* nobody holds the compaction lock

ASSUME WritersAssumption == Writers \subseteq Nat /\ IsFiniteSet(Writers)
ASSUME NoWriterAssumption == NoWriter \notin Writers
ASSUME BoundsAssumption ==
  /\ MaxWrites \in Nat /\ MaxFlushes \in Nat
  /\ MaxCrashes \in Nat /\ MaxFaults \in Nat
ASSUME KindsAssumption == Kinds \subseteq {"put", "remove", "ephemeral"}
ASSUME FaultKindsAssumption ==
  FaultKinds \subseteq {"append", "load", "read", "replace", "remove"}
ASSUME SplitAssumption == SplitTryLock \in BOOLEAN

VARIABLES
  main,         \* the committed map: record (write number) or Absent per id
  logs,         \* the writers whose sidecar file exists
  lines,        \* lines[w]: the parseable lines of w's sidecar, in order
  torn,         \* the writers whose sidecar ends in a half-written line
  comp,         \* comp[w]: w's companion lock file, see Companion
  lock,         \* who holds the compaction lock
  pc,           \* pc[w]: what w is doing
  pending,      \* pending[w]: the line w is about to append, as a write number
  mem,          \* mem[w]: w's in-memory view
  map,          \* map[w]: the map load_merged is building
  todo,         \* todo[w]: listed sidecars not read yet
  folded,       \* folded[w]: sidecars read; during the reap, those left to reap
  orphans,      \* orphans[w]: companions listed without their sidecar
  ownGone,      \* ownGone[w]: own_sidecar_gone
  captured,     \* captured[w]: the writes folded into map[w]
  hist,         \* the writes so far
  acked,        \* those whose put or remove has returned without an error
  committed,    \* those a replaced main file was folded from
  deadThen,     \* deadThen[w]: the writers dead when w's flush got the lock
  keysThen,     \* keysThen[w]: the ids on disk when w's open began
  forgone,      \* the writes that met a peer at their writer's companion
  stranded,     \* the writers whose companion was unlinked beside their sidecar
  flushes, crashes, faults,
  failed        \* the kinds of calls that have failed

store == <<main, logs, lines, torn, comp, lock>>
scan == <<map, todo, folded, orphans, ownGone, captured>>
history == <<hist, acked, committed, deadThen, keysThen, forgone, stranded>>
bounds == <<flushes, crashes, faults, failed>>
vars == <<store, pc, pending, mem, scan, history, bounds>>

Absent == 0
Records == 0..MaxWrites
Maps == [Keys -> Records]
EmptyMap == [k \in Keys |-> Absent]

\* A companion does not exist; exists unlocked; is locked by the writer it
\* belongs to (its liveness lock); is locked by the peer that compacts.
Companion == {"absent", "free", "own", "peer"}

Phases == {"closed", "idle", "dead", "lifelock", "flock", "append", "wait",
           "list", "fold", "reap", "unlinkLog", "unlinkComp", "sweep",
           "unlinkOrphan"}

Alive(w) == pc[w] # "dead"
Least(S) == CHOOSE x \in S : \A y \in S : x <= y
Greatest(S) == CHOOSE x \in S : \A y \in S : y <= x
To(w, phase) == pc' = [pc EXCEPT ![w] = phase]

\* A file-system call that fails, resp. does not.
Fails(kind) ==
  /\ kind \in FaultKinds
  /\ faults < MaxFaults
  /\ faults' = faults + 1
  /\ failed' = failed \cup {kind}
  /\ UNCHANGED <<flushes, crashes>>
Works == UNCHANGED bounds

Init ==
  /\ main = EmptyMap
  /\ logs = {}
  /\ lines = [w \in Writers |-> <<>>]
  /\ torn = {}
  /\ comp = [w \in Writers |-> "absent"]
  /\ lock = NoWriter
  /\ pc = [w \in Writers |-> "closed"]
  /\ pending = [w \in Writers |-> 0]
  /\ mem = [w \in Writers |-> EmptyMap]
  /\ map = [w \in Writers |-> EmptyMap]
  /\ todo = [w \in Writers |-> {}]
  /\ folded = [w \in Writers |-> {}]
  /\ orphans = [w \in Writers |-> {}]
  /\ ownGone = [w \in Writers |-> TRUE]
  /\ captured = [w \in Writers |-> {}]
  /\ hist = <<>>
  /\ acked = {}
  /\ committed = {}
  /\ deadThen = [w \in Writers |-> {}]
  /\ keysThen = [w \in Writers |-> {}]
  /\ forgone = {} /\ stranded = {}
  /\ flushes = 0 /\ crashes = 0 /\ faults = 0 /\ failed = {}

------------------------------------------------------------------------------
(* put and remove.                                                           *)

\* is_ephemeral: a TTL-0 record lives in memory only.
StopsInMemory(kind) == kind = "ephemeral"

\* The synchronous prologue: the in-memory view changes at once.  A TTL-0 record
\* stops here; any other write goes on to ensure_lifelock, which has nothing to do
\* when the liveness lock is held.
Write(w, k, kind) ==
  LET n == Len(hist) + 1 IN
  /\ pc[w] = "idle"
  /\ n <= MaxWrites
  /\ hist' = Append(hist, [w |-> w, id |-> k, kind |-> kind])
  /\ mem' = [mem EXCEPT ![w][k] = IF kind = "remove" THEN Absent ELSE n]
  /\ \/ /\ StopsInMemory(kind)
        /\ acked' = acked \cup {n}
        /\ UNCHANGED <<pc, pending>>
     \/ /\ ~StopsInMemory(kind)
        /\ pending' = [pending EXCEPT ![w] = n]
        /\ To(w, IF comp[w] = "own" THEN "append" ELSE "lifelock")
        /\ UNCHANGED acked
  /\ UNCHANGED <<store, scan, committed, deadThen, keysThen, forgone, stranded,
                 bounds>>

\* A peer that holds the companion is taken for another holder of our own lock
\* ("best-effort"): the write goes on without it.
Forgoes(w) ==
  forgone' = IF comp[w] = "peer" THEN forgone \cup {pending[w]} ELSE forgone

\* ensure_lifelock over an atomic try_lock_exclusive: take the companion, or,
\* when a peer has it, forgo the protection.
EnsureLifelock(w) ==
  /\ ~SplitTryLock
  /\ pc[w] = "lifelock"
  /\ comp' = [comp EXCEPT ![w] = IF @ = "peer" THEN "peer" ELSE "own"]
  /\ To(w, "append")
  /\ Forgoes(w)
  /\ UNCHANGED <<main, logs, lines, torn, lock, pending, mem, scan, hist, acked,
                 committed, deadThen, keysThen, stranded, bounds>>

\* ensure_lifelock over the std host: lock_the_file_at opens (creates) first ...
OpenCompanion(w) ==
  /\ SplitTryLock
  /\ pc[w] = "lifelock"
  /\ comp' = [comp EXCEPT ![w] = IF @ = "absent" THEN "free" ELSE @]
  /\ To(w, "flock")
  /\ UNCHANGED <<main, logs, lines, torn, lock, pending, mem, scan, history, bounds>>

\* ... then locks.  If the file was unlinked meanwhile the check fails and it
\* starts over; if a peer holds it (WouldBlock) the writer forgoes the lock.
FlockCompanion(w) ==
  /\ pc[w] = "flock"
  /\ comp' = [comp EXCEPT ![w] = IF @ = "free" THEN "own" ELSE @]
  /\ To(w, IF comp[w] = "absent" THEN "lifelock" ELSE "append")
  /\ Forgoes(w)
  /\ UNCHANGED <<main, logs, lines, torn, lock, pending, mem, scan, hist, acked,
                 committed, deadThen, keysThen, stranded, bounds>>

\* The append returns: the write is acknowledged.  A line appended to a torn
\* tail is part of that unparseable line.
AppendLine(w) ==
  /\ pc[w] = "append"
  /\ logs' = logs \cup {w}
  /\ lines' = [lines EXCEPT ![w] =
                 IF w \in torn THEN @ ELSE Append(@, pending[w])]
  /\ torn' = torn \ {w}
  /\ acked' = acked \cup {pending[w]}
  /\ pending' = [pending EXCEPT ![w] = 0]
  /\ To(w, "idle")
  /\ Works
  /\ UNCHANGED <<main, comp, lock, mem, scan, hist, committed, deadThen, keysThen,
                 forgone, stranded>>

\* The append fails: the log cannot be opened or created, or it was and the write
\* fails (a full disk), possibly after part of the line.
AppendFails(w) ==
  /\ pc[w] = "append"
  /\ Fails("append")
  /\ \/ UNCHANGED <<logs, torn>>
     \/ logs' = logs \cup {w} /\ torn' \in {torn, torn \cup {w}}
  /\ pending' = [pending EXCEPT ![w] = 0]
  /\ To(w, "idle")
  /\ UNCHANGED <<main, lines, comp, lock, mem, scan, history>>

------------------------------------------------------------------------------
(* load_merged, called by open (no lock) and by flush (lock held).           *)

\* Mutant of FoldLine: a tombstone is kept in the map instead of removing its id.
FoldLineMarking(m, n) ==
  [m EXCEPT ![hist[n].id] = IF hist[n].kind = "remove" THEN -1 ELSE n]

\* fold_sidecar_into: line order, entries insert, tombstones remove.
FoldLine(m, n) ==
  [m EXCEPT ![hist[n].id] = IF hist[n].kind = "remove" THEN Absent ELSE n]

\* Lines replayed in order: of those naming an id, the last decides what becomes of
\* it; an id no line names stays as it was.
Naming(ls, k) == {i \in DOMAIN ls : hist[ls[i]].id = k}

\* Mutant of FoldSidecar: lines are replayed newest first.
FoldSidecarBackwards(m, ls) ==
  [k \in Keys |-> IF Naming(ls, k) = {} THEN m[k]
                  ELSE FoldLine(m, ls[Least(Naming(ls, k))])[k]]

FoldSidecar(m, ls) ==
  [k \in Keys |-> IF Naming(ls, k) = {} THEN m[k]
                  ELSE FoldLine(m, ls[Greatest(Naming(ls, k))])[k]]

\* Whatever they left is for compaction to reclaim.
DeadWriters == {x \in Writers : ~Alive(x)}

\* What load_merged starts from: the main file as it is now.
ReadMain(w) ==
  /\ map' = [map EXCEPT ![w] = main]
  /\ captured' = [captured EXCEPT ![w] = {}]

\* open: read the main file, without any lock.
Open(w) ==
  /\ pc[w] = "closed"
  /\ ReadMain(w)
  /\ To(w, "list")
  /\ keysThen' = [keysThen EXCEPT ![w] =
       {k \in Keys : \/ main[k] # Absent
                     \/ \E x \in logs : \E n \in ToSet(lines[x]) : hist[n].id = k}]
  /\ UNCHANGED <<store, pending, mem, todo, folded, orphans, ownGone, hist,
                 acked, committed, deadThen, forgone, stranded, bounds>>

\* flush is called, ...
FlushCall(w) ==
  /\ pc[w] = "idle"
  /\ flushes < MaxFlushes
  /\ flushes' = flushes + 1
  /\ To(w, "wait")
  /\ UNCHANGED <<store, pending, mem, scan, history, crashes, faults, failed>>

\* ... gets the compaction lock, and reads the main file, which only a holder of
\* that lock replaces.
FlushLock(w) ==
  /\ pc[w] = "wait"
  /\ lock = NoWriter
  /\ lock' = w
  /\ ReadMain(w)
  /\ To(w, "list")
  /\ deadThen' = [deadThen EXCEPT ![w] = DeadWriters]
  /\ UNCHANGED <<main, logs, lines, torn, comp, pending, mem, todo, folded,
                 orphans, ownGone, hist, acked, committed, keysThen, forgone,
                 stranded, bounds>>

\* Mutant of Orphans: companions without a sidecar are not looked for.
NoOrphans == {}

\* A companion whose sidecar is not there.
Orphans == {x \in Writers \ logs : comp[x] # "absent"}

\* One directory listing gives the sidecars and the orphaned companions.
List(w) ==
  /\ pc[w] = "list"
  /\ todo' = [todo EXCEPT ![w] = logs]
  /\ folded' = [folded EXCEPT ![w] = {}]
  /\ orphans' = [orphans EXCEPT ![w] = Orphans]
  /\ ownGone' = [ownGone EXCEPT ![w] = TRUE]
  /\ To(w, "fold")
  /\ UNCHANGED <<store, pending, mem, map, captured, history, bounds>>

\* The Merged value is a local: it is gone when the call returns, and with it
\* what was recorded of the call.
Forget(w) ==
  /\ map' = [map EXCEPT ![w] = EmptyMap]
  /\ todo' = [todo EXCEPT ![w] = {}]
  /\ folded' = [folded EXCEPT ![w] = {}]
  /\ orphans' = [orphans EXCEPT ![w] = {}]
  /\ ownGone' = [ownGone EXCEPT ![w] = TRUE]
  /\ captured' = [captured EXCEPT ![w] = {}]
  /\ deadThen' = [deadThen EXCEPT ![w] = {}]
  /\ keysThen' = [keysThen EXCEPT ![w] = {}]

\* The main file cannot be read or parsed, or the directory not listed: open and
\* flush fail before anything is written, and flush's guard drops.
LoadFails(w) ==
  /\ pc[w] = "list"
  /\ Fails("load")
  /\ lock' = IF lock = w THEN NoWriter ELSE lock
  /\ To(w, IF lock = w THEN "idle" ELSE "closed")
  /\ Forget(w)
  /\ UNCHANGED <<main, logs, lines, torn, comp, pending, mem, hist, acked, committed,
                 forgone, stranded>>

\* The sidecars are read one by one in name order.  One that vanished since the
\* listing reads as empty and still counts as folded.
FoldNext(w) ==
  LET x == Least(todo[w]) IN
  /\ pc[w] = "fold"
  /\ todo[w] # {}
  /\ map' = [map EXCEPT ![w] = FoldSidecar(@, lines[x])]
  /\ captured' = [captured EXCEPT ![w] = @ \cup ToSet(lines[x])]
  /\ todo' = [todo EXCEPT ![w] = @ \ {x}]
  /\ folded' = [folded EXCEPT ![w] = @ \cup {x}]
  /\ Works
  /\ UNCHANGED <<store, pc, pending, mem, orphans, ownGone, history>>

\* Mutant of FoldUnreadable: what could not be read counts as folded all the same.
FoldUnreadableFolded(w) ==
  /\ pc[w] = "fold"
  /\ todo[w] # {}
  /\ Fails("read")
  /\ todo' = [todo EXCEPT ![w] = @ \ {Least(@)}]
  /\ folded' = [folded EXCEPT ![w] = @ \cup {Least(todo[w])}]
  /\ UNCHANGED <<store, pc, pending, mem, map, orphans, ownGone, captured, history>>

\* A sidecar that cannot be read is left out of `folded`.
FoldUnreadable(w) ==
  /\ pc[w] = "fold"
  /\ todo[w] # {}
  /\ Fails("read")
  /\ todo' = [todo EXCEPT ![w] = @ \ {Least(@)}]
  /\ UNCHANGED <<store, pc, pending, mem, map, folded, orphans, ownGone,
                 captured, history>>

Opened(w) == pc[w] = "fold" /\ todo[w] = {} /\ lock # w

OpenDone(w) ==
  /\ Opened(w)
  /\ mem' = [mem EXCEPT ![w] = map[w]]
  /\ To(w, "idle")
  /\ Forget(w)
  /\ UNCHANGED <<store, pending, hist, acked, committed, forgone, stranded, bounds>>

------------------------------------------------------------------------------
(* The rest of flush.                                                        *)

\* atomic_replace of the main file.  "Refusing to compact to nothing" would need
\* a populated main file and an empty fold without a tombstone: FlushEnds shows
\* that this guard never holds a flush up.
SawTombstone(w) == \E n \in captured[w] : hist[n].kind = "remove"
RefusesToEmpty(w) == map[w] = EmptyMap /\ main # EmptyMap /\ ~SawTombstone(w)

Replace(w) ==
  /\ pc[w] = "fold" /\ todo[w] = {} /\ lock = w
  /\ ~RefusesToEmpty(w)
  /\ main' = map[w]
  /\ committed' = committed \cup captured[w]
  /\ To(w, "reap")
  /\ Works
  /\ UNCHANGED <<logs, lines, torn, comp, lock, pending, mem, scan, hist, acked,
                 deadThen, keysThen, forgone, stranded>>

\* It fails: flush returns the error, the guard drops, nothing was unlinked.
ReplaceFails(w) ==
  /\ pc[w] = "fold" /\ todo[w] = {} /\ lock = w
  /\ Fails("replace")
  /\ lock' = NoWriter
  /\ To(w, "idle")
  /\ Forget(w)
  /\ UNCHANGED <<main, logs, lines, torn, comp, pending, mem, hist, acked, committed,
                 forgone, stranded>>

UnlinkSidecar(x) ==
  /\ logs' = logs \ {x}
  /\ lines' = [lines EXCEPT ![x] = <<>>]
  /\ torn' = torn \ {x}

Candidate(w) == Least(folded[w])
Reaping(w) == pc[w] = "reap" /\ folded[w] # {}

\* Our own log: unlinked unconditionally; own_sidecar_gone says whether it went.
ReapOwn(w) ==
  /\ Reaping(w) /\ Candidate(w) = w
  /\ folded' = [folded EXCEPT ![w] = @ \ {w}]
  /\ \/ Works /\ UnlinkSidecar(w) /\ UNCHANGED ownGone
     \/ /\ Fails("remove")
        /\ ownGone' = [ownGone EXCEPT ![w] = FALSE]
        /\ UNCHANGED <<logs, lines, torn>>
  /\ UNCHANGED <<main, comp, lock, pc, pending, mem, map, todo, orphans,
                 captured, history>>

\* Mutant of SkipPeer: the loop does not go on to the next log.
SkipPeerForEver(w) ==
  /\ Reaping(w) /\ Candidate(w) # w
  /\ comp[Candidate(w)] # "free"
  /\ UNCHANGED vars

\* A peer's log whose companion is missing (foreign) or locked (owner alive).
SkipPeer(w) ==
  /\ Reaping(w) /\ Candidate(w) # w
  /\ comp[Candidate(w)] # "free"
  /\ folded' = [folded EXCEPT ![w] = @ \ {Candidate(w)}]
  /\ UNCHANGED <<store, pc, pending, mem, map, todo, orphans, ownGone, captured,
                 history, bounds>>

\* Mutant of ProbePeer: a companion its owner holds counts as abandoned too.
ProbePeerBlindly(w) ==
  /\ Reaping(w) /\ Candidate(w) # w
  /\ comp' = [comp EXCEPT ![Candidate(w)] = "peer"]
  /\ To(w, "unlinkLog")
  /\ UNCHANGED <<main, logs, lines, torn, lock, pending, mem, scan, history, bounds>>

\* The companion could be locked: the owner is taken for dead.
ProbePeer(w) ==
  /\ Reaping(w) /\ Candidate(w) # w
  /\ comp[Candidate(w)] = "free"
  /\ comp' = [comp EXCEPT ![Candidate(w)] = "peer"]
  /\ To(w, "unlinkLog")
  /\ UNCHANGED <<main, logs, lines, torn, lock, pending, mem, scan, history, bounds>>

\* Unlink the dead peer's log; a failure is ignored.
UnlinkPeerLog(w) ==
  /\ pc[w] = "unlinkLog"
  /\ \/ Works /\ UnlinkSidecar(Candidate(w))
     \/ Fails("remove") /\ UNCHANGED <<logs, lines, torn>>
  /\ To(w, "unlinkComp")
  /\ UNCHANGED <<main, comp, lock, pending, mem, scan, history>>

\* Unlink a companion we hold, and drop the guard; a failure leaves it unlocked.
DropCompanion(x) ==
  \/ Works /\ comp' = [comp EXCEPT ![x] = "absent"]
  \/ Fails("remove") /\ comp' = [comp EXCEPT ![x] = "free"]

UnlinkPeerComp(w) ==
  /\ pc[w] = "unlinkComp"
  /\ DropCompanion(Candidate(w))
  /\ folded' = [folded EXCEPT ![w] = @ \ {Candidate(w)}]
  /\ To(w, "reap")
  /\ UNCHANGED <<main, logs, lines, torn, lock, pending, mem, map, todo, orphans,
                 ownGone, captured, history>>

\* The orphan sweep: our own companion is skipped by name, a locked one is left.
ReapDone(w) ==
  /\ pc[w] = "reap" /\ folded[w] = {}
  /\ To(w, "sweep")
  /\ orphans' = [orphans EXCEPT ![w] = @ \ {w}]
  /\ UNCHANGED <<store, pending, mem, map, todo, folded, ownGone, captured,
                 history, bounds>>

SkipOrphan(w) ==
  /\ pc[w] = "sweep" /\ orphans[w] # {}
  /\ comp[Least(orphans[w])] = "own"
  /\ orphans' = [orphans EXCEPT ![w] = @ \ {Least(@)}]
  /\ UNCHANGED <<store, pc, pending, mem, map, todo, folded, ownGone, captured,
                 history, bounds>>

ProbeOrphan(w) ==
  /\ pc[w] = "sweep" /\ orphans[w] # {}
  /\ comp[Least(orphans[w])] # "own"
  /\ comp' = [comp EXCEPT ![Least(orphans[w])] = "peer"]
  /\ To(w, "unlinkOrphan")
  /\ UNCHANGED <<main, logs, lines, torn, lock, pending, mem, scan, history, bounds>>

\* What was an orphan when the directory was listed need not be one any more: the
\* sidecar may have been created since, and now nothing vouches for it.
UnlinkOrphan(w) ==
  LET x == Least(orphans[w]) IN
  /\ pc[w] = "unlinkOrphan"
  /\ DropCompanion(x)
  /\ stranded' = IF comp'[x] = "absent" THEN stranded \cup ({x} \cap logs)
                 ELSE stranded
  /\ orphans' = [orphans EXCEPT ![w] = @ \ {Least(@)}]
  /\ To(w, "sweep")
  /\ UNCHANGED <<main, logs, lines, torn, lock, pending, mem, map, todo, folded,
                 ownGone, captured, hist, acked, committed, deadThen, keysThen,
                 forgone>>

\* Mutant of IsEphemeral: the new view is the committed one, nothing is carried over.
NothingCarriedOver(n) == FALSE

IsEphemeral(n) == n # Absent /\ hist[n].kind = "ephemeral"

\* Mutant of GivesBack: the companion is kept for the next write.
KeepsCompanion(w) == FALSE

\* Mutant of GivesBack: the companion goes whether or not our log went.
GivesBackAlways(w) == comp[w] = "own"

\* Our log is gone and we hold our companion.
GivesBack(w) == ownGone[w] /\ comp[w] = "own"

\* Give the companion back if our log went, carry this run's ephemeral records
\* over into the new view, drop the compaction lock.
FlushDone(w) ==
  /\ pc[w] = "sweep" /\ orphans[w] = {}
  /\ IF GivesBack(w)
       THEN DropCompanion(w)
       ELSE Works /\ UNCHANGED comp
  /\ mem' = [mem EXCEPT ![w] =
       [k \in Keys |-> IF IsEphemeral(mem[w][k]) THEN mem[w][k] ELSE map[w][k]]]
  /\ lock' = NoWriter
  /\ To(w, "idle")
  /\ Forget(w)
  /\ UNCHANGED <<main, logs, lines, torn, pending, hist, acked, committed, forgone,
                 stranded>>

\* The process dies, or exits without a flush: its memory is gone, the kernel frees
\* its locks.  A writer id is never used again.
Crash(w) ==
  /\ pc[w] \notin {"closed", "dead"}
  /\ crashes < MaxCrashes
  /\ crashes' = crashes + 1
  /\ To(w, "dead")
  /\ lock' = IF lock = w THEN NoWriter ELSE lock
  /\ comp' = [x \in Writers |->
                IF (comp[x] = "own" /\ x = w) \/ (comp[x] = "peer" /\ lock = w)
                  THEN "free" ELSE comp[x]]
  /\ pending' = [pending EXCEPT ![w] = 0]
  /\ mem' = [mem EXCEPT ![w] = EmptyMap]
  /\ Forget(w)
  /\ UNCHANGED <<main, logs, lines, torn, hist, acked, committed, forgone, stranded,
                 flushes, faults, failed>>

------------------------------------------------------------------------------
Load(w) ==
  List(w) \/ LoadFails(w) \/ FoldNext(w) \/ FoldUnreadable(w) \/ OpenDone(w)
Companions(w) == EnsureLifelock(w) \/ OpenCompanion(w) \/ FlockCompanion(w)
Appends(w) == AppendLine(w) \/ AppendFails(w)
Commit(w) == Replace(w) \/ ReplaceFails(w)
Reap(w) ==
  \/ ReapOwn(w) \/ SkipPeer(w) \/ ProbePeer(w) \/ UnlinkPeerLog(w)
  \/ UnlinkPeerComp(w) \/ ReapDone(w)
Sweep(w) == SkipOrphan(w) \/ ProbeOrphan(w) \/ UnlinkOrphan(w) \/ FlushDone(w)

\* What a running process goes on doing without being asked again.
Step(w) ==
  \/ Load(w) \/ Companions(w) \/ Appends(w)
  \/ FlushLock(w) \/ Commit(w) \/ Reap(w) \/ Sweep(w)

Next ==
  \E w \in Writers :
    \/ Open(w)
    \/ \E k \in Keys, kind \in Kinds : Write(w, k, kind)
    \/ FlushCall(w)
    \/ Step(w)
    \/ Crash(w)

Spec == Init /\ [][Next]_vars
FairSpec == Spec /\ \A w \in Writers : WF_vars(Step(w))

------------------------------------------------------------------------------
(* Properties.                                                               *)

ControlTypeOK ==
  /\ logs \subseteq Writers
  /\ comp \in [Writers -> Companion]
  /\ lock \in Writers \cup {NoWriter}
  /\ pc \in [Writers -> Phases]
  /\ todo \in [Writers -> SUBSET Writers]
  /\ folded \in [Writers -> SUBSET Writers]
  /\ orphans \in [Writers -> SUBSET Writers]
  /\ ownGone \in [Writers -> BOOLEAN]
  /\ deadThen \in [Writers -> SUBSET Writers]
  /\ stranded \subseteq Writers
  /\ flushes \in 0..MaxFlushes
  /\ crashes \in 0..MaxCrashes
  /\ faults \in 0..MaxFaults
  /\ failed \subseteq FaultKinds

DataTypeOK ==
  /\ main \in Maps /\ \A k \in Keys : ~IsEphemeral(main[k])
  /\ lines \in [Writers -> Seq(1..MaxWrites)]
  /\ torn \subseteq logs
  /\ pending \in [Writers -> Records]
  /\ mem \in [Writers -> Maps]
  /\ map \in [Writers -> Maps]
  /\ captured \in [Writers -> SUBSET (1..MaxWrites)]
  /\ hist \in Seq([w : Writers, id : Keys, kind : Kinds])
  /\ Len(hist) <= MaxWrites
  /\ acked \subseteq 1..MaxWrites
  /\ committed \subseteq 1..MaxWrites
  /\ keysThen \in [Writers -> SUBSET Keys]
  /\ forgone \subseteq DOMAIN hist

TypeOK == ControlTypeOK /\ DataTypeOK

\* Where an acknowledged write can be found: on disk in its writer's sidecar, or
\* already part of a compaction that was committed.
Safe(n) == n \in committed \/ n \in ToSet(lines[hist[n].w])
Persistent(n) == hist[n].kind # "ephemeral"

\* An acknowledged write of a writer that still runs is never lost: no peer
\* unlinks a log whose last line its fold did not see (filecache.rs, "Deleting a
\* live peer's sidecar is the data-loss bug this design guards against").
LiveWritesSurvive ==
  \A n \in acked : Persistent(n) /\ Alive(hist[n].w) => Safe(n)

\* ... with two exceptions, whatever crashes and whichever calls fail: the line that
\* continues a torn one, and a write that went on without its companion because a
\* peer had it (filecache.rs, "forgo our crash-detection protection").  A peer can
\* have it in the split try_lock of the std host, and over any host once a failed
\* unlink left the companion behind for a peer to sweep.
Persisted(w) == {m \in DOMAIN hist : hist[m].w = w /\ Persistent(m)}
AfterFailedAppend(n) ==
  \E m \in Persisted(hist[n].w) \ acked :
    m < n /\ \A j \in Persisted(hist[n].w) : ~(m < j /\ j < n)
OnlyTornTailLoses ==
  \A n \in acked :
    Persistent(n) /\ Alive(hist[n].w) /\ ~Safe(n)
      => AfterFailedAppend(n) \/ n \in forgone

\* The same for every writer, whatever became of it since: "its lines already
\* captured by this same fold" (filecache.rs, reaping of an abandoned sidecar).
AckedWritesSurvive == \A n \in acked : Persistent(n) => Safe(n)

\* "The invariant `our sidecar exists => we hold our companion` never breaks": a
\* flush whose unlink of its own log failed keeps the companion, whatever else
\* fails.  Two exceptions: the last append forwent the companion; or a log could not
\* be read, for flush does not reap the writer's own log then but gives the
\* companion back all the same.
LastAttempt(w, n) ==
  /\ n \in Persisted(w) \ {pending[w]}
  /\ \A m \in Persisted(w) \ {pending[w]} : m <= n
SidecarVouchedFor ==
  "read" \notin failed =>
    \A w \in logs : Alive(w) => \/ comp[w] = "own"
                               \/ \E n \in forgone : LastAttempt(w, n)

\* A sidecar disappears only at the hands of its writer, or once that writer is
\* dead: no interleaving of probe, unlink and sweep takes it from a live peer, but
\* for the two exceptions above.
OnlyOwnerReapsLive ==
  [][\A w \in logs \ logs' :
       Alive(w) /\ "read" \notin failed
         => \/ Reaping(w) /\ Candidate(w) = w
            \/ \E n \in forgone : LastAttempt(w, n)]_vars

\* Whatever the writers that were dead when a flush began left behind is gone when it
\* ends, however many crashes interrupted earlier flushes ("a sidecar left behind by
\* a crashed writer must still be reclaimed").  A failed read or unlink excuses it,
\* and the code has an exception of its own, which crashes alone reach: a companion
\* that was listed before its owner's first append is unlinked by the orphan sweep
\* after its owner appended and died.  That log, stranded, reads as a foreign one:
\* it is folded again by every flush and reaped by none.
DeadReclaimed ==
  \A w \in Writers :
    failed \cap {"read", "remove"} = {} /\ pc[w] = "sweep" /\ orphans[w] = {} =>
      \A x \in deadThen[w] :
        comp[x] = "absent" /\ (x \in logs => x \in stranded)

\* "Each writer's own sequence of operations is always honored exactly": between
\* calls a writer's view of an id that only it writes is its last write, once that
\* is acknowledged, across its own and its peers' flushes, ephemeral ones included.
LastWrite(k) == CHOOSE n \in DOMAIN hist :
  hist[n].id = k /\ \A m \in DOMAIN hist : hist[m].id = k => m <= n
OwnSequenceHonoured ==
  \A k \in Keys, w \in Writers :
    LET mine == {n \in DOMAIN hist : hist[n].id = k} IN
    (/\ pc[w] = "idle"
     /\ mine # {} /\ LastWrite(k) \in acked
     /\ \A n \in mine : hist[n].w = w)
      => mem[w][k] = FoldLine(EmptyMap, LastWrite(k))[k]

\* A committed id never falls back to an older write of the SAME writer: logs are
\* unlinked only after their lines are in the main file, and replayed in order.
OwnOrderCommitted ==
  \A n, m \in committed :
    (n < m /\ hist[n].w = hist[m].w /\ hist[n].id = hist[m].id)
      => main[hist[n].id] # n

\* "A run that ends cleanly leaves only the main file": when every writer is between
\* calls and no sidecar is left, no companion is left either.  Two exceptions: an
\* unlink failed, or the append the companion was taken for did, before there was a
\* log (the writer's next flush then gives the companion back).
NothingLeftAround ==
  /\ "remove" \notin failed
  /\ logs = {} /\ lock = NoWriter
  /\ \A w \in Writers : pc[w] \in {"closed", "idle"}
  => \A w \in Writers :
       \/ comp[w] = "absent"
       \/ comp[w] = "own" /\ \E n \in DOMAIN hist \ acked : LastAttempt(w, n)

\* open loads "the current on-disk state": an id that was on disk when it began
\* and that nobody removes is in the view it returns.
Removed == {hist[n].id : n \in {m \in DOMAIN hist : hist[m].kind = "remove"}}
OpenSeesDisk ==
  [][\A w \in Writers :
       OpenDone(w) => \A k \in keysThen[w] \ Removed : mem'[w][k] # Absent]_vars

\* Every flush returns (or its process dies): the compaction lock is handed on,
\* the loops over logs and companions end, and no guard stops it for good.
FlushEnds ==
  \A w \in Writers : pc[w] = "wait" ~> pc[w] \in {"idle", "dead"}
==============================================================================
