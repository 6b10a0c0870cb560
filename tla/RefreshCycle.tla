----------------------------- MODULE RefreshCycle -----------------------------
(***************************************************************************)
(* One source's entries over time: retrieve classifies the requested ones, *)
(* plans a request, refetches what the plan names and keeps serving the    *)
(* rest; prune drops what is past its grace window; the clock runs.        *)
(***************************************************************************)
EXTENDS Batching, SequencesExt

CONSTANTS
  Keys,           \* citation keys of the source (naturals: ties sort by key)
  Ttl,            \* the source's default_ttl
  ChunkSize,      \* the source's chunk_size
  InEffect,       \* the refresh batchings a host may configure
  Hash,           \* Hash[k]: the jitter seed of k, a function of the id
  MaxTime         \* bound on the clock

ASSUME CycleAssumption ==
  /\ Keys \subseteq Nat /\ IsFiniteSet(Keys)
  /\ Ttl \in Nat /\ ChunkSize \in Nat /\ MaxTime \in 0..MaxMillis
  /\ InEffect \subseteq Policies /\ Hash \in [Keys -> Nat]

VARIABLES
  now,            \* the wall clock
  policy,         \* the refresh batching in effect, fixed for the run
  rec,            \* rec[k]: the cached record of k, or NoRecord
  last            \* the last retrieve: what it classified and planned

vars == <<now, policy, rec, last>>

NoRecord == [stale |-> -1, expires |-> -1]
Cached(k) == rec[k] # NoRecord
Nothing == [asked |-> {}, required |-> {}, due |-> {}, eligible |-> {},
            plan |-> Plan(Eager, 1, <<>>, <<>>, <<>>), answered |-> FALSE]

Init ==
  /\ now = 0
  /\ policy \in InEffect
  /\ rec = [k \in Keys |-> NoRecord]
  /\ last = Nothing

InOrder(S) == Sorted([k \in S |-> 0], S)

\* Mutant of ByUrgency: the eligible entries are sorted by key only.
ByKey(S) == InOrder(S)

\* The eligible entries are sorted by (expires, key).
ByUrgency(S) == Sorted([k \in S |-> rec[k].expires], S)

\* One pass over this source: classify, plan, fetch.  The source is reachable
\* and answers every key, or it fails and every cached copy stays.
Retrieve(asked, draw, answered) ==
  LET class == [k \in asked |->
                  IF Cached(k) THEN Classify(policy, rec[k], now, draw[k], Ttl)
                  ELSE "Required"]
      Of(c) == {k \in asked : class[k] = c}
  IN
  \E plan \in {Plan(policy, ChunkSize, InOrder(Of("Required")), InOrder(Of("Due")),
                    ByUrgency(Of("Eligible")))} :
    /\ rec' = [k \in Keys |-> IF answered /\ k \in ToSet(plan.fetch)
                                THEN MakeRecord(now, Ttl, Hash[k]) ELSE rec[k]]
    /\ last' = [asked |-> asked, required |-> Of("Required"), due |-> Of("Due"),
                eligible |-> Of("Eligible"), plan |-> plan, answered |-> answered]
    /\ UNCHANGED <<now, policy>>

\* CitationManager::prune
Prune ==
  /\ rec' = [k \in Keys |-> IF Cached(k) /\ UsableWithinGrace(rec[k], now)
                              THEN rec[k] ELSE NoRecord]
  /\ last' = Nothing
  /\ UNCHANGED <<now, policy>>

Tick ==
  /\ now < MaxTime /\ now' = now + 1
  /\ last' = Nothing
  /\ UNCHANGED <<policy, rec>>

Next ==
  \/ \E asked \in (SUBSET Keys) \ {{}}, answered \in BOOLEAN :
       \E draw \in [asked -> 0..(DrawRange - 1)] : Retrieve(asked, draw, answered)
  \/ Prune
  \/ Tick

Spec == Init /\ [][Next]_vars

------------------------------------------------------------------------------
Times == -1..MaxMillis
TypeOK ==
  /\ now \in 0..MaxTime
  /\ policy \in InEffect
  /\ rec \in [Keys -> [stale : Times, expires : Times]]
  /\ last.asked \subseteq Keys
  /\ ToSet(last.plan.fetch) \subseteq last.asked

\* What a reachable source's entry looks like after it was asked for: it is not
\* overdue, and a prune at that instant keeps it ("never deferred past the point
\* where prune may drop it", whatever max_defer says).
ServedSurvivesPrune ==
  last.answered =>
    \A k \in last.asked : Cached(k) /\ UsableWithinGrace(rec[k], now)

\* Topping up to the chunk boundary is free: it never adds a request to those
\* that the due work (or the minimum batch) needs anyway.
Requests(n) == (n + ChunkSize - 1) \div ChunkSize
TopUpFree ==
  LET base == Cardinality(last.required \cup last.due)
      size == Cardinality(ToSet(last.plan.fetch))
  IN  policy.toChunk /\ size > 0 =>
        Requests(size) = Requests(IF last.required = {}
                                    THEN Higher(base, policy.minBatch) ELSE base)

\* Entries are pulled forward most urgent first: none is taken while one that
\* expires sooner is left.
MostUrgentFirst ==
  [][\A k, j \in last'.eligible :
       (k \in ToSet(last'.plan.fetch) /\ j \notin ToSet(last'.plan.fetch))
         => rec[k].expires <= rec[j].expires]_vars

\* A record with a non-zero TTL is not mistaken for an ephemeral one, which the
\* file store would never write to disk.
NormalRecordPersists ==
  \A k \in Keys : Cached(k) /\ Ttl > 0 => ~IsEphemeralRecord(rec[k])
==============================================================================
