------------------------------- MODULE Retrieval -------------------------------
(***************************************************************************)
(* CitationManager: retrieve drains a worklist of citations in passes, the *)
(* sources answer, chained pointers pull their targets in, failures are    *)
(* reported and attributed; get follows pointers; prune drops what is old. *)
(*                                                                         *)
(* A cite is a canonical (prefix, key): every spelling a source normalises *)
(* to the same id is the same cite, so a request may name one twice.  What *)
(* a source answers is a choice: any outcome, any allowed target, any      *)
(* order, and prefixes in any order (they are driven concurrently).        *)
(***************************************************************************)
EXTENDS Batching, SequencesExt

CONSTANTS
  Cites,          \* canonical ids (naturals: eligible ties sort by key)
  Sources,        \* the registered prefixes
  PrefixOf,       \* PrefixOf[c], which may be no registered prefix
  Targets,        \* Targets[c]: where the source of c may chain c to
  BatchingOf,     \* BatchingOf[p]: refresh batching of prefix p
  ChunkSize,      \* every source's chunk_size
  DefaultTtl,     \* every source's default_ttl
  Ttls,           \* TTLs of concrete answers (0: ephemeral)
  MaxChainDepth,  \* max_chain_depth
  ExtraAnswers,   \* cites that sources also answer without being asked
  Requestable,    \* which cites callers name; the others are only chained to
  MaxRequest,     \* bound: cites named by one retrieve
  MaxRetrieves,   \* bound: calls of retrieve
  MaxTime,        \* bound on the clock
  NoPrefix, NoCite

ASSUME RetrievalAssumption ==
  /\ Cites \subseteq Nat /\ IsFiniteSet(Cites) /\ NoCite \notin Cites
  /\ NoPrefix \notin Sources
  /\ Targets \in [Cites -> SUBSET Cites] /\ Requestable \subseteq Cites
  /\ BatchingOf \in [Sources -> Policies]
  /\ DefaultTtl \in Nat /\ Ttls \subseteq Nat /\ MaxChainDepth \in Nat
  /\ ExtraAnswers \subseteq Cites /\ ChunkSize \in Nat
  /\ MaxRequest \in Nat /\ MaxRetrieves \in Nat /\ MaxTime \in 0..MaxMillis

VARIABLES
  now,            \* the wall clock
  cache,          \* cache[c]: the store's record, or NoRecord
  pc,             \* where the running retrieve is
  requested,      \* the cites of the last retrieve
  worklist,       \* items the next pass will look at
  batch,          \* items of this pass not classified yet
  passNow,        \* the pass's one clock reading
  seen,           \* seen[c]: depth and origin c was reached with, or Unseen
  pending,        \* what was classified this pass, in order
  held,           \* chained pointers this pass may keep, with their targets
  toFetch,        \* cites asked of the sources and not answered yet
  group,          \* the prefix whose resolutions are being stored
  groupNow,       \* store_resolutions' clock reading
  handled,        \* keys of that prefix already resolved this pass
  failures,       \* the report
  aborted,        \* a store error ended the retrieve: no report
  fetched,        \* history: cites fetched by this retrieve
  retrieves       \* calls of retrieve so far

pass == <<batch, passNow, pending, held>>
apply == <<toFetch, group, groupNow, handled>>
vars == <<now, cache, pc, requested, worklist, seen, pass, apply, failures,
          aborted, fetched, retrieves>>

\* A record is a pointer (`to` a cite) or concrete (`to` = NoCite).
NoRecord == [to |-> NoCite, stale |-> -1, expires |-> -1]
Cached(c) == cache[c] # NoRecord
Chained(c) == cache[c].to # NoCite
Unseen == [depth |-> -1, origin |-> NoCite]
Item(c, depth, origin) == [cite |-> c, depth |-> depth, origin |-> origin]
Registered(c) == PrefixOf[c] \in Sources

Init ==
  /\ now = 0
  /\ cache = [c \in Cites |-> NoRecord]
  /\ pc = "idle"
  /\ requested = {} /\ worklist = <<>> /\ batch = <<>> /\ passNow = 0
  /\ seen = [c \in Cites |-> Unseen]
  /\ pending = <<>> /\ held = <<>>
  /\ toFetch = {} /\ group = NoPrefix /\ groupNow = 0 /\ handled = {}
  /\ failures = {} /\ aborted = FALSE /\ fetched = {} /\ retrieves = 0

\* CiteFailure::new: which cite failed, and the request it is attributed to.
Failure(c, origin) == [cite |-> c, origin |-> origin]

------------------------------------------------------------------------------
(* A pass: take the worklist, classify each item, plan each prefix.          *)

Retrieve(request) ==
  /\ pc = "idle"
  /\ retrieves < MaxRetrieves
  /\ retrieves' = retrieves + 1
  /\ requested' = ToSet(request)
  /\ worklist' = [i \in DOMAIN request |-> Item(request[i], 0, request[i])]
  /\ seen' = [c \in Cites |-> Unseen]
  /\ failures' = {} /\ aborted' = FALSE /\ fetched' = {}
  /\ pc' = "pass"
  /\ UNCHANGED <<now, cache, pass, apply>>

BeginPass ==
  /\ pc = "pass" /\ worklist # <<>>
  /\ batch' = worklist /\ worklist' = <<>>
  /\ passNow' = now
  /\ pending' = <<>> /\ held' = <<>>
  /\ pc' = "classify"
  /\ UNCHANGED <<now, cache, requested, seen, apply, failures, aborted, fetched,
                 retrieves>>

\* Take the next item: `seen` records it, whether or not the id is there.
Take(item) ==
  /\ pc = "classify" /\ batch # <<>> /\ item = Head(batch)
  /\ batch' = Tail(batch)
  /\ seen' = [seen EXCEPT ![item.cite] =
                [depth |-> item.depth, origin |-> item.origin]]
  /\ UNCHANGED <<now, cache, pc, requested, worklist, passNow, apply, aborted,
                 fetched, retrieves>>

\* Mutant of New: `seen` is not consulted.
AlwaysNew(item) == TRUE

New(item) == seen[item.cite] = Unseen

\* Mutant of SkipDuplicate: the item is left where it is.
SkipDuplicateForEver(item) ==
  /\ pc = "classify" /\ batch # <<>> /\ item = Head(batch)
  /\ ~New(item)
  /\ UNCHANGED vars

SkipDuplicate(item) ==
  /\ Take(item)
  /\ ~New(item)
  /\ UNCHANGED <<pending, held, failures>>

\* Deeper than get could follow, or a prefix without a source.
Refuse(item) ==
  /\ Take(item)
  /\ New(item)
  /\ item.depth >= MaxChainDepth \/ ~Registered(item.cite)
  /\ failures' = failures \cup {Failure(item.cite, item.origin)}
  /\ UNCHANGED <<pending, held>>

\* Look the cite up and classify it; the target of a pointer that may be kept
\* is held until planning says whether the pointer is refetched.
ClassOf(c, draw) ==
  IF Cached(c)
    THEN Classify(BatchingOf[PrefixOf[c]], cache[c], passNow, draw, DefaultTtl)
    ELSE "Required"

LookUp(item, draw) ==
  LET c == item.cite
      class == ClassOf(c, draw)
  IN
  /\ Take(item)
  /\ New(item) /\ item.depth < MaxChainDepth /\ Registered(c)
  /\ pending' = Append(pending, [cite |-> c, class |-> class])
  /\ held' = IF class # "Required" /\ Chained(c)
               THEN Append(held, [from |-> c,
                      item |-> Item(cache[c].to, item.depth + 1, item.origin)])
               ELSE held
  /\ UNCHANGED failures

\* The items of s at the positions in I, in their order.
At(s, I) ==
  LET places == Sorted([i \in I |-> 0], I) IN [n \in DOMAIN places |-> s[places[n]]]

\* The pending cites of prefix p in one class, in batch order.
InClass(p, class) ==
  LET mine == At(pending, {i \in DOMAIN pending : /\ PrefixOf[pending[i].cite] = p
                                                 /\ pending[i].class = class})
  IN  [i \in DOMAIN mine |-> mine[i].cite]

ByUrgency(s) == Sorted([c \in ToSet(s) |-> cache[c].expires], ToSet(s))

Planned(p) ==
  ToSet(Plan(BatchingOf[p], ChunkSize, InClass(p, "Required"), InClass(p, "Due"),
             ByUrgency(InClass(p, "Eligible"))).fetch)

\* Mutants of Kept: a refetched pointer still pulls its old target in; a kept
\* pointer pulls nothing in.
KeptAndRefetched(fetch) == held
KeptForNothing(fetch) == <<>>

\* Kept pointers pull their targets in; refetched ones do not.
Kept(fetch) == At(held, {i \in DOMAIN held : held[i].from \notin fetch})

PlanPass ==
  /\ pc = "classify" /\ batch = <<>>
  /\ \E fetch \in {UNION {Planned(p) : p \in Sources}} : \E kept \in {Kept(fetch)} :
       /\ toFetch' = fetch
       /\ fetched' = fetched \cup fetch
       /\ worklist' = [i \in DOMAIN kept |-> kept[i].item]
  /\ pc' = "apply"
  /\ UNCHANGED <<now, cache, requested, seen, pass, group, groupNow, handled,
                 failures, aborted, retrieves>>

------------------------------------------------------------------------------
(* store_resolutions, prefix after prefix in the order they completed.       *)

BeginGroup(p) ==
  /\ pc = "apply" /\ group = NoPrefix
  /\ \E c \in toFetch : PrefixOf[c] = p
  /\ group' = p /\ groupNow' = now /\ handled' = {}
  /\ UNCHANGED <<now, cache, pc, requested, worklist, seen, pass, toFetch,
                 failures, aborted, fetched, retrieves>>

\* The first resolution for a key of this prefix: one that was asked for, or any
\* other the source chooses to answer.
Answered(c) ==
  /\ pc = "apply" /\ group # NoPrefix /\ PrefixOf[c] = group
  /\ c \notin handled
  /\ c \in toFetch \cup ExtraAnswers
  /\ handled' = handled \cup {c}
  /\ toFetch' = toFetch \ {c}
  /\ UNCHANGED <<now, pc, requested, seen, pass, group, groupNow, aborted,
                 fetched, retrieves>>

\* Mutant of Meta: no fallback for a key nobody looked up.
MetaSeen(c) == seen[c]

\* How c was reached; a key nobody looked up counts as its own request.
Meta(c) == IF seen[c] # Unseen THEN seen[c] ELSE [depth |-> 0, origin |-> c]

\* Mutant of Follow: the target is attributed to itself, not to the request.
FollowAsRequest(c, t) == Append(worklist, Item(t, Meta(c).depth + 1, t))

Follow(c, t) == Append(worklist, Item(t, Meta(c).depth + 1, Meta(c).origin))

RecordOf(c, to, ttl) ==
  LET r == MakeRecord(groupNow, ttl, c)
  IN  [to |-> to, stale |-> r.stale, expires |-> r.expires]

StoreConcrete(c, ttl) ==
  /\ Answered(c)
  /\ cache' = [cache EXCEPT ![c] = RecordOf(c, NoCite, ttl)]
  /\ UNCHANGED <<worklist, failures>>

StoreChained(c, t) ==
  /\ Answered(c)
  /\ t # c
  /\ cache' = [cache EXCEPT ![c] = RecordOf(c, t, DefaultTtl)]
  /\ worklist' = Follow(c, t)
  /\ UNCHANGED failures

\* note_failure: the source failed, answered nonsense, chained the cite to itself
\* or gave no answer.  Within grace the old copy is kept, silently, and a kept
\* pointer pulls its target in.
NoteFailure(c) ==
  /\ Answered(c)
  /\ IF Cached(c) /\ UsableWithinGrace(cache[c], groupNow)
       THEN /\ worklist' = IF Chained(c) THEN Follow(c, cache[c].to) ELSE worklist
            /\ UNCHANGED failures
       ELSE /\ failures' = failures \cup {Failure(c, Meta(c).origin)}
            /\ UNCHANGED worklist
  /\ UNCHANGED cache

\* note_missing: authoritative, so reported and forgotten whatever the grace.
NoteMissing(c) ==
  /\ Answered(c)
  /\ cache' = [cache EXCEPT ![c] = NoRecord]
  /\ failures' = failures \cup {Failure(c, Meta(c).origin)}
  /\ UNCHANGED worklist

EndGroup ==
  /\ pc = "apply" /\ group # NoPrefix
  /\ \A c \in toFetch : PrefixOf[c] # group
  /\ group' = NoPrefix
  /\ UNCHANGED <<now, cache, pc, requested, worklist, seen, pass, toFetch,
                 groupNow, handled, failures, aborted, fetched, retrieves>>

EndPass ==
  /\ pc = "apply" /\ group = NoPrefix /\ toFetch = {}
  /\ pc' = "pass"
  /\ UNCHANGED <<now, cache, requested, worklist, seen, pass, apply, failures,
                 aborted, fetched, retrieves>>

\* A store call returns an error: the pass is abandoned, the report is lost.
StoreFails ==
  /\ \/ pc = "classify" /\ batch # <<>>
     \/ pc = "apply" /\ group # NoPrefix /\ \E c \in toFetch : PrefixOf[c] = group
  /\ aborted' = TRUE
  /\ pc' = "flush"
  /\ UNCHANGED <<now, cache, requested, worklist, seen, pass, apply, failures,
                 fetched, retrieves>>

EndPasses ==
  /\ pc = "pass" /\ worklist = <<>>
  /\ pc' = "flush"
  /\ UNCHANGED <<now, cache, requested, worklist, seen, pass, apply, failures,
                 aborted, fetched, retrieves>>

\* The store is flushed whatever happened; then retrieve returns and its locals
\* are gone.  A flush that fails loses the report too.
Return ==
  /\ pc = "flush"
  /\ aborted' \in {aborted, TRUE}
  /\ pc' = "idle"
  /\ worklist' = <<>> /\ batch' = <<>> /\ pending' = <<>> /\ held' = <<>>
  /\ toFetch' = {} /\ group' = NoPrefix /\ handled' = {}
  /\ passNow' = 0 /\ groupNow' = 0
  /\ UNCHANGED <<now, cache, requested, seen, failures, fetched, retrieves>>

\* prune, between two retrieves.
Prune ==
  /\ pc = "idle"
  /\ cache' = [c \in Cites |->
       IF Cached(c) /\ UsableWithinGrace(cache[c], now) THEN cache[c] ELSE NoRecord]
  /\ requested' = {} /\ failures' = {}
  /\ UNCHANGED <<now, pc, worklist, seen, pass, apply, aborted, fetched, retrieves>>

Tick ==
  /\ now < MaxTime
  /\ now' = now + 1
  /\ UNCHANGED <<cache, pc, requested, worklist, seen, pass, apply, failures,
                 aborted, fetched, retrieves>>

Classifies ==
  \E item \in ToSet(batch) :
    \/ SkipDuplicate(item)
    \/ Refuse(item)
    \/ \E draw \in 0..(DrawRange - 1) : LookUp(item, draw)
Stores ==
  \E c \in Cites :
    \/ \E ttl \in Ttls : StoreConcrete(c, ttl)
    \/ \E t \in Targets[c] : StoreChained(c, t)
    \/ NoteFailure(c)
    \/ NoteMissing(c)

\* What a running retrieve goes on doing: every request is answered or fails.
Step ==
  \/ BeginPass \/ Classifies \/ PlanPass
  \/ \E p \in Sources : BeginGroup(p)
  \/ Stores \/ EndGroup \/ EndPass \/ EndPasses \/ Return

Next ==
  \/ \E n \in 1..MaxRequest : \E request \in [1..n -> Requestable] : Retrieve(request)
  \/ Step \/ StoreFails \/ Prune \/ Tick

Spec == Init /\ [][Next]_vars

------------------------------------------------------------------------------
(* get: follow at most MaxChainDepth links.                                  *)

\* Where a pointer leads: nowhere from a concrete record or none.
To == [d \in Cites \cup {NoCite} |-> IF d = NoCite THEN NoCite ELSE cache[d].to]

Walk(c) ==
  LET walk[i \in 0..MaxChainDepth] == IF i = 0 THEN c ELSE To[walk[i - 1]] IN walk

\* Link(c)[i]: the id the i-th iteration looks up; NoCite when the walk is over.
Link(c) == [i \in 0..(MaxChainDepth - 1) |-> Walk(c)[i]]

Visited(c) == {Link(c)[i] : i \in 0..(MaxChainDepth - 1)} \ {NoCite}
GetSucceeds(c) == \E d \in Visited(c) : Cached(d) /\ ~Chained(d)
DeadEnds(c) == {d \in Visited(c) : ~Cached(d)}

------------------------------------------------------------------------------
Times == -1..MaxMillis
Items == [cite : Cites, depth : 0..Cardinality(Cites), origin : Cites]

TypeOK ==
  /\ now \in 0..MaxTime /\ passNow \in 0..MaxTime /\ groupNow \in 0..MaxTime
  /\ cache \in [Cites -> [to : Cites \cup {NoCite}, stale : Times, expires : Times]]
  /\ pc \in {"idle", "pass", "classify", "apply", "flush"}
  /\ requested \subseteq Cites
  /\ worklist \in Seq(Items) /\ batch \in Seq(Items)
  /\ seen \in [Cites -> [depth : -1..Cardinality(Cites), origin : Cites \cup {NoCite}]]
  /\ toFetch \subseteq Cites /\ handled \subseteq Cites /\ fetched \subseteq Cites
  /\ group \in Sources \cup {NoPrefix}
  /\ failures \subseteq [cite : Cites, origin : Cites]
  /\ aborted \in BOOLEAN /\ retrieves \in 0..MaxRetrieves

\* A report was returned.
Reported == pc = "idle" /\ ~aborted

\* The citation is never "unstored *and* unreported": when get stops at an id that
\* is not in the cache, the report of the retrieve names an id on that walk, however
\* the pointers on it came about (fetched, kept, in grace, shared by requests).
BrokenWalkReported ==
  Reported => \A c \in requested :
                DeadEnds(c) # {} => \E f \in failures : f.cite \in Visited(c)

\* Every requested cite chains at most once, no two of them to one target or to each
\* other, and the sources met on the way answer what they are asked.
Apart ==
  \A c \in requested :
    /\ \A e \in ExtraAnswers : \A d \in {c} \cup Targets[c] : PrefixOf[e] # PrefixOf[d]
    /\ \A t \in Targets[c] : t \notin requested /\ Targets[t] = {}
    /\ \A d \in requested \ {c} : Targets[c] \cap Targets[d] = {}

\* A failure belongs to a request, and get really follows that request to it: no
\* failure "for a citation nobody asked for" once a pointer was replaced.
OriginsLeadToFailure ==
  Reported /\ Apart => \A f \in failures :
                         f.origin \in requested /\ f.cite \in Visited(f.origin)

\* A requested cite that get cannot resolve is discoverable in the report,
\* directly or through a failure whose origin it is.
FailureDiscoverable ==
  Reported => \A c \in requested :
                ~GetSucceeds(c) => \E f \in failures : c \in {f.cite, f.origin}

\* And it is, when requests share nothing.
ApartFailureDiscoverable == Apart => FailureDiscoverable

\* No id is asked of its source twice in one retrieve, however many requests,
\* spellings and chains lead to it.
FetchedOnce == [][PlanPass => toFetch' \cap fetched = {}]_vars

\* A cached citation is dropped only on the word of its own source, asked about
\* it in this retrieve (or volunteering it), or by prune past the grace window: an
\* outage never empties the cache.
OutageKeepsCache ==
  [][\A c \in Cites : Cached(c) /\ cache'[c] = NoRecord =>
       \/ NoteMissing(c) /\ c \in fetched \cup ExtraAnswers
       \/ now >= SatAdd(cache[c].expires, Grace)]_vars
==============================================================================
