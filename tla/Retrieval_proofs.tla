--------------------------- MODULE Retrieval_proofs ---------------------------
(***************************************************************************)
(* What a retrieve promises, for any number of cites, sources, chains,     *)
(* policies, passes and retrieves, whatever the sources answer and in      *)
(* whatever order: its state is well formed, no id is asked for twice, an  *)
(* outage drops nothing, no requested citation ends up both unstored and   *)
(* unreported, and a failure is found from the request it belongs to.      *)
(*                                                                         *)
(* DepthInv is the type invariant made inductive: nothing in the code      *)
(* bounds a depth by the number of cites, but an item at depth n was       *)
(* reached over at least n ids that `seen` already holds.  Fresh keeps     *)
(* asked ids apart from ids still to be classified.  SettledInv is the     *)
(* bookkeeping under BrokenWalkReported: an id looked at is reported, or   *)
(* still to be fetched, or cached with its target looked at or due; at the *)
(* end nothing is due, so induction along get's walk does the rest.        *)
(* AttributedInv is who everything is for: an item, a held target, an id   *)
(* seen or a failure is its request, or where that request's pointer leads *)
(* for good (Final: looked at, and not to be asked for any more).          *)
(*                                                                         *)
(* A run of the command line is a run of the manager (Managed) that now    *)
(* and then pauses, so all of that holds of both.  What a run says of      *)
(* itself (RunHonest) rests on how it builds its output: the ids written   *)
(* are the resolved ones of those asked for, in that order (OrderUnique).  *)
(* NearestWins goes back to what folding the property sets of a chain      *)
(* leaves of each field (GatherNearest).                                   *)
(***************************************************************************)
EXTENDS Cli, Batching_proofs, WellFoundedInduction

------------------------------------------------------------------------------
(* Lists.                                                                    *)

\* The items at some positions of a list are items of the list, one per position.
LEMMA AtItems ==
  ASSUME NEW T, NEW s \in Seq(T), NEW I \in SUBSET (1..Len(s))
  PROVE  /\ At(s, I) \in Seq(T)
         /\ \A x : x \in ToSet(At(s, I)) <=> \E i \in I : x = s[i]
<1> DEFINE f == [i \in I |-> 0]
           places == Sorted(f, I)
<1>1. I \in SUBSET Nat /\ IsFiniteSet(I)
  <2>1. IsFiniteSet(1..Len(s))
    BY FS_Interval
  <2>2. IsFiniteSet(I)
    BY <2>1, FS_Subset
  <2> QED
    BY <2>2
<1>2. f \in [I -> Int]
  OBVIOUS
<1> HIDE DEF f
<1>3. places \in Seq(I) /\ ToSet(places) = I
  BY <1>1, <1>2, SortedKeys
<1>4. At(s, I) = [n \in DOMAIN places |-> s[places[n]]]
  BY DEF At, f
<1> HIDE DEF places
<1>5. DOMAIN places = 1..Len(places) /\ \A n \in 1..Len(places) : places[n] \in I
  BY <1>3
<1>6. \A i \in I : \E n \in 1..Len(places) : places[n] = i
  BY <1>3 DEF ToSet
<1>7. \A i \in I : s[i] \in T
  OBVIOUS
<1>8. At(s, I) \in [1..Len(places) -> T]
  BY <1>4, <1>5, <1>7
<1>9. At(s, I) \in Seq(T) /\ DOMAIN At(s, I) = 1..Len(places)
  BY <1>3, <1>8
<1> DEFINE a == At(s, I)
<1>10. \A n \in 1..Len(places) : a[n] = s[places[n]]
  BY <1>4, <1>5
<1> HIDE DEF a
<1>11. DOMAIN a = 1..Len(places)
  BY <1>9 DEF a
<1>12. \A x : x \in ToSet(a) <=> \E n \in 1..Len(places) : x = s[places[n]]
  BY <1>10, <1>11 DEF ToSet
<1>13. \A x : x \in ToSet(a) <=> \E i \in I : x = s[i]
  BY <1>5, <1>6, <1>12
<1> QED
  BY <1>9, <1>13 DEF a

------------------------------------------------------------------------------
(* The state of a retrieve.                                                  *)

\* The ids this retrieve has looked at, and how deep its chains can be by now.
Reached == {c \in Cites : seen[c] # Unseen}
Depth == Cardinality(Reached)

\* While a pass classifies, every id it takes up is new to `seen`: what it was reached
\* with is a link short of the count.
Edge == IF pending = <<>> THEN Depth ELSE Depth - 1

ItemsTo(n) == [cite : Cites, depth : 0..n, origin : Cites]
SeenTo(n) == {Unseen} \cup [depth : 0..n, origin : Cites]
Records == [to : Cites \cup {NoCite}, stale : Times, expires : Times]
Classes == {"Required", "Due", "Eligible", "Keep"}

\* What does not depend on depths.
Shaped ==
  /\ now \in 0..MaxTime /\ passNow \in 0..MaxTime /\ groupNow \in 0..MaxTime
  /\ cache \in [Cites -> Records]
  /\ pc \in {"idle", "pass", "classify", "apply", "flush"}
  /\ requested \subseteq Cites
  /\ toFetch \subseteq Cites /\ handled \subseteq Cites /\ fetched \subseteq Cites
  /\ group \in Sources \cup {NoPrefix}
  /\ failures \subseteq [cite : Cites, origin : Cites]
  /\ aborted \in BOOLEAN /\ retrieves \in 0..MaxRetrieves
  /\ pending \in Seq([cite : Cites, class : Classes])

\* What a retrieve holds at each of its stages.
Staged ==
  /\ pc = "idle" => worklist = <<>> /\ batch = <<>> /\ pending = <<>> /\ held = <<>>
  /\ pc \in {"idle", "pass", "classify"} => toFetch = {} /\ group = NoPrefix
  /\ toFetch # {} \/ group # NoPrefix => pending # <<>>

\* No chain is longer than the ids seen so far: the count bounds every depth.
Bounded ==
  /\ worklist \in Seq(ItemsTo(Depth)) /\ batch \in Seq(ItemsTo(Edge))
  /\ held \in Seq([from : Cites, item : ItemsTo(Depth)])
  /\ seen \in [Cites -> SeenTo(Edge)]
  /\ pending # <<>> => Depth > 0

DepthInv == Shaped /\ Staged /\ Bounded

\* A retrieve of any list of citations, or any other step.
Moves ==
  \/ \E request \in Seq(Cites) : Retrieve(request)
  \/ Step \/ StoreFails \/ Prune \/ Tick

LEMMA NextMoves == Next => Moves
<1> SUFFICES ASSUME NEW n \in 1..MaxRequest, NEW request \in [1..n -> Requestable],
                    Retrieve(request)
             PROVE  Moves
  BY DEF Next, Moves
<1>1. n \in Nat /\ request \in [1..n -> Cites]
  <2>1. MaxRequest \in Nat /\ Requestable \subseteq Cites
    BY RetrievalAssumption
  <2> QED
    BY <2>1
<1>2. request \in Seq(Cites)
  BY <1>1
<1> QED
  BY <1>2 DEF Moves

------------------------------------------------------------------------------
(* The manager alone, and under the command line.                            *)

Managed == Init /\ [][Moves]_vars

\* What one run is asked for, and what the runs still to come are.
Arguments == [cite : Cites, canonical : BOOLEAN]
ArgsTyped ==
  /\ args \in Seq(Arguments)
  /\ script \in Seq(Seq({Malformed} \cup Arguments))

\* A line without a malformed argument is one of citations.
LEMMA WellFormedLine ==
  ASSUME NEW T, NEW bad, NEW line \in Seq({bad} \cup T), ~Contains(line, bad)
  PROVE  line \in Seq(T)
<1>1. DOMAIN line = 1..Len(line) /\ Len(line) \in Nat
  OBVIOUS
<1>2. \A i \in 1..Len(line) : line[i] \in T
  <2> SUFFICES ASSUME NEW i \in 1..Len(line) PROVE line[i] \in T
    OBVIOUS
  <2>1. line[i] \in {bad} \cup T
    OBVIOUS
  <2>2. line[i] # bad
    BY Zenon DEF Contains
  <2> QED
    BY <2>1, <2>2
<1>3. line = [i \in 1..Len(line) |-> line[i]]
  BY <1>1
<1>4. line \in [1..Len(line) -> T]
  BY <1>2, <1>3
<1> QED
  BY <1>1, <1>4

LEMMA CollectTypes ==
  ASSUME ArgsTyped, Collect
  PROVE  ArgsTyped' /\ (UNCHANGED vars \/ \E request \in Seq(Cites) : Retrieve(request))
<1> DEFINE S == Seq({Malformed} \cup Arguments)
           line == Head(script)
           cites == [i \in DOMAIN args' |-> args'[i].cite]
<1>1. script \in Seq(S) /\ script # <<>> /\ script' = Tail(script)
  BY DEF Collect, ArgsTyped
<1>2. line \in S /\ script' \in Seq(S)
  <2> HIDE DEF S
  <2> QED
    BY <1>1
<1>3. args' \in Seq(Arguments)
  <2>1. CASE Contains(line, Malformed)
    <3>1. args' = <<>>
      BY <2>1 DEF Collect
    <3> QED
      BY <3>1
  <2>2. CASE ~Contains(line, Malformed)
    <3>1. args' = Distinct(line)
      BY <2>2 DEF Collect
    <3>2. line \in Seq(Arguments)
      BY <1>2, <2>2, WellFormedLine
    <3> HIDE DEF line
    <3>3. {i \in DOMAIN line : \A j \in 1..(i - 1) : line[j] # line[i]}
            \in SUBSET (1..Len(line))
      BY <3>2
    <3> QED
      BY <3>1, <3>2, <3>3, AtItems DEF Distinct
  <2> QED
    BY <2>1, <2>2
<1>4. cites \in Seq(Cites)
  <2>1. \A i \in 1..Len(args') : args'[i] \in Arguments
    BY <1>3
  <2>2. cites \in [1..Len(args') -> Cites]
    BY <1>3, <2>1 DEF Arguments
  <2> QED
    BY <1>3, <2>2
<1>5. UNCHANGED vars \/ Retrieve(cites)
  BY DEF Collect, Exit
<1> QED
  BY <1>2, <1>3, <1>4, <1>5 DEF ArgsTyped

LEMMA ArgsAlways == CliSpec => []ArgsTyped
<1>1. CliInit => ArgsTyped
  <2> SUFFICES ASSUME CliInit PROVE ArgsTyped
    OBVIOUS
  <2>1. script \in Seq(Seq({Malformed} \cup Arguments)) /\ args = <<>>
    BY CliAssumption DEF CliInit, Arguments
  <2> QED
    BY <2>1 DEF ArgsTyped
<1>2. ArgsTyped /\ [CliNext]_<<vars, cli>> => ArgsTyped'
  <2>1. ASSUME ArgsTyped, UNCHANGED <<args, script>> PROVE ArgsTyped'
    BY <2>1 DEF ArgsTyped
  <2> QED
    BY <2>1, CollectTypes DEF CliNext, CliStep, Finish, cli
<1> QED
  BY <1>1, <1>2, PTL DEF CliSpec

\* Whatever the command line does to the cache, the manager does.
LEMMA AllManaged == Spec \/ CliSpec => Managed
<1>1. [Next]_vars => [Moves]_vars
  BY NextMoves
<1>2. ArgsTyped /\ [CliNext]_<<vars, cli>> => [Moves]_vars
  BY CollectTypes DEF CliNext, CliStep, Finish, Moves
<1>3. CliInit => Init
  BY DEF CliInit
<1> QED
  BY <1>1, <1>2, <1>3, ArgsAlways, PTL DEF Spec, CliSpec, Managed

------------------------------------------------------------------------------
(* Depths.                                                                   *)

\* Ids are counted by a natural number, at most as many as there are.
LEMMA DepthCount ==
  /\ IsFiniteSet(Reached) /\ Depth \in Nat /\ Depth <= Cardinality(Cites)
  /\ Cardinality(Cites) \in Nat
BY RetrievalAssumption, FS_Subset, FS_CardinalityType DEF Reached, Depth

\* What one bound on the depth allows, a higher one does.
Allows(n, m) ==
  /\ SeenTo(m) \subseteq SeenTo(n)
  /\ Seq(ItemsTo(m)) \subseteq Seq(ItemsTo(n))
  /\ Seq([from : Cites, item : ItemsTo(m)]) \subseteq Seq([from : Cites, item : ItemsTo(n)])

LEMMA BoundsGrow ==
  ASSUME NEW m \in Int, NEW n \in Int, m <= n PROVE Allows(n, m)
<1>1. 0..m \subseteq 0..n
  OBVIOUS
<1>2. ItemsTo(m) \subseteq ItemsTo(n) /\ SeenTo(m) \subseteq SeenTo(n)
  BY <1>1 DEF ItemsTo, SeenTo
<1>3. [from : Cites, item : ItemsTo(m)] \subseteq [from : Cites, item : ItemsTo(n)]
  BY <1>2
<1> HIDE DEF ItemsTo, SeenTo
<1> QED
  BY <1>2, <1>3, SeqMonotonic DEF Allows

\* Taking an item up counts it, when it is new; duplicates change no count.
LEMMA TakeCounts ==
  ASSUME DepthInv, NEW item, Take(item)
  PROVE  /\ item \in ItemsTo(Edge) /\ batch' \in Seq(ItemsTo(Edge))
         /\ New(item) => Depth' = Depth + 1
         /\ ~New(item) => Depth' = Depth
         /\ seen' \in [Cites -> SeenTo(Edge)]
         /\ seen'[item.cite] # Unseen
         /\ \A c \in Cites \ {item.cite} : seen'[c] = seen[c]
<1>1. item \in ItemsTo(Edge) /\ batch' \in Seq(ItemsTo(Edge))
  BY DEF Take, DepthInv, Bounded
<1>2. /\ item.cite \in Cites /\ item.origin \in Cites /\ item.depth \in 0..Edge
  BY <1>1 DEF ItemsTo
<1>3. seen' = [seen EXCEPT ![item.cite] = [depth |-> item.depth, origin |-> item.origin]]
  BY DEF Take
<1>4. [depth |-> item.depth, origin |-> item.origin] \in SeenTo(Edge) \ {Unseen}
  <2>1. item.depth # -1
    BY <1>2
  <2> QED
    BY <1>2, <2>1 DEF SeenTo, Unseen
<1>5. seen \in [Cites -> SeenTo(Edge)]
  BY DEF DepthInv, Bounded
<1>6. /\ seen' \in [Cites -> SeenTo(Edge)] /\ seen'[item.cite] # Unseen
      /\ \A c \in Cites \ {item.cite} : seen'[c] = seen[c]
  BY <1>2, <1>3, <1>4, <1>5
<1>7. Reached' = Reached \cup {item.cite}
  BY <1>2, <1>6 DEF Reached
<1>8. New(item) <=> item.cite \notin Reached
  BY <1>2 DEF New, Reached
<1>9. /\ New(item) => Depth' = Depth + 1
      /\ ~New(item) => Depth' = Depth
  <2>1. IsFiniteSet(Reached)
    BY DepthCount
  <2>2. item.cite \notin Reached => Cardinality(Reached \cup {item.cite}) = Depth + 1
    BY <2>1, FS_AddElement DEF Depth
  <2>3. item.cite \in Reached => Reached \cup {item.cite} = Reached
    OBVIOUS
  <2> QED
    BY <1>7, <1>8, <2>2, <2>3 DEF Depth
<1> QED
  BY <1>1, <1>6, <1>9

\* What is stored is a record with two times of the clock.
LEMMA RecordStored ==
  ASSUME Shaped, NEW c \in Cites, NEW to \in Cites \cup {NoCite}, NEW ttl \in Nat
  PROVE  /\ RecordOf(c, to, ttl) \in Records
         /\ RecordOf(c, to, ttl) # NoRecord
         /\ RecordOf(c, to, ttl).to = to
<1> DEFINE r == MakeRecord(groupNow, ttl, c)
<1>1. groupNow \in 0..MaxMillis /\ c \in Nat
  BY RetrievalAssumption, PolicyAssumption DEF Shaped
<1>2. r.stale \in groupNow..MaxMillis /\ r.expires \in groupNow..MaxMillis
  BY <1>1, RecordInRange
<1>3. RecordOf(c, to, ttl) = [to |-> to, stale |-> r.stale, expires |-> r.expires]
  BY DEF RecordOf
<1> HIDE DEF r
<1>4. r.stale \in Times /\ r.expires \in Times /\ r.stale # -1
  BY <1>1, <1>2 DEF Times
<1> QED
  BY <1>3, <1>4 DEF Records, NoRecord

\* How an id was reached: within the depth, and on behalf of an id.
LEMMA MetaBound ==
  ASSUME DepthInv, NEW c \in Cites, pending # <<>>
  PROVE  Meta(c).depth \in 0..(Depth - 1) /\ Meta(c).origin \in Cites
<1>1. Depth \in Nat /\ Depth > 0 /\ Edge = Depth - 1
  BY DepthCount DEF DepthInv, Bounded, Edge
<1>2. seen[c] \in SeenTo(Depth - 1)
  BY <1>1 DEF DepthInv, Bounded
<1> QED
  BY <1>1, <1>2 DEF Meta, SeenTo

\* Following a pointer makes an item of the next pass.
LEMMA FollowBound ==
  ASSUME DepthInv, NEW c \in Cites, NEW t \in Cites, pending # <<>>
  PROVE  Follow(c, t) \in Seq(ItemsTo(Depth))
<1>1. Meta(c).depth \in 0..(Depth - 1) /\ Meta(c).origin \in Cites /\ Depth \in Nat
  BY MetaBound, DepthCount
<1>2. Item(t, Meta(c).depth + 1, Meta(c).origin) \in ItemsTo(Depth)
  BY <1>1 DEF Item, ItemsTo
<1> QED
  BY <1>2 DEF Follow, DepthInv, Bounded

LEMMA StartKeepsDepth ==
  ASSUME DepthInv, NEW request \in Seq(Cites), Retrieve(request)
  PROVE  DepthInv'
<1> USE DEF DepthInv
<1>1. Shaped'
  <2>1. ToSet(request) \subseteq Cites
    BY DEF ToSet
  <2> QED
    <3>1. requested' \subseteq Cites /\ retrieves' \in 0..MaxRetrieves /\ failures' = {}
          /\ fetched' = {} /\ aborted' = FALSE /\ pc' = "pass"
      BY <2>1, RetrievalAssumption DEF Shaped, Retrieve
    <3>2. UNCHANGED <<now, cache, pending, passNow, toFetch, group, groupNow, handled>>
      BY DEF Retrieve, pass, apply
    <3> QED
      BY <3>1, <3>2 DEF Shaped
<1>2. Staged'
  BY DEF Staged, Retrieve, pass, apply
<1>3. Depth' = 0
  <2>1. Reached' = {}
    BY DEF Reached, Retrieve
  <2> QED
    BY <2>1, FS_EmptySet DEF Depth
<1>4. /\ batch' = <<>> /\ pending' = <<>> /\ held' = <<>> /\ Edge' = Depth'
      /\ seen' = [c \in Cites |-> Unseen]
      /\ worklist' = [i \in DOMAIN request |-> Item(request[i], 0, request[i])]
  BY DEF Staged, Retrieve, pass, apply, Edge
<1>5. worklist' \in Seq(ItemsTo(0))
  <2>1. \A i \in 1..Len(request) : Item(request[i], 0, request[i]) \in ItemsTo(0)
    BY DEF Item, ItemsTo
  <2>2. worklist' \in [1..Len(request) -> ItemsTo(0)]
    BY <1>4, <2>1
  <2> QED
    BY <2>2
<1>6. seen' \in [Cites -> SeenTo(0)]
  BY <1>4 DEF SeenTo
<1>7. Bounded'
  BY <1>3, <1>4, <1>5, <1>6 DEF Bounded
<1> QED
  BY <1>1, <1>2, <1>7

LEMMA BeginKeepsDepth ==
  ASSUME DepthInv, BeginPass PROVE DepthInv'
<1> USE DEF DepthInv
<1>1. Shaped'
  BY DEF Shaped, BeginPass, apply
<1>2. Staged'
  BY DEF Staged, BeginPass, apply
<1>3. /\ Depth' = Depth /\ Edge' = Depth /\ seen' = seen
      /\ worklist' = <<>> /\ batch' = worklist /\ held' = <<>> /\ pending' = <<>>
  BY DEF BeginPass, Depth, Reached, Edge
<1>4. seen \in [Cites -> SeenTo(Depth)]
  <2>1. Depth \in Nat /\ Edge \in Int /\ Edge <= Depth
    BY DepthCount DEF Edge
  <2>2. Allows(Depth, Edge)
    BY <2>1, BoundsGrow
  <2> QED
    BY <2>2 DEF Bounded, Allows
<1>5. Bounded'
  BY <1>3, <1>4 DEF Bounded
<1> QED
  BY <1>1, <1>2, <1>5

LEMMA ClassifyKeepsDepth ==
  ASSUME DepthInv, NEW item \in ToSet(batch), NEW draw,
         SkipDuplicate(item) \/ Refuse(item) \/ LookUp(item, draw)
  PROVE  DepthInv'
<1> USE DEF DepthInv
<1>1. Take(item)
  BY DEF SkipDuplicate, Refuse, LookUp
<1>2. /\ item \in ItemsTo(Edge) /\ batch' \in Seq(ItemsTo(Edge))
      /\ seen' \in [Cites -> SeenTo(Edge)]
      /\ New(item) => Depth' = Depth + 1
      /\ ~New(item) => Depth' = Depth
  BY <1>1, TakeCounts
<1>3. /\ pc = "classify" /\ pc' = pc /\ worklist' = worklist
      /\ UNCHANGED <<now, cache, requested, passNow, apply, aborted, fetched, retrieves>>
  BY <1>1 DEF Take
<1>4. Depth \in Nat /\ Edge \in Int /\ Edge <= Depth /\ Depth <= Edge + 1
  BY DepthCount DEF Edge
<1>5. item.cite \in Cites /\ item.origin \in Cites /\ item.depth \in 0..Edge
  BY <1>2 DEF ItemsTo
<1>6. CASE SkipDuplicate(item)
  <2>1. ~New(item) /\ UNCHANGED <<pending, held, failures>>
    BY <1>6 DEF SkipDuplicate
  <2>2. Shaped' /\ Staged'
    BY <1>3, <2>1 DEF Shaped, Staged, apply
  <2>3. Depth' = Depth /\ Edge' = Edge
    BY <1>2, <2>1 DEF Edge
  <2>4. Bounded'
    BY <1>2, <1>3, <2>1, <2>3 DEF Bounded
  <2> QED
    BY <2>2, <2>4
<1>7. CASE Refuse(item)
  <2>1. /\ New(item) /\ UNCHANGED <<pending, held>>
        /\ failures' = failures \cup {Failure(item.cite, item.origin)}
    BY <1>7 DEF Refuse
  <2>2. Shaped' /\ Staged'
    BY <1>3, <1>5, <2>1 DEF Shaped, Staged, apply, Failure
  <2>3. Depth' = Depth + 1 /\ Edge' = Edge + 1
    BY <1>2, <1>4, <2>1 DEF Edge
  <2>4. Allows(Edge', Edge) /\ Allows(Depth', Depth)
    BY <1>4, <2>3, BoundsGrow
  <2>5. Bounded'
    <3>1. /\ worklist' \in Seq(ItemsTo(Depth')) /\ batch' \in Seq(ItemsTo(Edge'))
          /\ held' \in Seq([from : Cites, item : ItemsTo(Depth')])
      BY <1>2, <1>3, <2>1, <2>4 DEF Bounded, Allows
    <3>2. seen' \in [Cites -> SeenTo(Edge')]
      BY <1>2, <2>4 DEF Allows
    <3> QED
      BY <1>4, <2>3, <3>1, <3>2 DEF Bounded
  <2> QED
    BY <2>2, <2>5
<1>8. CASE LookUp(item, draw)
  <2> DEFINE c == item.cite
             class == ClassOf(c, draw)
             next == Item(cache[c].to, item.depth + 1, item.origin)
  <2>1. /\ New(item) /\ pending' = Append(pending, [cite |-> c, class |-> class])
        /\ held' = IF class # "Required" /\ Chained(c)
                     THEN Append(held, [from |-> c, item |-> next]) ELSE held
        /\ UNCHANGED failures
    BY <1>8 DEF LookUp
  <2>2. class \in Classes
    BY DEF ClassOf, Classify, Classes
  <2>3. pending' \in Seq([cite : Cites, class : Classes]) /\ pending' # <<>>
    <3>1. [cite |-> c, class |-> class] \in [cite : Cites, class : Classes]
      BY <1>5, <2>2
    <3> HIDE DEF class
    <3> QED
      BY <2>1, <3>1 DEF Shaped
  <2>4. Shaped' /\ Staged'
    BY <1>3, <2>1, <2>3 DEF Shaped, Staged, apply
  <2>5. Depth' = Depth + 1 /\ Edge' = Depth
    BY <1>2, <1>4, <2>1, <2>3 DEF Edge
  <2>6. Allows(Edge', Edge) /\ Allows(Depth', Depth)
    BY <1>4, <2>5, BoundsGrow
  <2>7. Chained(c) => next \in ItemsTo(Depth')
    <3>1. Chained(c) => cache[c].to \in Cites
      BY <1>5 DEF Chained, Shaped, Records
    <3> QED
      BY <1>4, <1>5, <2>5, <3>1 DEF Item, ItemsTo
  <2>8. held' \in Seq([from : Cites, item : ItemsTo(Depth')])
    <3>1. held \in Seq([from : Cites, item : ItemsTo(Depth')])
      BY <2>6 DEF Bounded, Allows
    <3>2. Chained(c) =>
            [from |-> c, item |-> next] \in [from : Cites, item : ItemsTo(Depth')]
      BY <1>5, <2>7
    <3> DEFINE T == [from : Cites, item : ItemsTo(Depth')]
               e == [from |-> c, item |-> next]
    <3>3. held \in Seq(T) /\ (Chained(c) => e \in T)
      BY <3>1, <3>2
    <3>4. held' = held \/ (Chained(c) /\ held' = Append(held, e))
      BY <2>1
    <3> HIDE DEF T, e
    <3>5. held' \in Seq(T)
      BY <3>3, <3>4
    <3> QED
      BY <3>5 DEF T
  <2>9. Bounded'
    <3>1. worklist' \in Seq(ItemsTo(Depth')) /\ batch' \in Seq(ItemsTo(Edge'))
      BY <1>2, <1>3, <2>6 DEF Bounded, Allows
    <3>2. seen' \in [Cites -> SeenTo(Edge')]
      BY <1>2, <2>6 DEF Allows
    <3> QED
      BY <1>4, <2>5, <2>8, <3>1, <3>2 DEF Bounded
  <2> QED
    BY <2>4, <2>9
<1> QED
  BY <1>6, <1>7, <1>8

\* The ids classified this pass.
PendingCites == {pending[i].cite : i \in DOMAIN pending}

LEMMA PendingAreCites ==
  ASSUME DepthInv
  PROVE  PendingCites \subseteq Cites /\ (PendingCites # {} => pending # <<>>)
<1> DEFINE T == [cite : Cites, class : Classes]
<1>1. pending \in Seq(T)
  BY DEF DepthInv, Shaped
<1>2. \A x \in T : x.cite \in Cites
  OBVIOUS
<1> HIDE DEF T
<1>3. \A i \in DOMAIN pending : pending[i].cite \in Cites
  BY <1>1, <1>2
<1>4. pending = <<>> => DOMAIN pending = {}
  OBVIOUS
<1> QED
  BY <1>3, <1>4 DEF PendingCites

\* The records of this pass's cites, sorted out by prefix and class, are its cites.
LEMMA InClassCites ==
  ASSUME DepthInv, NEW p, NEW class
  PROVE  InClass(p, class) \in Seq(PendingCites)
<1> DEFINE I == {i \in DOMAIN pending : /\ PrefixOf[pending[i].cite] = p
                                       /\ pending[i].class = class}
           mine == At(pending, I)
           T == {pending[i] : i \in DOMAIN pending}
<1>1. pending \in Seq(T) /\ I \in SUBSET (1..Len(pending))
  BY DEF DepthInv, Shaped
<1>2. \A x \in T : x.cite \in PendingCites
  BY DEF PendingCites
<1>3. InClass(p, class) = [i \in DOMAIN mine |-> mine[i].cite]
  BY DEF InClass
<1> HIDE DEF T, I
<1>4. mine \in Seq(T)
  BY <1>1, AtItems
<1> HIDE DEF mine
<1>5. InClass(p, class) \in [1..Len(mine) -> PendingCites]
  BY <1>2, <1>3, <1>4
<1> QED
  BY <1>4, <1>5

\* The eligible ones, by urgency, too.
LEMMA EligiblePending ==
  ASSUME DepthInv, NEW p
  PROVE  ByUrgency(InClass(p, "Eligible")) \in Seq(PendingCites)
<1> DEFINE near == InClass(p, "Eligible")
           S == ToSet(near)
           f == [c \in S |-> cache[c].expires]
           eligible == ByUrgency(near)
<1>1. near \in Seq(PendingCites)
  BY InClassCites
<1>2. PendingCites \subseteq Cites
  BY PendingAreCites
<1> HIDE DEF near
<1>3. S \subseteq PendingCites
  BY <1>1 DEF ToSet
<1>4. S \in SUBSET Nat /\ IsFiniteSet(S)
  <2>1. Cites \subseteq Nat /\ IsFiniteSet(Cites) /\ S \in SUBSET Cites
    BY <1>2, <1>3, RetrievalAssumption
  <2>2. IsFiniteSet(S)
    BY <2>1, FS_Subset
  <2> QED
    BY <2>1, <2>2
<1>5. f \in [S -> Int]
  BY <1>2, <1>3 DEF DepthInv, Shaped, Records, Times
<1>6. eligible = Sorted(f, S)
  BY DEF ByUrgency
<1> HIDE DEF S, f, eligible
<1>7. eligible \in Seq(S)
  BY <1>4, <1>5, <1>6, SortedKeys
<1>8. eligible \in Seq(PendingCites)
  BY <1>3, <1>7, SeqMonotonic
<1> QED
  BY <1>8 DEF eligible, near

\* A pass asks only for ids it classified (RefreshBatching::plan, per prefix).
LEMMA PlannedPending ==
  ASSUME DepthInv, NEW p \in Sources PROVE Planned(p) \subseteq PendingCites
<1> DEFINE required == InClass(p, "Required")
           due == InClass(p, "Due")
           eligible == ByUrgency(InClass(p, "Eligible"))
           plan == Plan(BatchingOf[p], ChunkSize, required, due, eligible)
<1>1. required \in Seq(PendingCites) /\ due \in Seq(PendingCites)
  BY InClassCites
<1>2. eligible \in Seq(PendingCites)
  BY EligiblePending
<1>3. BatchingOf[p] \in Policies /\ ChunkSize \in Nat
  BY RetrievalAssumption
<1>4. Planned(p) = ToSet(plan.fetch)
  BY DEF Planned
<1> HIDE DEF plan, required, due, eligible
<1>5. plan.fetch \in Seq(PendingCites)
  BY <1>1, <1>2, <1>3, PlanFetches DEF plan
<1> QED
  BY <1>4, <1>5 DEF ToSet

\* What a pass asks for: ids it classified; what it leaves: targets of pointers it kept.
LEMMA PlanPassAsks ==
  ASSUME DepthInv, PlanPass
  PROVE  /\ toFetch' \subseteq PendingCites /\ fetched' = fetched \cup toFetch'
         /\ worklist' \in Seq(ItemsTo(Depth))
         /\ \A x : x \in ToSet(worklist') <=>
              \E i \in DOMAIN held : held[i].from \notin toFetch' /\ x = held[i].item
<1>1. PICK kept \in {Kept(toFetch')} :
         worklist' = [i \in DOMAIN kept |-> kept[i].item]
  BY DEF PlanPass
<1>2. toFetch' = UNION {Planned(p) : p \in Sources} /\ fetched' = fetched \cup toFetch'
  BY DEF PlanPass
<1>3. toFetch' \subseteq PendingCites
  BY <1>2, PlannedPending
<1> DEFINE T == [from : Cites, item : ItemsTo(Depth)]
           I == {i \in DOMAIN held : held[i].from \notin toFetch'}
<1>4. kept = At(held, I)
  BY <1>1 DEF Kept
<1>5. held \in Seq(T) /\ I \in SUBSET (1..Len(held))
  BY DEF DepthInv, Bounded
<1> HIDE DEF T, I
<1>6. /\ kept \in Seq(T)
      /\ \A x : x \in ToSet(kept) <=> \E i \in I : x = held[i]
  BY <1>4, <1>5, AtItems
<1>7. \A x \in T : x.item \in ItemsTo(Depth)
  BY DEF T
<1>8. DOMAIN worklist' = DOMAIN kept /\ worklist' \in [1..Len(kept) -> ItemsTo(Depth)]
  BY <1>1, <1>6, <1>7
<1>9. worklist' \in Seq(ItemsTo(Depth))
  BY <1>6, <1>8
<1>10. \A x : x \in ToSet(worklist') <=> \E y \in ToSet(kept) : x = y.item
  BY <1>1, <1>8 DEF ToSet
<1>11. \A x : x \in ToSet(worklist') <=> \E i \in I : x = held[i].item
  BY <1>6, <1>10
<1> QED
  BY <1>2, <1>3, <1>9, <1>11 DEF I

LEMMA PlanKeepsDepth ==
  ASSUME DepthInv, PlanPass PROVE DepthInv'
<1> USE DEF DepthInv
<1>1. /\ toFetch' \subseteq PendingCites /\ fetched' = fetched \cup toFetch'
      /\ worklist' \in Seq(ItemsTo(Depth))
  BY PlanPassAsks
<1>2. /\ pc = "classify" /\ batch = <<>> /\ pc' = "apply"
      /\ UNCHANGED <<now, cache, requested, seen, pass, group, groupNow, handled, failures,
                     aborted, retrieves>>
  BY DEF PlanPass
<1>3. PendingCites \subseteq Cites /\ (PendingCites # {} => pending # <<>>)
  BY PendingAreCites
<1>4. Shaped'
  BY <1>1, <1>2, <1>3 DEF Shaped, pass
<1>5. Staged'
  BY <1>1, <1>2, <1>3 DEF Staged, pass
<1>6. Depth' = Depth /\ Edge' = Edge
  BY <1>2 DEF Depth, Reached, Edge, pass
<1>7. Bounded'
  BY <1>1, <1>2, <1>6 DEF Bounded, pass
<1> QED
  BY <1>4, <1>5, <1>7

\* One answer stored, or a failure noted.
LEMMA AnswerKeepsDepth ==
  ASSUME DepthInv, NEW c \in Cites,
         \/ \E ttl \in Ttls : StoreConcrete(c, ttl)
         \/ \E t \in Targets[c] : StoreChained(c, t)
         \/ NoteFailure(c) \/ NoteMissing(c)
  PROVE  DepthInv'
<1> USE DEF DepthInv
<1>1. Answered(c)
  BY DEF StoreConcrete, StoreChained, NoteFailure, NoteMissing
<1>2. /\ pc = "apply" /\ group # NoPrefix /\ pending # <<>>
      /\ handled' = handled \cup {c} /\ toFetch' = toFetch \ {c}
      /\ UNCHANGED <<now, pc, requested, seen, pass, group, groupNow, aborted, fetched,
                     retrieves>>
  BY <1>1 DEF Answered, Staged
<1>3. Meta(c).origin \in Cites
  BY <1>2, MetaBound
<1> DEFINE Ok == /\ cache' \in [Cites -> Records]
                 /\ failures' \subseteq [cite : Cites, origin : Cites]
                 /\ worklist' \in Seq(ItemsTo(Depth))
<1>4. Ok
  <2>0. /\ cache \in [Cites -> Records] /\ failures \subseteq [cite : Cites, origin : Cites]
        /\ worklist \in Seq(ItemsTo(Depth))
        /\ Failure(c, Meta(c).origin) \in [cite : Cites, origin : Cites]
    BY <1>3 DEF Shaped, Bounded, Failure
  <2>1. ASSUME NEW ttl \in Ttls, StoreConcrete(c, ttl)
        PROVE  Ok
    <3>1. RecordOf(c, NoCite, ttl) \in Records
      BY RecordStored, RetrievalAssumption
    <3> QED
      BY <2>0, <2>1, <3>1 DEF StoreConcrete
  <2>2. ASSUME NEW t \in Targets[c], StoreChained(c, t)
        PROVE  Ok
    <3>1. t \in Cites /\ DefaultTtl \in Nat
      BY RetrievalAssumption
    <3>2. RecordOf(c, t, DefaultTtl) \in Records /\ Follow(c, t) \in Seq(ItemsTo(Depth))
      BY <1>2, <3>1, RecordStored, FollowBound
    <3> QED
      BY <2>0, <2>2, <3>2 DEF StoreChained
  <2>3. CASE NoteFailure(c)
    <3>1. Chained(c) => cache[c].to \in Cites
      BY <2>0 DEF Chained, Records
    <3>2. Chained(c) => Follow(c, cache[c].to) \in Seq(ItemsTo(Depth))
      BY <1>2, <3>1, FollowBound
    <3> QED
      BY <2>0, <2>3, <3>2 DEF NoteFailure
  <2>4. CASE NoteMissing(c)
    <3>1. NoRecord \in Records
      BY PolicyAssumption DEF NoRecord, Records, Times
    <3> QED
      BY <2>0, <2>4, <3>1 DEF NoteMissing
  <2> QED
    BY <2>1, <2>2, <2>3, <2>4
<1>5. Shaped'
  BY <1>2, <1>4 DEF Shaped, pass
<1>6. Staged'
  BY <1>2 DEF Staged, pass
<1>7. Depth' = Depth /\ Edge' = Edge
  BY <1>2 DEF Depth, Reached, Edge, pass
<1>8. Bounded'
  BY <1>2, <1>4, <1>7 DEF Bounded, pass
<1> QED
  BY <1>5, <1>6, <1>8

\* Every step keeps the shapes and the bound.
LEMMA DepthStep ==
  ASSUME DepthInv, [Moves]_vars PROVE DepthInv'
<1> USE DEF DepthInv
<1>1. ASSUME NEW request \in Seq(Cites), Retrieve(request) PROVE DepthInv'
  BY <1>1, StartKeepsDepth
<1>2. CASE BeginPass
  BY <1>2, BeginKeepsDepth
<1>3. CASE Classifies
  BY <1>3, ClassifyKeepsDepth DEF Classifies
<1>4. CASE PlanPass
  BY <1>4, PlanKeepsDepth
<1>5. CASE Stores
  BY <1>5, AnswerKeepsDepth DEF Stores
<1>6. ASSUME NEW p \in Sources, BeginGroup(p) PROVE DepthInv'
  <2>1. Shaped' /\ Staged'
    BY <1>6 DEF BeginGroup, Shaped, Staged, pass
  <2>2. Bounded'
    BY <1>6 DEF BeginGroup, Bounded, Depth, Reached, Edge, pass
  <2> QED
    BY <2>1, <2>2
<1>7. CASE EndGroup \/ EndPass \/ EndPasses \/ StoreFails
  <2>1. Shaped'
    BY <1>7 DEF EndGroup, EndPass, EndPasses, StoreFails, Shaped, pass, apply
  <2>2. Staged'
    BY <1>7 DEF EndGroup, EndPass, EndPasses, StoreFails, Staged, pass, apply
  <2>3. Bounded'
    BY <1>7 DEF EndGroup, EndPass, EndPasses, StoreFails, Bounded, Depth, Reached, Edge,
                pass
  <2> QED
    BY <2>1, <2>2, <2>3
<1>8. CASE Return
  <2>1. Shaped'
    <3>1. 0 \in 0..MaxTime
      BY RetrievalAssumption, PolicyAssumption
    <3>2. pending' \in Seq([cite : Cites, class : Classes]) /\ aborted' \in BOOLEAN
      <4>1. pending' = <<>> /\ aborted' \in {aborted, TRUE} /\ aborted \in BOOLEAN
        BY <1>8 DEF Return, Shaped
      <4>2. aborted' \in BOOLEAN
        BY <4>1
      <4> HIDE DEF DepthInv
      <4> QED
        BY <4>1, <4>2
    <3>3. /\ pc' = "idle" /\ toFetch' = {} /\ handled' = {} /\ group' = NoPrefix
          /\ passNow' = 0 /\ groupNow' = 0
          /\ UNCHANGED <<now, cache, requested, failures, fetched, retrieves>>
      BY <1>8 DEF Return
    <3> QED
      BY <3>1, <3>2, <3>3 DEF Shaped
  <2>2. Staged'
    BY <1>8 DEF Return, Staged
  <2>3. Bounded'
    <3>1. /\ Depth' = Depth /\ Edge' = Depth /\ seen' = seen
          /\ worklist' = <<>> /\ batch' = <<>> /\ held' = <<>> /\ pending' = <<>>
      BY <1>8 DEF Return, Depth, Reached, Edge
    <3>2. seen \in [Cites -> SeenTo(Depth)]
      <4>1. Depth \in Nat /\ Edge \in Int /\ Edge <= Depth
        BY DepthCount DEF Edge
      <4>2. Allows(Depth, Edge)
        BY <4>1, BoundsGrow
      <4> QED
        BY <4>2 DEF Bounded, Allows
    <3> QED
      BY <3>1, <3>2 DEF Bounded
  <2> QED
    BY <2>1, <2>2, <2>3
<1>9. CASE Prune
  <2>1. NoRecord \in Records
    BY PolicyAssumption DEF NoRecord, Records, Times
  <2>2. Shaped' /\ Staged'
    BY <1>9, <2>1 DEF Prune, Shaped, Staged, pass, apply
  <2>3. Bounded'
    BY <1>9 DEF Prune, Bounded, Depth, Reached, Edge, pass
  <2> QED
    BY <2>2, <2>3
<1>10. CASE Tick
  <2>0. MaxTime \in Nat
    BY RetrievalAssumption, PolicyAssumption
  <2>1. Shaped' /\ Staged'
    BY <1>10, <2>0 DEF Tick, Shaped, Staged, pass, apply
  <2>2. Bounded'
    BY <1>10 DEF Tick, Bounded, Depth, Reached, Edge, pass
  <2> QED
    BY <2>1, <2>2
<1>11. CASE UNCHANGED vars
  <2>1. Shaped' /\ Staged'
    BY <1>11 DEF vars, Shaped, Staged, pass, apply
  <2>2. Bounded'
    BY <1>11 DEF vars, Bounded, Depth, Reached, Edge, pass
  <2> QED
    BY <2>1, <2>2
<1> QED
  BY <1>1, <1>2, <1>3, <1>4, <1>5, <1>6, <1>7, <1>8, <1>9, <1>10, <1>11 DEF Moves, Step

LEMMA DepthAlways == Managed => []DepthInv
<1>1. Init => DepthInv
  <2> SUFFICES ASSUME Init PROVE DepthInv
    OBVIOUS
  <2>1. NoRecord \in Records /\ 0 \in 0..MaxTime /\ 0 \in 0..MaxRetrieves
    BY RetrievalAssumption, PolicyAssumption DEF NoRecord, Records, Times
  <2>2. Shaped
    <3>1. cache \in [Cites -> Records] /\ pending \in Seq([cite : Cites, class : Classes])
      BY <2>1 DEF Init
    <3>2. now = 0 /\ passNow = 0 /\ groupNow = 0 /\ retrieves = 0 /\ pc = "idle"
      BY DEF Init
    <3>3. /\ requested = {} /\ toFetch = {} /\ handled = {} /\ fetched = {}
          /\ failures = {} /\ group = NoPrefix /\ aborted = FALSE
      BY DEF Init
    <3> QED
      BY <2>1, <3>1, <3>2, <3>3 DEF Shaped
  <2>3. Staged
    BY DEF Init, Staged
  <2>4. Depth \in Nat /\ Edge = Depth
    BY DepthCount DEF Init, Edge
  <2>5. Bounded
    BY <2>4 DEF Init, Bounded, SeenTo
  <2> QED
    BY <2>2, <2>3, <2>5 DEF DepthInv
<1>2. DepthInv /\ [Moves]_vars => DepthInv'
  BY DepthStep
<1> QED
  BY <1>1, <1>2, PTL DEF Managed

\* Times stay within the clock, the store holds records of ids, and no chain the manager
\* follows is longer than there are ids, whatever the sources answer
\* (CitationManager::retrieve).
THEOREM TypeCorrect == Spec \/ CliSpec => []TypeOK
<1>1. DepthInv => TypeOK
  <2> SUFFICES ASSUME DepthInv PROVE TypeOK
    OBVIOUS
  <2> DEFINE n == Cardinality(Cites)
  <2>1. /\ Depth \in Nat /\ n \in Nat /\ Depth <= n /\ Edge \in Int /\ Edge <= n
    BY DepthCount DEF Edge
  <2>2. Allows(n, Depth) /\ Allows(n, Edge)
    BY <2>1, BoundsGrow
  <2>3. ItemsTo(n) = Items
    BY DEF ItemsTo, Items
  <2>4. worklist \in Seq(Items) /\ batch \in Seq(Items)
    BY <2>2, <2>3 DEF DepthInv, Bounded, Allows
  <2>5. SeenTo(n) \subseteq [depth : -1..n, origin : Cites \cup {NoCite}]
    BY <2>1 DEF SeenTo, Unseen
  <2>6. seen \in [Cites -> [depth : -1..n, origin : Cites \cup {NoCite}]]
    BY <2>2, <2>5 DEF DepthInv, Bounded, Allows
  <2> QED
    BY <2>4, <2>6 DEF DepthInv, Shaped, TypeOK, Records
<1> QED
  BY <1>1, DepthAlways, AllManaged, PTL

------------------------------------------------------------------------------
(* What is asked of the sources.                                             *)

\* What was classified and what was asked was seen, and nothing classified in this pass
\* was asked before.
Fresh ==
  /\ \A c \in fetched \cup PendingCites : seen[c] # Unseen
  /\ pc = "classify" => PendingCites \cap fetched = {}
  /\ toFetch \subseteq fetched
  /\ pc = "idle" => pending = <<>>

LEMMA FreshStep ==
  ASSUME DepthInv, Fresh, [Moves]_vars PROVE Fresh'
<1>1. ASSUME NEW request \in Seq(Cites), Retrieve(request) PROVE Fresh'
  <2>1. /\ pending' = <<>> /\ fetched' = {} /\ toFetch' = {} /\ pc' = "pass"
    BY <1>1 DEF Retrieve, pass, apply, DepthInv, Staged
  <2> QED
    BY <2>1 DEF Fresh, PendingCites
<1>2. CASE BeginPass
  <2>1. pending' = <<>> /\ UNCHANGED <<seen, fetched, toFetch>> /\ pc' = "classify"
    BY <1>2 DEF BeginPass, apply
  <2> QED
    BY <2>1 DEF Fresh, PendingCites
<1>3. ASSUME NEW item \in ToSet(batch), NEW draw,
             SkipDuplicate(item) \/ Refuse(item) \/ LookUp(item, draw)
      PROVE  Fresh'
  <2>1. Take(item)
    BY <1>3 DEF SkipDuplicate, Refuse, LookUp
  <2>2. /\ item.cite \in Cites /\ seen'[item.cite] # Unseen
        /\ \A c \in Cites \ {item.cite} : seen'[c] = seen[c]
    BY <2>1, TakeCounts DEF ItemsTo
  <2>3. /\ UNCHANGED <<fetched, toFetch, pc>> /\ pc = "classify"
    BY <2>1 DEF Take, apply
  <2>4. CASE SkipDuplicate(item) \/ Refuse(item)
    <3>1. pending' = pending
      BY <2>4 DEF SkipDuplicate, Refuse
    <3>2. PendingCites' = PendingCites
      BY <3>1 DEF PendingCites
    <3>3. \A c \in Cites : seen[c] # Unseen => seen'[c] # Unseen
      BY <2>2
    <3>4. fetched \subseteq Cites /\ PendingCites \subseteq Cites
      BY PendingAreCites DEF DepthInv, Shaped
    <3> QED
      BY <2>3, <3>1, <3>2, <3>3, <3>4 DEF Fresh
  <2>5. CASE LookUp(item, draw)
    <3>1. /\ New(item)
          /\ pending' = Append(pending, [cite |-> item.cite,
                                         class |-> ClassOf(item.cite, draw)])
      BY <2>5 DEF LookUp
    <3>2. PendingCites' = PendingCites \cup {item.cite}
      <4> DEFINE T == [cite : Cites, class : Classes]
                 e == [cite |-> item.cite, class |-> ClassOf(item.cite, draw)]
      <4>1. pending \in Seq(T) /\ pending' = Append(pending, e) /\ e.cite = item.cite
        BY <3>1 DEF DepthInv, Shaped
      <4> HIDE DEF T, e
      <4>2. /\ DOMAIN pending' = 1..(Len(pending) + 1) /\ DOMAIN pending = 1..Len(pending)
            /\ Len(pending) \in Nat
            /\ \A i \in 1..Len(pending) : pending'[i] = pending[i]
            /\ pending'[Len(pending) + 1] = e
        BY <4>1
      <4> QED
        BY <4>1, <4>2 DEF PendingCites
    <3>3. \A c \in Cites : seen[c] # Unseen => seen'[c] # Unseen
      BY <2>2
    <3>4. fetched \subseteq Cites /\ PendingCites \subseteq Cites
      BY PendingAreCites DEF DepthInv, Shaped
    <3>5. item.cite \notin fetched
      BY <3>1 DEF New, Fresh
    <3> QED
      BY <2>2, <2>3, <3>2, <3>3, <3>4, <3>5 DEF Fresh
  <2> QED
    BY <1>3, <2>4, <2>5
<1>4. CASE PlanPass
  <2>1. toFetch' \subseteq PendingCites /\ fetched' = fetched \cup toFetch'
    BY <1>4, PlanPassAsks
  <2>2. UNCHANGED <<seen, pending>> /\ pc' = "apply"
    BY <1>4 DEF PlanPass, pass
  <2> QED
    BY <2>1, <2>2 DEF Fresh, PendingCites
<1>5. CASE Stores
  <2>1. PICK c \in Cites : Answered(c)
    BY <1>5 DEF Stores, StoreConcrete, StoreChained, NoteFailure, NoteMissing
  <2>2. /\ toFetch' = toFetch \ {c} /\ UNCHANGED <<seen, pending, fetched, pc>>
    BY <2>1 DEF Answered, pass
  <2> QED
    BY <2>2 DEF Fresh, PendingCites
<1>6. CASE (\E p \in Sources : BeginGroup(p)) \/ EndGroup
  <2>1. UNCHANGED <<seen, pending, fetched, toFetch, pc>>
    BY <1>6 DEF BeginGroup, EndGroup, pass
  <2> QED
    BY <2>1 DEF Fresh, PendingCites
<1>7. CASE EndPass \/ EndPasses \/ StoreFails
  <2>1. UNCHANGED <<seen, pending, fetched, toFetch>> /\ pc' \in {"pass", "flush"}
    BY <1>7 DEF EndPass, EndPasses, StoreFails, pass, apply
  <2> QED
    BY <2>1 DEF Fresh, PendingCites
<1>8. CASE Return
  <2>1. pending' = <<>> /\ toFetch' = {} /\ UNCHANGED <<seen, fetched>> /\ pc' = "idle"
    BY <1>8 DEF Return
  <2> QED
    BY <2>1 DEF Fresh, PendingCites
<1>9. CASE Prune \/ Tick \/ UNCHANGED vars
  <2>1. UNCHANGED <<seen, pending, fetched, toFetch, pc>>
    BY <1>9 DEF Prune, Tick, vars, pass, apply
  <2> QED
    BY <2>1 DEF Fresh, PendingCites
<1> QED
  BY <1>1, <1>2, <1>3, <1>4, <1>5, <1>6, <1>7, <1>8, <1>9 DEF Moves, Step, Classifies

LEMMA FreshAlways == Managed => []Fresh
<1>1. Init => Fresh
  BY DEF Init, Fresh, PendingCites
<1>2. DepthInv /\ Fresh /\ [Moves]_vars => Fresh'
  BY FreshStep
<1> QED
  BY <1>1, <1>2, DepthAlways, PTL DEF Managed

\* No id is asked of its source twice in one retrieve, however many requests, spellings
\* and chains lead to it: `seen` is consulted before an item is classified.
THEOREM AskedOnce == Spec \/ CliSpec => FetchedOnce
<1>1. DepthInv /\ Fresh /\ [Moves]_vars => [PlanPass => toFetch' \cap fetched = {}]_vars
  <2> SUFFICES ASSUME DepthInv, Fresh, PlanPass PROVE toFetch' \cap fetched = {}
    OBVIOUS
  <2>1. toFetch' \subseteq PendingCites /\ pc = "classify"
    BY PlanPassAsks DEF PlanPass
  <2> QED
    BY <2>1 DEF Fresh
<1> QED
  BY <1>1, DepthAlways, FreshAlways, AllManaged, PTL DEF Managed, FetchedOnce

\* A cached citation goes only on the word of its own source, asked about it in this
\* retrieve or volunteering it, or in a prune past its grace window (note_missing, prune):
\* an outage never empties the cache.
THEOREM OutagesKeep == Spec \/ CliSpec => OutageKeepsCache
<1> DEFINE Kept2 == \A c \in Cites : Cached(c) /\ cache'[c] = NoRecord =>
                      \/ NoteMissing(c) /\ c \in fetched \cup ExtraAnswers
                      \/ now >= SatAdd(cache[c].expires, Grace)
<1>1. DepthInv /\ Fresh /\ [Moves]_vars => [Kept2]_vars
  <2> SUFFICES ASSUME DepthInv, Fresh, [Moves]_vars, NEW c \in Cites, Cached(c),
                      cache'[c] = NoRecord
               PROVE  \/ NoteMissing(c) /\ c \in fetched \cup ExtraAnswers
                      \/ now >= SatAdd(cache[c].expires, Grace)
    OBVIOUS
  <2>1. cache \in [Cites -> Records] /\ cache'[c] # cache[c]
    BY DEF DepthInv, Shaped, Cached
  <2>2. Moves \/ UNCHANGED vars
    OBVIOUS
  <2>3. CASE Stores
    <3>1. PICK d \in Cites : \/ \E ttl \in Ttls : StoreConcrete(d, ttl)
                             \/ \E t \in Targets[d] : StoreChained(d, t)
                             \/ NoteFailure(d) \/ NoteMissing(d)
      BY <2>3 DEF Stores
    <3>2. ASSUME NEW ttl \in Ttls, StoreConcrete(d, ttl) PROVE FALSE
      <4>1. RecordOf(d, NoCite, ttl) # NoRecord
        BY RecordStored, RetrievalAssumption DEF DepthInv
      <4> QED
        BY <2>1, <3>2, <4>1 DEF StoreConcrete
    <3>3. ASSUME NEW t \in Targets[d], StoreChained(d, t) PROVE FALSE
      <4>1. t \in Cites /\ DefaultTtl \in Nat
        BY RetrievalAssumption
      <4>2. RecordOf(d, t, DefaultTtl) # NoRecord
        BY <4>1, RecordStored DEF DepthInv
      <4> QED
        BY <2>1, <3>3, <4>2 DEF StoreChained
    <3>4. CASE NoteFailure(d)
      BY <2>1, <3>4 DEF NoteFailure
    <3>5. CASE NoteMissing(d)
      <4>1. d = c
        BY <2>1, <3>5 DEF NoteMissing
      <4>2. d \in toFetch \cup ExtraAnswers
        BY <3>5 DEF NoteMissing, Answered
      <4> QED
        BY <3>5, <4>1, <4>2 DEF Fresh
    <3> QED
      BY <3>1, <3>2, <3>3, <3>4, <3>5
  <2>4. CASE Prune
    <3>1. ~UsableWithinGrace(cache[c], now)
      BY <2>1, <2>4 DEF Prune
    <3>2. now \in Int /\ SatAdd(cache[c].expires, Grace) \in Int
      BY <2>1, RetrievalAssumption, PolicyAssumption
         DEF DepthInv, Shaped, Records, Times, SatAdd, Lower
    <3> QED
      BY <3>1, <3>2 DEF UsableWithinGrace
  <2>5. ASSUME ~Stores, ~Prune PROVE cache' = cache
    BY <2>2, <2>5 DEF vars, Moves, Step, Retrieve, BeginPass, Classifies, SkipDuplicate,
       Refuse, LookUp, Take, PlanPass, BeginGroup, EndGroup, EndPass, EndPasses, Return, StoreFails,
       Tick
  <2> QED
    BY <2>1, <2>3, <2>4, <2>5
<1> QED
  BY <1>1, DepthAlways, FreshAlways, AllManaged, PTL DEF Managed, OutageKeepsCache

------------------------------------------------------------------------------
(* get's walk.                                                               *)

\* A set of numbers that is not empty has a least.
LEMMA Least ==
  ASSUME NEW S \in SUBSET Nat, S # {} PROVE \E k \in S : \A n \in S : k <= n
<1> DEFINE R == OpToRel(<, Nat)
<1>1. IsWellFoundedOn(R, Nat)
  BY NatLessThanWellFounded, Zenon
<1>2. R = {p \in Nat \X Nat : p[1] < p[2]}
  BY Zenon DEF OpToRel
<1> HIDE DEF R
<1>3. \A m, n \in Nat : m < n => <<m, n>> \in R
  BY <1>2
<1>4. \E k \in S : \A n \in S : ~(<<n, k>> \in R)
  BY <1>1, WFMin
<1>5. PICK k \in S : \A n \in S : ~(<<n, k>> \in R)
  BY <1>4
<1>6. \A n \in S : n \in Nat /\ k \in Nat /\ ~(n < k)
  BY <1>3, <1>5
<1> QED
  BY <1>6

\* Induction: a set of numbers with 0 and every successor of its members is all of them.
LEMMA NaturalInduction ==
  ASSUME NEW S \in SUBSET Nat, 0 \in S, \A n \in S : n + 1 \in S
  PROVE  S = Nat
<1> SUFFICES ASSUME Nat \ S # {} PROVE FALSE
  OBVIOUS
<1>1. PICK k \in Nat \ S : \A n \in Nat \ S : k <= n
  BY Least
<1>2. k # 0 /\ k - 1 \in Nat /\ ~(k <= k - 1) /\ (k - 1) + 1 = k
  BY <1>1
<1> QED
  BY <1>1, <1>2

\* A walk of n steps from c: each goes where the one before it leads.
IsWalk(w, V, c, to, n) ==
  w \in [0..n -> V] /\ w[0] = c /\ \A i \in 1..n : w[i] = to[w[i - 1]]

\* There is one of every length.
LEMMA WalkExists ==
  ASSUME NEW V, NEW c \in V, NEW to \in [V -> V], NEW n \in Nat
  PROVE  \E w : IsWalk(w, V, c, to, n)
<1> DEFINE Reaches(k) == \E w : IsWalk(w, V, c, to, k)
           S == {k \in Nat : Reaches(k)}
<1>1. 0 \in S
  <2> DEFINE w == [i \in 0..0 |-> c]
  <2>1. w \in [0..0 -> V] /\ w[0] = c /\ \A i \in 1..0 : w[i] = to[w[i - 1]]
    OBVIOUS
  <2> HIDE DEF w
  <2> QED
    BY <2>1 DEF IsWalk
<1>2. ASSUME NEW k \in S PROVE k + 1 \in S
  <2>1. k \in Nat /\ Reaches(k)
    BY <1>2
  <2>0. PICK w : IsWalk(w, V, c, to, k)
    BY <2>1
  <2>2. w \in [0..k -> V] /\ w[0] = c /\ \A i \in 1..k : w[i] = to[w[i - 1]]
    BY <2>0 DEF IsWalk
  <2> DEFINE v == [i \in 0..(k + 1) |-> IF i = k + 1 THEN to[w[k]] ELSE w[i]]
  <2>3. v \in [0..(k + 1) -> V]
    <3>1. to[w[k]] \in V
      BY <2>1, <2>2
    <3>2. \A i \in 0..(k + 1) : i # k + 1 => w[i] \in V
      BY <2>1, <2>2
    <3> QED
      BY <3>1, <3>2
  <2>4. v[0] = c
    BY <2>1, <2>2
  <2>5. \A i \in 1..(k + 1) : v[i] = to[v[i - 1]]
    <3>1. \A i \in 1..k : v[i] = w[i] /\ v[i - 1] = w[i - 1]
      BY <2>1
    <3>2. v[k + 1] = to[w[k]] /\ v[k] = w[k]
      BY <2>1
    <3>3. \A i \in 1..(k + 1) : i \in 1..k \/ i = k + 1
      BY <2>1
    <3> HIDE DEF v
    <3>4. (k + 1) - 1 = k
      BY <2>1
    <3> QED
      BY <2>2, <3>1, <3>2, <3>3, <3>4
  <2> HIDE DEF v
  <2>6. Reaches(k + 1)
    BY <2>3, <2>4, <2>5 DEF IsWalk
  <2> QED
    BY <2>1, <2>6
<1> HIDE DEF S
<1>3. S \in SUBSET Nat
  BY DEF S
<1>4. S = Nat
  BY <1>1, <1>2, <1>3, NaturalInduction
<1> QED
  BY <1>4 DEF S

\* get looks up the id it was asked for, then wherever the record it found points to.
LEMMA WalkSteps ==
  ASSUME Shaped, NEW c \in Cites
  PROVE  /\ Walk(c) \in [0..MaxChainDepth -> Cites \cup {NoCite}]
         /\ Walk(c)[0] = c
         /\ \A i \in 1..MaxChainDepth : Walk(c)[i] = To[Walk(c)[i - 1]]
<1> DEFINE V == Cites \cup {NoCite}
           M == MaxChainDepth
           Follows(w) == w = [i \in 0..M |-> IF i = 0 THEN c ELSE To[w[i - 1]]]
<1>1. To \in [V -> V]
  BY DEF To, Shaped, Records
<1>2. M \in Nat
  BY RetrievalAssumption
<1> HIDE DEF M
<1>8. PICK w : IsWalk(w, V, c, To, M)
  <2>1. c \in V
    OBVIOUS
  <2> HIDE DEF V
  <2> QED
    BY <1>1, <1>2, <2>1, WalkExists
<1>3. w \in [0..M -> V] /\ w[0] = c /\ \A i \in 1..M : w[i] = To[w[i - 1]]
  BY <1>8 DEF IsWalk
<1>4. Follows(w)
  <2>1. w = [i \in 0..M |-> w[i]]
    BY <1>3
  <2>2. \A i \in 0..M : w[i] = IF i = 0 THEN c ELSE To[w[i - 1]]
    BY <1>2, <1>3
  <2> QED
    BY <2>1, <2>2
<1>5. Walk(c) = CHOOSE x : Follows(x)
  BY DEF Walk, M
<1>6. Follows(Walk(c))
  BY <1>4, <1>5
<1> DEFINE x == Walk(c)
<1>7. x = [i \in 0..M |-> x[i]] /\ x[0] = c /\ \A i \in 1..M : x[i] = To[x[i - 1]]
  BY <1>2, <1>6
<1> DEFINE S == {k \in Nat : k <= M => x[k] \in V}
<1> HIDE DEF x
<1>9. S = Nat
  <2>1. 0 \in S
    BY <1>7
  <2>2. ASSUME NEW k \in S PROVE k + 1 \in S
    <3>1. CASE k + 1 <= M
      <4>1. k \in Nat /\ x[k] \in V /\ k + 1 \in 1..M /\ (k + 1) - 1 = k
        BY <1>2, <2>2, <3>1
      <4>2. x[k + 1] = To[x[k]]
        BY <1>7, <4>1
      <4> HIDE DEF V
      <4> QED
        BY <1>1, <4>1, <4>2
    <3>2. CASE ~(k + 1 <= M)
      BY <2>2, <3>2
    <3> QED
      BY <3>1, <3>2
  <2> HIDE DEF S
  <2>3. S \in SUBSET Nat
    BY DEF S
  <2> QED
    BY <2>1, <2>2, <2>3, NaturalInduction
<1>10. \A k \in 0..M : x[k] \in V
  BY <1>2, <1>9
<1> HIDE DEF V
<1>11. x \in [0..M -> V]
  BY <1>7, <1>10
<1> QED
  BY <1>7, <1>11 DEF V, x, M

------------------------------------------------------------------------------
(* Nothing is unstored and unreported.                                       *)

\* The ids of a list of items.
Sites(s) == {s[i].cite : i \in DOMAIN s}

LEMMA SitesOfAppend ==
  ASSUME NEW T, NEW s \in Seq(T), NEW e \in T
  PROVE  Sites(Append(s, e)) = Sites(s) \cup {e.cite}
<1> DEFINE t == Append(s, e)
<1>1. /\ DOMAIN t = 1..(Len(s) + 1) /\ DOMAIN s = 1..Len(s) /\ Len(s) \in Nat
      /\ \A i \in 1..Len(s) : t[i] = s[i]
      /\ t[Len(s) + 1] = e
  OBVIOUS
<1> HIDE DEF t
<1>2. Sites(t) = Sites(s) \cup {e.cite}
  BY <1>1 DEF Sites
<1> QED
  BY <1>2 DEF t

LEMMA SitesOfTail ==
  ASSUME NEW T, NEW s \in Seq(T), s # <<>>
  PROVE  Sites(s) = {Head(s).cite} \cup Sites(Tail(s))
<1> DEFINE t == Tail(s)
<1>1. /\ DOMAIN t = 1..(Len(s) - 1) /\ DOMAIN s = 1..Len(s) /\ Len(s) \in Nat \ {0}
      /\ \A i \in 1..(Len(s) - 1) : t[i] = s[i + 1]
      /\ Head(s) = s[1]
  OBVIOUS
<1> HIDE DEF t
<1>2. \A i \in 1..Len(s) : i = 1 \/ (i - 1 \in 1..(Len(s) - 1) /\ (i - 1) + 1 = i)
  BY <1>1
<1>3. \A i \in 1..(Len(s) - 1) : i + 1 \in 1..Len(s)
  BY <1>1
<1>4. Sites(s) \subseteq {s[1].cite} \cup Sites(t)
  <2> SUFFICES ASSUME NEW i \in 1..Len(s), s[i].cite # s[1].cite
               PROVE  s[i].cite \in Sites(t)
    BY <1>1 DEF Sites
  <2>1. i - 1 \in DOMAIN t /\ t[i - 1] = s[i]
    BY <1>1, <1>2
  <2> QED
    BY <2>1 DEF Sites
<1>5. Sites(t) \subseteq Sites(s)
  <2> SUFFICES ASSUME NEW i \in 1..(Len(s) - 1) PROVE t[i].cite \in Sites(s)
    BY <1>1 DEF Sites
  <2>1. i + 1 \in DOMAIN s /\ t[i] = s[i + 1]
    BY <1>1, <1>3
  <2> QED
    BY <2>1 DEF Sites
<1>6. s[1].cite \in Sites(s)
  BY <1>1 DEF Sites
<1>7. Sites(s) = {Head(s).cite} \cup Sites(t)
  BY <1>1, <1>4, <1>5, <1>6
<1> QED
  BY <1>7 DEF t

\* The ids the report names, the ones classified as misses, the pointers held.
Failed == {f.cite : f \in failures}
Missing == {c \in Cites : \E i \in DOMAIN pending :
                            pending[i].cite = c /\ pending[i].class = "Required"}
HeldTo == {c \in Cites : \E i \in DOMAIN held :
                           held[i].from = c /\ held[i].item.cite = cache[c].to}

\* An id that was, or will be, looked at.
Due(c) == seen[c] # Unseen \/ c \in Sites(worklist) \cup Sites(batch)

\* An id looked at is reported, still to be fetched, or cached with its target due.
Settled(c) ==
  \/ c \in Failed \cup toFetch
  \/ pc = "classify" /\ c \in Missing
  \/ Cached(c) /\ (Chained(c) => \/ Due(cache[c].to)
                                 \/ pc = "classify" /\ c \in HeldTo)

\* What is left to do at each stage of a retrieve.
Scheduled ==
  /\ pc \in {"pass", "apply"} => batch = <<>>
  /\ pc = "classify" => worklist = <<>>
  /\ pc = "flush" /\ ~aborted => worklist = <<>> /\ batch = <<>> /\ toFetch = {}
  /\ \A i \in DOMAIN pending : Registered(pending[i].cite)

SettledInv ==
  /\ Scheduled
  /\ pc # "idle" /\ ~aborted =>
       /\ \A c \in requested : Due(c)
       /\ \A c \in Cites : seen[c] # Unseen => Settled(c)

\* A pass asks for every miss (RefreshBatching::plan keeps `required` in any request).
LEMMA MissesAsked ==
  ASSUME DepthInv, Scheduled, PlanPass PROVE Missing \subseteq toFetch'
<1> SUFFICES ASSUME NEW c \in Cites, NEW i \in DOMAIN pending,
                    pending[i].cite = c, pending[i].class = "Required"
             PROVE  c \in toFetch'
  BY DEF Missing
<1> DEFINE p == PrefixOf[c]
           required == InClass(p, "Required")
           due == InClass(p, "Due")
           eligible == ByUrgency(InClass(p, "Eligible"))
           plan == Plan(BatchingOf[p], ChunkSize, required, due, eligible)
<1>1. p \in Sources /\ BatchingOf[p] \in Policies /\ ChunkSize \in Nat
  BY RetrievalAssumption DEF Scheduled, Registered
<1>2. toFetch' = UNION {Planned(q) : q \in Sources} /\ Planned(p) = ToSet(plan.fetch)
  BY DEF PlanPass, Planned
<1>3. c \in ToSet(required)
  <2> DEFINE I == {j \in DOMAIN pending : /\ PrefixOf[pending[j].cite] = p
                                         /\ pending[j].class = "Required"}
             mine == At(pending, I)
             T == {pending[j] : j \in DOMAIN pending}
  <2>1. pending \in Seq(T) /\ I \in SUBSET (1..Len(pending))
    BY DEF DepthInv, Shaped
  <2>2. required = [n \in DOMAIN mine |-> mine[n].cite]
    BY DEF InClass
  <2>3. i \in I
    OBVIOUS
  <2> HIDE DEF I, T, required
  <2>4. pending[i] \in ToSet(mine)
    BY <2>1, <2>3, AtItems
  <2> HIDE DEF mine
  <2>5. PICK n \in DOMAIN mine : mine[n] = pending[i]
    BY <2>4 DEF ToSet
  <2> QED
    BY <2>2, <2>5 DEF ToSet
<1>4. /\ required \in Seq(PendingCites) /\ due \in Seq(PendingCites)
      /\ eligible \in Seq(PendingCites)
  <2>1. required \in Seq(PendingCites) /\ due \in Seq(PendingCites)
    BY InClassCites
  <2>2. eligible \in Seq(PendingCites)
    BY <1>1, EligiblePending
  <2> QED
    BY <2>1, <2>2
<1>5. required # <<>>
  BY <1>3 DEF ToSet
<1> HIDE DEF required, due, eligible, p, plan
<1>6. Fetches(BatchingOf[p], required, due, eligible, plan)
  BY <1>1, <1>4, PlanFetches DEF plan
<1>7. c \in ToSet(plan.fetch)
  BY <1>3, <1>5, <1>6 DEF Fetches
<1> QED
  BY <1>1, <1>2, <1>7

\* What Append keeps and adds.
LEMMA AppendedTo ==
  ASSUME NEW T, NEW s \in Seq(T), NEW e, NEW t, t = Append(s, e)
  PROVE  /\ \A i \in DOMAIN s : i \in DOMAIN t /\ t[i] = s[i]
         /\ \E i \in DOMAIN t : t[i] = e
         /\ \A i \in DOMAIN t : i \in DOMAIN s \/ t[i] = e
<1>1. /\ DOMAIN t = 1..(Len(s) + 1) /\ DOMAIN s = 1..Len(s) /\ Len(s) \in Nat
      /\ \A i \in 1..Len(s) : t[i] = s[i]
      /\ t[Len(s) + 1] = e
  OBVIOUS
<1> QED
  BY <1>1

\* A failure names its id.
LEMMA FailureNames ==
  ASSUME NEW c, NEW origin, failures' = failures \cup {Failure(c, origin)}
  PROVE  Failed' = Failed \cup {c}
<1> DEFINE f == Failure(c, origin)
<1>1. f.cite = c /\ failures' = failures \cup {f}
  BY DEF Failure
<1> HIDE DEF f
<1> QED
  BY <1>1 DEF Failed

\* Following a pointer puts its target on the worklist.
LEMMA FollowSites ==
  ASSUME DepthInv, NEW c \in Cites, NEW t \in Cites, pending # <<>>
  PROVE  Sites(Follow(c, t)) = Sites(worklist) \cup {t}
<1> DEFINE e == Item(t, Meta(c).depth + 1, Meta(c).origin)
<1>1. worklist \in Seq(ItemsTo(Depth))
  BY DEF DepthInv, Bounded
<1>2. e \in ItemsTo(Depth)
  BY MetaBound, DepthCount DEF Item, ItemsTo
<1>3. e.cite = t /\ Follow(c, t) = Append(worklist, e)
  BY DEF Item, Follow
<1> HIDE DEF e
<1> QED
  BY <1>1, <1>2, <1>3, SitesOfAppend

\* Starting a retrieve: every request is due.
LEMMA StartSettles ==
  ASSUME DepthInv, SettledInv, NEW request \in Seq(Cites), Retrieve(request)
  PROVE  SettledInv'
<1>1. /\ pc' = "pass" /\ batch' = <<>> /\ pending' = <<>> /\ requested' = ToSet(request)
      /\ worklist' = [i \in DOMAIN request |-> Item(request[i], 0, request[i])]
      /\ seen' = [c \in Cites |-> Unseen]
  BY DEF Retrieve, pass, apply, DepthInv, Staged
<1>2. Scheduled'
  BY <1>1 DEF Scheduled
<1>3. \A c \in ToSet(request) : c \in Sites(worklist')
  <2>1. \A i \in DOMAIN request : worklist'[i].cite = request[i]
    BY <1>1 DEF Item
  <2>2. DOMAIN worklist' = DOMAIN request
    BY <1>1
  <2> QED
    BY <2>1, <2>2 DEF Sites, ToSet
<1> QED
  BY <1>1, <1>2, <1>3 DEF SettledInv, Due

\* Starting a pass: what was on the worklist is in the batch.
LEMMA BeginSettles ==
  ASSUME DepthInv, SettledInv, BeginPass
  PROVE  SettledInv'
<1>1. /\ pc = "pass" /\ pc' = "classify" /\ batch' = worklist /\ worklist' = <<>>
      /\ pending' = <<>> /\ batch = <<>> /\ toFetch = {}
      /\ UNCHANGED <<cache, requested, seen, failures, toFetch, aborted>>
  BY DEF BeginPass, apply, SettledInv, Scheduled, DepthInv, Staged
<1>2. Scheduled'
  BY <1>1 DEF Scheduled
<1>3. ASSUME NEW c, Due(c) PROVE Due(c)'
  <2>1. Sites(batch) = {}
    BY <1>1 DEF Sites
  <2> QED
    BY <1>1, <1>3, <2>1 DEF Due
<1>4. ASSUME NEW c \in Cites, Settled(c) PROVE Settled(c)'
  BY <1>1, <1>3, <1>4 DEF Settled, Failed, Cached, Chained
<1> QED
  BY <1>1, <1>2, <1>3, <1>4 DEF SettledInv

\* Taking an item up: it is a duplicate, refused and reported, a miss, or cached with the
\* target it points to held.
LEMMA ClassifySettles ==
  ASSUME DepthInv, SettledInv, NEW item \in ToSet(batch), NEW draw,
         SkipDuplicate(item) \/ Refuse(item) \/ LookUp(item, draw)
  PROVE  SettledInv'
<1>1. Take(item)
  BY DEF SkipDuplicate, Refuse, LookUp
<1>2. /\ item.cite \in Cites /\ seen'[item.cite] # Unseen
      /\ \A c \in Cites \ {item.cite} : seen'[c] = seen[c]
  BY <1>1, TakeCounts DEF ItemsTo
<1>3. /\ pc = "classify" /\ pc' = "classify" /\ item = Head(batch) /\ batch' = Tail(batch)
      /\ batch # <<>>
      /\ UNCHANGED <<cache, requested, worklist, toFetch, aborted>>
  BY <1>1 DEF Take, apply
<1>4. Sites(batch) = {item.cite} \cup Sites(batch')
  BY <1>3, SitesOfTail DEF DepthInv, Bounded
<1>5. ASSUME NEW c \in Cites, Due(c) PROVE Due(c)'
  BY <1>2, <1>3, <1>4, <1>5 DEF Due
<1>6. ASSUME NEW c \in Cites, Chained(c) PROVE cache[c].to \in Cites
  BY <1>6 DEF Chained, DepthInv, Shaped, Records
<1>7. CASE SkipDuplicate(item)
  <2>1. seen[item.cite] # Unseen /\ UNCHANGED <<pending, held, failures>>
    BY <1>7 DEF SkipDuplicate, New
  <2>2. Scheduled'
    BY <1>3, <2>1 DEF SettledInv, Scheduled
  <2>3. ASSUME NEW c \in Cites, Settled(c) PROVE Settled(c)'
    <3>1. Failed' = Failed /\ Missing' = Missing /\ HeldTo' = HeldTo
      BY <1>3, <2>1 DEF Failed, Missing, HeldTo
    <3> QED
      BY <1>3, <1>5, <1>6, <2>3, <3>1 DEF Settled, Cached, Chained
  <2>4. \A c \in Cites : seen'[c] # Unseen => seen[c] # Unseen
    BY <1>2, <2>1
  <2>5. requested \subseteq Cites
    BY DEF DepthInv, Shaped
  <2> QED
    BY <1>3, <1>5, <2>2, <2>3, <2>4, <2>5 DEF SettledInv
<1>8. CASE Refuse(item)
  <2>1. /\ UNCHANGED <<pending, held>>
        /\ failures' = failures \cup {Failure(item.cite, item.origin)}
    BY <1>8 DEF Refuse
  <2>2. Scheduled'
    BY <1>3, <2>1 DEF SettledInv, Scheduled
  <2>3. item.cite \in Failed' /\ Failed \subseteq Failed'
    BY <2>1, FailureNames
  <2>4. ASSUME NEW c \in Cites, Settled(c) PROVE Settled(c)'
    <3>1. Missing' = Missing /\ HeldTo' = HeldTo
      BY <1>3, <2>1 DEF Missing, HeldTo
    <3> QED
      BY <1>3, <1>5, <1>6, <2>3, <2>4, <3>1 DEF Settled, Cached, Chained
  <2>5. Settled(item.cite)'
    BY <2>3 DEF Settled
  <2>6. requested \subseteq Cites
    BY DEF DepthInv, Shaped
  <2> QED
    BY <1>2, <1>3, <1>5, <2>2, <2>4, <2>5, <2>6 DEF SettledInv
<1>9. CASE LookUp(item, draw)
  <2> DEFINE d == item.cite
             class == ClassOf(d, draw)
             e == [cite |-> d, class |-> class]
             h == [from |-> d, item |-> Item(cache[d].to, item.depth + 1, item.origin)]
  <2>1. /\ pending' = Append(pending, e) /\ Registered(d) /\ failures' = failures
        /\ held' = IF class # "Required" /\ Chained(d) THEN Append(held, h) ELSE held
    BY <1>9 DEF LookUp
  <2>2. class # "Required" => Cached(d)
    BY DEF ClassOf
  <2>3. /\ \A i \in DOMAIN pending : i \in DOMAIN pending' /\ pending'[i] = pending[i]
        /\ \E i \in DOMAIN pending' : pending'[i] = e
        /\ \A i \in DOMAIN pending' : i \in DOMAIN pending \/ pending'[i] = e
    <3> DEFINE T == [cite : Cites, class : Classes]
    <3>1. pending \in Seq(T) /\ pending' = Append(pending, e)
      BY <2>1 DEF DepthInv, Shaped
    <3> HIDE DEF T, e
    <3> QED
      BY <3>1, AppendedTo
  <2>4. e.cite = d /\ e.class = class /\ h.from = d /\ h.item.cite = cache[d].to
    BY DEF Item
  <2> HIDE DEF e, h
  <2>5. /\ \A i \in DOMAIN held : i \in DOMAIN held' /\ held'[i] = held[i]
        /\ class # "Required" /\ Chained(d) => \E i \in DOMAIN held' : held'[i] = h
    <3>1. CASE class # "Required" /\ Chained(d)
      <4>1. held' = Append(held, h)
        BY <2>1, <3>1
      <4>2. held \in Seq([from : Cites, item : ItemsTo(Depth)])
        BY DEF DepthInv, Bounded
      <4> QED
        BY <3>1, <4>1, <4>2, AppendedTo
    <3>2. CASE ~(class # "Required" /\ Chained(d))
      BY <2>1, <3>2
    <3> QED
      BY <3>1, <3>2
  <2> HIDE DEF class
  <2>6. Missing \subseteq Missing' /\ HeldTo \subseteq HeldTo' /\ Failed' = Failed
    BY <1>3, <2>1, <2>3, <2>5 DEF Missing, HeldTo, Failed
  <2>7. /\ class = "Required" => d \in Missing'
        /\ class # "Required" /\ Chained(d) => d \in HeldTo'
    BY <1>2, <1>3, <2>3, <2>4, <2>5 DEF Missing, HeldTo
  <2>8. Scheduled'
    BY <1>3, <2>1, <2>3, <2>4 DEF SettledInv, Scheduled, Registered
  <2>9. ASSUME NEW c \in Cites, Settled(c) PROVE Settled(c)'
    BY <1>3, <1>5, <1>6, <2>6, <2>9 DEF Settled, Cached, Chained
  <2>10. Settled(d)'
    BY <1>3, <2>2, <2>7 DEF Settled, Cached, Chained
  <2>11. requested \subseteq Cites
    BY DEF DepthInv, Shaped
  <2> QED
    BY <1>2, <1>3, <1>5, <2>8, <2>9, <2>10, <2>11 DEF SettledInv
<1> QED
  BY <1>7, <1>8, <1>9

\* Planning: a miss is asked for; a pointer is refetched, or its target is on the worklist.
LEMMA PlanSettles ==
  ASSUME DepthInv, SettledInv, PlanPass
  PROVE  SettledInv'
<1>1. /\ pc = "classify" /\ pc' = "apply" /\ batch = <<>> /\ worklist = <<>>
      /\ toFetch = {}
      /\ UNCHANGED <<cache, requested, seen, batch, pending, held, failures, aborted>>
  BY DEF PlanPass, pass, SettledInv, Scheduled, DepthInv, Staged
<1>2. Missing \subseteq toFetch'
  BY MissesAsked DEF SettledInv
<1>3. ASSUME NEW c \in HeldTo, c \notin toFetch' PROVE cache[c].to \in Sites(worklist')
  <2>1. PICK i \in DOMAIN held : held[i].from = c /\ held[i].item.cite = cache[c].to
    BY <1>3 DEF HeldTo
  <2>2. held[i].item \in ToSet(worklist')
    BY <1>3, <2>1, PlanPassAsks
  <2> QED
    BY <2>1, <2>2 DEF ToSet, Sites
<1>4. Scheduled'
  BY <1>1 DEF SettledInv, Scheduled
<1>5. ASSUME NEW c, Due(c) PROVE Due(c)'
  <2>1. Sites(batch) = {} /\ Sites(worklist) = {}
    BY <1>1 DEF Sites
  <2> QED
    BY <1>1, <1>5, <2>1 DEF Due
<1>6. ASSUME NEW c \in Cites, Settled(c) PROVE Settled(c)'
  <2>1. CASE c \in Failed \cup toFetch \cup Missing
    BY <1>1, <1>2, <2>1 DEF Settled, Failed
  <2>2. CASE Cached(c) /\ (Chained(c) => Due(cache[c].to) \/ c \in HeldTo)
    <3>1. CASE c \in toFetch'
      BY <3>1 DEF Settled
    <3>2. CASE c \notin toFetch'
      <4>1. Chained(c) => Due(cache[c].to)'
        BY <1>1, <1>3, <1>5, <2>2, <3>2 DEF Due
      <4> QED
        BY <1>1, <2>2, <4>1 DEF Settled, Cached, Chained
    <3> QED
      BY <3>1, <3>2
  <2> QED
    BY <1>1, <1>6, <2>1, <2>2 DEF Settled
<1> QED
  BY <1>1, <1>4, <1>5, <1>6 DEF SettledInv

\* Storing an answer: the id is cached, with its target on the worklist, or reported.
LEMMA AnswerSettles ==
  ASSUME DepthInv, SettledInv, NEW d \in Cites,
         \/ \E ttl \in Ttls : StoreConcrete(d, ttl)
         \/ \E t \in Targets[d] : StoreChained(d, t)
         \/ NoteFailure(d) \/ NoteMissing(d)
  PROVE  SettledInv'
<1>1. Answered(d)
  BY DEF StoreConcrete, StoreChained, NoteFailure, NoteMissing
<1>2. /\ pc = "apply" /\ pc' = "apply" /\ toFetch' = toFetch \ {d} /\ pending # <<>>
      /\ UNCHANGED <<requested, seen, batch, pending, held, aborted>>
  BY <1>1 DEF Answered, pass, DepthInv, Staged
<1> DEFINE Ok == /\ Failed \subseteq Failed'
                 /\ \A c \in Cites \ {d} : cache'[c] = cache[c]
                 /\ Sites(worklist) \subseteq Sites(worklist')
                 /\ \/ d \in Failed'
                    \/ Cached(d)' /\ (Chained(d)' => cache'[d].to \in Sites(worklist'))
<1>3. Ok
  <2>0. /\ cache \in [Cites -> Records] /\ worklist \in Seq(ItemsTo(Depth))
    BY DEF DepthInv, Shaped, Bounded
  <2>1. ASSUME NEW ttl \in Ttls, StoreConcrete(d, ttl)
        PROVE  Ok
    <3>1. RecordOf(d, NoCite, ttl) # NoRecord /\ RecordOf(d, NoCite, ttl).to = NoCite
      BY RecordStored, RetrievalAssumption DEF DepthInv
    <3>2. /\ cache' = [cache EXCEPT ![d] = RecordOf(d, NoCite, ttl)]
          /\ UNCHANGED <<worklist, failures>>
      BY <2>1 DEF StoreConcrete
    <3>3. /\ cache'[d] = RecordOf(d, NoCite, ttl)
          /\ \A c \in Cites \ {d} : cache'[c] = cache[c]
      BY <2>0, <3>2
    <3> QED
      BY <3>1, <3>2, <3>3 DEF Cached, Chained, Failed
  <2>2. ASSUME NEW t \in Targets[d], StoreChained(d, t)
        PROVE  Ok
    <3>1. t \in Cites /\ DefaultTtl \in Nat
      BY RetrievalAssumption
    <3>2. /\ RecordOf(d, t, DefaultTtl) # NoRecord
          /\ RecordOf(d, t, DefaultTtl).to = t
      BY <3>1, RecordStored DEF DepthInv
    <3>3. /\ cache' = [cache EXCEPT ![d] = RecordOf(d, t, DefaultTtl)]
          /\ failures' = failures /\ worklist' = Follow(d, t)
      BY <2>2 DEF StoreChained
    <3>4. Sites(Follow(d, t)) = Sites(worklist) \cup {t}
      BY <1>2, <3>1, FollowSites
    <3>5. /\ cache'[d] = RecordOf(d, t, DefaultTtl)
          /\ \A c \in Cites \ {d} : cache'[c] = cache[c]
      BY <2>0, <3>3
    <3> QED
      BY <3>2, <3>3, <3>4, <3>5 DEF Cached, Failed
  <2>3. CASE NoteFailure(d)
    <3>1. cache' = cache
      BY <2>3 DEF NoteFailure
    <3>2. CASE Cached(d) /\ UsableWithinGrace(cache[d], groupNow)
      <4>1. /\ failures' = failures
            /\ worklist' = IF Chained(d) THEN Follow(d, cache[d].to) ELSE worklist
        BY <2>3, <3>2 DEF NoteFailure
      <4>2. Chained(d) => cache[d].to \in Cites
        BY <2>0 DEF Chained, Records
      <4>3. Chained(d) => Sites(Follow(d, cache[d].to)) = Sites(worklist) \cup {cache[d].to}
        BY <1>2, <4>2, FollowSites
      <4> QED
        BY <3>1, <3>2, <4>1, <4>3 DEF Cached, Chained, Failed
    <3>3. CASE ~(Cached(d) /\ UsableWithinGrace(cache[d], groupNow))
      <4>1. /\ failures' = failures \cup {Failure(d, Meta(d).origin)}
            /\ worklist' = worklist
        BY <2>3, <3>3 DEF NoteFailure
      <4>2. d \in Failed' /\ Failed \subseteq Failed'
        BY <4>1, FailureNames
      <4> QED
        BY <3>1, <4>1, <4>2
    <3> QED
      BY <3>2, <3>3
  <2>4. CASE NoteMissing(d)
    <3>1. /\ failures' = failures \cup {Failure(d, Meta(d).origin)}
          /\ worklist' = worklist /\ cache' = [cache EXCEPT ![d] = NoRecord]
      BY <2>4 DEF NoteMissing
    <3>2. d \in Failed' /\ Failed \subseteq Failed'
      BY <3>1, FailureNames
    <3>3. \A c \in Cites \ {d} : cache'[c] = cache[c]
      BY <2>0, <3>1
    <3> QED
      BY <3>1, <3>2, <3>3
  <2> QED
    BY <2>1, <2>2, <2>3, <2>4
<1>4. Scheduled'
  BY <1>2 DEF SettledInv, Scheduled
<1>5. ASSUME NEW c, Due(c) PROVE Due(c)'
  BY <1>2, <1>3, <1>5 DEF Due
<1>6. Settled(d)'
  BY <1>3 DEF Settled, Due
<1>7. ASSUME NEW c \in Cites \ {d}, Settled(c) PROVE Settled(c)'
  BY <1>2, <1>3, <1>5, <1>7 DEF Settled, Cached, Chained
<1> QED
  BY <1>2, <1>4, <1>5, <1>6, <1>7 DEF SettledInv

\* Between the passes' steps nothing is lost, however many answers, failures and ticks.
LEMMA SettledStep ==
  ASSUME DepthInv, SettledInv, [Moves]_vars PROVE SettledInv'
<1>1. ASSUME NEW request \in Seq(Cites), Retrieve(request) PROVE SettledInv'
  BY <1>1, StartSettles
<1>2. CASE BeginPass
  BY <1>2, BeginSettles
<1>3. CASE Classifies
  BY <1>3, ClassifySettles DEF Classifies
<1>4. CASE PlanPass
  BY <1>4, PlanSettles
<1>5. CASE Stores
  BY <1>5, AnswerSettles DEF Stores
<1>6. CASE \/ (\E p \in Sources : BeginGroup(p)) \/ EndGroup \/ Tick \/ UNCHANGED vars
           \/ EndPass \/ EndPasses
  <2>1. /\ UNCHANGED <<cache, requested, seen, worklist, batch, pending, held, toFetch,
                       failures, aborted>>
        /\ \/ pc' = pc
           \/ pc = "apply" /\ pc' = "pass"
           \/ pc = "pass" /\ pc' = "flush" /\ worklist = <<>> /\ toFetch = {}
    BY <1>6 DEF BeginGroup, EndGroup, Tick, EndPass, EndPasses, vars, pass, apply, DepthInv,
                Staged
  <2>2. Scheduled'
    BY <2>1 DEF SettledInv, Scheduled
  <2>3. \A c : Due(c)' <=> Due(c)
    BY <2>1 DEF Due
  <2>4. Missing' = Missing /\ HeldTo' = HeldTo /\ Failed' = Failed
    BY <2>1 DEF Missing, HeldTo, Failed
  <2>5. \A c \in Cites : Settled(c) => Settled(c)'
    BY <2>1, <2>3, <2>4 DEF Settled, Cached, Chained
  <2>6. pc' # "idle" => pc # "idle"
    BY <2>1
  <2> QED
    BY <2>1, <2>2, <2>3, <2>5, <2>6 DEF SettledInv
<1>7. CASE StoreFails
  <2>1. /\ aborted' = TRUE /\ pc' = "flush" /\ UNCHANGED pending
    BY <1>7 DEF StoreFails, pass
  <2> QED
    BY <2>1 DEF SettledInv, Scheduled
<1>8. CASE Return \/ Prune
  <2>1. pc' = "idle" /\ (pending' = <<>> \/ pending' = pending)
    BY <1>8 DEF Return, Prune, pass
  <2> QED
    BY <2>1 DEF SettledInv, Scheduled
<1> QED
  BY <1>1, <1>2, <1>3, <1>4, <1>5, <1>6, <1>7, <1>8 DEF Moves, Step

LEMMA SettledAlways == Managed => []SettledInv
<1>1. Init => SettledInv
  BY DEF Init, SettledInv, Scheduled
<1>2. DepthInv /\ SettledInv /\ [Moves]_vars => SettledInv'
  BY SettledStep
<1> QED
  BY <1>1, <1>2, DepthAlways, PTL DEF Managed

\* get's walk from a request stays among the ids that were looked at, up to a failure.
WalksReported ==
  \A c \in requested : DeadEnds(c) # {} => \E f \in failures : f.cite \in Visited(c)

LEMMA SettledWalks ==
  ASSUME DepthInv, SettledInv, pc = "flush", ~aborted PROVE WalksReported
<1> SUFFICES ASSUME NEW c \in requested, DeadEnds(c) # {},
                    \A f \in failures : f.cite \notin Visited(c)
             PROVE  FALSE
  BY DEF WalksReported
<1> DEFINE M == MaxChainDepth
           w == Walk(c)
<1>1. c \in Cites /\ M \in Nat
  BY RetrievalAssumption DEF DepthInv, Shaped
<1>2. /\ w \in [0..M -> Cites \cup {NoCite}] /\ w[0] = c
      /\ \A i \in 1..M : w[i] = To[w[i - 1]]
  BY <1>1, WalkSteps DEF DepthInv
<1>3. /\ \A d \in requested : seen[d] # Unseen
      /\ \A d \in Cites : seen[d] # Unseen =>
           d \in Failed \/ (Cached(d) /\ (Chained(d) => seen[cache[d].to] # Unseen))
  <2>1. worklist = <<>> /\ batch = <<>> /\ toFetch = {}
    BY DEF SettledInv, Scheduled
  <2>2. Sites(worklist) = {} /\ Sites(batch) = {}
    BY <2>1 DEF Sites
  <2> QED
    BY <2>1, <2>2 DEF SettledInv, Settled, Due
<1>4. Visited(c) = {w[i] : i \in 0..(M - 1)} \ {NoCite}
  BY <1>1, <1>2 DEF Visited, Link
<1>5. ASSUME NEW d \in Failed PROVE d \notin Visited(c)
  BY <1>5 DEF Failed
<1> HIDE DEF w, M
<1> DEFINE S == {k \in Nat : k < M => w[k] = NoCite \/ seen[w[k]] # Unseen}
<1>6. 0 \in S
  BY <1>2, <1>3
<1>7. ASSUME NEW k \in S PROVE k + 1 \in S
  <2>1. CASE k + 1 < M
    <3>1. /\ k \in 0..(M - 1) /\ k + 1 \in 1..M /\ (k + 1) - 1 = k /\ k \in 0..M
          /\ (w[k] = NoCite \/ seen[w[k]] # Unseen)
      BY <1>1, <1>7, <2>1
    <3>2. w[k + 1] = To[w[k]] /\ w[k] \in Cites \cup {NoCite}
      BY <1>2, <3>1
    <3>3. CASE w[k] = NoCite
      <4>1. w[k + 1] = NoCite
        BY <3>2, <3>3 DEF To
      <4> QED
        BY <1>7, <4>1
    <3>4. CASE w[k] # NoCite
      <4>1. w[k] \in Cites /\ seen[w[k]] # Unseen /\ w[k] \in Visited(c)
        BY <1>4, <3>1, <3>2, <3>4
      <4>2. Chained(w[k]) => seen[cache[w[k]].to] # Unseen
        BY <1>3, <1>5, <4>1
      <4>3. w[k + 1] = cache[w[k]].to
        BY <3>2, <3>4 DEF To
      <4>4. w[k + 1] = NoCite \/ seen[w[k + 1]] # Unseen
        BY <4>2, <4>3 DEF Chained
      <4> QED
        BY <1>7, <4>4
    <3> QED
      BY <3>3, <3>4
  <2>2. CASE ~(k + 1 < M)
    BY <1>7, <2>2
  <2> QED
    BY <2>1, <2>2
<1> HIDE DEF S
<1>8. S = Nat
  <2>1. S \in SUBSET Nat
    BY DEF S
  <2> QED
    BY <1>6, <1>7, <2>1, NaturalInduction
<1>9. PICK d \in Visited(c) : ~Cached(d)
  BY DEF DeadEnds
<1>10. PICK i \in 0..(M - 1) : d = w[i]
  BY <1>4
<1>11. i \in Nat /\ i < M /\ i \in 0..M /\ d # NoCite
  BY <1>1, <1>4, <1>10
<1>12. seen[d] # Unseen /\ d \in Cites
  BY <1>2, <1>8, <1>10, <1>11 DEF S
<1> QED
  BY <1>3, <1>5, <1>9, <1>12

\* A citation is never unstored and unreported: when get stops at an id that is not in the
\* cache, the report of the retrieve names an id on that walk, whatever the sources
\* answered and however the pointers on the walk came about (CitationManager::retrieve).
THEOREM BrokenWalksReported == Spec \/ CliSpec => []BrokenWalkReported
<1>1. Init => BrokenWalkReported
  BY DEF Init, BrokenWalkReported
<1>2. DepthInv /\ SettledInv /\ BrokenWalkReported /\ [Moves]_vars => BrokenWalkReported'
  <2> SUFFICES ASSUME DepthInv, SettledInv, BrokenWalkReported, [Moves]_vars,
                      pc' = "idle", ~aborted'
               PROVE  WalksReported'
    BY DEF BrokenWalkReported, Reported, WalksReported
  <2>1. [Moves]_vars
    OBVIOUS
  <2>2. CASE Return
    <3>1. /\ pc = "flush" /\ ~aborted /\ UNCHANGED <<cache, requested, failures>>
      <4>1. pc = "flush" /\ aborted' \in {aborted, TRUE}
        BY <2>2 DEF Return
      <4>2. UNCHANGED <<cache, requested, failures>>
        BY <2>2 DEF Return
      <4>3. ~aborted
        <5>1. aborted' = aborted \/ aborted' = TRUE
          BY <4>1, Zenon
        <5>2. ~aborted'
          OBVIOUS
        <5> QED
          BY <5>1, <5>2, Zenon
      <4> QED
        BY <4>1, <4>2, <4>3
    <3>2. WalksReported
      BY <3>1, SettledWalks
    <3>3. \A c : DeadEnds(c)' = DeadEnds(c) /\ Visited(c)' = Visited(c)
      BY <3>1 DEF DeadEnds, Visited, Link, Walk, To, Cached
    <3> QED
      BY <3>1, <3>2, <3>3 DEF WalksReported
  <2>3. CASE Prune
    BY <2>3 DEF Prune, WalksReported
  <2>4. CASE Tick \/ UNCHANGED vars
    <3>1. UNCHANGED <<cache, requested, failures, pc, aborted>>
      BY <2>4 DEF Tick, vars
    <3>2. WalksReported
      BY <3>1 DEF BrokenWalkReported, Reported, WalksReported
    <3>3. \A c : DeadEnds(c)' = DeadEnds(c) /\ Visited(c)' = Visited(c)
      BY <3>1 DEF DeadEnds, Visited, Link, Walk, To, Cached
    <3> QED
      BY <3>1, <3>2, <3>3 DEF WalksReported
  <2>5. ASSUME ~Return, ~Prune, ~Tick, vars' # vars PROVE FALSE
    BY <2>1, <2>5 DEF Moves, Step, Retrieve, BeginPass, Classifies, SkipDuplicate, Refuse,
       LookUp, Take, PlanPass, BeginGroup, Stores, StoreConcrete, StoreChained, NoteFailure,
       NoteMissing, Answered, EndGroup, EndPass, EndPasses, StoreFails
  <2> QED
    BY <2>2, <2>3, <2>4, <2>5
<1> QED
  BY <1>1, <1>2, DepthAlways, SettledAlways, AllManaged, PTL DEF Managed

------------------------------------------------------------------------------
(* Whose failure it is.                                                      *)

\* This retrieve will not ask for c again: its pointer stays what it is.
Final(c) ==
  /\ seen[c] # Unseen /\ c \notin toFetch
  /\ pc = "classify" => c \notin PendingCites

\* d is the request c itself, or what its pointer leads to for good.
Attributed(d, c) == c \in requested /\ (d = c \/ (Final(c) /\ cache[c].to = d))

Owned(s) == \A i \in DOMAIN s : Attributed(s[i].cite, s[i].origin)

\* A held target belongs to the request whose pointer may be kept.
HeldOwned ==
  \A i \in DOMAIN held :
    /\ held[i].from \in requested /\ seen[held[i].from] # Unseen
    /\ held[i].item.cite = cache[held[i].from].to
    /\ held[i].item.origin = held[i].from

Pointers == \A c \in Cites : cache[c].to \in Targets[c] \cup {NoCite}

\* What is asked for was looked at, and so was an id of the prefix being stored.
AskedSeen ==
  /\ \A c \in PendingCites \cup toFetch : seen[c] # Unseen
  /\ group # NoPrefix => \E c \in Cites : seen[c] # Unseen /\ PrefixOf[c] = group

Traced ==
  /\ Owned(worklist) /\ Owned(batch)
  /\ pc = "classify" => HeldOwned
  /\ pc # "idle" => \A d \in Cites : seen[d] # Unseen => Attributed(d, seen[d].origin)
  /\ \A f \in failures : Attributed(f.cite, f.origin)

AttributedInv == Pointers /\ AskedSeen /\ (Apart => Traced)

\* What keeps final pointers where they lead keeps what is attributed by them.
LEMMA AttributionStays ==
  ASSUME requested' = requested,
         \A c \in requested : Final(c) => Final(c)' /\ cache'[c].to = cache[c].to,
         NEW d, NEW c, Attributed(d, c)
  PROVE  Attributed(d, c)'
BY DEF Attributed

\* Only a request's own source chains: what it leads to leads nowhere.
LEMMA RootsChain ==
  ASSUME DepthInv, Pointers, Apart, NEW c \in Cites, NEW o, Attributed(c, o)
  PROVE  /\ c \in {o} \cup Targets[o]
         /\ Targets[c] # {} => c = o
<1>1. o \in requested /\ o \in Cites
  BY DEF Attributed, DepthInv, Shaped
<1>2. NoCite \notin Cites
  BY RetrievalAssumption
<1>3. CASE c = o
  BY <1>3
<1>4. CASE c # o
  <2>1. cache[o].to = c
    BY <1>4 DEF Attributed
  <2>2. c \in Targets[o]
    BY <1>1, <1>2, <2>1 DEF Pointers
  <2>3. Targets[c] = {}
    BY <1>1, <2>2 DEF Apart
  <2> QED
    BY <2>2, <2>3
<1> QED
  BY <1>3, <1>4

\* With requests apart, what is answered was asked for: nobody volunteers.
LEMMA AnsweredAsked ==
  ASSUME DepthInv, AttributedInv, Apart, NEW d \in Cites, Answered(d)
  PROVE  /\ d \in toFetch /\ seen[d] # Unseen /\ Meta(d) = seen[d]
         /\ Attributed(d, Meta(d).origin)
<1>1. /\ pc = "apply" /\ group # NoPrefix /\ PrefixOf[d] = group
      /\ d \in toFetch \cup ExtraAnswers
  BY DEF Answered
<1>2. Pointers /\ AskedSeen /\ Traced
  BY DEF AttributedInv
<1>3. PICK x \in Cites : seen[x] # Unseen /\ PrefixOf[x] = group
  BY <1>1, <1>2 DEF AskedSeen
<1>4. Attributed(x, seen[x].origin)
  BY <1>1, <1>2, <1>3 DEF Traced
<1>5. x \in {seen[x].origin} \cup Targets[seen[x].origin] /\ seen[x].origin \in requested
  BY <1>2, <1>4, RootsChain DEF Attributed
<1>6. d \notin ExtraAnswers
  BY <1>1, <1>3, <1>5 DEF Apart
<1>7. d \in toFetch /\ seen[d] # Unseen
  BY <1>1, <1>2, <1>6 DEF AskedSeen
<1>8. Attributed(d, seen[d].origin)
  BY <1>1, <1>2, <1>7 DEF Traced
<1> QED
  BY <1>7, <1>8 DEF Meta

LEMMA StartTraces ==
  ASSUME DepthInv, AttributedInv, NEW request \in Seq(Cites), Retrieve(request)
  PROVE  AttributedInv'
<1>1. /\ pc' = "pass" /\ batch' = <<>> /\ pending' = <<>> /\ requested' = ToSet(request)
      /\ worklist' = [i \in DOMAIN request |-> Item(request[i], 0, request[i])]
      /\ seen' = [c \in Cites |-> Unseen] /\ toFetch' = {} /\ group' = NoPrefix
      /\ failures' = {} /\ cache' = cache
  BY DEF Retrieve, pass, apply, DepthInv, Staged
<1>2. Pointers'
  BY <1>1 DEF AttributedInv, Pointers
<1>3. AskedSeen'
  BY <1>1 DEF AskedSeen, PendingCites
<1>4. Owned(worklist)'
  <2>1. \A i \in DOMAIN request : request[i] \in requested'
    BY <1>1 DEF ToSet
  <2>2. \A i \in DOMAIN request :
          worklist'[i].cite = request[i] /\ worklist'[i].origin = request[i]
    BY <1>1 DEF Item
  <2>3. DOMAIN worklist' = DOMAIN request
    BY <1>1
  <2> QED
    BY <2>1, <2>2, <2>3 DEF Owned, Attributed
<1>5. Traced'
  BY <1>1, <1>4 DEF Traced, Owned
<1> QED
  BY <1>2, <1>3, <1>5 DEF AttributedInv

LEMMA BeginTraces ==
  ASSUME DepthInv, AttributedInv, BeginPass
  PROVE  AttributedInv'
<1>1. /\ pc = "pass" /\ pc' = "classify" /\ batch' = worklist /\ worklist' = <<>>
      /\ pending' = <<>> /\ held' = <<>> /\ toFetch = {}
      /\ UNCHANGED <<cache, requested, seen, failures, toFetch, group>>
  BY DEF BeginPass, apply, DepthInv, Staged
<1>2. Pointers'
  BY <1>1 DEF AttributedInv, Pointers
<1>3. AskedSeen'
  BY <1>1 DEF AttributedInv, AskedSeen, PendingCites
<1>4. ASSUME Apart' PROVE Traced'
  <2>1. Traced
    BY <1>1, <1>4 DEF Apart, AttributedInv
  <2>2. \A c \in requested : Final(c) => Final(c)' /\ cache'[c].to = cache[c].to
    BY <1>1 DEF Final, PendingCites
  <2>3. ASSUME NEW d, NEW c, Attributed(d, c) PROVE Attributed(d, c)'
    BY <1>1, <2>2, <2>3, AttributionStays
  <2> QED
    BY <1>1, <2>1, <2>3 DEF Traced, Owned, HeldOwned
<1> QED
  BY <1>2, <1>3, <1>4 DEF AttributedInv
LEMMA ClassifyTraces ==
  ASSUME DepthInv, AttributedInv, NEW item \in ToSet(batch), NEW draw,
         SkipDuplicate(item) \/ Refuse(item) \/ LookUp(item, draw)
  PROVE  AttributedInv'
<1>1. Take(item)
  BY DEF SkipDuplicate, Refuse, LookUp
<1>2. /\ item.cite \in Cites /\ seen'[item.cite] # Unseen
      /\ seen'[item.cite] = [depth |-> item.depth, origin |-> item.origin]
      /\ \A c \in Cites \ {item.cite} : seen'[c] = seen[c]
  <2>1. item \in ItemsTo(Edge)
    BY <1>1, TakeCounts
  <2>2. seen' = [seen EXCEPT ![item.cite] = [depth |-> item.depth, origin |-> item.origin]]
        /\ seen \in [Cites -> SeenTo(Edge)]
    BY <1>1 DEF Take, DepthInv, Bounded
  <2> QED
    BY <1>1, <2>1, <2>2, TakeCounts DEF ItemsTo
<1>3. /\ pc = "classify" /\ pc' = "classify" /\ batch # <<>> /\ batch' = Tail(batch)
      /\ item = Head(batch) /\ toFetch = {} /\ group = NoPrefix
      /\ UNCHANGED <<cache, requested, worklist, toFetch, group>>
  BY <1>1 DEF Take, apply, DepthInv, Staged
<1>4. /\ \A i \in DOMAIN batch' : i + 1 \in DOMAIN batch /\ batch'[i] = batch[i + 1]
      /\ 1 \in DOMAIN batch /\ item = batch[1]
  BY <1>3 DEF DepthInv, Bounded
<1>5. PendingCites' = PendingCites \cup (IF LookUp(item, draw) THEN {item.cite} ELSE {})
      /\ (LookUp(item, draw) => seen[item.cite] = Unseen)
  <2>1. CASE LookUp(item, draw)
    <3> DEFINE e == [cite |-> item.cite, class |-> ClassOf(item.cite, draw)]
    <3>1. pending' = Append(pending, e) /\ seen[item.cite] = Unseen /\ e.cite = item.cite
      BY <2>1 DEF LookUp, New
    <3> HIDE DEF e
    <3>2. /\ \A i \in DOMAIN pending : i \in DOMAIN pending' /\ pending'[i] = pending[i]
          /\ \E i \in DOMAIN pending' : pending'[i] = e
          /\ \A i \in DOMAIN pending' : i \in DOMAIN pending \/ pending'[i] = e
      BY <3>1, AppendedTo DEF DepthInv, Shaped
    <3> QED
      BY <2>1, <3>1, <3>2 DEF PendingCites
  <2>2. CASE ~LookUp(item, draw)
    <3>1. pending' = pending
      BY <2>2 DEF SkipDuplicate, Refuse
    <3> QED
      BY <2>2, <3>1 DEF PendingCites
  <2> QED
    BY <2>1, <2>2
<1>6. Pointers'
  BY <1>3 DEF AttributedInv, Pointers
<1>7. AskedSeen'
  <2>1. toFetch' = {} /\ group' = NoPrefix
    BY <1>3
  <2>2. \A c \in PendingCites : seen[c] # Unseen /\ c \in Cites
    BY PendingAreCites DEF AttributedInv, AskedSeen
  <2>3. PendingCites' \subseteq PendingCites \cup {item.cite}
    BY <1>5
  <2>4. \A c \in PendingCites' : seen'[c] # Unseen
    BY <1>2, <2>2, <2>3
  <2> QED
    BY <2>1, <2>4 DEF AskedSeen
<1>8. ASSUME Apart' PROVE Traced'
  <2>1. Apart /\ Traced /\ Pointers
    BY <1>3, <1>8 DEF Apart, AttributedInv
  <2>2. \A c \in requested : Final(c) => Final(c)' /\ cache'[c].to = cache[c].to
    <3>1. requested \subseteq Cites
      BY DEF DepthInv, Shaped
    <3> QED
      BY <1>2, <1>3, <1>5, <3>1 DEF Final
  <2>3. ASSUME NEW d, NEW c, Attributed(d, c) PROVE Attributed(d, c)'
    BY <1>3, <2>2, <2>3, AttributionStays
  <2>4. Owned(worklist)'
    BY <1>3, <2>1, <2>3 DEF Traced, Owned
  <2>5. Owned(batch)'
    BY <1>4, <2>1, <2>3 DEF Traced, Owned
  <2>6. Attributed(item.cite, item.origin)
    BY <1>4, <2>1 DEF Traced, Owned
  <2>7. ASSUME NEW d \in Cites, seen'[d] # Unseen PROVE Attributed(d, seen[d].origin)'
    <3>1. CASE d = item.cite
      BY <1>2, <2>3, <2>6, <3>1
    <3>2. CASE d # item.cite
      <4>1. Attributed(d, seen[d].origin) /\ seen'[d] = seen[d]
        BY <1>2, <1>3, <2>1, <2>7, <3>2 DEF Traced
      <4> QED
        BY <2>3, <4>1
    <3> QED
      BY <3>1, <3>2
  <2>8. ASSUME NEW f \in failures' PROVE Attributed(f.cite, f.origin)'
    <3>1. f \in failures \/ f = Failure(item.cite, item.origin)
      BY <2>8 DEF SkipDuplicate, Refuse, LookUp
    <3>2. Attributed(f.cite, f.origin)
      BY <2>1, <2>6, <3>1 DEF Traced, Failure
    <3> QED
      BY <2>3, <3>2
  <2>9. HeldOwned'
    <3>1. \A i \in DOMAIN held : /\ held[i].from \in Cites /\ held[i].from \in requested
                                 /\ seen'[held[i].from] # Unseen
                                 /\ held[i].item.cite = cache[held[i].from].to
                                 /\ held[i].item.origin = held[i].from
      <4>1. requested \subseteq Cites
        BY DEF DepthInv, Shaped
      <4> QED
        BY <1>2, <1>3, <2>1, <4>1 DEF Traced, HeldOwned
    <3>2. CASE held' = held
      BY <1>3, <3>1, <3>2 DEF HeldOwned
    <3>3. CASE held' # held
      <4> DEFINE c == item.cite
                 h == [from |-> c, item |-> Item(cache[c].to, item.depth + 1, item.origin)]
      <4>1. held' = Append(held, h) /\ Chained(c)
        BY <3>3 DEF SkipDuplicate, Refuse, LookUp
      <4>2. h.from = c /\ h.item.cite = cache[c].to /\ h.item.origin = item.origin
        BY DEF Item
      <4> HIDE DEF h
      <4>3. \A i \in DOMAIN held' : (i \in DOMAIN held /\ held'[i] = held[i]) \/ held'[i] = h
        <5>1. held \in Seq([from : Cites, item : ItemsTo(Depth)])
          BY DEF DepthInv, Bounded
        <5> QED
          BY <4>1, <5>1, AppendedTo
      <4>4. c = item.origin /\ c \in requested
        <5>1. cache[c].to \in Targets[c]
          BY <1>2, <2>1, <4>1 DEF Pointers, Chained
        <5>2. Targets[c] # {}
          BY <5>1
        <5>3. c = item.origin
          BY <1>2, <2>1, <2>6, <5>2, RootsChain
        <5> QED
          BY <2>6, <5>3 DEF Attributed
      <4> QED
        BY <1>2, <1>3, <3>1, <4>2, <4>3, <4>4 DEF HeldOwned
    <3> QED
      BY <3>2, <3>3
  <2> QED
    BY <2>4, <2>5, <2>7, <2>8, <2>9 DEF Traced
<1> QED
  BY <1>6, <1>7, <1>8 DEF AttributedInv

\* Planning settles which pointers are final: those that are not asked for.
LEMMA PlanTraces ==
  ASSUME DepthInv, AttributedInv, PlanPass
  PROVE  AttributedInv'
<1>1. /\ pc = "classify" /\ pc' = "apply" /\ batch = <<>> /\ toFetch = {}
      /\ group = NoPrefix
      /\ UNCHANGED <<cache, requested, seen, batch, pending, held, failures, group>>
  BY DEF PlanPass, pass, DepthInv, Staged
<1>2. /\ toFetch' \subseteq PendingCites
      /\ \A x : x \in ToSet(worklist') <=>
           \E i \in DOMAIN held : held[i].from \notin toFetch' /\ x = held[i].item
  BY PlanPassAsks
<1>3. PendingCites' = PendingCites
  BY <1>1 DEF PendingCites
<1>4. Pointers'
  BY <1>1 DEF AttributedInv, Pointers
<1>5. AskedSeen'
  BY <1>1, <1>2, <1>3 DEF AttributedInv, AskedSeen
<1>6. ASSUME Apart' PROVE Traced'
  <2>1. Apart /\ Traced
    BY <1>1, <1>6 DEF Apart, AttributedInv
  <2>2. \A c \in requested : Final(c) => Final(c)' /\ cache'[c].to = cache[c].to
    BY <1>1, <1>2 DEF Final
  <2>3. ASSUME NEW d, NEW c, Attributed(d, c) PROVE Attributed(d, c)'
    BY <1>1, <2>2, <2>3, AttributionStays
  <2>4. ASSUME NEW n \in DOMAIN worklist'
        PROVE  Attributed(worklist[n].cite, worklist[n].origin)'
    <3>1. worklist'[n] \in ToSet(worklist')
      BY <2>4 DEF ToSet
    <3>2. PICK i \in DOMAIN held :
            held[i].from \notin toFetch' /\ worklist'[n] = held[i].item
      BY <1>2, <3>1
    <3> DEFINE c == held[i].from
    <3>3. /\ c \in requested /\ seen[c] # Unseen /\ c \notin toFetch'
          /\ worklist'[n].cite = cache[c].to /\ worklist'[n].origin = c
      BY <1>1, <2>1, <3>2 DEF Traced, HeldOwned
    <3> QED
      BY <1>1, <3>3 DEF Attributed, Final
  <2>5. ASSUME NEW d \in Cites, seen'[d] # Unseen PROVE Attributed(d, seen[d].origin)'
    BY <1>1, <2>1, <2>3, <2>5 DEF Traced
  <2>6. ASSUME NEW f \in failures' PROVE Attributed(f.cite, f.origin)'
    BY <1>1, <2>1, <2>3, <2>6 DEF Traced
  <2> QED
    BY <1>1, <2>4, <2>5, <2>6 DEF Traced, Owned
<1> QED
  BY <1>4, <1>5, <1>6 DEF AttributedInv
\* What is stored or noted about d is attributed to the request d was asked for.
LEMMA AnswerTraces ==
  ASSUME DepthInv, AttributedInv, NEW d \in Cites,
         \/ \E ttl \in Ttls : StoreConcrete(d, ttl)
         \/ \E t \in Targets[d] : StoreChained(d, t)
         \/ NoteFailure(d) \/ NoteMissing(d)
  PROVE  AttributedInv'
<1>1. Answered(d)
  BY DEF StoreConcrete, StoreChained, NoteFailure, NoteMissing
<1>2. /\ pc = "apply" /\ pc' = "apply" /\ toFetch' = toFetch \ {d}
      /\ UNCHANGED <<requested, seen, batch, pending, group>>
  BY <1>1 DEF Answered, pass
<1> DEFINE o == Meta(d).origin
           Follows(t) == \A i \in DOMAIN worklist' :
             \/ i \in DOMAIN worklist /\ worklist'[i] = worklist[i]
             \/ worklist'[i].cite = t /\ worklist'[i].origin = o
           Ok == /\ \A c \in Cites \ {d} : cache'[c] = cache[c]
                 /\ cache'[d].to \in Targets[d] \cup {NoCite}
                 /\ \A f \in failures' : f \in failures \/ f = Failure(d, o)
                 /\ \/ worklist' = worklist
                    \/ cache'[d].to \in Targets[d] /\ Follows(cache'[d].to)
<1>3. ASSUME NEW t, worklist' = Follow(d, t) PROVE Follows(t)
  <2> DEFINE e == Item(t, Meta(d).depth + 1, o)
  <2>1. worklist' = Append(worklist, e) /\ worklist \in Seq(ItemsTo(Depth))
    BY <1>3 DEF Follow, DepthInv, Bounded
  <2>2. e.cite = t /\ e.origin = o
    BY DEF Item
  <2> HIDE DEF e, o
  <2>3. \A i \in DOMAIN worklist' :
          (i \in DOMAIN worklist /\ worklist'[i] = worklist[i]) \/ worklist'[i] = e
    BY <2>1, AppendedTo
  <2> QED
    BY <2>2, <2>3
<1>4. cache \in [Cites -> Records] /\ cache[d].to \in Targets[d] \cup {NoCite}
  BY DEF DepthInv, Shaped, AttributedInv, Pointers
<1>5. Ok
  <2> HIDE DEF Follows
  <2>1. ASSUME NEW ttl \in Ttls, StoreConcrete(d, ttl) PROVE Ok
    <3>1. RecordOf(d, NoCite, ttl).to = NoCite
      BY RecordStored, RetrievalAssumption DEF DepthInv
    <3>2. /\ cache' = [cache EXCEPT ![d] = RecordOf(d, NoCite, ttl)]
          /\ UNCHANGED <<worklist, failures>>
      BY <2>1 DEF StoreConcrete
    <3> QED
      BY <1>4, <3>1, <3>2
  <2>2. ASSUME NEW t \in Targets[d], StoreChained(d, t) PROVE Ok
    <3>1. t \in Cites /\ DefaultTtl \in Nat
      BY RetrievalAssumption
    <3>2. RecordOf(d, t, DefaultTtl).to = t
      BY <3>1, RecordStored DEF DepthInv
    <3>3. /\ cache' = [cache EXCEPT ![d] = RecordOf(d, t, DefaultTtl)]
          /\ failures' = failures /\ worklist' = Follow(d, t)
      BY <2>2 DEF StoreChained
    <3>4. cache'[d].to = t /\ \A c \in Cites \ {d} : cache'[c] = cache[c]
      BY <1>4, <3>2, <3>3
    <3>5. Follows(t)
      BY <1>3, <3>3
    <3> QED
      BY <3>3, <3>4, <3>5
  <2>3. CASE NoteFailure(d)
    <3>1. cache' = cache
      BY <2>3 DEF NoteFailure
    <3>2. CASE Cached(d) /\ UsableWithinGrace(cache[d], groupNow) /\ Chained(d)
      <4>1. failures' = failures /\ worklist' = Follow(d, cache[d].to)
        BY <2>3, <3>2 DEF NoteFailure
      <4>2. cache[d].to \in Targets[d]
        BY <1>4, <3>2 DEF Chained
      <4>3. Follows(cache'[d].to)
        BY <1>3, <3>1, <4>1
      <4> QED
        BY <3>1, <4>1, <4>2, <4>3
    <3>3. CASE ~(Cached(d) /\ UsableWithinGrace(cache[d], groupNow) /\ Chained(d))
      <4>1. /\ worklist' = worklist
            /\ failures' = failures \/ failures' = failures \cup {Failure(d, o)}
        BY <2>3, <3>3 DEF NoteFailure
      <4> QED
        BY <1>4, <3>1, <4>1
    <3> QED
      BY <3>2, <3>3
  <2>4. CASE NoteMissing(d)
    <3>1. /\ failures' = failures \cup {Failure(d, o)}
          /\ worklist' = worklist /\ cache' = [cache EXCEPT ![d] = NoRecord]
      BY <2>4 DEF NoteMissing
    <3>2. NoRecord.to = NoCite
      BY DEF NoRecord
    <3> QED
      BY <1>4, <3>1, <3>2
  <2> QED
    BY <2>1, <2>2, <2>3, <2>4
<1>6. Pointers'
  BY <1>4, <1>5 DEF AttributedInv, Pointers
<1>7. AskedSeen'
  <2>1. PendingCites' = PendingCites
    BY <1>2 DEF PendingCites
  <2> QED
    BY <1>2, <2>1 DEF AttributedInv, AskedSeen
<1>8. ASSUME Apart' PROVE Traced'
  <2>1. Apart /\ Traced /\ Pointers
    BY <1>2, <1>8 DEF Apart, AttributedInv
  <2>2. d \in toFetch /\ seen[d] # Unseen /\ Attributed(d, o)
    BY <1>1, <2>1, AnsweredAsked
  <2>3. \A c \in requested : Final(c) => Final(c)' /\ cache'[c].to = cache[c].to
    <3>1. requested \subseteq Cites
      BY DEF DepthInv, Shaped
    <3>2. \A c \in requested : Final(c) => c # d
      BY <2>2 DEF Final
    <3> QED
      BY <1>2, <1>5, <3>1, <3>2 DEF Final
  <2>4. ASSUME NEW x, NEW c, Attributed(x, c) PROVE Attributed(x, c)'
    BY <1>2, <2>3, <2>4, AttributionStays
  <2>5. ASSUME NEW n \in DOMAIN worklist'
        PROVE  Attributed(worklist[n].cite, worklist[n].origin)'
    <3>1. CASE n \in DOMAIN worklist /\ worklist'[n] = worklist[n]
      BY <2>1, <2>4, <3>1 DEF Traced, Owned
    <3>2. CASE ~(n \in DOMAIN worklist /\ worklist'[n] = worklist[n])
      <4>1. /\ cache'[d].to \in Targets[d]
            /\ worklist'[n].cite = cache'[d].to /\ worklist'[n].origin = o
        BY <1>5, <2>5, <3>2
      <4>2. Targets[d] # {}
        BY <4>1
      <4>3. d = o
        BY <2>1, <2>2, <4>2, RootsChain
      <4>4. d \in requested
        BY <2>2, <4>3 DEF Attributed
      <4> HIDE DEF o
      <4>5. Final(d)'
        BY <1>2, <2>2 DEF Final
      <4> QED
        BY <1>2, <4>1, <4>3, <4>4, <4>5 DEF Attributed
    <3> QED
      BY <3>1, <3>2
  <2>6. ASSUME NEW x \in Cites, seen'[x] # Unseen PROVE Attributed(x, seen[x].origin)'
    BY <1>2, <2>1, <2>4, <2>6 DEF Traced
  <2>7. ASSUME NEW f \in failures' PROVE Attributed(f.cite, f.origin)'
    <3>1. f \in failures \/ f = Failure(d, o)
      BY <1>5
    <3>2. Attributed(f.cite, f.origin)
      BY <2>1, <2>2, <3>1 DEF Traced, Failure
    <3> QED
      BY <2>4, <3>2
  <2>8. Owned(batch)'
    BY <1>2, <2>1, <2>4 DEF Traced, Owned
  <2> QED
    BY <1>2, <2>5, <2>6, <2>7, <2>8 DEF Traced, Owned
<1> QED
  BY <1>6, <1>7, <1>8 DEF AttributedInv

LEMMA TracedStep ==
  ASSUME DepthInv, AttributedInv, [Moves]_vars PROVE AttributedInv'
<1>1. ASSUME NEW request \in Seq(Cites), Retrieve(request) PROVE AttributedInv'
  BY <1>1, StartTraces
<1>2. CASE BeginPass
  BY <1>2, BeginTraces
<1>3. CASE Classifies
  BY <1>3, ClassifyTraces DEF Classifies
<1>4. CASE PlanPass
  BY <1>4, PlanTraces
<1>5. CASE Stores
  BY <1>5, AnswerTraces DEF Stores
<1>6. CASE \/ (\E p \in Sources : BeginGroup(p)) \/ EndGroup \/ Tick \/ UNCHANGED vars
           \/ EndPass \/ EndPasses \/ StoreFails \/ Return
  <2>1. /\ UNCHANGED <<cache, requested, seen, failures>>
        /\ toFetch' \subseteq toFetch
        /\ worklist' \in {worklist, <<>>} /\ batch' \in {batch, <<>>}
        /\ pending' \in {pending, <<>>}
        /\ (pc' = pc /\ pending' = pending /\ held' = held) \/ pc' # "classify"
        /\ pc' = "idle" \/ pc # "idle" \/ pc' = pc
    BY <1>6 DEF BeginGroup, EndGroup, Tick, EndPass, EndPasses, StoreFails, Return, vars,
                pass, apply
  <2>2. group' = NoPrefix \/ group' = group \/ \E c \in toFetch : PrefixOf[c] = group'
    BY <1>6 DEF BeginGroup, EndGroup, Tick, EndPass, EndPasses, StoreFails, Return, vars,
                pass, apply
  <2>3. PendingCites' \subseteq PendingCites
    BY <2>1 DEF PendingCites
  <2>4. Pointers'
    BY <2>1 DEF AttributedInv, Pointers
  <2>5. AskedSeen'
    <3>1. toFetch \subseteq Cites
      BY DEF DepthInv, Shaped
    <3> QED
      BY <2>1, <2>2, <2>3, <3>1 DEF AttributedInv, AskedSeen
  <2>6. ASSUME Apart' PROVE Traced'
    <3>1. Apart /\ Traced
      BY <2>1, <2>6 DEF Apart, AttributedInv
    <3>2. \A c \in requested : Final(c) => Final(c)' /\ cache'[c].to = cache[c].to
      BY <2>1, <2>3 DEF Final
    <3>3. ASSUME NEW d, NEW c, Attributed(d, c) PROVE Attributed(d, c)'
      BY <2>1, <3>2, <3>3, AttributionStays
    <3>4. Owned(worklist)' /\ Owned(batch)'
      BY <2>1, <3>1, <3>3 DEF Traced, Owned
    <3>5. ASSUME pc' = "classify" PROVE HeldOwned'
      BY <2>1, <3>1, <3>5 DEF Traced, HeldOwned
    <3>6. ASSUME pc' # "idle", NEW d \in Cites, seen'[d] # Unseen
          PROVE  Attributed(d, seen[d].origin)'
      BY <2>1, <3>1, <3>3, <3>6 DEF Traced
    <3>7. ASSUME NEW f \in failures' PROVE Attributed(f.cite, f.origin)'
      BY <2>1, <3>1, <3>3, <3>7 DEF Traced
    <3> QED
      BY <3>4, <3>5, <3>6, <3>7 DEF Traced
  <2> QED
    BY <2>4, <2>5, <2>6 DEF AttributedInv
<1>7. CASE Prune
  <2>1. /\ requested' = {} /\ failures' = {} /\ worklist' = <<>> /\ batch' = <<>>
        /\ pc' = "idle" /\ UNCHANGED <<seen, toFetch, pending, group>>
        /\ \A c \in Cites : cache'[c] = cache[c] \/ cache'[c] = NoRecord
    BY <1>7 DEF Prune, pass, apply, DepthInv, Staged
  <2>2. NoRecord.to = NoCite
    BY DEF NoRecord
  <2>3. Pointers'
    BY <2>1, <2>2 DEF AttributedInv, Pointers
  <2>4. AskedSeen'
    BY <2>1 DEF AttributedInv, AskedSeen, PendingCites
  <2>5. Traced'
    BY <2>1 DEF Traced, Owned
  <2> QED
    BY <2>3, <2>4, <2>5 DEF AttributedInv
<1> QED
  BY <1>1, <1>2, <1>3, <1>4, <1>5, <1>6, <1>7 DEF Moves, Step

LEMMA TracedAlways == Managed => []AttributedInv
<1>1. Init => AttributedInv
  <2> SUFFICES ASSUME Init PROVE AttributedInv
    OBVIOUS
  <2>1. Pointers
    BY DEF Init, Pointers, NoRecord
  <2>2. AskedSeen /\ Traced
    BY DEF Init, AskedSeen, PendingCites, Traced, Owned
  <2> QED
    BY <2>1, <2>2 DEF AttributedInv
<1>2. DepthInv /\ AttributedInv /\ [Moves]_vars => AttributedInv'
  BY TracedStep
<1> QED
  BY <1>1, <1>2, DepthAlways, PTL DEF Managed
\* A request that chains at most once: get visits it and its target.
LEMMA ApartWalks ==
  ASSUME Shaped, Pointers, Apart, MaxChainDepth >= 2, NEW c \in requested
  PROVE  /\ c \in Visited(c)
         /\ Chained(c) => cache[c].to \in Visited(c)
         /\ \A d \in Visited(c) : d = c \/ d = cache[c].to
<1> DEFINE M == MaxChainDepth
           w == Walk(c)
           t == cache[c].to
<1>1. c \in Cites /\ M \in Nat /\ NoCite \notin Cites
  BY RetrievalAssumption DEF Shaped
<1>2. /\ w \in [0..M -> Cites \cup {NoCite}] /\ w[0] = c
      /\ \A i \in 1..M : w[i] = To[w[i - 1]]
  BY <1>1, WalkSteps
<1>3. Visited(c) = {w[i] : i \in 0..(M - 1)} \ {NoCite}
  BY <1>1, <1>2 DEF Visited, Link
<1>4. To[c] = t /\ To[NoCite] = NoCite /\ To[t] = NoCite
  <2>1. To[c] = t /\ To[NoCite] = NoCite
    BY <1>1 DEF To
  <2>2. CASE t = NoCite
    BY <2>1, <2>2
  <2>3. CASE t # NoCite
    <3>1. t \in Targets[c]
      BY <1>1, <2>3 DEF Pointers
    <3>2. t \in Cites /\ Targets[t] = {}
      BY <1>1, <3>1, RetrievalAssumption DEF Apart
    <3>3. cache[t].to = NoCite
      BY <3>2 DEF Pointers
    <3> QED
      BY <2>1, <2>3, <3>2, <3>3 DEF To
  <2> QED
    BY <2>2, <2>3
<1> HIDE DEF w, t, M
<1>5. 1 <= M /\ 2 <= M
  BY <1>1 DEF M
<1>6. w[1] = t
  BY <1>1, <1>2, <1>4, <1>5
<1> DEFINE S == {k \in Nat : k + 2 <= M => w[k + 2] = NoCite}
<1>7. 0 \in S
  <2>1. 2 \in 1..M
    BY <1>1, <1>5
  <2>2. w[2] = To[w[1]]
    BY <1>2, <2>1
  <2> QED
    BY <1>4, <1>6, <2>2
<1>8. ASSUME NEW k \in S PROVE k + 1 \in S
  <2>1. CASE (k + 1) + 2 <= M
    <3>1. /\ k \in Nat /\ w[k + 2] = NoCite /\ (k + 1) + 2 \in 1..M
          /\ ((k + 1) + 2) - 1 = k + 2
      BY <1>1, <1>8, <2>1
    <3>2. w[(k + 1) + 2] = To[w[k + 2]]
      BY <1>2, <3>1
    <3> QED
      BY <1>4, <3>1, <3>2
  <2>2. CASE ~((k + 1) + 2 <= M)
    BY <1>8, <2>2
  <2> QED
    BY <2>1, <2>2
<1> HIDE DEF S
<1>9. S = Nat
  <2>1. S \in SUBSET Nat
    BY DEF S
  <2> QED
    BY <1>7, <1>8, <2>1, NaturalInduction
<1>10. ASSUME NEW i \in 0..(M - 1) PROVE w[i] \in {c, t, NoCite}
  <2>1. CASE i = 0
    BY <1>2, <2>1
  <2>2. CASE i = 1
    BY <1>6, <2>2
  <2>3. CASE i >= 2
    <3>1. i - 2 \in Nat /\ (i - 2) + 2 = i /\ i <= M
      BY <1>1, <2>3
    <3>2. w[(i - 2) + 2] = NoCite
      BY <1>9, <3>1 DEF S
    <3> QED
      BY <3>1, <3>2
  <2> QED
    BY <1>1, <2>1, <2>2, <2>3
<1>11. 0 \in 0..(M - 1) /\ 1 \in 0..(M - 1)
  BY <1>1, <1>5
<1>12. c \in Visited(c) /\ (t # NoCite => t \in Visited(c))
  BY <1>1, <1>2, <1>3, <1>6, <1>11
<1>13. \A d \in Visited(c) : d = c \/ d = t
  BY <1>3, <1>10
<1> QED
  BY <1>12, <1>13 DEF t, Chained

\* A failure belongs to a request, and get follows that request to it: the origin of a
\* failure (CiteFailure::origin) is never a citation nobody asked for, nor one whose
\* pointer was replaced meanwhile.  Where get follows at least two links (16 by
\* default); with fewer, a chained id is refused before get could come to it.
THEOREM FailuresTraced ==
  ASSUME MaxChainDepth >= 2 PROVE Spec \/ CliSpec => []OriginsLeadToFailure
<1>1. DepthInv /\ AttributedInv => OriginsLeadToFailure
  <2> SUFFICES ASSUME DepthInv, AttributedInv, Apart, NEW f \in failures
               PROVE  f.origin \in requested /\ f.cite \in Visited(f.origin)
    BY DEF OriginsLeadToFailure
  <2>1. Attributed(f.cite, f.origin) /\ Pointers /\ Shaped
    BY DEF AttributedInv, Traced, DepthInv
  <2>2. f.origin \in requested /\ (f.cite = f.origin \/ f.cite = cache[f.origin].to)
    BY <2>1 DEF Attributed
  <2>3. f.cite \in Cites /\ NoCite \notin Cites
    BY <2>1, RetrievalAssumption DEF Shaped
  <2> QED
    BY <2>1, <2>2, <2>3, ApartWalks DEF Chained
<1> QED
  BY <1>1, DepthAlways, TracedAlways, AllManaged, PTL

\* A requested citation that get cannot resolve is found in the report, under its own id
\* or as the origin of a failure, when requests share nothing (CitationManager::report).
THEOREM UnresolvedFound ==
  ASSUME MaxChainDepth >= 2 PROVE Spec \/ CliSpec => []ApartFailureDiscoverable
<1>1. DepthInv /\ AttributedInv /\ OriginsLeadToFailure /\ BrokenWalkReported
        => ApartFailureDiscoverable
  <2> SUFFICES ASSUME DepthInv, AttributedInv, OriginsLeadToFailure, BrokenWalkReported,
                      Apart, Reported, NEW c \in requested, ~GetSucceeds(c)
               PROVE  \E f \in failures : c \in {f.cite, f.origin}
    BY DEF ApartFailureDiscoverable, FailureDiscoverable
  <2>1. Shaped /\ Pointers /\ c \in Cites /\ NoCite \notin Cites
    BY RetrievalAssumption DEF DepthInv, AttributedInv, Shaped
  <2>2. /\ c \in Visited(c)
        /\ Chained(c) => cache[c].to \in Visited(c)
        /\ \A d \in Visited(c) : d = c \/ d = cache[c].to
    BY <2>1, ApartWalks
  <2>3. ASSUME NEW o \in requested, cache[o].to # NoCite
        PROVE  /\ cache[o].to \in Targets[o] /\ cache[o].to \notin requested
               /\ cache[o].to \in Cites /\ cache[cache[o].to].to = NoCite
    <3>1. o \in Cites /\ cache[o].to \in Targets[o]
      BY <2>1, <2>3 DEF Pointers, Shaped
    <3>2. cache[o].to \in Cites
      BY <3>1, RetrievalAssumption
    <3>3. cache[o].to \notin requested /\ Targets[cache[o].to] = {}
      BY <3>1 DEF Apart
    <3> QED
      BY <2>1, <3>1, <3>2, <3>3 DEF Pointers
  <2>4. DeadEnds(c) # {}
    <3>1. CASE ~Cached(c)
      BY <2>2, <3>1 DEF DeadEnds
    <3>2. CASE Cached(c)
      <4>1. Chained(c)
        BY <2>2, <3>2 DEF GetSucceeds
      <4>2. cache[c].to \in Visited(c) /\ ~Chained(cache[c].to)
        BY <2>2, <2>3, <4>1 DEF Chained
      <4>3. ~Cached(cache[c].to)
        BY <4>2 DEF GetSucceeds
      <4> QED
        BY <4>2, <4>3 DEF DeadEnds
    <3> QED
      BY <3>1, <3>2
  <2>5. PICK f \in failures : f.cite \in Visited(c)
    BY <2>4 DEF BrokenWalkReported
  <2>6. f.origin \in requested /\ f.cite \in Visited(f.origin)
    BY DEF OriginsLeadToFailure
  <2>7. f.cite # NoCite
    BY <2>5 DEF Visited
  <2>8. CASE f.cite = c
    BY <2>8
  <2>9. CASE f.cite # c
    <3>1. f.cite = cache[c].to /\ f.cite \in Targets[c] /\ f.cite \notin requested
      BY <2>2, <2>3, <2>5, <2>7, <2>9
    <3>2. f.cite = f.origin \/ f.cite = cache[f.origin].to
      BY <2>1, <2>6, ApartWalks
    <3>3. f.cite \in Targets[f.origin]
      BY <2>3, <2>6, <2>7, <3>1, <3>2
    <3>4. f.origin = c
      BY <2>6, <3>1, <3>3 DEF Apart
    <3> QED
      BY <3>4
  <2> QED
    BY <2>8, <2>9
<1> QED
  BY <1>1, DepthAlways, TracedAlways, FailuresTraced, BrokenWalksReported, AllManaged, PTL

------------------------------------------------------------------------------
(* Positions.                                                                *)

\* p lists the positions in I, in their order.
Enumerates(p, I) ==
  /\ p \in Seq(Nat) /\ ToSet(p) = I
  /\ \A i, j \in DOMAIN p : i < j => p[i] < p[j]

\* The items at some positions are taken in the order of the positions.
LEMMA AtOrder ==
  ASSUME NEW T, NEW s \in Seq(T), NEW I \in SUBSET (1..Len(s))
  PROVE  \E p : Enumerates(p, I) /\ At(s, I) = [n \in DOMAIN p |-> s[p[n]]]
<1> DEFINE f == [i \in I |-> 0]
           p == Sorted(f, I)
<1>1. I \in SUBSET Nat /\ IsFiniteSet(I)
  <2>1. IsFiniteSet(1..Len(s))
    BY FS_Interval
  <2>2. IsFiniteSet(I)
    BY <2>1, FS_Subset
  <2> QED
    BY <2>2
<1>2. f \in [I -> Int] /\ \A i \in I : f[i] = 0
  OBVIOUS
<1>3. At(s, I) = [n \in DOMAIN p |-> s[p[n]]]
  BY DEF At, f
<1> HIDE DEF f
<1>4. /\ p \in Seq(I) /\ ToSet(p) = I
      /\ \A i, j \in DOMAIN p : i < j => Before(f, p[i], p[j])
  BY <1>1, <1>2, SortedKeys
<1> HIDE DEF p
<1>5. \A i \in DOMAIN p : p[i] \in I
  BY <1>4
<1>6. \A i, j \in DOMAIN p : i < j => p[i] < p[j]
  BY <1>2, <1>4, <1>5 DEF Before
<1>7. p \in Seq(Nat)
  <2>1. DOMAIN p = 1..Len(p) /\ Len(p) \in Nat /\ p = [i \in 1..Len(p) |-> p[i]]
    BY <1>4
  <2>2. p \in [1..Len(p) -> Nat]
    BY <1>1, <1>5, <2>1
  <2> QED
    BY <2>1, <2>2
<1>8. Enumerates(p, I)
  BY <1>4, <1>6, <1>7 DEF Enumerates
<1> QED
  BY <1>3, <1>8

\* Positions can be listed in their order in one way only: two lists of the same
\* positions agree up to the length of the one.
LEMMA OrderAgrees ==
  ASSUME NEW I, NEW p, NEW q, Enumerates(p, I), Enumerates(q, I)
  PROVE  \A n \in 1..Len(p) : n <= Len(q) /\ p[n] = q[n]
<1> DEFINE Same(n) == \A i \in 1..n : i <= Len(p) => i <= Len(q) /\ p[i] = q[i]
           S == {n \in Nat : Same(n)}
<1>1. /\ p \in Seq(Nat) /\ q \in Seq(Nat) /\ Len(p) \in Nat /\ Len(q) \in Nat
      /\ DOMAIN p = 1..Len(p) /\ DOMAIN q = 1..Len(q)
  BY DEF Enumerates
<1>2. /\ \A i, j \in 1..Len(p) : i < j => p[i] < p[j]
      /\ \A i, j \in 1..Len(q) : i < j => q[i] < q[j]
      /\ \A i \in 1..Len(p) : p[i] \in Nat
      /\ \A i \in 1..Len(q) : q[i] \in Nat
  <2>1. \A i, j \in 1..Len(p) : i < j => p[i] < p[j]
    BY <1>1, Zenon DEF Enumerates
  <2>2. \A i, j \in 1..Len(q) : i < j => q[i] < q[j]
    BY <1>1, Zenon DEF Enumerates
  <2>3. \A i \in 1..Len(p) : p[i] \in Nat
    BY <1>1
  <2>4. \A i \in 1..Len(q) : q[i] \in Nat
    BY <1>1
  <2> QED
    BY <2>1, <2>2, <2>3, <2>4
<1>3. /\ \A i \in 1..Len(p) : \E k \in 1..Len(q) : q[k] = p[i]
      /\ \A i \in 1..Len(q) : \E k \in 1..Len(p) : p[k] = q[i]
  BY <1>1 DEF Enumerates, ToSet
<1>4. 0 \in S
  OBVIOUS
<1>5. ASSUME NEW n \in S PROVE n + 1 \in S
  <2>1. n \in Nat /\ Same(n)
    BY <1>5
  <2>2. ASSUME n + 1 <= Len(p) PROVE n + 1 <= Len(q) /\ p[n + 1] = q[n + 1]
    <3>1. n + 1 \in 1..Len(p)
      BY <1>1, <2>1, <2>2
    <3>2. PICK k \in 1..Len(q) : q[k] = p[n + 1]
      BY <1>3, <3>1
    <3>3. k > n
      <4> SUFFICES ASSUME k <= n PROVE FALSE
        BY <1>1, <2>1
      <4>1. k \in 1..n /\ k \in 1..Len(p) /\ k < n + 1
        BY <1>1, <2>1, <2>2
      <4>2. p[k] = q[k]
        BY <2>1, <2>2, <4>1
      <4>3. p[k] < p[n + 1]
        BY <1>2, <3>1, <4>1
      <4> QED
        BY <1>2, <3>1, <3>2, <4>1, <4>2, <4>3
    <3>4. n + 1 \in 1..Len(q) /\ n + 1 <= k
      BY <1>1, <2>1, <3>3
    <3>5. q[n + 1] <= p[n + 1]
      BY <1>2, <3>1, <3>2, <3>4
    <3>6. PICK m \in 1..Len(p) : p[m] = q[n + 1]
      BY <1>3, <3>4
    <3>7. m > n
      <4> SUFFICES ASSUME m <= n PROVE FALSE
        BY <1>1, <2>1
      <4>1. m \in 1..n /\ m <= Len(p) /\ m < n + 1
        BY <1>1, <2>1, <2>2
      <4>2. m <= Len(q) /\ p[m] = q[m]
        BY <2>1, <4>1
      <4>3. m \in 1..Len(q)
        BY <4>1, <4>2
      <4>4. q[m] < q[n + 1]
        BY <1>2, <3>4, <4>1, <4>3
      <4> QED
        BY <1>2, <3>4, <3>6, <4>2, <4>3, <4>4
    <3>8. p[n + 1] <= p[m]
      <4>1. n + 1 < m \/ n + 1 = m
        BY <1>1, <2>1, <3>7
      <4> QED
        BY <1>2, <3>1, <4>1
    <3> QED
      BY <1>2, <3>1, <3>4, <3>5, <3>6, <3>8
  <2>3. \A i \in 1..(n + 1) : i \in 1..n \/ i = n + 1
    BY <2>1
  <2>4. Same(n + 1)
    BY <2>1, <2>2, <2>3
  <2> QED
    BY <2>1, <2>4
<1> HIDE DEF S
<1>6. S = Nat
  <2>1. S \in SUBSET Nat
    BY DEF S
  <2> QED
    BY <1>4, <1>5, <2>1, NaturalInduction
<1>7. Same(Len(p))
  BY <1>1, <1>6 DEF S
<1> QED
  BY <1>1, <1>7

LEMMA OrderUnique ==
  ASSUME NEW I, NEW p, NEW q, Enumerates(p, I), Enumerates(q, I)
  PROVE  p = q
<1>1. p \in Seq(Nat) /\ q \in Seq(Nat)
  BY DEF Enumerates
<1>2. \A n \in 1..Len(p) : n <= Len(q) /\ p[n] = q[n]
  BY OrderAgrees
<1>3. \A n \in 1..Len(q) : n <= Len(p) /\ q[n] = p[n]
  BY OrderAgrees
<1>4. Len(p) = Len(q)
  <2>1. Len(p) \in Nat /\ Len(q) \in Nat
    BY <1>1
  <2>2. Len(p) # 0 => Len(p) <= Len(q)
    BY <1>2, <2>1
  <2>3. Len(q) # 0 => Len(q) <= Len(p)
    BY <1>3, <2>1
  <2> QED
    BY <2>1, <2>2, <2>3
<1> QED
  BY <1>1, <1>2, <1>4

\* Taking items of what was taken is taking them from the list.
LEMMA AtOfAt ==
  ASSUME NEW T, NEW s \in Seq(T), NEW I \in SUBSET (1..Len(s)), NEW p, Enumerates(p, I),
         NEW J \in SUBSET (DOMAIN p)
  PROVE  At([n \in DOMAIN p |-> s[p[n]]], J) = At(s, {p[j] : j \in J})
<1> DEFINE t == [n \in DOMAIN p |-> s[p[n]]]
           K == {p[j] : j \in J}
<1>1. /\ p \in Seq(Nat) /\ DOMAIN p = 1..Len(p) /\ Len(p) \in Nat
      /\ \A n \in DOMAIN p : p[n] \in I
      /\ \A i, j \in DOMAIN p : i < j => p[i] < p[j]
  BY DEF Enumerates, ToSet
<1>2. t \in Seq(T) /\ DOMAIN t = DOMAIN p /\ \A n \in DOMAIN p : t[n] = s[p[n]]
  <2>1. \A n \in 1..Len(p) : s[p[n]] \in T
    BY <1>1
  <2>2. t \in [1..Len(p) -> T]
    BY <1>1, <2>1
  <2> QED
    BY <1>1, <2>2
<1>3. Len(t) = Len(p)
  BY <1>1, <1>2
<1> HIDE DEF t
<1>4. PICK q : Enumerates(q, J) /\ At(t, J) = [n \in DOMAIN q |-> t[q[n]]]
  <2>1. J \in SUBSET (1..Len(t))
    BY <1>1, <1>3
  <2> QED
    BY <1>2, <2>1, AtOrder
<1>5. K \in SUBSET (1..Len(s))
  BY <1>1
<1>6. PICK r : Enumerates(r, K) /\ At(s, K) = [n \in DOMAIN r |-> s[r[n]]]
  BY <1>5, AtOrder
<1> DEFINE pq == [n \in DOMAIN q |-> p[q[n]]]
<1>7. /\ q \in Seq(Nat) /\ DOMAIN q = 1..Len(q) /\ Len(q) \in Nat
      /\ \A n \in DOMAIN q : q[n] \in J
      /\ \A j \in J : \E n \in DOMAIN q : q[n] = j
      /\ \A i, j \in DOMAIN q : i < j => q[i] < q[j]
  BY <1>4 DEF Enumerates, ToSet
<1>8. Enumerates(pq, K)
  <2>0. \A j \in J : p[j] \in Nat
    BY <1>1
  <2>1. \A n \in 1..Len(q) : p[q[n]] \in Nat
    BY <1>7, <2>0
  <2>2. pq \in [1..Len(q) -> Nat] /\ DOMAIN pq = DOMAIN q
    BY <1>7, <2>1
  <2>3. pq \in Seq(Nat)
    BY <1>7, <2>2
  <2>4. \A n \in DOMAIN q : pq[n] = p[q[n]]
    OBVIOUS
  <2>5. \A i, j \in DOMAIN q : i < j => pq[i] < pq[j]
    BY <1>1, <1>7, <2>4
  <2> HIDE DEF pq
  <2>6. ToSet(pq) = K
    BY <1>7, <2>2, <2>4 DEF ToSet
  <2> QED
    BY <2>2, <2>3, <2>5, <2>6 DEF Enumerates
<1>9. r = pq
  BY <1>6, <1>8, OrderUnique
<1>10. At(s, K) = [n \in DOMAIN q |-> s[p[q[n]]]]
  <2>1. DOMAIN pq = DOMAIN q /\ \A n \in DOMAIN q : pq[n] = p[q[n]]
    OBVIOUS
  <2> HIDE DEF pq
  <2> QED
    BY <1>6, <1>9, <2>1
<1>11. At(t, J) = [n \in DOMAIN q |-> s[p[q[n]]]]
  BY <1>2, <1>4, <1>7
<1> QED
  BY <1>10, <1>11 DEF t

\* The places where an item of the list comes first.
Firsts(line) == {i \in DOMAIN line : \A j \in 1..(i - 1) : line[j] # line[i]}

\* An item comes first somewhere, and nowhere later.
LEMMA FirstExists ==
  ASSUME NEW T, NEW s \in Seq(T), NEW i \in 1..Len(s)
  PROVE  \E k \in Firsts(s) : k <= i /\ s[k] = s[i]
<1> DEFINE S == {k \in 1..Len(s) : s[k] = s[i]}
<1>0. Len(s) \in Nat /\ DOMAIN s = 1..Len(s)
  OBVIOUS
<1>1. S \in SUBSET Nat /\ S # {}
  OBVIOUS
<1>6. PICK k \in S : \A n \in S : k <= n
  <2> HIDE DEF S
  <2> QED
    BY <1>1, Least
<1>7. \A n \in S : ~(n < k)
  BY <1>0, <1>6
<1>8. k <= i
  BY <1>0, <1>6, <1>7
<1>9. \A j \in 1..(k - 1) : s[j] # s[k]
  <2> SUFFICES ASSUME NEW j \in 1..(k - 1), s[j] = s[k] PROVE FALSE
    OBVIOUS
  <2>1. j \in S /\ j < k
    BY <1>0, <1>6
  <2> QED
    BY <1>7, <2>1
<1> QED
  BY <1>0, <1>6, <1>8, <1>9 DEF Firsts

\* Dropping repetitions drops no item.
LEMMA DistinctItems ==
  ASSUME NEW T, NEW s \in Seq(T)
  PROVE  Distinct(s) \in Seq(T) /\ ToSet(Distinct(s)) = ToSet(s)
<1>1. Firsts(s) \in SUBSET (1..Len(s)) /\ DOMAIN s = 1..Len(s)
  BY DEF Firsts
<1>2. Distinct(s) = At(s, Firsts(s))
  BY DEF Distinct, Firsts
<1>3. /\ Distinct(s) \in Seq(T)
      /\ \A x : x \in ToSet(Distinct(s)) <=> \E i \in Firsts(s) : x = s[i]
  BY <1>1, <1>2, AtItems
<1>4. \A x \in ToSet(s) : \E i \in Firsts(s) : x = s[i]
  <2> SUFFICES ASSUME NEW x \in ToSet(s) PROVE \E i \in Firsts(s) : x = s[i]
    OBVIOUS
  <2>1. PICK i \in 1..Len(s) : s[i] = x
    BY DEF ToSet
  <2> QED
    BY <2>1, FirstExists
<1>5. \A i \in Firsts(s) : s[i] \in ToSet(s)
  BY <1>1 DEF ToSet
<1> HIDE DEF Distinct
<1> QED
  BY <1>3, <1>4, <1>5

\* Of a list of citations, the first occurrences of those in G are the same whether the
\* repetitions go before or after the others.
LEMMA DistinctOfSome ==
  ASSUME NEW T, NEW s \in Seq(T), NEW G
  PROVE  LET R == {i \in DOMAIN s : s[i] \in G}
             asked == Distinct(s)
         IN  Distinct(At(s, R)) = At(asked, {i \in DOMAIN asked : asked[i] \in G})
<1> DEFINE R == {i \in DOMAIN s : s[i] \in G}
           F == Firsts(s)
           got == At(s, R)
           asked == Distinct(s)
           J == {i \in DOMAIN asked : asked[i] \in G}
<1>0. DOMAIN s = 1..Len(s) /\ Len(s) \in Nat
  OBVIOUS
<1>1. R \in SUBSET (1..Len(s)) /\ F \in SUBSET (1..Len(s))
  BY <1>0 DEF Firsts
<1>2. asked = At(s, F)
  BY DEF Distinct, Firsts
<1>3. Distinct(got) = At(got, Firsts(got))
  BY DEF Distinct, Firsts
<1>4. \A i \in 1..Len(s) : i \in R <=> s[i] \in G
  BY <1>0
<1>5. \A i \in 1..Len(s) : i \in F <=> \A j \in 1..(i - 1) : s[j] # s[i]
  BY <1>0 DEF Firsts
<1> HIDE DEF R, F, got, asked
<1>6. PICK p : Enumerates(p, R) /\ At(s, R) = [n \in DOMAIN p |-> s[p[n]]]
  BY <1>1, AtOrder
<1>7. PICK q : Enumerates(q, F) /\ At(s, F) = [n \in DOMAIN q |-> s[q[n]]]
  BY <1>1, AtOrder
<1>8. /\ got = [n \in DOMAIN p |-> s[p[n]]] /\ asked = [n \in DOMAIN q |-> s[q[n]]]
  BY <1>2, <1>6, <1>7 DEF got
<1>9. /\ p \in Seq(Nat) /\ DOMAIN p = 1..Len(p) /\ Len(p) \in Nat
      /\ \A n \in DOMAIN p : p[n] \in R
      /\ \A i \in R : \E n \in DOMAIN p : p[n] = i
  BY <1>6 DEF Enumerates, ToSet
<1>10. \A i, j \in DOMAIN p : i < j => p[i] < p[j]
  BY <1>6 DEF Enumerates
<1>11. /\ q \in Seq(Nat) /\ DOMAIN q = 1..Len(q) /\ Len(q) \in Nat
       /\ \A n \in DOMAIN q : q[n] \in F
       /\ \A i \in F : \E n \in DOMAIN q : q[n] = i
  BY <1>7 DEF Enumerates, ToSet
<1>12. DOMAIN got = DOMAIN p /\ \A n \in DOMAIN p : got[n] = s[p[n]]
  BY <1>8
<1>13. {p[j] : j \in Firsts(got)} = R \cap F
  <2>1. ASSUME NEW n \in Firsts(got) PROVE p[n] \in R \cap F
    <3>1. n \in DOMAIN p /\ \A j \in 1..(n - 1) : got[j] # got[n]
      BY <1>12, <2>1 DEF Firsts
    <3>2. p[n] \in R /\ p[n] \in 1..Len(s) /\ s[p[n]] \in G
      BY <1>1, <1>4, <1>9, <3>1
    <3>3. ASSUME NEW i \in 1..(p[n] - 1), s[i] = s[p[n]] PROVE FALSE
      <4>1. i \in 1..Len(s) /\ i < p[n]
        BY <1>0, <3>2
      <4>2. i \in R
        BY <1>4, <3>2, <3>3, <4>1
      <4>3. PICK k \in DOMAIN p : p[k] = i
        BY <1>9, <4>2
      <4>4. k < n
        <5>1. ~(n < k) /\ n # k
          BY <1>10, <3>1, <3>2, <4>1, <4>3
        <5> QED
          BY <1>9, <3>1, <5>1
      <4>5. k \in 1..(n - 1)
        BY <1>9, <3>1, <4>4
      <4> QED
        BY <1>12, <3>1, <3>3, <4>3, <4>5
    <3> QED
      BY <1>5, <3>2, <3>3
  <2>2. ASSUME NEW i \in R \cap F PROVE \E n \in Firsts(got) : p[n] = i
    <3>1. PICK n \in DOMAIN p : p[n] = i
      BY <1>9, <2>2
    <3>2. ASSUME NEW j \in 1..(n - 1), got[j] = got[n] PROVE FALSE
      <4>1. j \in DOMAIN p /\ j < n
        BY <1>9, <3>1
      <4>2. p[j] < i /\ p[j] \in Nat /\ p[j] \in 1..Len(s)
        BY <1>1, <1>9, <1>10, <3>1, <4>1
      <4>3. s[p[j]] = s[i]
        BY <1>12, <3>1, <3>2, <4>1
      <4>4. i \in 1..Len(s) /\ p[j] \in 1..(i - 1)
        BY <1>1, <2>2, <4>2
      <4> QED
        BY <1>5, <2>2, <4>3, <4>4
    <3> QED
      BY <1>12, <3>1, <3>2 DEF Firsts
  <2> QED
    BY <2>1, <2>2
<1>14. Firsts(got) \in SUBSET (DOMAIN p)
  BY <1>12 DEF Firsts
<1>15. At(got, Firsts(got)) = At(s, R \cap F)
  <2> DEFINE H == Firsts(got)
  <2>1. {p[j] : j \in H} = R \cap F
    BY <1>13
  <2>2. H \in SUBSET (DOMAIN p)
    BY <1>14
  <2> HIDE DEF H
  <2>3. At(got, H) = At(s, R \cap F)
    BY <1>1, <1>6, <1>8, <2>1, <2>2, AtOfAt
  <2> QED
    BY <2>3 DEF H
<1>16. J \in SUBSET (DOMAIN q) /\ \A n \in DOMAIN q : n \in J <=> s[q[n]] \in G
  BY <1>8
<1> HIDE DEF J
<1>17. {q[j] : j \in J} = R \cap F
  <2>1. ASSUME NEW j \in J PROVE q[j] \in R \cap F
    BY <1>1, <1>4, <1>11, <1>16
  <2>2. ASSUME NEW i \in R \cap F PROVE \E j \in J : q[j] = i
    BY <1>1, <1>4, <1>11, <1>16, <2>2
  <2> QED
    BY <2>1, <2>2
<1>18. At(asked, J) = At(s, R \cap F)
  BY <1>1, <1>7, <1>8, <1>16, <1>17, AtOfAt
<1>19. Distinct(got) = At(asked, J)
  BY <1>3, <1>15, <1>18
<1> QED
  BY <1>19 DEF got, asked, J, R

------------------------------------------------------------------------------
(* The report of a run.                                                      *)

LEMMA EmptyDistinct == Distinct(<<>>) = <<>>
<1> DEFINE T == {0}
<1>1. <<>> \in Seq(T)
  OBVIOUS
<1>2. ToSet(Distinct(<<>>)) = ToSet(<<>>) /\ Distinct(<<>>) \in Seq(T)
  BY <1>1, DistinctItems
<1>3. ToSet(<<>>) = {}
  BY DEF ToSet
<1> DEFINE d == Distinct(<<>>)
<1> HIDE DEF d, T
<1>4. d \in Seq(T) /\ ToSet(d) = {}
  BY <1>2, <1>3 DEF d
<1>5. \A i \in DOMAIN d : d[i] \in ToSet(d)
  BY <1>4 DEF ToSet
<1>6. DOMAIN d = 1..Len(d) /\ Len(d) \in Nat
  BY <1>4
<1>7. Len(d) = 0
  <2> SUFFICES ASSUME Len(d) # 0 PROVE FALSE
    OBVIOUS
  <2>1. 1 \in DOMAIN d
    BY <1>6
  <2> QED
    BY <1>4, <1>5, <2>1
<1> QED
  BY <1>4, <1>7 DEF d

LEMMA CollectKeepsHonest ==
  ASSUME ArgsTyped, Collect PROVE ArgsTyped' /\ RunHonest'
<1> DEFINE line == Head(script)
<1>1. ArgsTyped'
  BY CollectTypes
<1>3. items' = <<>> /\ exit' \in {Running, 0, 2}
  BY DEF Collect, Exit
<1>5. ASSUME exit' \in {0, 1} PROVE exit' = 0 /\ args' = <<>>
  <2>1. exit' = 0
    BY <1>3, <1>5 DEF Running
  <2>2. ~Contains(line, Malformed) /\ line = <<>> /\ args' = Distinct(line)
    BY <2>1 DEF Collect, Exit, Running
  <2> QED
    BY <2>1, <2>2, EmptyDistinct
<1>6. CitesAccountedFor' /\ StatusHonest'
  BY <1>5 DEF CitesAccountedFor, StatusHonest, ToSet
<1>7. OutputLinesUp'
  BY <1>3 DEF OutputLinesUp
<1> QED
  BY <1>1, <1>6, <1>7 DEF RunHonest

\* What the items written at the end of a run are of.
LEMMA EmittedIds ==
  ASSUME ArgsTyped, items' = Emitted
  PROVE  LET cites == [i \in DOMAIN args |-> args[i].cite]
             asked == Distinct(cites)
         IN  /\ [i \in DOMAIN items' |-> items'[i]["id"]]
                  = At(asked, {i \in DOMAIN asked : GetSucceeds(asked[i])})
             /\ Ids' = {c \in ToSet(cites) : GetSucceeds(c)}
<1> DEFINE cites == [i \in DOMAIN args |-> args[i].cite]
           asked == Distinct(cites)
           G == {c \in Cites : GetSucceeds(c)}
           R == {i \in DOMAIN args : GetSucceeds(args[i].cite)}
           J == {i \in DOMAIN asked : GetSucceeds(asked[i])}
           got == [i \in DOMAIN Resolved |-> Resolved[i].cite]
           ids == Distinct(got)
<1>1. /\ args \in Seq(Arguments) /\ DOMAIN args = 1..Len(args) /\ Len(args) \in Nat
      /\ \A i \in DOMAIN args : args[i].cite \in Cites
  <2>1. args \in Seq(Arguments)
    BY DEF ArgsTyped
  <2>2. \A i \in DOMAIN args : args[i] \in Arguments
    BY <2>1
  <2> QED
    BY <2>1, <2>2 DEF Arguments
<1>2. /\ cites \in Seq(Cites) /\ DOMAIN cites = DOMAIN args /\ Len(cites) = Len(args)
      /\ \A i \in DOMAIN args : cites[i] = args[i].cite
  <2>1. cites \in [1..Len(args) -> Cites]
    BY <1>1
  <2> QED
    BY <1>1, <2>1
<1> HIDE DEF cites
<1>3. R = {i \in DOMAIN cites : cites[i] \in G}
  BY <1>1, <1>2
<1>4. got = At(cites, R)
  <2>1. R \in SUBSET (1..Len(args))
    BY <1>1
  <2>2. PICK p : Enumerates(p, R) /\ At(args, R) = [n \in DOMAIN p |-> args[p[n]]]
    BY <1>1, <2>1, AtOrder
  <2>3. PICK q : Enumerates(q, R) /\ At(cites, R) = [n \in DOMAIN q |-> cites[q[n]]]
    <3>1. R \in SUBSET (1..Len(cites))
      BY <1>2, <2>1
    <3> HIDE DEF R
    <3> QED
      BY <1>2, <3>1, AtOrder
  <2>4. p = q
    BY <2>2, <2>3, OrderUnique
  <2>5. \A n \in DOMAIN p : p[n] \in DOMAIN args
    BY <2>2 DEF Enumerates, ToSet
  <2>6. Resolved = [n \in DOMAIN p |-> args[p[n]]]
    BY <2>2 DEF Resolved
  <2>7. got = [n \in DOMAIN p |-> args[p[n]].cite]
    BY <2>6
  <2> HIDE DEF got
  <2> QED
    BY <1>2, <2>3, <2>4, <2>5, <2>7
<1>5. ids = At(asked, {i \in DOMAIN asked : asked[i] \in G})
  <2> HIDE DEF R, G, got
  <2>1. Distinct(At(cites, {i \in DOMAIN cites : cites[i] \in G}))
          = At(asked, {i \in DOMAIN asked : asked[i] \in G})
    BY <1>2, DistinctOfSome
  <2> QED
    BY <1>3, <1>4, <2>1
<1>6. asked \in Seq(Cites) /\ ToSet(asked) = ToSet(cites) /\ DOMAIN asked = 1..Len(asked)
  BY <1>2, DistinctItems
<1> HIDE DEF asked
<1>7. \A i \in DOMAIN asked : asked[i] \in Cites
  BY <1>6
<1>8. {i \in DOMAIN asked : asked[i] \in G} = J
  BY <1>7
<1>9. ids = At(asked, J)
  BY <1>5, <1>8
<1>10. J \in SUBSET (1..Len(asked))
  BY <1>6
<1>11. /\ ids \in Seq(Cites)
       /\ \A x : x \in ToSet(ids) <=> \E i \in J : x = asked[i]
  BY <1>6, <1>9, <1>10, AtItems
<1>12. items' = [i \in DOMAIN ids |-> Get(ids[i])]
  BY DEF Emitted
<1> HIDE DEF ids
<1>13. \A c : Get(c)["id"] = c
  BY DEF Get, Assemble, SetId
<1>14. [i \in DOMAIN items' |-> items'[i]["id"]] = ids
  <2>1. DOMAIN items' = DOMAIN ids /\ \A i \in DOMAIN ids : items'[i]["id"] = ids[i]
    BY <1>12, <1>13
  <2>2. DOMAIN ids = 1..Len(ids) /\ ids = [i \in DOMAIN ids |-> ids[i]]
    BY <1>11
  <2> QED
    BY <2>1, <2>2
<1>15. Ids' = ToSet(ids)
  BY <1>12, <1>13 DEF Ids, ToSet
<1>16. ToSet(ids) = {c \in ToSet(cites) : GetSucceeds(c)}
  <2>1. \A x : x \in ToSet(asked) <=> \E i \in DOMAIN asked : x = asked[i]
    BY DEF ToSet
  <2> QED
    BY <1>6, <1>11, <2>1
<1> QED
  BY <1>9, <1>14, <1>15, <1>16 DEF cites, asked

LEMMA FinishIsHonest ==
  ASSUME ArgsTyped, RunHonest, Finish PROVE ArgsTyped' /\ RunHonest'
<1>1. UNCHANGED <<args, script, vars>>
  BY DEF Finish
<1>2. ArgsTyped'
  BY <1>1 DEF ArgsTyped
<1>3. CASE exit' = 2
  <2>1. items' = items \/ items' = Emitted
    BY DEF Finish
  <2>2. CitesAccountedFor' /\ StatusHonest'
    BY <1>3 DEF CitesAccountedFor, StatusHonest
  <2>3. CASE items' = items
    BY <1>1, <2>2, <2>3, <1>2 DEF RunHonest, OutputLinesUp, Ids
  <2>4. CASE items' # items
    BY <1>3, <2>4 DEF Finish, Status
  <2> QED
    BY <2>3, <2>4
<1>4. CASE exit' # 2
  <2>1. /\ exit' = Status /\ items' = Emitted
        /\ warned' = {f.cite : f \in failures} \cup {f.origin : f \in failures}
                       \cup {arg.cite : arg \in Unexplained}
    BY <1>4 DEF Finish
  <2> DEFINE cites == [i \in DOMAIN args |-> args[i].cite]
             asked == Distinct(cites)
  <2>2. /\ [i \in DOMAIN items' |-> items'[i]["id"]]
             = At(asked, {i \in DOMAIN asked : GetSucceeds(asked[i])})
        /\ Ids' = {c \in ToSet(cites) : GetSucceeds(c)}
    BY <2>1, EmittedIds
  <2>3. \A arg \in ToSet(args) : arg.cite \in ToSet(cites)
    BY DEF ToSet
  <2>4. DOMAIN asked = 1..Len(asked) /\ \A i \in DOMAIN asked : asked[i] \in ToSet(cites)
    <3>1. cites \in Seq(Cites)
      <4>1. args \in Seq(Arguments)
        BY DEF ArgsTyped
      <4>2. \A i \in 1..Len(args) : args[i] \in Arguments
        BY <4>1
      <4>3. cites \in [1..Len(args) -> Cites]
        BY <4>1, <4>2 DEF Arguments
      <4> QED
        BY <4>1, <4>3
    <3> HIDE DEF cites
    <3>2. asked \in Seq(Cites) /\ ToSet(asked) = ToSet(cites)
      BY <3>1, DistinctItems
    <3> HIDE DEF asked
    <3> QED
      BY <3>2 DEF ToSet
  <2> HIDE DEF asked
  <2>5. \A i \in DOMAIN asked : GetSucceeds(asked[i]) <=> asked[i] \in Ids'
    BY <2>2, <2>4
  <2>6. [i \in DOMAIN items' |-> items'[i]["id"]]
          = At(asked, {i \in DOMAIN asked : asked[i] \in Ids'})
    BY <2>2, <2>5
  <2>7. OutputLinesUp'
    BY <1>1, <2>6 DEF OutputLinesUp, asked
  <2>8. \A arg \in ToSet(args) : arg.cite \in Ids' <=> arg \notin Unresolved
    BY <2>2, <2>3 DEF Unresolved
  <2>9. StatusHonest'
    <3>1. exit' = 0 <=> Unresolved = {}
      BY <2>1 DEF Status
    <3>2. Unresolved \subseteq ToSet(args)
      BY DEF Unresolved
    <3> QED
      BY <1>1, <2>8, <3>1, <3>2 DEF StatusHonest
  <2>10. \A arg \in ToSet(args) : arg \in Unresolved => arg.cite \in warned'
    BY <2>1 DEF Unexplained
  <2>11. CitesAccountedFor'
    BY <1>1, <2>8, <2>10 DEF CitesAccountedFor
  <2> QED
    BY <1>2, <2>7, <2>9, <2>11 DEF RunHonest
<1> QED
  BY <1>3, <1>4

\* A run that is not fatal accounts for every citation the user named: among the items it
\* writes, which are the distinct ones asked for that resolved, in the order asked, or in
\* a warning; and its status tells whether all did (cli main: run, report_failures).
THEOREM RunsAreHonest == CliSpec => []RunHonest
<1>1. CliInit => ArgsTyped /\ RunHonest
  <2> SUFFICES ASSUME CliInit PROVE ArgsTyped /\ RunHonest
    OBVIOUS
  <2>1. script \in Seq(Seq({Malformed} \cup Arguments)) /\ args = <<>>
    BY CliAssumption DEF CliInit, Arguments
  <2>2. items = <<>> /\ exit = -2
    BY DEF CliInit, NotRun
  <2> QED
    BY <2>1, <2>2 DEF ArgsTyped, RunHonest, CitesAccountedFor, StatusHonest, OutputLinesUp
<1>2. ArgsTyped /\ RunHonest /\ [CliNext]_<<vars, cli>> => (ArgsTyped /\ RunHonest)'
  <2>1. ASSUME ArgsTyped, RunHonest, UNCHANGED cli PROVE ArgsTyped' /\ RunHonest'
    BY <2>1 DEF cli, ArgsTyped, RunHonest, CitesAccountedFor, StatusHonest, OutputLinesUp,
       Ids
  <2> QED
    BY <2>1, CollectKeepsHonest, FinishIsHonest DEF CliNext, CliStep
<1> QED
  BY <1>1, <1>2, PTL DEF CliSpec, RunHonest

------------------------------------------------------------------------------
(* What get assembles.                                                       *)

\* The fields the first i sets have.
FieldsOf(sets, i) == UNION {DOMAIN sets[j] : j \in 1..i}

\* The set nearest to the request that has the field.
NearestOf(sets, f, i) ==
  f \in DOMAIN sets[i] /\ \A j \in 1..(i - 1) : f \notin DOMAIN sets[j]

\* Merging the sets of a walk leaves each field with the value of the nearest set that
\* has it.
LEMMA GatherNearest ==
  ASSUME NEW sets, NEW n \in Nat, Len(sets) = n
  PROVE  /\ DOMAIN Gather(sets) = FieldsOf(sets, n)
         /\ \A f \in FieldsOf(sets, n) :
              \E i \in 1..n : NearestOf(sets, f, i) /\ Gather(sets)[f] = sets[i][f]
<1> DEFINE nearest(f) == CHOOSE i \in 1..n : NearestOf(sets, f, i)
           near(i) == [f \in FieldsOf(sets, i) |-> sets[nearest(f)][f]]
           Follows(g) ==
             g = [i \in 0..n |-> IF i = 0 THEN <<>> ELSE MergeDefaults(g[i - 1], sets[i])]
           g == CHOOSE x : Follows(x)
           w == [i \in 0..n |-> near(i)]
<1>1. Gather(sets) = g[n]
  BY DEF Gather
<1>2. \A f \in FieldsOf(sets, n) : nearest(f) \in 1..n /\ NearestOf(sets, f, nearest(f))
  <2> SUFFICES ASSUME NEW f \in FieldsOf(sets, n)
               PROVE  \E i \in 1..n : NearestOf(sets, f, i)
    OBVIOUS
  <2> DEFINE S == {i \in 1..n : f \in DOMAIN sets[i]}
  <2>1. S \in SUBSET Nat /\ S # {}
    BY DEF FieldsOf
  <2>2. PICK k \in S : \A i \in S : k <= i
    <3> HIDE DEF S
    <3> QED
      BY <2>1, Least
  <2>3. \A j \in 1..(k - 1) : f \notin DOMAIN sets[j]
    <3> SUFFICES ASSUME NEW j \in 1..(k - 1), f \in DOMAIN sets[j] PROVE FALSE
      OBVIOUS
    <3>1. j \in S /\ j < k
      BY <2>2
    <3> QED
      BY <2>2, <3>1
  <2> QED
    BY <2>2, <2>3 DEF NearestOf
<1>3. \A i \in 1..n : FieldsOf(sets, i) = FieldsOf(sets, i - 1) \cup DOMAIN sets[i]
  <2> SUFFICES ASSUME NEW i \in 1..n, NEW f
               PROVE  f \in FieldsOf(sets, i)
                        <=> f \in FieldsOf(sets, i - 1) \cup DOMAIN sets[i]
    OBVIOUS
  <2>1. f \in FieldsOf(sets, i) <=> \E j \in 1..i : f \in DOMAIN sets[j]
    BY DEF FieldsOf
  <2>2. f \in FieldsOf(sets, i - 1) <=> \E j \in 1..(i - 1) : f \in DOMAIN sets[j]
    BY DEF FieldsOf
  <2>3. \A j \in 1..i : j \in 1..(i - 1) \/ j = i
    OBVIOUS
  <2> QED
    BY <2>1, <2>2, <2>3
<1>4. \A i \in 1..n : FieldsOf(sets, i) \subseteq FieldsOf(sets, n)
  <2> SUFFICES ASSUME NEW i \in 1..n, NEW f \in FieldsOf(sets, i)
               PROVE  f \in FieldsOf(sets, n)
    OBVIOUS
  <2>1. PICK j \in 1..i : f \in DOMAIN sets[j]
    BY DEF FieldsOf
  <2>2. j \in 1..n
    OBVIOUS
  <2> QED
    BY <2>1, <2>2 DEF FieldsOf
<1>5. near(0) = <<>>
  <2>1. FieldsOf(sets, 0) = {}
    BY DEF FieldsOf
  <2>2. near(0) = [f \in {} |-> sets[nearest(f)][f]]
    BY <2>1
  <2> QED
    BY <2>2
<1>6. ASSUME NEW i \in 1..n PROVE near(i) = MergeDefaults(near(i - 1), sets[i])
  <2> DEFINE a == near(i - 1)
             b == sets[i]
  <2>1. DOMAIN a = FieldsOf(sets, i - 1)
    OBVIOUS
  <2>2. \A f \in DOMAIN a : a[f] = sets[nearest(f)][f]
    OBVIOUS
  <2>3. ASSUME NEW f \in DOMAIN b, f \notin DOMAIN a PROVE nearest(f) = i
    <3>1. f \in FieldsOf(sets, i)
      BY <1>3, <2>3
    <3>2. nearest(f) \in 1..n /\ NearestOf(sets, f, nearest(f))
      BY <1>2, <1>4, <3>1
    <3> DEFINE k == nearest(f)
    <3> HIDE DEF k
    <3>3. k \in 1..n /\ NearestOf(sets, f, k)
      BY <3>2 DEF k
    <3>4. ~(k < i)
      <4>1. \A j \in 1..(i - 1) : f \notin DOMAIN sets[j]
        BY <2>1, <2>3 DEF FieldsOf
      <4> QED
        BY <3>3, <4>1 DEF NearestOf
    <3>5. ~(i < k)
      BY <2>3, <3>3 DEF NearestOf
    <3> QED
      BY <3>3, <3>4, <3>5 DEF k
  <2>4. MergeDefaults(a, b) = [f \in (DOMAIN a) \cup (DOMAIN b) |->
                                 IF f \in DOMAIN a THEN a[f] ELSE b[f]]
    BY DEF MergeDefaults, Over
  <2> HIDE DEF nearest
  <2>5. \A f \in FieldsOf(sets, i) :
          sets[nearest(f)][f] = IF f \in DOMAIN a THEN a[f] ELSE b[f]
    BY <1>3, <2>2, <2>3
  <2>6. DOMAIN a \cup DOMAIN b = FieldsOf(sets, i)
    BY <1>3, <2>1
  <2> HIDE DEF a, b
  <2>7. MergeDefaults(a, b) = near(i)
    BY <2>4, <2>5, <2>6
  <2> QED
    BY <2>7 DEF a, b
<1>7. Follows(w)
  <2>1. \A i \in 0..n : w[i] = near(i)
    OBVIOUS
  <2>2. \A i \in 1..n : i - 1 \in 0..n
    OBVIOUS
  <2>3. \A i \in 1..n : w[i] = MergeDefaults(w[i - 1], sets[i])
    BY <1>6, <2>1, <2>2
  <2>4. w = [i \in 0..n |-> w[i]]
    OBVIOUS
  <2>5. w[0] = <<>>
    BY <1>5, <2>1
  <2> HIDE DEF w
  <2> QED
    BY <2>3, <2>4, <2>5
<1>8. Follows(g)
  BY <1>7
<1> HIDE DEF g
<1>9. /\ g[0] = <<>> /\ \A i \in 1..n : g[i] = MergeDefaults(g[i - 1], sets[i])
  BY <1>8
<1> DEFINE S == {k \in Nat : k <= n => g[k] = near(k)}
<1>10. S = Nat
  <2>1. 0 \in S
    BY <1>5, <1>9
  <2>2. ASSUME NEW k \in S PROVE k + 1 \in S
    <3>1. k \in Nat /\ (k + 1) - 1 = k
      BY <2>2
    <3>2. k + 1 <= n => k + 1 \in 1..n /\ g[k] = near(k)
      BY <2>2
    <3> HIDE DEF near
    <3>3. k + 1 <= n => g[k + 1] = near(k + 1)
      BY <1>6, <1>9, <3>1, <3>2
    <3> QED
      BY <3>1, <3>3
  <2> HIDE DEF S
  <2>3. S \in SUBSET Nat
    BY DEF S
  <2> QED
    BY <2>1, <2>2, <2>3, NaturalInduction
<1>11. g[n] = near(n)
  BY <1>10
<1> HIDE DEF nearest
<1>12. /\ DOMAIN g[n] = FieldsOf(sets, n)
       /\ \A f \in FieldsOf(sets, n) : g[n][f] = sets[nearest(f)][f]
  BY <1>11
<1> HIDE DEF near
<1> QED
  BY <1>1, <1>2, <1>12

\* Where get stops when it succeeds, and the links it followed to come there.
EndOf(c) == CHOOSE i \in DOMAIN Link(c) : Link(c)[i] # NoCite /\ ~Chained(Link(c)[i])

LEMMA RouteTaken ==
  ASSUME Shaped, NEW c \in Cites, GetSucceeds(c)
  PROVE  /\ EndOf(c) \in Nat
         /\ Route(c) = [i \in 1..(EndOf(c) + 1) |-> Link(c)[i - 1]]
<1> DEFINE M == MaxChainDepth
           link == Link(c)
           V == Cites \cup {NoCite}
           e == EndOf(c)
<1>1. M \in Nat
  BY RetrievalAssumption
<1>2. /\ \A i \in 0..M : Walk(c)[i] \in V
      /\ \A i \in 1..M : Walk(c)[i] = To[Walk(c)[i - 1]]
  BY WalkSteps
<1>3. link = [i \in 0..(M - 1) |-> Walk(c)[i]]
  BY DEF Link
<1> HIDE DEF link
<1>4. /\ DOMAIN link = 0..(M - 1)
      /\ \A i \in 0..(M - 1) : link[i] \in V
      /\ \A i \in 1..(M - 1) : link[i] = To[link[i - 1]]
  BY <1>1, <1>2, <1>3
<1>5. e \in 0..(M - 1) /\ link[e] # NoCite /\ ~Chained(link[e])
  <2>1. \E i \in DOMAIN link : link[i] # NoCite /\ ~Chained(link[i])
    <3>1. PICK d \in Visited(c) : Cached(d) /\ ~Chained(d)
      BY DEF GetSucceeds
    <3>2. PICK i \in 0..(M - 1) : d = link[i]
      BY DEF Visited, link
    <3> QED
      BY <1>4, <3>1, <3>2 DEF Visited
  <2>2. e = CHOOSE i \in DOMAIN link : link[i] # NoCite /\ ~Chained(link[i])
    BY DEF EndOf, link
  <2> HIDE DEF e
  <2> QED
    BY <1>4, <2>1, <2>2
<1> HIDE DEF e
<1>6. /\ To[NoCite] = NoCite
      /\ \A d \in Cites : To[d] = cache[d].to
  BY RetrievalAssumption DEF To
<1>7. To[link[e]] = NoCite
  BY <1>4, <1>5, <1>6 DEF Chained
<1>8. \A k \in 0..(M - 1) : k > e => link[k] = NoCite
  <2> DEFINE S == {k \in Nat : k + e + 1 \in 0..(M - 1) => link[k + e + 1] = NoCite}
  <2>1. 0 \in S
    <3>1. e + 1 \in 0..(M - 1) => link[e + 1] = NoCite
      <4> SUFFICES ASSUME e + 1 \in 0..(M - 1) PROVE link[e + 1] = NoCite
        OBVIOUS
      <4>1. e + 1 \in 1..(M - 1) /\ (e + 1) - 1 = e
        BY <1>1, <1>5
      <4> QED
        BY <1>4, <1>7, <4>1
    <3>2. 0 + e + 1 = e + 1
      BY <1>5
    <3> QED
      BY <3>1, <3>2
  <2>2. ASSUME NEW k \in S PROVE k + 1 \in S
    <3>1. k \in Nat
      OBVIOUS
    <3> DEFINE n == k + e + 1
    <3>2. (k + 1) + e + 1 = n + 1 /\ n \in Nat
      BY <1>5, <3>1
    <3>3. n \in 0..(M - 1) => link[n] = NoCite
      BY <2>2
    <3> HIDE DEF n
    <3>4. n + 1 \in 0..(M - 1) =>
            n + 1 \in 1..(M - 1) /\ (n + 1) - 1 = n /\ n \in 0..(M - 1)
      BY <1>1, <3>2
    <3>5. n + 1 \in 0..(M - 1) => link[n + 1] = NoCite
      BY <1>4, <1>6, <3>3, <3>4
    <3> QED
      BY <3>1, <3>2, <3>5
  <2> HIDE DEF S
  <2>3. S \in SUBSET Nat
    BY DEF S
  <2>4. S = Nat
    BY <2>1, <2>2, <2>3, NaturalInduction
  <2> SUFFICES ASSUME NEW k \in 0..(M - 1), k > e PROVE link[k] = NoCite
    OBVIOUS
  <2>5. k - e - 1 \in S /\ (k - e - 1) + e + 1 = k
    BY <1>1, <1>5, <2>4
  <2> QED
    BY <2>5 DEF S
<1>9. \A k \in 0..(M - 1) : k < e => link[k] # NoCite
  <2> DEFINE S == {n \in Nat : n <= e => link[e - n] # NoCite}
  <2>1. 0 \in S
    BY <1>5
  <2>2. ASSUME NEW n \in S PROVE n + 1 \in S
    <3>1. n \in Nat /\ (n <= e => link[e - n] # NoCite)
      BY <2>2
    <3>2. ASSUME n + 1 <= e PROVE link[e - (n + 1)] # NoCite
      <4>1. e - n \in 1..(M - 1) /\ (e - n) - 1 = e - (n + 1) /\ n <= e
        BY <1>1, <1>5, <3>1, <3>2
      <4>2. link[e - n] = To[link[e - (n + 1)]]
        BY <1>4, <4>1
      <4> QED
        BY <1>6, <3>1, <4>1, <4>2
    <3> QED
      BY <3>1, <3>2
  <2> HIDE DEF S
  <2>3. S \in SUBSET Nat
    BY DEF S
  <2>4. S = Nat
    BY <2>1, <2>2, <2>3, NaturalInduction
  <2> SUFFICES ASSUME NEW k \in 0..(M - 1), k < e PROVE link[k] # NoCite
    OBVIOUS
  <2>5. e - k \in S /\ e - (e - k) = k /\ e - k <= e
    BY <1>1, <1>5, <2>4
  <2> QED
    BY <2>5 DEF S
<1> DEFINE links == [i \in 1..M |-> link[i - 1]]
           I == {i \in DOMAIN links : links[i] # NoCite}
           p == [i \in 1..(e + 1) |-> i]
<1>10. DOMAIN links = 1..M /\ \A i \in 1..M : links[i] = link[i - 1]
  OBVIOUS
<1>11. links \in Seq(V) /\ Len(links) = M
  <2>1. \A i \in 1..M : i - 1 \in 0..(M - 1)
    BY <1>1
  <2>2. links \in [1..M -> V]
    BY <1>4, <2>1
  <2> QED
    BY <1>1, <2>2
<1> HIDE DEF links
<1>12. I = 1..(e + 1)
  <2>1. ASSUME NEW i \in 1..M PROVE links[i] # NoCite <=> i <= e + 1
    <3>1. i - 1 \in 0..(M - 1)
      BY <1>1
    <3>2. i - 1 < e \/ i - 1 = e \/ i - 1 > e
      BY <1>1, <1>5
    <3>3. i - 1 <= e <=> i <= e + 1
      BY <1>1, <1>5
    <3> QED
      BY <1>5, <1>8, <1>9, <1>10, <3>1, <3>2, <3>3
  <2>2. \A i \in 1..(e + 1) : i \in 1..M
    BY <1>1, <1>5
  <2> QED
    BY <1>1, <1>5, <1>10, <2>1, <2>2
<1>13. Route(c) = At(links, I)
  BY DEF Route, links, link
<1> HIDE DEF I
<1>14. PICK q : Enumerates(q, I) /\ At(links, I) = [n \in DOMAIN q |-> links[q[n]]]
  <2>1. I \in SUBSET (1..Len(links))
    BY <1>1, <1>5, <1>11, <1>12
  <2> QED
    BY <1>11, <2>1, AtOrder
<1>15. Enumerates(p, I)
  <2>1. p \in Seq(Nat) /\ DOMAIN p = 1..(e + 1) /\ \A i \in 1..(e + 1) : p[i] = i
    BY <1>5
  <2> HIDE DEF p
  <2>2. ToSet(p) = I
    BY <1>12, <2>1 DEF ToSet
  <2> QED
    BY <2>1, <2>2 DEF Enumerates
<1>16. q = p
  BY <1>14, <1>15, OrderUnique
<1>17. Route(c) = [n \in 1..(e + 1) |-> link[n - 1]]
  <2>1. \A n \in 1..(e + 1) : n \in 1..M
    BY <1>1, <1>5
  <2>2. DOMAIN p = 1..(e + 1) /\ \A n \in 1..(e + 1) : p[n] = n
    OBVIOUS
  <2> HIDE DEF p
  <2> QED
    BY <1>10, <1>13, <1>14, <1>16, <2>1, <2>2
<1> QED
  BY <1>5, <1>17 DEF e, link

\* Every item written is what get returned for a citation it could resolve.
LEMMA EmittedGot ==
  ASSUME ArgsTyped, items' = Emitted, NEW k \in DOMAIN items'
  PROVE  \E c \in Cites : GetSucceeds(c) /\ items'[k] = Get(c)
<1> DEFINE R == {i \in DOMAIN args : GetSucceeds(args[i].cite)}
           got == [i \in DOMAIN Resolved |-> Resolved[i].cite]
           ids == Distinct(got)
           G == {c \in Cites : GetSucceeds(c)}
<1>1. args \in Seq(Arguments) /\ R \in SUBSET (1..Len(args))
  BY DEF ArgsTyped
<1>2. Resolved = At(args, R)
  BY DEF Resolved
<1> HIDE DEF R
<1>3. /\ Resolved \in Seq(Arguments)
      /\ \A x : x \in ToSet(Resolved) <=> \E i \in R : x = args[i]
  BY <1>1, <1>2, AtItems
<1>4. \A i \in DOMAIN Resolved : Resolved[i].cite \in G
  <2> SUFFICES ASSUME NEW i \in DOMAIN Resolved PROVE Resolved[i].cite \in G
    OBVIOUS
  <2>1. Resolved[i] \in Arguments /\ Resolved[i] \in ToSet(Resolved)
    BY <1>3 DEF ToSet
  <2>2. PICK j \in R : Resolved[i] = args[j]
    BY <1>3, <2>1
  <2>3. GetSucceeds(args[j].cite)
    BY DEF R
  <2> QED
    BY <2>1, <2>2, <2>3 DEF Arguments
<1>5. got \in Seq(G)
  <2>1. DOMAIN Resolved = 1..Len(Resolved) /\ Len(Resolved) \in Nat
    BY <1>3
  <2> HIDE DEF G
  <2>2. got \in [1..Len(Resolved) -> G]
    BY <1>4, <2>1
  <2> QED
    BY <2>1, <2>2
<1>6. ids \in Seq(G)
  <2> HIDE DEF got, G
  <2> QED
    BY <1>5, DistinctItems
<1>7. items' = [i \in DOMAIN ids |-> Get(ids[i])]
  BY DEF Emitted
<1> HIDE DEF ids, G
<1>8. k \in DOMAIN ids /\ items'[k] = Get(ids[k]) /\ ids[k] \in G
  BY <1>6, <1>7
<1> QED
  BY <1>8 DEF G

\* The field comes from the nearest pointer that sets it, or from the item at the end.
FromNearest(item, f) ==
  LET route == Route(item["id"])
      sets == [i \in DOMAIN route |->
                 IF i < Len(route) THEN Properties[route[i]] ELSE Payload[route[i]]]
  IN  /\ f \notin DropFields
      /\ \E i \in DOMAIN sets :
           /\ f \in DOMAIN sets[i] /\ item[f] = sets[i][f]
           /\ \A j \in 1..(i - 1) : f \notin DOMAIN sets[j]

LEMMA NearestGot ==
  ASSUME Shaped, NEW c \in Cites, GetSucceeds(c), NEW f \in DOMAIN Get(c) \ {"id"}
  PROVE  FromNearest(Get(c), f)
<1> DEFINE e == EndOf(c)
           link == Link(c)
           route == Route(c)
           sets == [i \in DOMAIN route |->
                      IF i < Len(route) THEN Properties[route[i]] ELSE Payload[route[i]]]
           stored == [i \in 1..e |-> StoredSet(link[i - 1])]
           gathered == Gather(stored)
           concrete == StoredItem(link[e])
<1>1. e \in Nat /\ route = [i \in 1..(e + 1) |-> link[i - 1]]
  BY RouteTaken
<1>2. Get(c) = SetId(Over(gathered, concrete), c)
  BY DEF Get, Assemble, MergeOver, EndOf
<1> HIDE DEF e, link
<1>3. DOMAIN stored = 1..e /\ Len(stored) = e
      /\ \A i \in 1..e : stored[i] = StoredSet(link[i - 1])
  BY <1>1
<1>4. DOMAIN sets = 1..(e + 1) /\ sets[e + 1] = Payload[link[e]]
      /\ \A i \in 1..e : sets[i] = Properties[link[i - 1]]
  <2>1. /\ DOMAIN route = 1..(e + 1) /\ Len(route) = e + 1
        /\ \A i \in 1..(e + 1) : route[i] = link[i - 1]
    BY <1>1
  <2>2. (e + 1) - 1 = e /\ e + 1 \in 1..(e + 1) /\ ~(e + 1 < e + 1)
        /\ \A i \in 1..e : i \in 1..(e + 1) /\ i < e + 1
    BY <1>1
  <2> HIDE DEF route
  <2> QED
    BY <2>1, <2>2
<1> HIDE DEF stored, sets
<1>5. /\ DOMAIN gathered = FieldsOf(stored, e)
      /\ \A g \in FieldsOf(stored, e) :
           \E i \in 1..e : NearestOf(stored, g, i) /\ gathered[g] = stored[i][g]
  BY <1>1, <1>3, GatherNearest
<1> HIDE DEF gathered
<1>6. \A i \in 1..e : /\ DOMAIN stored[i] = DOMAIN sets[i] \ DropFields
                      /\ \A g \in DOMAIN stored[i] : stored[i][g] = sets[i][g]
  <2> SUFFICES ASSUME NEW i \in 1..e
               PROVE  /\ DOMAIN stored[i] = DOMAIN sets[i] \ DropFields
                      /\ \A g \in DOMAIN stored[i] : stored[i][g] = sets[i][g]
    OBVIOUS
  <2>1. i \in 1..(e + 1)
    BY <1>1
  <2>2. stored[i] = RemoveFields(sets[i], DropFields)
    BY <1>3, <1>4, <2>1 DEF StoredSet
  <2> QED
    BY <2>2 DEF RemoveFields, Restrict
<1>7. /\ DOMAIN concrete = (DOMAIN sets[e + 1] \ DropFields) \cup {"id"}
      /\ \A g \in DOMAIN concrete \ {"id"} : concrete[g] = sets[e + 1][g]
  BY <1>4 DEF StoredItem, SetId, RemoveFields, Restrict
<1> HIDE DEF concrete
<1>8. /\ f # "id" /\ f \in DOMAIN gathered \cup DOMAIN concrete
      /\ Get(c)[f] = IF f \in DOMAIN gathered THEN gathered[f] ELSE concrete[f]
  BY <1>2 DEF SetId, Over
<1>9. /\ f \notin DropFields
      /\ \E i \in 1..(e + 1) : /\ f \in DOMAIN sets[i] /\ Get(c)[f] = sets[i][f]
                               /\ \A j \in 1..(i - 1) : f \notin DOMAIN sets[j]
  <2>1. CASE f \in DOMAIN gathered
    <3>1. PICK i \in 1..e : NearestOf(stored, f, i) /\ gathered[f] = stored[i][f]
      BY <1>5, <2>1
    <3>2. f \in DOMAIN stored[i] /\ f \in DOMAIN sets[i] /\ f \notin DropFields
          /\ Get(c)[f] = sets[i][f]
      BY <1>6, <1>8, <2>1, <3>1 DEF NearestOf
    <3>3. ASSUME NEW j \in 1..(i - 1) PROVE f \notin DOMAIN sets[j]
      <4>1. j \in 1..e /\ f \notin DOMAIN stored[j]
        BY <1>1, <3>1 DEF NearestOf
      <4> QED
        BY <1>6, <3>2, <4>1
    <3>4. i \in 1..(e + 1)
      BY <1>1
    <3> QED
      BY <3>2, <3>3, <3>4
  <2>2. CASE f \notin DOMAIN gathered
    <3>1. f \in DOMAIN concrete /\ Get(c)[f] = concrete[f]
      BY <1>8, <2>2
    <3>2. f \in DOMAIN sets[e + 1] /\ f \notin DropFields /\ Get(c)[f] = sets[e + 1][f]
      BY <1>7, <1>8, <3>1
    <3>3. ASSUME NEW j \in 1..e PROVE f \notin DOMAIN sets[j]
      <4>1. f \notin DOMAIN stored[j]
        BY <1>5, <2>2 DEF FieldsOf
      <4> QED
        BY <1>6, <3>2, <4>1
    <3>4. e + 1 \in 1..(e + 1) /\ (e + 1) - 1 = e
      BY <1>1
    <3> QED
      BY <3>2, <3>3, <3>4
  <2> QED
    BY <2>1, <2>2
<1>10. Get(c)["id"] = c
  BY DEF Get, Assemble, SetId
<1> QED
  BY <1>4, <1>9, <1>10 DEF sets, FromNearest

\* Along a chain the set closest to the request wins and overrides the item at its end,
\* the id is the requested one, and a dropped field comes back from nowhere, in every
\* item a run writes (CitationManager::get, store_resolutions).
THEOREM NearestSetsWin == CliSpec => NearestWins
<1> DEFINE Wins == Finish /\ exit' # 2 =>
             \A k \in DOMAIN items' : \A f \in DOMAIN items'[k] \ {"id"} :
               FromNearest(items'[k], f)
<1>1. DepthInv /\ ArgsTyped => Wins
  <2> SUFFICES ASSUME DepthInv, ArgsTyped, Finish, exit' # 2, NEW k \in DOMAIN items',
                      NEW f \in DOMAIN items'[k] \ {"id"}
               PROVE  FromNearest(items'[k], f)
    OBVIOUS
  <2>1. items' = Emitted
    BY DEF Finish
  <2>2. PICK c \in Cites : GetSucceeds(c) /\ items'[k] = Get(c)
    BY <2>1, EmittedGot
  <2> QED
    BY <2>2, NearestGot DEF DepthInv
<1>2. NearestWins <=> [][Wins]_<<vars, cli>>
  BY DEF NearestWins, FromNearest
<1> HIDE DEF Wins
<1> QED
  BY <1>1, <1>2, DepthAlways, AllManaged, ArgsAlways, PTL
==============================================================================
