-------------------------- MODULE RefreshCycle_proofs --------------------------
(***************************************************************************)
(* What a retrieve and a prune keep of one source's entries, for every     *)
(* policy, TTL, hash and set of keys: well formed records, a plan that     *)
(* asks for what it must and tops up for free with the most urgent, served *)
(* entries a prune keeps, and records the file store really writes.        *)
(***************************************************************************)
EXTENDS RefreshCycle, Batching_proofs

\* The parameters under which a soft and a hard expiry stay apart.
Sane ==
  /\ StalePercent < 100
  /\ JitterPercent < 100
  /\ MaxTime + 2 * Ttl <= MaxMillis

\* A percentage below 100 of a positive number is a smaller natural number.
LEMMA PercentBelow ==
  ASSUME NEW v \in Nat, NEW p \in Nat, p < 100
  PROVE  /\ PercentOf(v, p) \in Nat
         /\ v > 0 => PercentOf(v, p) < v
<1>1. v * p \in Nat /\ v * p <= 99 * v
  <2>1. v * p <= v * 99
    OBVIOUS
  <2> QED
    BY <2>1
<1> DEFINE prod == v * p
<1>2. prod \in Nat /\ prod <= 99 * v
  BY <1>1
<1> HIDE DEF prod
<1>3. prod \div 100 \in Nat /\ (v > 0 => prod \div 100 < v)
  BY <1>2
<1> QED
  BY <1>3, PolicyAssumption DEF PercentOf, Lower, prod

\* Jitter never takes a TTL down to nothing, nor doubles it.
LEMMA HardPositive ==
  ASSUME Sane, NEW ttl \in Nat, ttl > 0, ttl <= Ttl, NEW h \in Nat
  PROVE  HardMillis(ttl, h) \in 1 .. 2 * ttl
<1> USE PolicyAssumption, CycleAssumption
<1>1. Lower(JitterPercent, 100) = JitterPercent
  BY DEF Sane, Lower
<1> DEFINE span == PercentOf(ttl, JitterPercent)
<1>2. span \in Nat /\ span < ttl
  BY PercentBelow DEF Sane
<1> HIDE DEF span
<1>3. JitterOf(ttl, h) \in -span .. span
  <2>1. CASE span <= 0
    BY <1>1, <1>2, <2>1 DEF JitterOf, span
  <2>2. CASE span > 0
    <3>1. h % (2 * span + 1) \in 0 .. 2 * span
      BY <1>2, <2>2
    <3> QED
      BY <1>1, <1>2, <2>2, <3>1 DEF JitterOf, span
  <2> QED
    BY <1>2, <2>1, <2>2
<1>4. ttl + JitterOf(ttl, h) <= MaxMillis
  BY <1>2, <1>3 DEF Sane
<1> QED
  BY <1>2, <1>3, <1>4 DEF HardMillis, SatAdd, Lower, Higher

\* make_record keeps the two expiries apart.
LEMMA RecordPersists ==
  ASSUME Sane, Ttl > 0, NEW t \in 0 .. MaxTime, NEW h \in Nat
  PROVE  ~IsEphemeralRecord(MakeRecord(t, Ttl, h))
<1> USE PolicyAssumption, CycleAssumption
<1> DEFINE hard == HardMillis(Ttl, h)
           soft == SoftMillis(hard)
<1>1. hard \in 1 .. 2 * Ttl
  BY HardPositive
<1> HIDE DEF hard
<1>2. soft \in Nat /\ soft < hard
  BY <1>1, PercentBelow DEF Sane, SoftMillis, Lower
<1> HIDE DEF soft
<1>3. t + hard <= MaxMillis
  BY <1>1 DEF Sane
<1>4. /\ SatAdd(t, soft) \in Nat /\ SatAdd(t, hard) \in Nat
      /\ SatAdd(t, soft) < SatAdd(t, hard)
  BY <1>1, <1>2, <1>3 DEF SatAdd, Lower
<1>5. MakeRecord(t, Ttl, h) = [stale |-> SatAdd(t, soft), expires |-> SatAdd(t, hard)]
  BY DEF MakeRecord, hard, soft
<1> QED
  BY <1>4, <1>5 DEF IsEphemeralRecord

\* The clock stays below its bound, and no cached record looks ephemeral.
PersistInv ==
  /\ now \in 0 .. MaxTime
  /\ Ttl > 0 => \A k \in Keys : rec[k] # NoRecord => ~IsEphemeralRecord(rec[k])

\* A normal record always has stale_after < expires (filecache.rs, is_ephemeral),
\* so the file store writes it: true of every policy with both percentages below
\* 100, which TtlPolicy does not require.
THEOREM NormalRecordsPersist ==
  ASSUME Sane PROVE Spec => []NormalRecordPersists
<1> USE CycleAssumption
<1>1. Init => PersistInv
  BY DEF Init, PersistInv
<1>2. PersistInv /\ [Next]_vars => PersistInv'
  <2> SUFFICES ASSUME PersistInv, [Next]_vars PROVE PersistInv'
    OBVIOUS
  <2>1. ASSUME NEW asked, NEW draw, NEW answered, Retrieve(asked, draw, answered)
        PROVE  PersistInv'
    <3>1. now' = now /\ now \in 0 .. MaxTime
      BY <2>1 DEF Retrieve, PersistInv
    <3>2. ASSUME Ttl > 0, NEW k \in Keys, rec'[k] # NoRecord
          PROVE  ~IsEphemeralRecord(rec'[k])
      <4>1. rec'[k] \in {MakeRecord(now, Ttl, Hash[k]), rec[k]}
        BY <2>1 DEF Retrieve
      <4>2. Hash[k] \in Nat
        OBVIOUS
      <4> QED
        BY <3>1, <3>2, <4>1, <4>2, RecordPersists DEF PersistInv
    <3> QED
      BY <3>1, <3>2 DEF PersistInv
  <2>2. CASE Prune
    BY <2>2 DEF Prune, PersistInv
  <2>3. CASE Tick
    BY <2>3 DEF Tick, PersistInv
  <2>4. CASE UNCHANGED vars
    BY <2>4 DEF vars, PersistInv
  <2> QED
    BY <2>1, <2>2, <2>3, <2>4 DEF Next
<1>3. PersistInv => NormalRecordPersists
  BY DEF PersistInv, NormalRecordPersists, Cached
<1> QED
  BY <1>1, <1>2, <1>3, PTL DEF Spec

------------------------------------------------------------------------------
(* One pass.                                                                 *)

\* The clock, the policy and the records, and that no record is fresh past its expiry.
RecordTypes ==
  /\ now \in 0..MaxTime /\ policy \in InEffect
  /\ rec \in [Keys -> [stale : Times, expires : Times]]
  /\ \A k \in Keys : rec[k].stale <= rec[k].expires

\* A pass that classified the keys of `asked` and planned a request for them.
Planned(asked, required, due, eligible, plan) ==
  /\ required \subseteq asked /\ due \subseteq asked /\ eligible \subseteq asked
  /\ required \cap due = {} /\ required \cap eligible = {} /\ due \cap eligible = {}
  /\ plan = Plan(policy, ChunkSize, InOrder(required), InOrder(due), ByUrgency(eligible))

\* A cached key that a pass may leave alone is served from within its grace window, and
\* prune keeps it: max_defer is cut off there.
LEMMA KeptInGrace ==
  ASSUME RecordTypes, MaxTime < MaxMillis, NEW k \in Keys, NEW d,
         Classify(policy, rec[k], now, d, Ttl) # "Required"
  PROVE  UsableWithinGrace(rec[k], now)
<1> USE PolicyAssumption, CycleAssumption
<1>1. /\ now \in Nat /\ now < MaxMillis /\ rec[k].expires \in Int
      /\ policy.maxDefer \in Nat /\ rec[k].stale \in Int
      /\ rec[k].stale <= rec[k].expires
  BY DEF RecordTypes, Times, Policies
<1>2. CASE Freshness(rec[k], now) = "expired"
  <2>1. now - rec[k].expires < DeferLimit(policy)
    BY <1>1, <1>2 DEF Classify, DeferLimit, Lower
  <2>2. DeferLimit(policy) \in Nat /\ DeferLimit(policy) <= Grace
    BY <1>1 DEF DeferLimit, Lower
  <2> QED
    BY <1>1, <2>1, <2>2 DEF UsableWithinGrace, SatAdd, Lower
<1>3. CASE Freshness(rec[k], now) # "expired"
  <2>1. now < rec[k].expires
    BY <1>1, <1>3 DEF Freshness
  <2> QED
    BY <1>1, <2>1 DEF UsableWithinGrace, SatAdd, Lower
<1> QED
  BY <1>2, <1>3

\* A request for all of the required and due keys and the first of the eligible ones.
Asks(required, due, eligible, plan) ==
  \/ ToSet(plan.fetch) = {} /\ plan.pulled = 0
  \/ ToSet(plan.fetch) = required \cup due
                            \cup ToSet(SubSeq(ByUrgency(eligible), 1, plan.pulled))

\* What a planned request asks for: all of the required keys, and, unless it is put off,
\* all of the due ones and the first of the eligible ones by (expires, key).
LEMMA PlannedFetches ==
  ASSUME RecordTypes, NEW asked \in SUBSET Keys, NEW R, NEW D, NEW E, NEW plan,
         Planned(asked, R, D, E, plan)
  PROVE  /\ IsFiniteSet(R) /\ IsFiniteSet(D) /\ IsFiniteSet(E)
         /\ Lists(InOrder(R), R) /\ Lists(InOrder(D), D) /\ Lists(ByUrgency(E), E)
         /\ plan.pulled \in 0..Cardinality(E) /\ plan.fetch \in Seq(Keys)
         /\ R \subseteq ToSet(plan.fetch) /\ ToSet(plan.fetch) \subseteq asked
         /\ Asks(R, D, E, plan)
         /\ \A i, j \in 1..Cardinality(E) :
              i < j => rec[ByUrgency(E)[i]].expires <= rec[ByUrgency(E)[j]].expires
<1> USE PolicyAssumption, CycleAssumption
<1>1. /\ R \in SUBSET Nat /\ D \in SUBSET Nat /\ E \in SUBSET Nat
      /\ R \subseteq Keys /\ D \subseteq Keys /\ E \subseteq Keys
      /\ policy \in Policies
  BY DEF Planned, RecordTypes
<1>2. IsFiniteSet(R) /\ IsFiniteSet(D) /\ IsFiniteSet(E)
  BY <1>1, FS_Subset
<1>3. /\ InOrder(R) \in Seq(R) /\ Len(InOrder(R)) = Cardinality(R)
      /\ ToSet(InOrder(R)) = R
  <2>1. [k \in R |-> 0] \in [R -> Int]
    OBVIOUS
  <2> QED
    BY <1>1, <1>2, <2>1, SortedKeys DEF InOrder
<1>4. /\ InOrder(D) \in Seq(D) /\ Len(InOrder(D)) = Cardinality(D)
      /\ ToSet(InOrder(D)) = D
  <2>1. [k \in D |-> 0] \in [D -> Int]
    OBVIOUS
  <2> QED
    BY <1>1, <1>2, <2>1, SortedKeys DEF InOrder
<1> DEFINE f == [k \in E |-> rec[k].expires]
           q == ByUrgency(E)
<1>5. f \in [E -> Int]
  BY <1>1 DEF RecordTypes, Times
<1>6. /\ q \in Seq(E) /\ Len(q) = Cardinality(E) /\ ToSet(q) = E
      /\ \A i, j \in DOMAIN q : i < j => Before(f, q[i], q[j])
  <2>1. q = Sorted(f, E)
    BY DEF ByUrgency
  <2> HIDE DEF f, q
  <2> QED
    BY <1>1, <1>2, <1>5, <2>1, SortedKeys
<1> HIDE DEF q
<1>7. \A i, j \in 1..Cardinality(E) :
        i < j => rec[q[i]].expires <= rec[q[j]].expires
  <2> SUFFICES ASSUME NEW i \in 1..Cardinality(E), NEW j \in 1..Cardinality(E), i < j
               PROVE  rec[q[i]].expires <= rec[q[j]].expires
    OBVIOUS
  <2>1. i \in DOMAIN q /\ j \in DOMAIN q /\ q[i] \in E /\ q[j] \in E
    BY <1>6
  <2>2. Before(f, q[i], q[j])
    BY <1>6, <2>1
  <2>3. f[q[i]] = rec[q[i]].expires /\ f[q[j]] = rec[q[j]].expires
    BY <2>1
  <2>4. f[q[i]] \in Int /\ f[q[j]] \in Int
    BY <1>5, <2>1
  <2> HIDE DEF f
  <2> QED
    BY <2>2, <2>3, <2>4 DEF Before
<1>8. InOrder(R) \in Seq(Keys) /\ InOrder(D) \in Seq(Keys) /\ q \in Seq(Keys)
  BY <1>1, <1>3, <1>4, <1>6, SeqMonotonic
<1>9. plan = Plan(policy, ChunkSize, InOrder(R), InOrder(D), q)
  BY DEF Planned, q
<1>10. /\ plan.pulled \in 0..Len(q) /\ plan.fetch \in Seq(Keys)
       /\ \/ /\ ToSet(plan.fetch) = {} /\ plan.pulled = 0
             /\ InOrder(R) = <<>>
          \/ ToSet(plan.fetch) = R \cup D \cup ToSet(SubSeq(q, 1, plan.pulled))
  <2> DEFINE r == InOrder(R)
             d == InOrder(D)
  <2>1. r \in Seq(Keys) /\ d \in Seq(Keys) /\ q \in Seq(Keys)
    BY <1>8
  <2>5. ToSet(r) = R /\ ToSet(d) = D
    BY <1>3, <1>4
  <2>2. plan = Plan(policy, ChunkSize, r, d, q)
    BY <1>9
  <2>3. policy \in Policies /\ ChunkSize \in Nat
    BY <1>1
  <2> HIDE DEF r, d
  <2>4. /\ plan.pulled \in 0..Len(q) /\ plan.fetch \in Seq(Keys)
        /\ Fetches(policy, r, d, q, plan)
    BY ONLY <2>1, <2>2, <2>3, PlanFetches
  <2> QED
    BY <2>4, <2>5 DEF Fetches, r
<1>11. InOrder(R) = <<>> => R = {}
  BY <1>3 DEF ToSet
<1>12. ToSet(SubSeq(q, 1, plan.pulled)) \subseteq E
  BY <1>6, <1>10, ToSetFront
<1>13. R \subseteq ToSet(plan.fetch) /\ ToSet(plan.fetch) \subseteq asked
  BY <1>10, <1>11, <1>12 DEF Planned
<1> QED
  BY <1>2, <1>3, <1>4, <1>6, <1>7, <1>8, <1>10, <1>13 DEF q, Asks, Lists

\* What a retrieve leaves: a plan for the keys it classified, and every key it was not
\* required to fetch still cached and within its grace window.
LEMMA RetrievePlans ==
  ASSUME RecordTypes, NEW asked \in SUBSET Keys, NEW draw, NEW answered,
         Retrieve(asked, draw, answered)
  PROVE  /\ Planned(asked, last'.required, last'.due, last'.eligible, last'.plan)
         /\ last'.asked = asked /\ last'.answered = answered
         /\ now' = now /\ policy' = policy
         /\ rec' = [k \in Keys |-> rec'[k]]
         /\ \A k \in Keys : rec'[k] \in {MakeRecord(now, Ttl, Hash[k]), rec[k]}
         /\ \A k \in Keys \ ToSet(last'.plan.fetch) : rec'[k] = rec[k]
         /\ answered => \A k \in ToSet(last'.plan.fetch) \cap Keys :
              rec'[k] = MakeRecord(now, Ttl, Hash[k])
         /\ MaxTime < MaxMillis => \A k \in asked \ last'.required :
              Cached(k) /\ UsableWithinGrace(rec[k], now)
<1> DEFINE class == [k \in asked |->
                       IF Cached(k) THEN Classify(policy, rec[k], now, draw[k], Ttl)
                       ELSE "Required"]
           Of(c) == {k \in asked : class[k] = c}
<1> HIDE DEF class
<1>1. PICK plan : /\ plan = Plan(policy, ChunkSize, InOrder(Of("Required")),
                                 InOrder(Of("Due")), ByUrgency(Of("Eligible")))
                  /\ rec' = [k \in Keys |-> IF answered /\ k \in ToSet(plan.fetch)
                                              THEN MakeRecord(now, Ttl, Hash[k])
                                              ELSE rec[k]]
                  /\ last' = [asked |-> asked, required |-> Of("Required"),
                              due |-> Of("Due"), eligible |-> Of("Eligible"),
                              plan |-> plan, answered |-> answered]
                  /\ UNCHANGED <<now, policy>>
  BY Zenon DEF Retrieve, class
<1>2. /\ last'.required = Of("Required") /\ last'.due = Of("Due")
      /\ last'.eligible = Of("Eligible") /\ last'.plan = plan
      /\ last'.asked = asked /\ last'.answered = answered
  BY <1>1
<1>3. Planned(asked, Of("Required"), Of("Due"), Of("Eligible"), plan)
  BY <1>1 DEF Planned
<1>4. ASSUME MaxTime < MaxMillis, NEW k \in asked \ Of("Required")
      PROVE  Cached(k) /\ UsableWithinGrace(rec[k], now)
  <2>1. class[k] # "Required" /\ k \in Keys
    BY <1>4
  <2>2. Cached(k) /\ Classify(policy, rec[k], now, draw[k], Ttl) # "Required"
    BY <2>1 DEF class
  <2> QED
    BY <1>4, <2>1, <2>2, KeptInGrace
<1> QED
  BY <1>1, <1>2, <1>3, <1>4

\* A retrieve, a prune and a tick keep the records well formed.
LEMMA RecordsStep ==
  ASSUME RecordTypes, [Next]_vars PROVE RecordTypes'
<1> USE PolicyAssumption, CycleAssumption
<1>1. NoRecord \in [stale : Times, expires : Times] /\ NoRecord.stale <= NoRecord.expires
  BY DEF NoRecord, Times
<1>2. \A k \in Keys : LET r == MakeRecord(now, Ttl, Hash[k]) IN
        r \in [stale : Times, expires : Times] /\ r.stale <= r.expires
  <2> SUFFICES ASSUME NEW k \in Keys
               PROVE  LET r == MakeRecord(now, Ttl, Hash[k]) IN
                      r \in [stale : Times, expires : Times] /\ r.stale <= r.expires
    OBVIOUS
  <2>1. now \in 0..MaxMillis /\ Hash[k] \in Nat
    BY DEF RecordTypes
  <2> DEFINE r == MakeRecord(now, Ttl, Hash[k])
  <2>2. /\ r = [stale |-> r.stale, expires |-> r.expires]
        /\ r.stale \in now..MaxMillis /\ r.expires \in now..MaxMillis
        /\ r.stale <= r.expires
    BY <2>1, RecordInRange
  <2> HIDE DEF r
  <2>3. r.stale \in Times /\ r.expires \in Times
    BY <2>1, <2>2 DEF Times
  <2> QED
    BY <2>2, <2>3 DEF r
<1>3. ASSUME NEW asked \in SUBSET Keys, NEW draw, NEW answered,
             Retrieve(asked, draw, answered)
      PROVE  RecordTypes'
  <2>1. /\ now' = now /\ policy' = policy
        /\ rec' = [k \in Keys |-> rec'[k]]
        /\ \A k \in Keys : rec'[k] \in {MakeRecord(now, Ttl, Hash[k]), rec[k]}
    BY <1>3, RetrievePlans
  <2>2. \A k \in Keys : /\ rec'[k] \in [stale : Times, expires : Times]
                        /\ rec'[k].stale <= rec'[k].expires
    BY <1>2, <2>1 DEF RecordTypes
  <2>3. rec' \in [Keys -> [stale : Times, expires : Times]]
    BY <2>1, <2>2
  <2> QED
    BY <2>1, <2>2, <2>3 DEF RecordTypes
<1>4. CASE Prune
  BY <1>1, <1>4 DEF Prune, RecordTypes
<1>5. CASE Tick
  BY <1>5 DEF Tick, RecordTypes
<1>6. CASE UNCHANGED vars
  BY <1>6 DEF vars, RecordTypes
<1> QED
  BY <1>3, <1>4, <1>5, <1>6 DEF Next

\* The plan kept when nothing was retrieved asks for nothing.
LEMMA NothingPlanned == ToSet(Nothing.plan.fetch) = {}
<1> DEFINE plan == Plan(Eager, 1, <<>>, <<>>, <<>>)
<1>1. Eager \in Policies
  BY DEF Eager, Policies
<1>2. <<>> \in Seq(Keys) /\ Len(<<>>) = 0 /\ ToSet(<<>>) = {}
  BY DEF ToSet
<1>3. Nothing.plan = plan
  BY DEF Nothing
<1> HIDE DEF plan
<1>4. plan.pulled \in 0..Len(<<>>) /\ Fetches(Eager, <<>>, <<>>, <<>>, plan)
  BY <1>1, <1>2, PlanFetches DEF plan
<1>5. ToSet(SubSeq(<<>>, 1, plan.pulled)) = {}
  <2>1. plan.pulled \in 0..0
    BY <1>2, <1>4
  <2>2. Len(SubSeq(<<>>, 1, plan.pulled)) = 0
    BY <1>2, <2>1, ToSetFront
  <2> QED
    BY <2>1, <2>2 DEF ToSet
<1> QED
  BY <1>2, <1>3, <1>4, <1>5 DEF Fetches

\* The clock, the policy and the records are well formed in every state.
LEMMA RecordsAlways == Spec => []RecordTypes
<1> USE PolicyAssumption, CycleAssumption
<1>1. Init => RecordTypes
  BY DEF Init, RecordTypes, NoRecord, Times
<1>2. RecordTypes /\ [Next]_vars => RecordTypes'
  BY RecordsStep
<1> QED
  BY <1>1, <1>2, PTL DEF Spec

\* The clock stays within its bound, every record holds two times of the clock, and a
\* request asks only for keys that were asked for (CitationManager::retrieve).
THEOREM TypeCorrect == Spec => []TypeOK
<1>1. Init => TypeOK
  <2>1. ASSUME Init PROVE RecordTypes /\ last = Nothing
    BY <2>1, PolicyAssumption, CycleAssumption
       DEF Init, RecordTypes, NoRecord, Times
  <2>2. Nothing.asked = {}
    BY DEF Nothing
  <2> QED
    BY <2>1, <2>2, NothingPlanned DEF TypeOK, RecordTypes
<1>2. RecordTypes /\ TypeOK /\ [Next]_vars => TypeOK'
  <2> SUFFICES ASSUME RecordTypes, TypeOK, [Next]_vars PROVE TypeOK'
    OBVIOUS
  <2>1. RecordTypes'
    BY RecordsStep
  <2>2. CASE last' = Nothing
    <3>1. Nothing.asked = {}
      BY DEF Nothing
    <3> QED
      BY <2>1, <2>2, <3>1, NothingPlanned DEF TypeOK, RecordTypes
  <2>3. ASSUME NEW asked \in SUBSET Keys, NEW draw, NEW answered,
               Retrieve(asked, draw, answered)
        PROVE  TypeOK'
    <3>1. /\ Planned(asked, last'.required, last'.due, last'.eligible, last'.plan)
          /\ last'.asked = asked
      BY <2>3, RetrievePlans
    <3>2. ToSet(last'.plan.fetch) \subseteq asked
      BY <3>1, PlannedFetches
    <3> QED
      BY <2>1, <3>1, <3>2 DEF TypeOK, RecordTypes
  <2>4. CASE UNCHANGED vars
    BY <2>4 DEF vars, TypeOK
  <2> QED
    BY <2>2, <2>3, <2>4 DEF Next, Prune, Tick
<1> QED
  BY <1>1, <1>2, RecordsAlways, PTL DEF Spec

------------------------------------------------------------------------------
(* What was served survives prune.                                           *)

\* An entry has some life left at the instant it is stored, or a grace window.
LivesOn == Grace > 0 \/ (Sane /\ Ttl > 0)

\* A record just stored is within its grace window.
LEMMA StoredInGrace ==
  ASSUME LivesOn, MaxTime < MaxMillis, NEW t \in 0..MaxTime, NEW h \in Nat
  PROVE  UsableWithinGrace(MakeRecord(t, Ttl, h), t)
<1> USE PolicyAssumption, CycleAssumption
<1> DEFINE r == MakeRecord(t, Ttl, h)
<1>1. t \in 0..MaxMillis /\ r.expires \in t..MaxMillis
  <2>1. t \in 0..MaxMillis
    OBVIOUS
  <2> QED
    BY <2>1, RecordInRange
<1>2. CASE Grace > 0
  BY <1>1, <1>2 DEF UsableWithinGrace, SatAdd, Lower
<1>3. CASE Sane /\ Ttl > 0
  <2>1. HardMillis(Ttl, h) \in Nat \ {0}
    BY <1>3, HardPositive
  <2> DEFINE hard == HardMillis(Ttl, h)
  <2>2. r.expires = SatAdd(t, hard)
    BY <1>3 DEF MakeRecord
  <2> HIDE DEF hard, r
  <2>3. hard \in Nat \ {0}
    BY <2>1 DEF hard
  <2>4. t < r.expires
    BY <2>2, <2>3 DEF SatAdd, Lower
  <2>5. UsableWithinGrace(r, t)
    BY <1>1, <2>4 DEF UsableWithinGrace, SatAdd, Lower
  <2> QED
    BY <2>5 DEF r
<1> QED
  BY <1>2, <1>3 DEF LivesOn

\* An entry a reachable source was asked for is cached and within its grace window when
\* retrieve returns: max_defer never defers it past the point where prune may drop it.
THEOREM ServedSurvives ==
  ASSUME MaxTime < MaxMillis, LivesOn
  PROVE  Spec => []ServedSurvivesPrune
<1> USE PolicyAssumption, CycleAssumption
<1>1. Init => ServedSurvivesPrune
  BY DEF Init, Nothing, ServedSurvivesPrune
<1>2. RecordTypes /\ ServedSurvivesPrune /\ [Next]_vars => ServedSurvivesPrune'
  <2> SUFFICES ASSUME RecordTypes, ServedSurvivesPrune, [Next]_vars
               PROVE  ServedSurvivesPrune'
    OBVIOUS
  <2>1. CASE last' = Nothing
    BY <2>1 DEF Nothing, ServedSurvivesPrune
  <2>2. ASSUME NEW asked \in SUBSET Keys, NEW draw, NEW answered,
               Retrieve(asked, draw, answered), answered
        PROVE  ServedSurvivesPrune'
    <3> DEFINE fetch == ToSet(last'.plan.fetch)
    <3>1. /\ Planned(asked, last'.required, last'.due, last'.eligible, last'.plan)
          /\ last'.asked = asked /\ now' = now
          /\ \A k \in Keys \ fetch : rec'[k] = rec[k]
          /\ \A k \in fetch \cap Keys : rec'[k] = MakeRecord(now, Ttl, Hash[k])
          /\ \A k \in asked \ last'.required :
               Cached(k) /\ UsableWithinGrace(rec[k], now)
      BY <2>2, RetrievePlans
    <3>2. last'.required \subseteq fetch
      <4>1. Planned(asked, last'.required, last'.due, last'.eligible, last'.plan)
        BY <3>1
      <4> QED
        BY <4>1, PlannedFetches
    <3> HIDE DEF fetch
    <3>3. ASSUME NEW k \in asked PROVE Cached(k)' /\ UsableWithinGrace(rec'[k], now)
      <4>1. CASE k \in fetch
        <5>1. now \in 0..MaxTime /\ now \in 0..MaxMillis /\ Hash[k] \in Nat
          BY DEF RecordTypes
        <5>2. rec'[k] = MakeRecord(now, Ttl, Hash[k])
          BY <3>1, <4>1
        <5>3. UsableWithinGrace(MakeRecord(now, Ttl, Hash[k]), now)
          BY <5>1, StoredInGrace
        <5>4. MakeRecord(now, Ttl, Hash[k]).stale \in now..MaxMillis
          BY <5>1, RecordInRange
        <5> QED
          BY <5>1, <5>2, <5>3, <5>4 DEF Cached, NoRecord
      <4>2. CASE k \notin fetch
        <5>1. k \in asked \ last'.required /\ k \in Keys \ fetch
          BY <3>2, <4>2
        <5> QED
          BY <3>1, <5>1 DEF Cached
      <4> QED
        BY <4>1, <4>2
    <3> QED
      BY <3>1, <3>3 DEF ServedSurvivesPrune
  <2>3. ASSUME NEW asked \in SUBSET Keys, NEW draw, NEW answered \in BOOLEAN,
               Retrieve(asked, draw, answered), ~answered
        PROVE  ServedSurvivesPrune'
    <3>1. last'.answered = answered
      BY <2>3, RetrievePlans
    <3> QED
      BY <2>3, <3>1 DEF ServedSurvivesPrune
  <2>4. CASE UNCHANGED vars
    BY <2>4 DEF vars, ServedSurvivesPrune, Cached
  <2> QED
    BY <2>1, <2>2, <2>3, <2>4 DEF Next, Prune, Tick
<1> QED
  BY <1>1, <1>2, RecordsAlways, PTL DEF Spec

------------------------------------------------------------------------------
(* Which entries are pulled forward.                                         *)

\* Entries join a request most urgent first: none is taken while one that expires sooner
\* is left (Pending::eligible is sorted before RefreshBatching::plan cuts it).
THEOREM UrgentFirst == Spec => MostUrgentFirst
<1> DEFINE Step == \A k, j \in last'.eligible :
                     (k \in ToSet(last'.plan.fetch) /\ j \notin ToSet(last'.plan.fetch))
                       => rec[k].expires <= rec[j].expires
<1>1. RecordTypes /\ [Next]_vars => [Step]_vars
  <2> SUFFICES ASSUME RecordTypes, Next PROVE Step
    OBVIOUS
  <2>1. CASE last' = Nothing
    BY <2>1 DEF Nothing
  <2>2. ASSUME NEW asked \in SUBSET Keys, NEW draw, NEW answered,
               Retrieve(asked, draw, answered),
               NEW k \in last'.eligible, NEW j \in last'.eligible,
               k \in ToSet(last'.plan.fetch), j \notin ToSet(last'.plan.fetch)
        PROVE  rec[k].expires <= rec[j].expires
    <3> DEFINE plan == last'.plan
               R == last'.required
               D == last'.due
               E == last'.eligible
               q == ByUrgency(E)
    <3>1. Planned(asked, R, D, E, plan)
      BY <2>2, RetrievePlans
    <3> HIDE DEF plan, R, D, E
    <3>2. /\ Lists(q, E) /\ Asks(R, D, E, plan)
          /\ plan.pulled \in 0..Cardinality(E)
      BY <3>1, PlannedFetches
    <3>9. \A i, m \in 1..Cardinality(E) :
            i < m => rec[q[i]].expires <= rec[q[m]].expires
      BY <3>1, PlannedFetches
    <3> HIDE DEF q
    <3>3. k \in E /\ j \in E /\ k \in ToSet(plan.fetch) /\ j \notin ToSet(plan.fetch)
      BY <2>2 DEF plan, E
    <3>4. /\ k \in ToSet(SubSeq(q, 1, plan.pulled))
          /\ j \notin ToSet(SubSeq(q, 1, plan.pulled))
      BY <3>1, <3>2, <3>3 DEF Planned, Asks, q
    <3>5. \A x : x \in ToSet(SubSeq(q, 1, plan.pulled))
                   <=> \E i \in 1..plan.pulled : x = q[i]
      <4>1. q \in Seq(E) /\ plan.pulled \in 0..Len(q)
        BY <3>2 DEF Lists
      <4> QED
        BY <4>1, ToSetFront
    <3>6. PICK i \in 1..plan.pulled : k = q[i]
      BY <3>4, <3>5
    <3>7. PICK m \in 1..Cardinality(E) : j = q[m]
      BY <3>2, <3>3 DEF ToSet, Lists
    <3>8. m \notin 1..plan.pulled
      BY <3>4, <3>5, <3>7
    <3>10. i \in 1..Cardinality(E) /\ i < m
      <4>1. Cardinality(E) \in Nat /\ plan.pulled \in Nat
        <5>1. IsFiniteSet(E)
          BY <3>1, PlannedFetches
        <5> QED
          BY <3>2, <5>1, FS_CardinalityType
      <4> QED
        BY <3>2, <3>6, <3>7, <3>8, <4>1
    <3>11. rec[q[i]].expires <= rec[q[m]].expires
      BY <3>7, <3>9, <3>10
    <3> QED
      BY <3>6, <3>7, <3>11
  <2> QED
    BY <2>1, <2>2 DEF Next, Prune, Tick
<1> QED
  BY <1>1, RecordsAlways, PTL DEF Spec, MostUrgentFirst

------------------------------------------------------------------------------
(* Topping up to whole chunks.                                               *)

\* A number between n and n rounded up needs as many chunks as n.
LEMMA SameRequests ==
  ASSUME ChunkSize > 0, NEW n \in Nat, NEW m \in n..RoundUp(n, ChunkSize)
  PROVE  Requests(m) = Requests(n)
<1> DEFINE c == ChunkSize
           r == n % c
           q == n \div c
<1>1. c \in Nat \ {0}
  BY CycleAssumption
<1>2. q \in Nat /\ r \in 0..(c - 1) /\ n = c * q + r
  <2> HIDE DEF c
  <2> QED
    BY <1>1
<1>3. m \in n..RoundUp(n, c)
  OBVIOUS
<1> HIDE DEF c
<1>4. CASE r = 0
  BY <1>1, <1>3, <1>4 DEF RoundUp, c
<1>5. CASE r > 0
  <2>1. m <= n + (c - r)
    BY <1>1, <1>2, <1>3, <1>5 DEF RoundUp
  <2> HIDE DEF q, r
  <2> DEFINE p == c * q
  <2>2. p \in Nat /\ p + c = c * (q + 1) /\ n = p + r
    BY <1>1, <1>2
  <2> HIDE DEF p
  <2>3. /\ p + c <= n + c - 1 /\ n + c - 1 < p + c + c
        /\ p + c <= m + c - 1 /\ m + c - 1 < p + c + c /\ m \in Nat
    BY <1>1, <1>2, <1>3, <1>5, <2>1, <2>2
  <2>4. \A x \in Nat : (c * (q + 1) <= x /\ x < c * (q + 1) + c) => x \div c = q + 1
    BY <1>1, <1>2
  <2>5. (n + c - 1) \div c = q + 1 /\ (m + c - 1) \div c = q + 1
    <3> DEFINE x == n + c - 1
               y == m + c - 1
    <3>1. /\ x \in Nat /\ c * (q + 1) <= x /\ x < c * (q + 1) + c
          /\ y \in Nat /\ c * (q + 1) <= y /\ y < c * (q + 1) + c
      BY <1>1, <2>2, <2>3
    <3> HIDE DEF x, y
    <3>2. x \div c = q + 1 /\ y \div c = q + 1
      BY <2>4, <3>1
    <3> QED
      BY <3>2 DEF x, y
  <2> QED
    BY <2>5 DEF Requests, c
<1> QED
  BY <1>2, <1>4, <1>5

\* Topping up to the chunk boundary is free: it never adds a request to those that the due
\* work, or the minimum batch, needs anyway (RefreshBatching::plan, Fill::ChunkBoundary).
THEOREM TopUpCostsNothing ==
  ASSUME ChunkSize > 0 PROVE Spec => []TopUpFree
<1> USE PolicyAssumption, CycleAssumption
<1>1. Init => TopUpFree
  <2>1. Cardinality(ToSet(Nothing.plan.fetch)) = 0
    BY NothingPlanned, FS_EmptySet
  <2> QED
    BY <2>1 DEF Init, TopUpFree
<1>2. RecordTypes /\ TopUpFree /\ [Next]_vars => TopUpFree'
  <2> SUFFICES ASSUME RecordTypes, TopUpFree, [Next]_vars PROVE TopUpFree'
    OBVIOUS
  <2>1. CASE last' = Nothing
    <3>1. Cardinality(ToSet(Nothing.plan.fetch)) = 0
      BY NothingPlanned, FS_EmptySet
    <3> QED
      BY <2>1, <3>1 DEF TopUpFree
  <2>2. ASSUME NEW asked \in SUBSET Keys, NEW draw, NEW answered,
               Retrieve(asked, draw, answered),
               policy'.toChunk, Cardinality(ToSet(last'.plan.fetch)) > 0
        PROVE  Requests(Cardinality(ToSet(last'.plan.fetch)))
                 = Requests(IF last'.required = {}
                              THEN Higher(Cardinality(last'.required \cup last'.due),
                                          policy'.minBatch)
                              ELSE Cardinality(last'.required \cup last'.due))
    <3> DEFINE plan == last'.plan
               R == last'.required
               D == last'.due
               E == last'.eligible
    <3>1. Planned(asked, R, D, E, plan) /\ policy' = policy
      BY <2>2, RetrievePlans
    <3>2. Cardinality(ToSet(plan.fetch)) > 0 /\ policy.toChunk /\ policy \in Policies
      BY <2>2, <3>1 DEF RecordTypes
    <3> HIDE DEF plan, R, D, E
    <3> DEFINE r == InOrder(R)
               d == InOrder(D)
               q == ByUrgency(E)
               front == ToSet(SubSeq(q, 1, plan.pulled))
               base == Cardinality(R) + Cardinality(D)
               floor == IF R = {} THEN Higher(base, policy.minBatch) ELSE base
    <3>3. Lists(r, R) /\ Lists(d, D) /\ Lists(q, E)
      BY <3>1, PlannedFetches
    <3>4. IsFiniteSet(R) /\ IsFiniteSet(D) /\ IsFiniteSet(E)
      BY <3>1, PlannedFetches
    <3>5. Asks(R, D, E, plan) /\ plan.pulled \in 0..Cardinality(E)
      BY <3>1, PlannedFetches
    <3>6. plan = Plan(policy, ChunkSize, r, d, q)
      BY <3>1 DEF Planned
    <3> HIDE DEF r, d, q
    <3>7. Filled(policy, ChunkSize, r, d, plan)
      <4> DEFINE T == R \cup D \cup E
      <4>1. r \in Seq(T) /\ d \in Seq(T) /\ q \in Seq(T)
        BY <3>3, SeqMonotonic DEF Lists
      <4> HIDE DEF T
      <4> QED
        BY <3>2, <3>6, <4>1, PlanFills
    <3>8. ToSet(plan.fetch) # {}
      BY <3>2, FS_EmptySet
    <3>9. ToSet(plan.fetch) = R \cup D \cup front
      BY <3>5, <3>8 DEF Asks, q
    <3>10. front \subseteq E /\ Cardinality(front) = plan.pulled
      BY <3>3, <3>4, <3>5, FrontCount
    <3> HIDE DEF front
    <3>11. /\ Cardinality(R \cup D) = base /\ IsFiniteSet(R \cup D)
           /\ Cardinality(R) \in Nat /\ Cardinality(D) \in Nat
      <4>1. R \cap D = {}
        BY <3>1 DEF Planned
      <4>2. Cardinality(R) \in Nat /\ Cardinality(D) \in Nat
        BY <3>4, FS_CardinalityType
      <4>3. /\ IsFiniteSet(R \cup D)
            /\ Cardinality(R \cup D)
                 = Cardinality(R) + Cardinality(D) - Cardinality(R \cap D)
        BY <3>4, FS_Union
      <4> QED
        BY <4>1, <4>2, <4>3, FS_EmptySet
    <3>12. Cardinality(ToSet(plan.fetch)) = base + plan.pulled
      <4>1. IsFiniteSet(front) /\ (R \cup D) \cap front = {}
        BY <3>1, <3>4, <3>10, FS_Subset DEF Planned
      <4>2. Cardinality((R \cup D) \cup front)
              = Cardinality(R \cup D) + Cardinality(front) - Cardinality({})
        BY <3>11, <4>1, FS_Union
      <4> QED
        BY <3>5, <3>9, <3>10, <3>11, <4>2, FS_EmptySet
    <3>13. Len(r) = Cardinality(R) /\ Len(d) = Cardinality(D) /\ (r = <<>> <=> R = {})
      BY <3>3, <3>4, FS_EmptySet DEF Lists
    <3>14. Higher(ChunkSize, 1) = ChunkSize
      BY DEF Higher
    <3>15. floor \in Nat /\ base + plan.pulled \in floor..RoundUp(floor, ChunkSize)
      BY <3>7, <3>8, <3>13, <3>14 DEF Filled
    <3>16. Requests(base + plan.pulled) = Requests(floor)
      <4> HIDE DEF base, floor
      <4> QED
        BY <3>15, SameRequests
    <3> QED
      BY <3>1, <3>11, <3>12, <3>16 DEF plan, R, D
  <2>3. ASSUME NEW asked \in SUBSET Keys, NEW draw, NEW answered,
               Retrieve(asked, draw, answered)
        PROVE  TopUpFree'
    BY <2>2, <2>3 DEF TopUpFree
  <2>4. CASE UNCHANGED vars
    BY <2>4 DEF vars, TopUpFree
  <2> QED
    BY <2>1, <2>3, <2>4 DEF Next, Prune, Tick
<1> QED
  BY <1>1, <1>2, RecordsAlways, PTL DEF Spec
==============================================================================
