---------------------------- MODULE Batching_proofs ----------------------------
(***************************************************************************)
(* What the operators of TtlPolicy and RefreshBatching return, for every   *)
(* policy, record and clock: the lemmas the proofs about retrieve rest on. *)
(***************************************************************************)
EXTENDS Batching, SequencesExt, FiniteSetTheorems, SequenceTheorems, TLAPS

------------------------------------------------------------------------------
(* Sorting.                                                                  *)

\* The ranks of the keys of S are 1 to as many as there are, one each.
LEMMA RankBounds ==
  ASSUME NEW S \in SUBSET Nat, IsFiniteSet(S), NEW f \in [S -> Int], NEW a \in S
  PROVE  Rank(f, S, a) \in 1..Cardinality(S)
<1> DEFINE B == {b \in S : Before(f, b, a)}
<1>1. B \subseteq S \ {a}
  BY DEF Before
<1>2. /\ IsFiniteSet(S \ {a}) /\ Cardinality(S \ {a}) = Cardinality(S) - 1
      /\ Cardinality(S) \in Nat
  BY FS_RemoveElement, FS_CardinalityType
<1>3. Cardinality(B) \in Nat /\ Cardinality(B) <= Cardinality(S) - 1
  BY <1>1, <1>2, FS_Subset, FS_CardinalityType
<1> QED
  BY <1>2, <1>3 DEF Rank

\* A key that sorts before another has the lower rank.
LEMMA RankOrders ==
  ASSUME NEW S \in SUBSET Nat, IsFiniteSet(S), NEW f \in [S -> Int],
         NEW a \in S, NEW b \in S, Before(f, a, b)
  PROVE  Rank(f, S, a) < Rank(f, S, b)
<1> DEFINE A == {c \in S : Before(f, c, a)}
           B == {c \in S : Before(f, c, b)}
<1>1. A \subseteq B /\ A # B /\ B \subseteq S
  <2>1. \A c \in S : f[c] \in Int /\ c \in Nat
    OBVIOUS
  <2>2. A \subseteq B
    <3> SUFFICES ASSUME NEW c \in S, Before(f, c, a) PROVE Before(f, c, b)
      OBVIOUS
    <3>1. /\ f[a] \in Int /\ f[b] \in Int /\ f[c] \in Int
          /\ a \in Nat /\ b \in Nat /\ c \in Nat
      BY <2>1
    <3> QED
      BY <3>1 DEF Before
  <2>3. a \in B /\ a \notin A
    BY <2>1 DEF Before
  <2> QED
    BY <2>2, <2>3
<1>2. IsFiniteSet(B) /\ IsFiniteSet(A)
  BY <1>1, FS_Subset
<1>3. Cardinality(A) \in Nat /\ Cardinality(B) \in Nat
  BY <1>2, FS_CardinalityType
<1>4. Cardinality(A) <= Cardinality(B) /\ Cardinality(A) # Cardinality(B)
  BY <1>1, <1>2, FS_Subset
<1>5. Rank(f, S, a) = Cardinality(A) + 1 /\ Rank(f, S, b) = Cardinality(B) + 1
  BY DEF Rank
<1> QED
  BY <1>3, <1>4, <1>5

\* Sorting keeps every key, once, and puts it before those it sorts before.
LEMMA SortedKeys ==
  ASSUME NEW S \in SUBSET Nat, IsFiniteSet(S), NEW f \in [S -> Int]
  PROVE  /\ Sorted(f, S) \in Seq(S) /\ Len(Sorted(f, S)) = Cardinality(S)
         /\ ToSet(Sorted(f, S)) = S
         /\ \A i, j \in DOMAIN Sorted(f, S) :
              i < j => Before(f, Sorted(f, S)[i], Sorted(f, S)[j])
<1> DEFINE n == Cardinality(S)
           s == Sorted(f, S)
           rank == [a \in S |-> Rank(f, S, a)]
<1>1. n \in Nat /\ IsFiniteSet(1..n) /\ Cardinality(1..n) = n
  BY FS_CardinalityType, FS_Interval
<1>2. rank \in [S -> 1..n]
  BY RankBounds
<1>3. \A a, b \in S : a # b => Rank(f, S, a) # Rank(f, S, b)
  <2> SUFFICES ASSUME NEW a \in S, NEW b \in S, a # b
               PROVE  Rank(f, S, a) # Rank(f, S, b)
    OBVIOUS
  <2>1. Before(f, a, b) \/ Before(f, b, a)
    BY DEF Before
  <2>2. Rank(f, S, a) \in Nat /\ Rank(f, S, b) \in Nat
    BY <1>1, RankBounds
  <2> QED
    BY <2>1, <2>2, RankOrders
<1>4. rank \in Injection(S, 1..n)
  BY <1>2, <1>3 DEF Injection, IsInjective
<1>5. rank \in Surjection(S, 1..n)
  <2> HIDE DEF rank
  <2> QED
    BY <1>1, <1>4, FS_Injection
<1>6. \A i \in 1..n : \E a \in S : Rank(f, S, a) = i
  BY <1>5 DEF Surjection
<1>7. s = [i \in 1..n |-> CHOOSE a \in S : Rank(f, S, a) = i]
  BY DEF Sorted
<1>8. \A i \in 1..n : s[i] \in S /\ Rank(f, S, s[i]) = i
  BY <1>6, <1>7
<1>9. s \in [1..n -> S] /\ DOMAIN s = 1..n
  BY <1>7, <1>8
<1>10. s \in Seq(S) /\ Len(s) = n
  BY <1>1, <1>9
<1>11. \A a \in S : \E i \in 1..n : s[i] = a
  <2> SUFFICES ASSUME NEW a \in S PROVE s[Rank(f, S, a)] = a
    BY RankBounds
  <2> QED
    BY <1>3, <1>8, RankBounds
<1>12. \A i, j \in 1..n : i < j => Before(f, s[i], s[j])
  <2> SUFFICES ASSUME NEW i \in 1..n, NEW j \in 1..n, i < j
               PROVE  Before(f, s[i], s[j])
    OBVIOUS
  <2>1. s[i] # s[j] /\ Rank(f, S, s[i]) < Rank(f, S, s[j])
    BY <1>8
  <2>2. ~Before(f, s[j], s[i])
    <3>1. Rank(f, S, s[i]) = i /\ Rank(f, S, s[j]) = j /\ s[i] \in S /\ s[j] \in S
      BY <1>8
    <3> HIDE DEF s
    <3>2. Before(f, s[j], s[i]) => j < i
      BY <3>1, RankOrders
    <3> QED
      BY <1>1, <3>2
  <2>3. f[s[i]] \in Int /\ f[s[j]] \in Int /\ s[i] \in Nat /\ s[j] \in Nat
    BY <1>8
  <2> QED
    BY <2>1, <2>2, <2>3 DEF Before
<1> HIDE DEF s
<1> QED
  BY <1>8, <1>9, <1>10, <1>11, <1>12 DEF s, ToSet

------------------------------------------------------------------------------
(* The plan.                                                                 *)

\* What a concatenation holds.
LEMMA ToSetConcat ==
  ASSUME NEW T, NEW s \in Seq(T), NEW t \in Seq(T)
  PROVE  s \o t \in Seq(T) /\ ToSet(s \o t) = ToSet(s) \cup ToSet(t)
<1>1. /\ s \o t \in Seq(T) /\ Len(s \o t) = Len(s) + Len(t)
      /\ \A i \in 1..Len(s) : (s \o t)[i] = s[i]
      /\ \A i \in 1..Len(t) : (s \o t)[Len(s) + i] = t[i]
  OBVIOUS
<1>2. \A i \in 1..(Len(s) + Len(t)) : i \in 1..Len(s) \/ i - Len(s) \in 1..Len(t)
  OBVIOUS
<1>3. ToSet(s \o t) \subseteq ToSet(s) \cup ToSet(t)
  BY <1>1, <1>2 DEF ToSet
<1>4. ToSet(s) \subseteq ToSet(s \o t)
  BY <1>1 DEF ToSet
<1>5. ToSet(t) \subseteq ToSet(s \o t)
  BY <1>1 DEF ToSet
<1> QED
  BY <1>1, <1>3, <1>4, <1>5

\* What the front of a sequence holds.
LEMMA ToSetFront ==
  ASSUME NEW T, NEW s \in Seq(T), NEW n \in 0..Len(s)
  PROVE  /\ SubSeq(s, 1, n) \in Seq(T) /\ Len(SubSeq(s, 1, n)) = n
         /\ \A x : x \in ToSet(SubSeq(s, 1, n)) <=> \E i \in 1..n : x = s[i]
<1>1. /\ SubSeq(s, 1, n) \in Seq(T) /\ Len(SubSeq(s, 1, n)) = n
      /\ \A i \in 1..n : SubSeq(s, 1, n)[i] = s[i]
  OBVIOUS
<1> DEFINE t == SubSeq(s, 1, n)
<1> HIDE DEF t
<1>2. t \in Seq(T) /\ Len(t) = n /\ \A i \in 1..n : t[i] = s[i]
  BY <1>1 DEF t
<1>3. \A x : x \in ToSet(t) <=> \E i \in 1..n : x = s[i]
  BY <1>2 DEF ToSet
<1> QED
  BY <1>2, <1>3 DEF t

\* A list of the members of S, as many as there are.
Lists(s, S) == s \in Seq(S) /\ Len(s) = Cardinality(S) /\ ToSet(s) = S

\* The first n entries of a list are n.
LEMMA FrontCount ==
  ASSUME NEW S, IsFiniteSet(S), NEW s, Lists(s, S), NEW n \in 0..Cardinality(S)
  PROVE  /\ ToSet(SubSeq(s, 1, n)) \subseteq S /\ Cardinality(ToSet(SubSeq(s, 1, n))) = n
<1> DEFINE N == Cardinality(S)
           front == ToSet(SubSeq(s, 1, n))
           f == [i \in 1..n |-> s[i]]
<1>1. N \in Nat /\ n \in Nat /\ n <= N
  BY FS_CardinalityType
<1>2. s \in [1..N -> S] /\ Len(s) = N
  BY <1>1 DEF Lists
<1>3. s \in Surjection(1..N, S)
  BY <1>2 DEF Lists, ToSet, Surjection
<1>4. s \in Injection(1..N, S)
  <2>1. IsFiniteSet(1..N) /\ Cardinality(1..N) = N
    BY <1>1, FS_Interval
  <2> HIDE DEF N
  <2> QED
    BY <1>3, <2>1, FS_Surjection DEF N
<1>5. \A x : x \in front <=> \E i \in 1..n : x = s[i]
  BY <1>1, <1>2, ToSetFront DEF Lists
<1> HIDE DEF front
<1>6. f \in Bijection(1..n, front)
  <2>1. \A i, j \in 1..n : s[i] = s[j] => i = j
    BY <1>1, <1>4 DEF Injection, IsInjective
  <2>2. f \in [1..n -> front]
    BY <1>5
  <2> QED
    BY <1>5, <2>1, <2>2 DEF Bijection, Injection, Surjection, IsInjective
<1>7. Cardinality(front) = n
  <2>1. IsFiniteSet(1..n) /\ Cardinality(1..n) = n
    BY <1>1, FS_Interval
  <2> HIDE DEF f
  <2> QED
    BY <1>6, <2>1, FS_Bijection DEF ExistsBijection
<1>8. front \subseteq S
  BY <1>1, <1>2, <1>5
<1> QED
  BY <1>7, <1>8 DEF front

\* Rounding up reaches at least the number itself.
LEMMA RoundUpAbove ==
  ASSUME NEW n \in Nat, NEW m \in Nat \ {0}
  PROVE  RoundUp(n, m) \in Nat /\ RoundUp(n, m) >= n
<1>1. n % m \in 0..(m - 1)
  OBVIOUS
<1> QED
  BY <1>1 DEF RoundUp

\* A plan asks for the required and the due keys and for the first of the eligible
\* ones, or for nothing when there are only due keys, fewer than the minimum.
Fetches(policy, required, due, eligible, plan) ==
  \/ /\ ToSet(plan.fetch) = {} /\ plan.pulled = 0
     /\ required = <<>> /\ Len(due) < policy.minBatch
  \/ ToSet(plan.fetch) = ToSet(required) \cup ToSet(due)
                            \cup ToSet(SubSeq(eligible, 1, plan.pulled))

LEMMA PlanFetches ==
  ASSUME NEW T, NEW policy \in Policies, NEW chunk \in Nat,
         NEW required \in Seq(T), NEW due \in Seq(T), NEW eligible \in Seq(T),
         NEW plan, plan = Plan(policy, chunk, required, due, eligible)
  PROVE  /\ plan.pulled \in 0..Len(eligible) /\ plan.fetch \in Seq(T)
         /\ Fetches(policy, required, due, eligible, plan)
<1> DEFINE topping == ToppingToMin(policy, required, due)
           base == Len(required) + Len(due)
           target == Target(policy, chunk, base,
                            IF topping THEN policy.minBatch ELSE base)
           pulled == IF policy.topUp /\ base > 0
                       THEN Lower(Higher(target - base, 0), Len(eligible)) ELSE 0
           all == required \o due \o SubSeq(eligible, 1, pulled)
<1>1. plan = IF topping /\ ~EnoughToTop(policy, due, eligible)
               THEN [fetch |-> <<>>, deferred |-> Len(due), pulled |-> 0]
               ELSE [fetch |-> all, deferred |-> 0, pulled |-> pulled]
  BY DEF Plan
<1>2. policy.minBatch \in Nat /\ policy.extra \in Nat /\ base \in Nat
      /\ Higher(chunk, 1) \in Nat \ {0}
  BY DEF Policies, Higher
<1>3. target \in Nat
  <2>1. (IF topping THEN policy.minBatch ELSE base) \in Nat
    BY <1>2
  <2> DEFINE floor == IF topping THEN policy.minBatch ELSE base
  <2> HIDE DEF base, floor
  <2>2. RoundUp(floor, Higher(chunk, 1)) \in Nat
    BY <1>2, <2>1, RoundUpAbove DEF floor
  <2>3. Higher(floor, base + policy.extra) \in Nat
    BY <1>2, <2>1 DEF floor, Higher
  <2> QED
    BY <2>2, <2>3 DEF Target, floor
<1> HIDE DEF base, target
<1>4. pulled \in 0..Len(eligible)
  BY <1>2, <1>3 DEF Lower, Higher
<1> HIDE DEF pulled
<1>5. all \in Seq(T) /\ ToSet(all) = ToSet(required) \cup ToSet(due)
                                     \cup ToSet(SubSeq(eligible, 1, pulled))
  <2> DEFINE front == SubSeq(eligible, 1, pulled)
             owed == required \o due
  <2>1. front \in Seq(T)
    BY <1>4, ToSetFront
  <2>2. owed \in Seq(T) /\ ToSet(owed) = ToSet(required) \cup ToSet(due)
    BY ToSetConcat
  <2> HIDE DEF front, owed
  <2>3. owed \o front \in Seq(T) /\ ToSet(owed \o front) = ToSet(owed) \cup ToSet(front)
    BY <2>1, <2>2, ToSetConcat
  <2> QED
    BY <2>1, <2>2, <2>3 DEF front, owed
<1> HIDE DEF all
<1>6. CASE topping /\ ~EnoughToTop(policy, due, eligible)
  BY <1>1, <1>6 DEF ToppingToMin, ToSet, Fetches
<1>7. CASE ~(topping /\ ~EnoughToTop(policy, due, eligible))
  BY <1>1, <1>4, <1>5, <1>7 DEF Fetches
<1> QED
  BY <1>6, <1>7

\* A request filled to the chunk holds at least the floor and at most the keys that round
\* it up to whole chunks.
Filled(policy, chunk, required, due, plan) ==
  LET base == Len(required) + Len(due)
      floor == IF required = <<>> THEN Higher(base, policy.minBatch) ELSE base
  IN  \/ ToSet(plan.fetch) = {}
      \/ floor \in Nat /\ base + plan.pulled \in floor..RoundUp(floor, Higher(chunk, 1))

LEMMA PlanFills ==
  ASSUME NEW T, NEW policy \in Policies, NEW chunk \in Nat, policy.toChunk,
         NEW required \in Seq(T), NEW due \in Seq(T), NEW eligible \in Seq(T),
         NEW plan, plan = Plan(policy, chunk, required, due, eligible)
  PROVE  Filled(policy, chunk, required, due, plan)
<1> DEFINE topping == ToppingToMin(policy, required, due)
           base == Len(required) + Len(due)
           floor == IF required = <<>> THEN Higher(base, policy.minBatch) ELSE base
           target == Target(policy, chunk, base,
                            IF topping THEN policy.minBatch ELSE base)
           pulled == IF policy.topUp /\ base > 0
                       THEN Lower(Higher(target - base, 0), Len(eligible)) ELSE 0
           all == required \o due \o SubSeq(eligible, 1, pulled)
<1>1. plan = IF topping /\ ~EnoughToTop(policy, due, eligible)
               THEN [fetch |-> <<>>, deferred |-> Len(due), pulled |-> 0]
               ELSE [fetch |-> all, deferred |-> 0, pulled |-> pulled]
  BY DEF Plan
<1>2. /\ policy.minBatch \in Nat /\ base \in Nat /\ floor \in Nat
      /\ Len(required) \in Nat /\ Len(due) \in Nat /\ Len(eligible) \in Nat
      /\ Higher(chunk, 1) \in Nat \ {0}
      /\ (required = <<>> <=> Len(required) = 0) /\ (due = <<>> <=> Len(due) = 0)
  BY DEF Policies, Higher
<1>3. CASE topping /\ ~EnoughToTop(policy, due, eligible)
  BY <1>1, <1>3 DEF Filled, ToSet
<1>4. CASE base = 0
  <2>1. pulled = 0 /\ required = <<>> /\ due = <<>>
    BY <1>2, <1>4
  <2>2. SubSeq(eligible, 1, 0) = <<>>
    OBVIOUS
  <2>3. all = <<>>
    BY <2>1, <2>2
  <2> QED
    BY <1>1, <2>3 DEF Filled, ToSet
<1>5. CASE base > 0 /\ ~(topping /\ ~EnoughToTop(policy, due, eligible))
  <2>1. floor = IF topping THEN policy.minBatch ELSE base
    BY <1>2, <1>5 DEF ToppingToMin, Higher
  <2>2. target = RoundUp(floor, Higher(chunk, 1))
    BY <2>1 DEF Target
  <2>3. plan.pulled = pulled
    BY <1>1, <1>5
  <2>4. topping => policy.topUp /\ Len(required) = 0
                   /\ Len(due) + Len(eligible) >= policy.minBatch
    BY <1>2, <1>5 DEF EnoughToTop, ToppingToMin
  <2>5. floor >= base
    BY <1>2 DEF Higher
  <2>6. floor <= base + Len(eligible) /\ (~policy.topUp => floor = base)
    BY <1>2, <2>1, <2>4
  <2> HIDE DEF floor, target
  <2>7. target \in Nat /\ target >= floor
    BY <1>2, <2>2, RoundUpAbove
  <2> DEFINE b == Len(required) + Len(due)
  <2>8. b + pulled \in floor..target
    <3>1. b \in Nat /\ floor \in Nat /\ b <= floor /\ Len(eligible) \in Nat
      BY <1>2, <2>5 DEF floor
    <3>2. CASE ~policy.topUp
      BY <2>6, <2>7, <3>1, <3>2
    <3>3. CASE policy.topUp
      <4>1. pulled = Lower(Higher(target - b, 0), Len(eligible))
        BY <1>5, <3>3
      <4>2. floor <= b + Len(eligible) /\ target \in Nat /\ target >= floor
        BY <2>6, <2>7
      <4> HIDE DEF b, pulled
      <4> QED
        BY <3>1, <4>1, <4>2 DEF Lower, Higher
    <3> QED
      BY <3>2, <3>3
  <2> HIDE DEF pulled
  <2> QED
    BY <1>2, <2>2, <2>3, <2>8 DEF Filled, floor
<1> QED
  BY <1>2, <1>3, <1>4, <1>5

------------------------------------------------------------------------------
(* Records.                                                                  *)

\* A percentage of at most 100 of a number is at most that number.
LEMMA PercentAtMost ==
  ASSUME NEW v \in Nat, NEW p \in Nat
  PROVE  PercentOf(v, Lower(p, 100)) \in Nat /\ PercentOf(v, Lower(p, 100)) <= v
<1> DEFINE q == Lower(p, 100)
<1>1. q \in 0..100
  BY DEF Lower
<1> HIDE DEF q
<1>2. v * q \in Nat /\ v * q <= 100 * v
  <2>1. v * q <= v * 100
    BY <1>1
  <2> QED
    BY <1>1, <2>1
<1> DEFINE prod == v * q
<1>3. prod \in Nat /\ prod <= 100 * v
  BY <1>2
<1> HIDE DEF prod
<1>4. prod \div 100 \in Nat /\ prod \div 100 <= v
  BY <1>3
<1> QED
  BY <1>4, PolicyAssumption DEF PercentOf, Lower, prod, q

\* A lifetime is a number of milliseconds the clock can show.
LEMMA HardInRange ==
  ASSUME NEW ttl \in Nat, NEW hash \in Nat PROVE HardMillis(ttl, hash) \in 0..MaxMillis
<1> DEFINE span == PercentOf(ttl, Lower(JitterPercent, 100))
<1>1. span \in Nat /\ span <= ttl
  BY PercentAtMost, PolicyAssumption
<1> HIDE DEF span
<1>2. JitterOf(ttl, hash) \in -span..span
  <2>1. CASE span <= 0
    BY <1>1, <2>1 DEF JitterOf, span
  <2>2. CASE span > 0
    <3>1. hash % (2 * span + 1) \in 0..(2 * span)
      BY <1>1, <2>2
    <3> QED
      BY <1>1, <2>2, <3>1 DEF JitterOf, span
  <2> QED
    BY <1>1, <2>1, <2>2
<1> QED
  BY <1>1, <1>2, PolicyAssumption DEF HardMillis, SatAdd, Lower, Higher

\* make_record: both expiries are times of the clock, in order, and not past.
LEMMA RecordInRange ==
  ASSUME NEW t \in 0..MaxMillis, NEW ttl \in Nat, NEW hash \in Nat
  PROVE  LET r == MakeRecord(t, ttl, hash) IN
         /\ r = [stale |-> r.stale, expires |-> r.expires]
         /\ r.stale \in t..MaxMillis /\ r.expires \in t..MaxMillis
         /\ r.stale <= r.expires
<1> DEFINE hard == HardMillis(ttl, hash)
           soft == SoftMillis(hard)
<1>1. hard \in 0..MaxMillis /\ MaxMillis \in Nat
  BY HardInRange, PolicyAssumption
<1> HIDE DEF hard
<1>2. soft \in Nat /\ soft <= hard
  BY <1>1, PercentAtMost, PolicyAssumption DEF SoftMillis
<1> HIDE DEF soft
<1>3. /\ SatAdd(t, soft) \in t..MaxMillis /\ SatAdd(t, hard) \in t..MaxMillis
      /\ SatAdd(t, soft) <= SatAdd(t, hard)
  BY <1>1, <1>2 DEF SatAdd, Lower
<1>4. MakeRecord(t, ttl, hash) =
        IF ttl = 0 THEN [stale |-> t, expires |-> t]
        ELSE [stale |-> SatAdd(t, soft), expires |-> SatAdd(t, hard)]
  BY DEF MakeRecord, hard, soft
<1> QED
  BY <1>1, <1>3, <1>4
==============================================================================
