------------------------------- MODULE Batching -------------------------------
(***************************************************************************)
(* RefreshBatching: which cached entries of one source a pass refetches.   *)
(* A policy is [minBatch, maxDefer, topUp, minAge, toChunk, extra]: topUp  *)
(* is Some/None, toChunk selects Fill::ChunkBoundary over Fill::Extra.     *)
(***************************************************************************)
EXTENDS CachePolicy, FiniteSets, Sequences

Policies ==
  [minBatch : Nat, maxDefer : Nat, topUp : BOOLEAN, minAge : Nat,
   toChunk : BOOLEAN, extra : Nat]

Eager == [minBatch |-> 0, maxDefer |-> 0, topUp |-> FALSE, minAge |-> 0,
          toChunk |-> FALSE, extra |-> 0]

\* is_old_enough: the remaining life is within the last (100 - minAge)% of the
\* source's nominal TTL.
IsOldEnough(minAge, rec, now, nominal) ==
  LET age == Lower(minAge, 100) IN
  \/ age = 0
  \/ rec.expires - now <= (nominal * (100 - age)) \div 100

\* Mutant of DeferLimit: the wait may outlast the grace window.
DeferPastGrace(policy) == policy.maxDefer + Grace

\* How long past its expiry an entry may wait: capped at the grace window.
DeferLimit(policy) == Lower(policy.maxDefer, Grace)

\* RefreshBatching::classify, for a cached record.  A miss is "Required".
Classify(policy, rec, now, draw, nominal) ==
  IF Freshness(rec, now) = "expired"
    THEN IF now - rec.expires >= DeferLimit(policy) THEN "Required" ELSE "Due"
  ELSE IF ShouldRefetch(rec, now, draw) THEN "Due"
  ELSE IF policy.topUp /\ IsOldEnough(policy.minAge, rec, now, nominal)
    THEN "Eligible"
  ELSE "Keep"

\* Mutant of RoundUp: a whole chunk is added to what already fills its chunks.
RoundPast(n, chunk) == n + (chunk - (n % chunk))

\* round_up: the next multiple of chunk (saturation never shows: the result is
\* cut to the number of eligible keys).
RoundUp(n, chunk) == IF n % chunk = 0 THEN n ELSE n + (chunk - (n % chunk))

\* The (expires, key) pairs of the keys of S, sorted: each key at its rank.
Before(expires, a, b) == expires[a] < expires[b] \/ (expires[a] = expires[b] /\ a < b)
Rank(expires, S, a) == Cardinality({b \in S : Before(expires, b, a)}) + 1
Sorted(expires, S) ==
  [i \in 1..Cardinality(S) |-> CHOOSE a \in S : Rank(expires, S, a) = i]

\* Only deferrable work, and less of it than min_batch.
ToppingToMin(policy, required, due) ==
  required = <<>> /\ due # <<>> /\ Len(due) < policy.minBatch

EnoughToTop(policy, due, eligible) ==
  policy.topUp /\ Len(due) + Len(eligible) >= policy.minBatch

\* How many keys a request that has `base` of them anyway should grow to.
Target(policy, chunk, base, floor) ==
  IF policy.toChunk THEN RoundUp(floor, Higher(chunk, 1))
  ELSE Higher(floor, base + policy.extra)

\* plan: sequences of keys, `eligible` most urgent first.
Plan(policy, chunk, required, due, eligible) ==
  LET topping == ToppingToMin(policy, required, due)
      base == Len(required) + Len(due)
      target == Target(policy, chunk, base, IF topping THEN policy.minBatch ELSE base)
      pulled == IF policy.topUp /\ base > 0
                  THEN Lower(Higher(target - base, 0), Len(eligible))
                  ELSE 0
  IN  IF topping /\ ~EnoughToTop(policy, due, eligible)
        THEN [fetch |-> <<>>, deferred |-> Len(due), pulled |-> 0]
        ELSE [fetch |-> required \o due \o SubSeq(eligible, 1, pulled),
              deferred |-> 0, pulled |-> pulled]
==============================================================================
