------------------------------ MODULE CachePolicy ------------------------------
(***************************************************************************)
(* TtlPolicy: how a TTL becomes two expiries, and what they mean at `now`. *)
(* Times are milliseconds in 0..MaxMillis (i64::MAX); every addition the   *)
(* code saturates saturates here.  Hashes are inputs: jitter is seeded by  *)
(* the id alone, the stale-window draw by id and time.                     *)
(***************************************************************************)
EXTENDS Integers

CONSTANTS
  StalePercent,   \* TtlPolicy::stale_percent (default 80)
  JitterPercent,  \* TtlPolicy::jitter_percent (default 15)
  Grace,          \* TtlPolicy::grace, in milliseconds
  MaxMillis,      \* i64::MAX
  DrawRange       \* 2^64: a draw is a number below it

ASSUME PolicyAssumption ==
  /\ StalePercent \in Nat /\ JitterPercent \in Nat /\ Grace \in Nat
  /\ MaxMillis \in Nat /\ DrawRange \in Nat \ {0}

Lower(a, b) == IF a <= b THEN a ELSE b
Higher(a, b) == IF a >= b THEN a ELSE b

\* Mutant of SatAdd: the sum is not cut off.
PlainAdd(a, b) == a + b

\* Timestamp::saturating_add and i64::saturating_add, for results above zero.
SatAdd(a, b) == Lower(a + b, MaxMillis)

\* percent_of: value * percent / 100 with the multiplication done wide.
PercentOf(value, percent) == Lower((value * percent) \div 100, MaxMillis)

\* A signed offset in -span..span, seeded by the id's hash.
JitterOf(ttl, hash) ==
  LET span == PercentOf(ttl, Lower(JitterPercent, 100))
  IN  IF span <= 0 THEN 0 ELSE (hash % (2 * span + 1)) - span

HardMillis(ttl, hash) == Higher(SatAdd(ttl, JitterOf(ttl, hash)), 0)

\* Mutant of SoftMillis: an entry is stale only when it expires.
SoftAtHard(hard) == hard

SoftMillis(hard) == PercentOf(hard, Lower(StalePercent, 100))

\* make_record: the two expiries of a record stored at `now`.
MakeRecord(now, ttl, hash) ==
  LET hard == HardMillis(ttl, hash) IN
  IF ttl = 0
    THEN [stale |-> now, expires |-> now]
    ELSE [stale |-> SatAdd(now, SoftMillis(hard)), expires |-> SatAdd(now, hard)]

\* TtlPolicy::classify
Freshness(rec, now) ==
  IF now < rec.stale THEN "fresh"
  ELSE IF now < rec.expires THEN "stale"
  ELSE "expired"

\* should_refetch: always when expired, by a draw that ramps up while stale.
ShouldRefetch(rec, now, draw) ==
  \/ Freshness(rec, now) = "expired"
  \/ /\ Freshness(rec, now) = "stale"
     /\ draw * (rec.expires - rec.stale) < (now - rec.stale) * DrawRange

\* Mutant of UsableWithinGrace: the grace window is forgotten.
UsableUntilExpiry(rec, now) == now < rec.expires

\* usable_within_grace: a failed refetch is not reported, prune keeps the entry.
UsableWithinGrace(rec, now) == now < SatAdd(rec.expires, Grace)

\* FileCacheStore's is_ephemeral: such a record is never written to disk.
IsEphemeralRecord(rec) == rec.stale >= rec.expires
==============================================================================
