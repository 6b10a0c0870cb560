---------------------------- MODULE Fetching_proofs ----------------------------
(***************************************************************************)
(* Pacing, for every interval, chunk size, retry policy and bound: chunk   *)
(* starts of one retrieve are Interval apart in true time as long as the   *)
(* wall clock is never stepped FORWARD.  Steps backward only make it wait  *)
(* longer.                                                                 *)
(*                                                                         *)
(* Retries, likewise: what is asked again, how soon, and after which sleep *)
(* (RetryInv).  That 2^tries is never 0 comes from the number of subsets   *)
(* of a finite set, the provers knowing nothing of powers.                 *)
(***************************************************************************)
EXTENDS Fetching, FiniteSetTheorems, TLAPS

\* The clock is only ever set back.
OnlyBackward == \A d \in ClockSteps : d <= 0

\* What the wall clock says about the last chunk start never overstates how long
\* ago it really was, and a pacing sleep always ends late enough.
PacingInv ==
  /\ real \in Nat /\ wall \in Nat /\ lastReal \in Nat
  /\ lastStart \in Nat \cup {Never}
  /\ lastReal <= real
  /\ lastStart # Never => wall - lastStart <= real - lastReal
  /\ pc = "pacing" => /\ lastStart # Never
                      /\ wakeAt \in Int
                      /\ wakeAt - lastReal >= Interval

LEMMA PacingInit == Init => PacingInv
  BY DEF Init, PacingInv, Never

LEMMA PacingStep ==
  ASSUME OnlyBackward
  PROVE  PacingInv /\ [Next]_vars => PacingInv'
<1> SUFFICES ASSUME PacingInv, [Next]_vars PROVE PacingInv'
  OBVIOUS
<1> USE FetchingAssumption
<1> USE DEF PacingInv, Never, history
<1>1. ASSUME NEW n \in 1..MaxKeys, NEW anew \in BOOLEAN, BeginPass(n, anew)
      PROVE  PacingInv'
  BY <1>1 DEF BeginPass
<1>2. CASE Pace
  <2>1. Remaining \in Int /\ Remaining >= Interval - (real - lastReal)
    BY <1>2 DEF Pace, Remaining, Greater
  <2> QED
    BY <1>2, <2>1 DEF Pace
<1>3. CASE StartChunk
  BY <1>3 DEF StartChunk
<1>4. CASE EndPass
  BY <1>4 DEF EndPass
<1>5. CASE Send
  BY <1>5 DEF Send
<1>6. ASSUME NEW url, NEW event, Answer(url, event)
      PROVE  PacingInv'
  BY <1>6 DEF Answer
<1>7. ASSUME NEW url, NEW event, BackOff(url, event)
      PROVE  PacingInv'
  BY <1>7 DEF BackOff
<1>8. CASE Retry
  BY <1>8 DEF Retry
<1>9. CASE Tick
  BY <1>9 DEF Tick
<1>10. CASE SetClock
  <2>1. PICK d \in ClockSteps : wall' = wall + d /\ wall + d >= 0
    BY <1>10 DEF SetClock
  <2>2. d \in Int /\ d <= 0
    BY OnlyBackward DEF OnlyBackward
  <2> QED
    BY <1>10, <2>1, <2>2 DEF SetClock
<1>11. CASE UNCHANGED vars
  BY <1>11 DEF vars
<1> QED
  BY <1>1, <1>2, <1>3, <1>4, <1>5, <1>6, <1>7, <1>8, <1>9, <1>10, <1>11
     DEF Next, Drive, Request, Arrive

\* The wall clock's reading is honest enough to pace by, in every reachable state.
THEOREM PacingInvariant == ASSUME OnlyBackward PROVE Spec => []PacingInv
<1> QED
  BY PacingInit, PacingStep, PTL DEF Spec

\* Two chunks of one retrieve start at least Interval apart (driver.rs, "Pacing
\* is start->start"), whatever requests, retries, passes and backward clock steps
\* lie between them.
THEOREM PacingHolds == ASSUME OnlyBackward PROVE Spec => ChunkStartsSpaced
<1>1. PacingInv /\ StartChunk /\ lastStart # Never => real - lastReal >= Interval
  <2> SUFFICES ASSUME PacingInv, StartChunk, lastStart # Never
               PROVE  real - lastReal >= Interval
    OBVIOUS
  <2> USE FetchingAssumption
  <2>1. CASE pc = "pacing" /\ real >= wakeAt
    BY <2>1 DEF PacingInv
  <2>2. CASE Interval > 0 => Remaining <= 0
    BY <2>2 DEF PacingInv, Remaining, Greater, Never
  <2> QED
    BY <2>1, <2>2 DEF StartChunk
<1>2. PacingInv /\ [Next]_vars
        => [StartChunk /\ lastStart # Never => real - lastReal >= Interval]_vars
  BY <1>1
<1> QED
  BY <1>2, PacingInvariant, PTL DEF Spec, ChunkStartsSpaced

\* A power of two is at least one: that many subsets has a set of so many elements.
LEMMA PowerOfTwo == ASSUME NEW n \in Nat PROVE 2^n \in Nat /\ 2^n >= 1
<1>1. IsFiniteSet(1..n) /\ Cardinality(1..n) = n
  BY FS_Interval
<1>2. IsFiniteSet(SUBSET (1..n)) /\ Cardinality(SUBSET (1..n)) = 2^n
  BY <1>1, FS_SUBSET
<1>3. Cardinality(SUBSET (1..n)) # 0
  BY <1>2, FS_EmptySet
<1> QED
  BY <1>2, <1>3, FS_CardinalityType

\* The exponential part of a delay is at least the base, or the cap if that is lower.
LEMMA ExponentialBounds ==
  ASSUME NEW tries \in Nat
  PROVE  /\ Exponential(tries) \in Nat
         /\ Lesser(Base, Cap) <= Exponential(tries) /\ Exponential(tries) <= Cap
<1> DEFINE factor == IF tries < Width THEN 2^tries ELSE MaxWord
           product == Base * factor
<1>1. MaxWord \in Nat /\ Base <= MaxWord
  BY PowerOfTwo, FetchingAssumption DEF MaxWord
<1>2. factor \in Nat /\ (factor >= 1 \/ Base = 0)
  BY <1>1, PowerOfTwo, FetchingAssumption
<1>3. product \in Nat /\ product >= Base
  <2> HIDE DEF factor
  <2>1. \A b, f \in Nat : b * f \in Nat /\ (f >= 1 \/ b = 0 => b * f >= b)
    OBVIOUS
  <2> QED
    BY <1>2, <2>1, FetchingAssumption
<1>4. Exponential(tries) = Lesser(Lesser(product, MaxWord), Cap)
  BY DEF Exponential
<1> QED
  <2> HIDE DEF product
  <2> QED
    BY <1>1, <1>3, <1>4, FetchingAssumption DEF Lesser

\* A backoff delay keeps within a quarter of that, and never exceeds the cap.
LEMMA BackoffBounds ==
  ASSUME NEW tries \in Nat, NEW seed \in Nat
  PROVE  /\ Backoff(tries, seed) \in Nat /\ Backoff(tries, seed) <= Cap
         /\ 4 * Backoff(tries, seed) >= 3 * Lesser(Base, Cap)
<1> DEFINE exp == Exponential(tries)
           span == (exp \div 4) + 1
           jitter == seed % span
<1>0. Cap \in Nat /\ Base \in Nat
  BY FetchingAssumption
<1>1. exp \in Nat /\ Lesser(Base, Cap) <= exp /\ exp <= Cap
  BY ExponentialBounds
<1> HIDE DEF exp
<1>2. span \in Nat /\ span >= 1 /\ 4 * (span - 1) <= exp
  BY <1>1
<1>3. jitter \in Nat
  BY <1>2
<1>4. Backoff(tries, seed) =
        Lesser(Lesser(exp, Greater(Cap - (span - 1), 0)) + jitter, Cap)
  BY DEF Backoff, exp
<1> HIDE DEF span, jitter
<1> DEFINE room == Greater(Cap - (span - 1), 0)
           floor == Lesser(exp, room)
<1>5. Lesser(Base, Cap) \in Nat /\ Lesser(Base, Cap) <= Cap
  BY <1>0 DEF Lesser
<1>6. room \in Nat /\ 4 * room >= 3 * Cap /\ room <= Cap
  <2>1. /\ Cap - (span - 1) \in Int /\ Cap - (span - 1) <= Cap
        /\ 4 * (Cap - (span - 1)) >= 3 * Cap
    BY <1>0, <1>1, <1>2
  <2> QED
    BY <1>0, <2>1 DEF Greater
<1> HIDE DEF room
<1>7. floor = exp \/ floor = room
  BY DEF Lesser
<1> HIDE DEF floor
<1>8. Backoff(tries, seed) = Lesser(floor + jitter, Cap)
  BY <1>0, <1>4 DEF floor, room
<1>9. floor \in Nat /\ floor <= Cap /\ 4 * floor >= 3 * Lesser(Base, Cap)
  <2>1. CASE floor = exp
    BY <1>0, <1>1, <1>5, <2>1
  <2>2. CASE floor = room
    BY <1>0, <1>5, <1>6, <2>2
  <2> QED
    BY <1>0, <1>7, <2>1, <2>2
<1>10. CASE floor + jitter <= Cap
  BY <1>0, <1>3, <1>5, <1>8, <1>9, <1>10 DEF Lesser
<1>11. CASE ~(floor + jitter <= Cap)
  BY <1>0, <1>3, <1>5, <1>8, <1>9, <1>11 DEF Lesser
<1> QED
  BY <1>0, <1>10, <1>11

\* A delay a server asked for is bounded to [base, cap].
LEMMA RetryAfterBounds ==
  ASSUME NEW after \in Nat
  PROVE  /\ RetryAfterDelay(after) \in Nat /\ RetryAfterDelay(after) <= Cap
         /\ RetryAfterDelay(after) >= Lesser(Base, Cap)
BY FetchingAssumption DEF RetryAfterDelay, Lesser, Greater

\* A request that is on its way, or waited for again, was sent; the wait for a retry
\* is as long as the policy says.
RetryInv ==
  /\ real \in Nat /\ attempt \in Nat
  /\ pc \in {"sent", "backoff"} => lastTry \in Nat /\ lastTry <= real
  /\ pc = "backoff" => /\ wakeAt \in Nat /\ wakeAt - real <= Cap
                       /\ 4 * (wakeAt - lastTry) >= 3 * Lesser(Base, Cap)

\* Every step keeps it.
LEMMA RetryStep == ASSUME RetryInv, [Next]_vars PROVE RetryInv'
<1> USE FetchingAssumption DEF RetryInv, history
<1>1. ASSUME NEW n \in 1..MaxKeys, NEW anew \in BOOLEAN, BeginPass(n, anew)
      PROVE  RetryInv'
  BY <1>1 DEF BeginPass
<1>2. CASE Drive
  BY <1>2 DEF Drive, Pace, StartChunk, EndPass
<1>3. CASE Send
  BY <1>3 DEF Send
<1>4. ASSUME NEW url, NEW event, Answer(url, event) PROVE RetryInv'
  BY <1>4 DEF Answer
<1>5. ASSUME NEW url, NEW event, BackOff(url, event) PROVE RetryInv'
  <2>1. PICK delay \in Delays(Fetched(url, event)) : wakeAt' = real + delay
    BY <1>5 DEF BackOff
  <2>2. delay \in Nat /\ delay <= Cap /\ 4 * delay >= 3 * Lesser(Base, Cap)
    <3>1. CASE \E seed \in Seeds : delay = Backoff(attempt, seed)
      BY <3>1, BackoffBounds
    <3>2. CASE \E after \in RetryAfters : delay = RetryAfterDelay(after)
      BY <3>2, RetryAfterBounds DEF Lesser
    <3> QED
      BY <3>1, <3>2 DEF Delays
  <2>3. Lesser(Base, Cap) \in Nat
    BY DEF Lesser
  <2>4. lastTry \in Nat /\ lastTry <= real /\ UNCHANGED <<real, lastTry, attempt>>
    BY <1>5 DEF BackOff
  <2>5. wakeAt' \in Nat /\ wakeAt' - real' <= Cap
        /\ 4 * (wakeAt' - lastTry') >= 3 * Lesser(Base, Cap)
    BY <2>1, <2>2, <2>3, <2>4
  <2> QED
    BY <2>4, <2>5
<1>6. CASE Retry
  BY <1>6 DEF Retry
<1>7. CASE Tick
  BY <1>7 DEF Tick, Sleeping
<1>8. CASE SetClock
  BY <1>8 DEF SetClock
<1>9. CASE UNCHANGED vars
  BY <1>9 DEF vars
<1> QED
  BY <1>1, <1>2, <1>3, <1>4, <1>5, <1>6, <1>7, <1>8, <1>9 DEF Next, Request, Arrive

LEMMA RetryAlways == Spec => []RetryInv
<1>1. Init => RetryInv
  BY DEF Init, RetryInv
<1> QED
  BY <1>1, RetryStep, PTL DEF Spec

\* No retry follows the try it repeats sooner than 3/4 of the base delay or of the cap,
\* and no sleep before one exceeds the cap, whatever the policy, the jitter seeds and
\* the Retry-After values are, and however few bits a delay has.
THEOREM BackoffKept == Spec => BackoffSane
<1>1. RetryInv /\ RetryInv' /\ [Next]_vars
        => [/\ pc = "backoff" /\ pc' = "send" =>
                 4 * (real - lastTry) >= 3 * Lesser(Base, Cap)
            /\ pc' = "backoff" => wakeAt' - real' <= Cap]_vars
  <2> SUFFICES ASSUME RetryInv, RetryInv', [Next]_vars, pc = "backoff", pc' = "send"
               PROVE  4 * (real - lastTry) >= 3 * Lesser(Base, Cap)
    BY DEF RetryInv
  <2>1. Retry
    BY DEF Next, Drive, Request, Arrive, BeginPass, Pace, StartChunk, EndPass, Send,
           Answer, BackOff, Tick, SetClock, vars
  <2> QED
    BY <2>1, FetchingAssumption DEF Retry, RetryInv, Lesser
<1> QED
  BY <1>1, RetryAlways, PTL DEF Spec, BackoffSane

\* What the answer to a request is worth: another attempt exactly when what it met may
\* have passed in a moment.
LEMMA FleetingRetryable ==
  ASSUME NEW url \in Urls, NEW event \in Events(url, {"body"})
  PROVE  IsRetryable(Fetched(url, event)) <=> Fleeting(url, event)
<1>1. CASE Target(url) = "Http"
  BY <1>1
  DEF Events, HttpEvents, Fleeting, Fetched, FetchHttp, FetchError, Response,
      IsRetryable, RetryableStatuses, TransportError, TransientErrors, PermanentErrors
<1>2. CASE Target(url) # "Http"
  BY <1>2
  DEF Events, FileEvents, Fleeting, Fetched, FetchFile, FetchError, Response,
      IsRetryable, RetryableStatuses
<1> QED
  BY <1>1, <1>2

\* "Don't retry blindly" (retry.rs): a request is sent again if and only if what it met
\* may have passed in a moment and retries are left.
THEOREM RetriesEarned == Spec => RetriedWhileWorthIt
<1>1. [Next]_vars => [pc = "sent" /\ pc' # "sent" =>
        (pc' = "backoff" <=> met' = "fleeting" /\ attempt < MaxRetries)]_vars
  <2> SUFFICES ASSUME Next, pc = "sent", pc' # "sent"
               PROVE  pc' = "backoff" <=> met' = "fleeting" /\ attempt < MaxRetries
    BY DEF vars
  <2>1. Arrive
    BY DEF Next, Drive, Request, BeginPass, Pace, StartChunk, EndPass, Send, Retry,
           Tick, SetClock
  <2>2. PICK url \in Urls : \E event \in Events(url, {"body"}) :
          Answer(url, event) \/ BackOff(url, event)
    BY <2>1 DEF Arrive
  <2>3. PICK event \in Events(url, {"body"}) : Answer(url, event) \/ BackOff(url, event)
    BY <2>2
  <2>4. IsRetryable(Fetched(url, event)) <=> Fleeting(url, event)
    BY FleetingRetryable
  <2> QED
    BY <2>3, <2>4 DEF Answer, BackOff, Meets, RetriesLeft
<1> QED
  BY <1>1, PTL DEF Spec, RetriedWhileWorthIt
==============================================================================
