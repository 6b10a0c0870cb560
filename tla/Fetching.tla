------------------------------- MODULE Fetching -------------------------------
(***************************************************************************)
(* How one source's keys become requests: drive_source cuts a pass into    *)
(* chunks and paces their starts, RetryingFetcher repeats a request that   *)
(* failed in a retryable way, with backoff.                                *)
(*                                                                         *)
(* `real` is true time; `wall` is what Clock::now reads, which may be set  *)
(* back or forth (ClockSteps).  A chunk makes one or more requests (arXiv  *)
(* reads an override file first); what each of them meets is an event of   *)
(* Fetchers.  Delays are words of Width bits (u64 in the code).            *)
(***************************************************************************)
EXTENDS Fetchers, FiniteSets

CONSTANTS
  Interval,       \* min_interval
  ChunkSize,      \* chunk_size
  MaxRetries, Base, Cap, HonorRetryAfter,   \* RetryPolicy
  Width,          \* bits of a delay
  RetryAfters,    \* Retry-After values a server may send
  Urls,           \* schemes of the URLs sources request
  Seeds,          \* jitter seeds of (url, attempt)
  ClockSteps,     \* by how much the wall clock may be stepped
  MaxSkew,        \* bound: how far the wall clock gets from true time
  MaxKeys,        \* bound: keys of one pass
  MaxRequests,    \* bound: requests of one chunk
  MaxPasses,      \* bound: passes with work for this source
  MaxTime         \* bound on real time spent outside sleeps

ASSUME FetchingAssumption ==
  /\ Interval \in Nat /\ ChunkSize \in Nat
  /\ MaxRetries \in Nat /\ Base \in Nat /\ Cap \in Nat
  /\ Width \in Nat \ {0} /\ Base < 2^Width /\ Cap < 2^Width
  /\ HonorRetryAfter \in BOOLEAN
  /\ RetryAfters \subseteq Nat /\ Seeds \subseteq Nat /\ ClockSteps \subseteq Int
  /\ MaxKeys \in Nat /\ MaxRequests \in Nat /\ MaxPasses \in Nat
  /\ MaxSkew \in Nat /\ MaxTime \in Nat

VARIABLES
  real, wall,     \* true time, and Clock::now
  pc,             \* where the drive of this source is
  keys,           \* keys of this pass not requested yet
  lastStart,      \* last_start: wall time the last chunk started, or Never
  wakeAt,         \* real time a sleep is over
  attempt,        \* retries of the current request so far
  requests,       \* requests of the current chunk so far
  passes,         \* passes driven so far
  met,            \* history: what the last request answered met, or Nothing
  lastReal,       \* history: real time the last chunk started
  lastTry         \* history: real time the last request was sent, or Never

history == <<met, lastReal, lastTry>>
vars == <<real, wall, pc, keys, lastStart, wakeAt, attempt, requests, passes, history>>

\* Not a time: Clock::now is never negative.
Never == -1
Nothing == "nothing"
Lesser(a, b) == IF a <= b THEN a ELSE b
Greater(a, b) == IF a >= b THEN a ELSE b

Init ==
  /\ real = 0 /\ wall = 0
  /\ pc = "idle"
  /\ keys = 0 /\ lastStart = Never /\ wakeAt = 0
  /\ attempt = 0 /\ requests = 0 /\ passes = 0 /\ met = Nothing
  /\ lastReal = 0 /\ lastTry = Never

------------------------------------------------------------------------------
(* drive_source.                                                             *)

\* A pass of the running retrieve has work for this source, or the first pass of
\* a new retrieve, whose pacing starts afresh.
BeginPass(n, anew) ==
  /\ pc = "idle"
  /\ passes < MaxPasses
  /\ passes' = passes + 1
  /\ keys' = n
  /\ lastStart' = IF anew THEN Never ELSE lastStart
  /\ pc' = "next"
  /\ UNCHANGED <<real, wall, wakeAt, attempt, requests, history>>

\* Mutant of Remaining: a clock set back counts as time elapsed.
RemainingByDistance ==
  Interval - Greater(wall - lastStart, lastStart - wall)

\* What is left of the interval since the last chunk started.
Remaining == Interval - Greater(wall - lastStart, 0)

\* Sleep out the pacing gap, when there is one.
Pace ==
  /\ pc = "next" /\ keys > 0
  /\ lastStart # Never /\ Interval > 0 /\ Remaining > 0
  /\ wakeAt' = real + Remaining
  /\ pc' = "pacing"
  /\ UNCHANGED <<real, wall, keys, lastStart, attempt, requests, passes, history>>

\* The keys left once a chunk is taken: chunk_size, at least one.
AfterChunk == keys - Lesser(keys, Greater(ChunkSize, 1))

\* The chunk starts: last_start is taken now, then the source is called.
StartChunk ==
  /\ \/ pc = "pacing" /\ real >= wakeAt
     \/ /\ pc = "next" /\ keys > 0
        /\ lastStart # Never /\ Interval > 0 => Remaining <= 0
  /\ lastStart' = wall
  /\ lastReal' = real
  /\ keys' = AfterChunk
  /\ attempt' = 0 /\ requests' = 1 /\ wakeAt' = 0
  /\ pc' = "send"
  /\ UNCHANGED <<real, wall, passes, met, lastTry>>

EndPass ==
  /\ pc = "next" /\ keys = 0
  /\ pc' = "idle"
  /\ UNCHANGED <<real, wall, keys, lastStart, wakeAt, attempt, requests, passes,
                 history>>

------------------------------------------------------------------------------
(* RetryingFetcher::fetch.                                                   *)

MaxWord == 2^Width - 1

\* Mutant of Exponential: the product wraps around the word.
ExponentialWrapped(tries) ==
  Lesser((Base * (IF tries < Width THEN 2^tries ELSE MaxWord)) % 2^Width, Cap)

\* base * 2^tries below the cap; shift and product saturate at the word's largest.
Exponential(tries) ==
  LET factor == IF tries < Width THEN 2^tries ELSE MaxWord
  IN  Lesser(Lesser(Base * factor, MaxWord), Cap)

\* Exponential backoff with the jitter below the cap.
Backoff(tries, seed) ==
  LET exp == Exponential(tries)
      span == (exp \div 4) + 1
  IN  Lesser(Lesser(exp, Greater(Cap - (span - 1), 0)) + (seed % span), Cap)

\* A Retry-After header, bounded to [base, cap].
RetryAfterDelay(after) == Greater(Lesser(after, Cap), Lesser(Base, Cap))

Send ==
  /\ pc = "send"
  /\ lastTry' = real /\ met' = Nothing
  /\ pc' = "sent"
  /\ UNCHANGED <<real, wall, keys, lastStart, wakeAt, attempt, requests, passes,
                 lastReal>>

RetriesLeft == attempt < MaxRetries

\* What is worth another attempt (fetcher.rs, retry.rs): a network that may behave
\* differently in a moment, a truncated body, an overloaded or rate-limiting server.
Fleeting(url, event) ==
  /\ Target(url) = "Http"
  /\ \/ event.happened \in {"Dns", "ConnectionFailed", "Io", "ProxyConnect"}
     \/ event.happened = "response"
          /\ (event.body = Cut \/ event.status \in {429} \cup {500, 502, 503, 504})
Meets(url, event) ==
  met' = IF Fleeting(url, event) THEN "fleeting" ELSE "lasting"

\* Mutant of Answer: a request out of retries is sent again at once.
AnswerOrResend(url, event) ==
  /\ pc = "sent"
  /\ IF RetriesLeft THEN pc' = "next" ELSE pc' = "send"
  /\ Meets(url, event)
  /\ UNCHANGED <<real, wall, keys, lastStart, wakeAt, attempt, requests, passes,
                 lastReal, lastTry>>

\* A success, a definitive failure, or the last retry's failure: the source goes
\* on to its next request, or returns.
Answer(url, event) ==
  /\ pc = "sent"
  /\ ~(RetriesLeft /\ IsRetryable(Fetched(url, event)))
  /\ attempt' = 0
  /\ \/ pc' = "next" /\ requests' = 0
     \/ /\ requests < MaxRequests
        /\ requests' = requests + 1
        /\ pc' = "send"
  /\ Meets(url, event) /\ lastTry' = Never
  /\ UNCHANGED <<real, wall, keys, lastStart, wakeAt, passes, lastReal>>

\* The delay before a retry: only a response can carry a Retry-After header.
Delays(answer) ==
  {Backoff(attempt, seed) : seed \in Seeds}
    \cup IF HonorRetryAfter /\ answer.ok
           THEN {RetryAfterDelay(after) : after \in RetryAfters} ELSE {}

\* A retryable status or error with retries left: sleep, then send it again.
BackOff(url, event) ==
  /\ pc = "sent"
  /\ RetriesLeft /\ IsRetryable(Fetched(url, event))
  /\ \E delay \in Delays(Fetched(url, event)) : wakeAt' = real + delay
  /\ Meets(url, event)
  /\ pc' = "backoff"
  /\ UNCHANGED <<real, wall, keys, lastStart, attempt, requests, passes, lastReal,
                 lastTry>>

Retry ==
  /\ pc = "backoff" /\ real >= wakeAt
  /\ attempt' = attempt + 1 /\ wakeAt' = 0
  /\ pc' = "send"
  /\ UNCHANGED <<real, wall, keys, lastStart, requests, passes, history>>

\* The answer to the request, whatever it met.
Arrive ==
  \E url \in Urls : \E event \in Events(url, {"body"}) :
    Answer(url, event) \/ BackOff(url, event)

------------------------------------------------------------------------------
\* Time passes, and the wall clock is stepped.  The bound on time never cuts a
\* sleep short.
Sleeping == pc \in {"pacing", "backoff"} /\ real < wakeAt
Tick ==
  /\ real < MaxTime \/ Sleeping
  /\ real' = real + 1 /\ wall' = wall + 1
  /\ UNCHANGED <<pc, keys, lastStart, wakeAt, attempt, requests, passes, history>>

SetClock ==
  /\ \E d \in ClockSteps :
       /\ wall' = wall + d /\ wall + d >= 0
       /\ real - (wall + d) \in -MaxSkew..MaxSkew
  /\ UNCHANGED <<real, pc, keys, lastStart, wakeAt, attempt, requests, passes,
                 history>>

Drive == Pace \/ StartChunk \/ EndPass
Request == Send \/ Arrive \/ Retry

Next ==
  \/ \E n \in 1..MaxKeys, anew \in BOOLEAN : BeginPass(n, anew)
  \/ Drive \/ Request \/ Tick \/ SetClock

Spec == Init /\ [][Next]_vars
\* Time goes on, sleepers wake, every request is answered or fails.
FairSpec == Spec /\ WF_vars(Drive) /\ WF_vars(Request) /\ WF_vars(Tick)

------------------------------------------------------------------------------
\* "Pacing is start->start" and "survives across retrieval passes": in true time,
\* two chunks of one retrieve start at least Interval apart, whatever requests,
\* retries and passes lie between them and however the wall clock is set back.
ChunkStartsSpaced ==
  [][StartChunk /\ lastStart # Never => real - lastReal >= Interval]_vars

\* No hot loop and no wedge: a retry is sent at least 3/4 of the base (or of the
\* cap, if lower) after the try it repeats, and no sleep exceeds the cap.
BackoffSane ==
  [][/\ pc = "backoff" /\ pc' = "send" =>
          4 * (real - lastTry) >= 3 * Lesser(Base, Cap)
     /\ pc' = "backoff" => wakeAt' - real' <= Cap]_vars

\* "Don't retry blindly": what can never succeed is never asked again, and what may
\* succeed in a moment is given up on only after every retry.
RetriedWhileWorthIt ==
  [][pc = "sent" /\ pc' # "sent" =>
       (pc' = "backoff" <=> met' = "fleeting" /\ attempt < MaxRetries)]_vars

\* A source that always fails still hands its pass back.
PassEnds == (pc = "next") ~> (pc = "idle")
==============================================================================
