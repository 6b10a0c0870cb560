------------------------------- MODULE Reporting -------------------------------
(***************************************************************************)
(* What a user sees of one source: the events drive_source and             *)
(* RetryingFetcher emit, the ThrottledReporter that drops samples, and the *)
(* StderrReporter that prints a counter.                                   *)
(*                                                                         *)
(* Every event is part of the step that emits it (report is synchronous).  *)
(* Sources run concurrently and share the throttle: `Other` is the prefix  *)
(* of another one, `Mine` of the one Fetching follows.                     *)
(***************************************************************************)
EXTENDS Fetching

CONSTANTS
  Level,          \* --verbose: 2 and more is not throttled
  Gap,            \* PROGRESS_GAP
  Mine, Other,    \* prefixes
  MaxOthers,      \* bound: samples of the other source,
  OthersUntil     \* and until when they come

ASSUME ReportingAssumption == Level \in Nat /\ Gap \in Nat /\ Mine # Other

VARIABLES
  total,          \* keys of this pass
  last,           \* last[p]: wall time p's last sample was delivered, or Never
  counter,        \* the last count printed for this source, or -1
  open,           \* what was announced as started and not yet as finished
  others,         \* samples of the other source so far
  shownReal, shownWall  \* history: when this source's last sample was delivered

display == <<total, last, counter, open, others, shownReal, shownWall>>
allVars == <<vars, display>>

Source == [what |-> "source"]
RateLimit == [what |-> "rate limit"]
HttpRequest(n) == [what |-> "request", attempt |-> n]
RetryWait(n) == [what |-> "backoff", attempt |-> n]

ReportingInit ==
  /\ Init
  /\ total = 0 /\ counter = -1 /\ open = {} /\ others = 0
  /\ last = [p \in {Mine, Other} |-> Never]
  /\ shownReal = Never /\ shownWall = Never

------------------------------------------------------------------------------
(* The two reporters.                                                        *)

\* Mutant of Due: a clock set back counts as elapsed.
DueByDistance(p) ==
  \/ Level >= 2 \/ last[p] = Never
  \/ wall - last[p] >= Gap \/ last[p] - wall >= Gap

\* ThrottledReporter: whether a sample of prefix p is delivered now.
Due(p) == Level >= 2 \/ last[p] = Never \/ wall - last[p] >= Gap

Delivered(p) == IF Level >= 2 THEN last ELSE [last EXCEPT ![p] = wall]

\* StderrReporter prints nothing at level 0.
Show(n) == counter' = IF Level = 0 THEN counter ELSE n

\* SourceProgress, the only sample.
Sample(n) ==
  IF Due(Mine)
    THEN /\ last' = Delivered(Mine) /\ Show(n)
         /\ shownReal' = real /\ shownWall' = wall
    ELSE UNCHANGED <<last, counter, shownReal, shownWall>>

\* Milestones go straight through; those below change no counter.
Started(activity) == open' = open \cup {activity}
Finished(activity) == open' = open \ {activity}
Replaced(activity, next) == open' = (open \ {activity}) \cup {next}
NoCount == UNCHANGED <<total, last, counter, others, shownReal, shownWall>>

------------------------------------------------------------------------------
(* The emitting steps of drive_source and RetryingFetcher.                   *)

ReportBeginPass(n, anew) ==
  /\ BeginPass(n, anew)
  /\ total' = n
  /\ Started(Source)
  /\ UNCHANGED <<last, counter, others, shownReal, shownWall>>

ReportPace == Pace /\ Started(RateLimit) /\ NoCount

ReportStartChunk == StartChunk /\ Finished(RateLimit) /\ NoCount

\* Mutant of ReportEndPass: the final count is one more sample.
EndPassSampled ==
  /\ EndPass
  /\ Finished(Source)
  /\ Sample(total)
  /\ UNCHANGED <<total, others>>

\* SourceFinished carries the total.
ReportEndPass ==
  /\ EndPass
  /\ Finished(Source)
  /\ Show(total)
  /\ UNCHANGED <<total, last, others, shownReal, shownWall>>

ReportSend == Send /\ Started(HttpRequest(attempt)) /\ NoCount

\* RequestFinished, then the chunk's sample once the source has returned.
ReportAnswer(url, event) ==
  /\ Answer(url, event)
  /\ Finished(HttpRequest(attempt))
  /\ IF pc' = "next" THEN Sample(total - keys)
     ELSE UNCHANGED <<last, counter, shownReal, shownWall>>
  /\ UNCHANGED <<total, others>>

ReportBackOff(url, event) ==
  /\ BackOff(url, event)
  /\ Replaced(HttpRequest(attempt), RetryWait(attempt))
  /\ NoCount

\* Mutant of ReportRetry: the attempt is counted before the wait is closed.
RetryCountedFirst ==
  /\ Retry
  /\ Finished(RetryWait(attempt + 1))
  /\ NoCount

ReportRetry == Retry /\ Finished(RetryWait(attempt)) /\ NoCount

\* A sample of the other source, which runs while this one waits, passes through
\* the same throttle.
OtherSample ==
  /\ pc \in {"idle", "pacing", "sent", "backoff"}
  /\ others < MaxOthers /\ real <= OthersUntil
  /\ others' = others + 1
  /\ last' = IF Due(Other) THEN Delivered(Other) ELSE last
  /\ UNCHANGED <<vars, total, counter, open, shownReal, shownWall>>

ReportDrive == ReportPace \/ ReportStartChunk \/ ReportEndPass
ReportArrive ==
  \E url \in Urls : \E event \in Events(url, {"body"}) :
    ReportAnswer(url, event) \/ ReportBackOff(url, event)
ReportRequest == ReportSend \/ ReportArrive \/ ReportRetry
ReportTick == Tick /\ UNCHANGED display
ReportSetClock == SetClock /\ UNCHANGED display

ReportingNext ==
  \/ \E n \in 1..MaxKeys, anew \in BOOLEAN : ReportBeginPass(n, anew)
  \/ ReportDrive \/ ReportRequest \/ ReportTick \/ ReportSetClock \/ OtherSample

ReportingSpec == ReportingInit /\ [][ReportingNext]_allVars
\* Time goes on, sleepers wake, every request is answered or fails.
FairReportingSpec ==
  /\ ReportingSpec
  /\ WF_allVars(ReportDrive) /\ WF_allVars(ReportRequest) /\ WF_allVars(ReportTick)

------------------------------------------------------------------------------
\* What the tool is doing, as pc has it.
Underway ==
  IF pc = "idle" THEN {}
  ELSE {Source} \cup
       (IF pc = "pacing" THEN {RateLimit}
        ELSE IF pc = "sent" THEN {HttpRequest(attempt)}
        ELSE IF pc = "backoff" THEN {RetryWait(attempt)} ELSE {})

\* Every started event is "always paired" with a finished one "carrying an equal
\* what": a display that runs a spinner per started event shows exactly what the
\* tool is doing, whatever is retried and paced.
AnnouncedIsUnderway == open = Underway

\* "Every *Finished event carries final counts, so a dropped sample can never leave
\* a progress display stuck at a stale reading", whatever the clock does.
FinalCountShown == pc = "idle" /\ passes > 0 /\ Level > 0 => counter = total

\* "At most one sample per min_gap per subject", in true time, as long as the clock
\* is only ever set back.
SampleSpaced ==
  shownReal' # shownReal /\ shownReal # Never /\ Level < 2
    => shownReal' - shownReal >= Gap

\* "A slow source cannot starve a fast one of updates": a sample is dropped only
\* when this source's own was delivered less than Gap ago by the clock.
NotStarved ==
  pc = "sent" /\ pc' = "next" /\ counter' # total - keys /\ Level > 0
    => shownWall # Never /\ wall - shownWall < Gap

\* The throttle thins out the samples of a source, and only those of that source.
SamplesThrottled == [][SampleSpaced /\ NotStarved]_allVars
==============================================================================
