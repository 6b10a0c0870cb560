--------------------------- MODULE Reporting_proofs ---------------------------
(***************************************************************************)
(* What the progress display promises, for every policy, gap and level:    *)
(* it shows what is going on, ends on the final count, starves no source,  *)
(* and never shows samples of one source less than Gap apart while the     *)
(* clock is not stepped forward.                                           *)
(***************************************************************************)
EXTENDS Reporting, Fetching_proofs

\* The activities of one source are told apart by what they are.
LEMMA ActivitiesDiffer ==
  ASSUME NEW n
  PROVE  /\ Source # RateLimit /\ Source # HttpRequest(n) /\ Source # RetryWait(n)
         /\ HttpRequest(n) # RetryWait(n)
<1>1. /\ Source.what = "source" /\ RateLimit.what = "rate limit"
      /\ HttpRequest(n).what = "request" /\ RetryWait(n).what = "backoff"
  BY DEF Source, RateLimit, HttpRequest, RetryWait
<1> QED
  BY <1>1

\* The reporter "must never influence control flow": with it, a source is driven
\* as without it.
LEMMA ReportingStepIsStep == [ReportingNext]_allVars => [Next]_vars
<1> SUFFICES ASSUME [ReportingNext]_allVars PROVE [Next]_vars
  OBVIOUS
<1>1. CASE \E n \in 1..MaxKeys, anew \in BOOLEAN : ReportBeginPass(n, anew)
  BY <1>1 DEF ReportBeginPass, Next
<1>2. CASE ReportDrive
  BY <1>2 DEF ReportDrive, ReportPace, ReportStartChunk, ReportEndPass, Next, Drive
<1>3. CASE ReportRequest
  <2>1. CASE ReportArrive
    BY <2>1 DEF ReportArrive, ReportAnswer, ReportBackOff, Next, Request, Arrive
  <2> QED
    BY <1>3, <2>1 DEF ReportRequest, ReportSend, ReportRetry, Next, Request
<1>4. CASE ReportTick \/ ReportSetClock
  BY <1>4 DEF ReportTick, ReportSetClock, Next
<1>5. CASE OtherSample \/ UNCHANGED allVars
  BY <1>5 DEF OtherSample, allVars
<1> QED
  BY <1>1, <1>2, <1>3, <1>4, <1>5 DEF ReportingNext

\* A reported drive is a drive: what is proved of Fetching holds of it.
LEMMA ReportingDrives == ReportingSpec => Spec
<1>1. ReportingInit => Init
  BY DEF ReportingInit
<1> QED
  BY <1>1, ReportingStepIsStep, PTL DEF ReportingSpec, Spec

\* Reported or not, chunk starts are paced (ChunkStartsSpaced of Fetching).
THEOREM ReportedPacingHolds ==
  ASSUME OnlyBackward PROVE ReportingSpec => ChunkStartsSpaced
BY ReportingDrives, PacingHolds, PTL

\* Reported or not, requests are retried when that is worth it and after a sane delay.
THEOREM ReportedRetriesHold == ReportingSpec => RetriedWhileWorthIt /\ BackoffSane
BY ReportingDrives, RetriesEarned, BackoffKept, PTL

------------------------------------------------------------------------------
\* What ties the display to the drive.
DisplayInv ==
  /\ AnnouncedIsUnderway
  /\ FinalCountShown

LEMMA DisplayStep == DisplayInv /\ [ReportingNext]_allVars => DisplayInv'
<1> SUFFICES ASSUME DisplayInv, [ReportingNext]_allVars PROVE DisplayInv'
  OBVIOUS
<1> USE ActivitiesDiffer
<1> USE DEF DisplayInv, AnnouncedIsUnderway, FinalCountShown, Underway, NoCount,
            Started, Finished
<1> HIDE DEF Source, RateLimit, HttpRequest, RetryWait
<1>1. ASSUME NEW n, NEW anew, ReportBeginPass(n, anew)
      PROVE  DisplayInv'
  BY <1>1 DEF ReportBeginPass, BeginPass
<1>2. CASE ReportPace
  BY <1>2 DEF ReportPace, Pace
<1>3. CASE ReportStartChunk
  BY <1>3 DEF ReportStartChunk, StartChunk
<1>4. CASE ReportEndPass
  BY <1>4 DEF ReportEndPass, EndPass, Show
<1>5. CASE ReportSend
  BY <1>5 DEF ReportSend, Send
<1>6. ASSUME NEW url, NEW event, ReportAnswer(url, event)
      PROVE  DisplayInv'
  <2>1. pc = "sent" /\ pc' \in {"next", "send"} /\ open' = open \ {HttpRequest(attempt)}
    BY <1>6 DEF ReportAnswer, Answer
  <2> QED
    BY <2>1
<1>7. ASSUME NEW url, NEW event, ReportBackOff(url, event)
      PROVE  DisplayInv'
  <2>1. pc = "sent" /\ pc' = "backoff" /\ attempt' = attempt
    BY <1>7 DEF ReportBackOff, BackOff
  <2>2. open' = (open \ {HttpRequest(attempt)}) \cup {RetryWait(attempt)}
    BY <1>7 DEF ReportBackOff, Replaced
  <2> QED
    BY <2>1, <2>2
<1>8. CASE ReportRetry
  BY <1>8 DEF ReportRetry, Retry
<1>9. CASE ReportTick
  BY <1>9 DEF ReportTick, Tick, display
<1>10. CASE ReportSetClock
  BY <1>10 DEF ReportSetClock, SetClock, display
<1>11. CASE OtherSample
  BY <1>11 DEF OtherSample, vars
<1>12. CASE UNCHANGED allVars
  BY <1>12 DEF allVars, vars, display
<1> QED
  BY <1>1, <1>2, <1>3, <1>4, <1>5, <1>6, <1>7, <1>8, <1>9, <1>10, <1>11, <1>12
     DEF ReportingNext, ReportDrive, ReportRequest, ReportArrive

LEMMA DisplayAlways == ReportingSpec => []DisplayInv
<1>1. ReportingInit => DisplayInv
  BY DEF ReportingInit, Init, DisplayInv, AnnouncedIsUnderway, FinalCountShown, Underway
<1> QED
  BY <1>1, DisplayStep, PTL DEF ReportingSpec

\* A display with a spinner per started event shows exactly what is going on.
THEOREM AnnouncedIsUnderwayAlways == ReportingSpec => []AnnouncedIsUnderway
<1> QED
  BY DisplayAlways, PTL DEF DisplayInv

\* However many samples were dropped, a finished pass shows its final count.
THEOREM FinalCountAlwaysShown == ReportingSpec => []FinalCountShown
<1> QED
  BY DisplayAlways, PTL DEF DisplayInv

------------------------------------------------------------------------------
(* The throttle.                                                             *)

\* What the throttle remembers of this source is when it last delivered.
ThrottleInv ==
  Level < 2 => /\ last \in [{Mine, Other} -> Nat \cup {Never}]
               /\ last[Mine] = shownWall
               /\ real \in Nat /\ wall \in Nat

\* Steps that report no sample.
LEMMA NoSampleStep ==
  ASSUME ThrottleInv, UNCHANGED <<last, shownWall>>,
         real' \in Nat, wall' \in Nat
  PROVE  ThrottleInv'
  BY DEF ThrottleInv

LEMMA SampleStep ==
  ASSUME ThrottleInv, NEW n, Sample(n), UNCHANGED <<real, wall>>
  PROVE  ThrottleInv'
<1> USE ReportingAssumption DEF ThrottleInv, Sample, Delivered, Never
<1>1. CASE Due(Mine)
  BY <1>1
<1>2. CASE ~Due(Mine)
  BY <1>2
<1> QED
  BY <1>1, <1>2

\* Only these move the clocks.
LEMMA ClocksStep ==
  ASSUME real \in Nat, wall \in Nat, [Next]_vars
  PROVE  /\ real' \in Nat /\ wall' \in Nat
         /\ Tick \/ SetClock \/ UNCHANGED <<real, wall>>
<1> USE FetchingAssumption DEF history
<1>1. CASE \E n \in 1..MaxKeys, anew \in BOOLEAN : BeginPass(n, anew)
  BY <1>1 DEF BeginPass
<1>2. CASE Drive
  BY <1>2 DEF Drive, Pace, StartChunk, EndPass
<1>3. CASE Request
  <2>1. ASSUME NEW url, NEW event, Answer(url, event) \/ BackOff(url, event)
        PROVE  UNCHANGED <<real, wall>>
    BY <2>1 DEF Answer, BackOff
  <2> QED
    BY <1>3, <2>1 DEF Request, Arrive, Send, Retry
<1>4. CASE Tick
  BY <1>4 DEF Tick
<1>5. CASE SetClock
  BY <1>5 DEF SetClock
<1>6. CASE UNCHANGED vars
  BY <1>6 DEF vars
<1> QED
  BY <1>1, <1>2, <1>3, <1>4, <1>5, <1>6 DEF Next

\* A step of the reported source: it delivers a sample of its own now, the other
\* source delivers one, or the throttle remembers what it did.
LEMMA ThrottleMoves ==
  ASSUME [ReportingNext]_allVars
  PROVE  \/ (\E n : Sample(n)) /\ UNCHANGED <<real, wall>>
         \/ OtherSample
         \/ UNCHANGED <<last, shownReal, shownWall>>
<1>1. ASSUME NEW url, NEW event, ReportAnswer(url, event)
      PROVE  \/ (\E n : Sample(n)) /\ UNCHANGED <<real, wall>>
             \/ UNCHANGED <<last, shownReal, shownWall>>
  BY <1>1 DEF ReportAnswer, Answer
<1>2. ASSUME NEW url, NEW event, ReportBackOff(url, event)
      PROVE  UNCHANGED <<last, shownReal, shownWall>>
  BY <1>2 DEF ReportBackOff, NoCount
<1>3. CASE \E n \in 1..MaxKeys, anew \in BOOLEAN : ReportBeginPass(n, anew)
  BY <1>3 DEF ReportBeginPass
<1>4. CASE ReportDrive
  BY <1>4 DEF ReportDrive, ReportPace, ReportStartChunk, ReportEndPass, NoCount
<1>5. CASE ReportRequest
  BY <1>1, <1>2, <1>5 DEF ReportRequest, ReportArrive, ReportSend, ReportRetry, NoCount
<1>6. CASE ReportTick \/ ReportSetClock \/ UNCHANGED allVars
  BY <1>6 DEF ReportTick, ReportSetClock, allVars, display
<1> QED
  BY <1>3, <1>4, <1>5, <1>6 DEF ReportingNext

LEMMA ThrottleStep == ThrottleInv /\ [ReportingNext]_allVars => ThrottleInv'
<1> SUFFICES ASSUME ThrottleInv, [ReportingNext]_allVars, Level < 2
             PROVE  ThrottleInv'
  BY DEF ThrottleInv
<1>1. real' \in Nat /\ wall' \in Nat
  BY ReportingStepIsStep, ClocksStep DEF ThrottleInv
<1>2. ASSUME NEW n, Sample(n), UNCHANGED <<real, wall>>
      PROVE  ThrottleInv'
  BY <1>2, SampleStep
<1>3. CASE OtherSample
  <2>1. UNCHANGED <<real, wall, shownWall>>
    BY <1>3 DEF OtherSample, vars
  <2>2. last' = last \/ last' = [last EXCEPT ![Other] = wall]
    BY <1>3 DEF OtherSample, Delivered
  <2> QED
    BY <2>1, <2>2, ReportingAssumption DEF ThrottleInv
<1>4. CASE UNCHANGED <<last, shownReal, shownWall>>
  BY <1>1, <1>4, NoSampleStep
<1> QED
  BY <1>2, <1>3, <1>4, ThrottleMoves

LEMMA ThrottleAlways == ReportingSpec => []ThrottleInv
<1>1. ReportingInit => ThrottleInv
  BY DEF ReportingInit, Init, ThrottleInv, Never
<1> QED
  BY <1>1, ThrottleStep, PTL DEF ReportingSpec

\* A sample is dropped only when this source's own was shown less than Gap ago:
\* "a slow source cannot starve a fast one of updates".
THEOREM NeverStarved == ReportingSpec => [][NotStarved]_allVars
<1>1. ThrottleInv /\ [ReportingNext]_allVars => [NotStarved]_allVars
  <2> SUFFICES ASSUME ThrottleInv, ReportingNext, pc = "sent", pc' = "next",
                      counter' # total - keys, Level > 0
               PROVE  shownWall # Never /\ wall - shownWall < Gap
    BY DEF NotStarved
  <2>1. PICK url, event : ReportAnswer(url, event)
    BY DEF ReportingNext, ReportBeginPass, BeginPass, ReportDrive, ReportPace, Pace,
           ReportStartChunk, StartChunk, ReportEndPass, EndPass, ReportRequest,
           ReportArrive, ReportBackOff, BackOff, ReportSend, Send, ReportRetry, Retry,
           ReportTick, Tick, ReportSetClock, SetClock, OtherSample, vars
  <2>2. Sample(total - keys)
    BY <2>1 DEF ReportAnswer
  <2>3. ~Due(Mine)
    BY <2>2, ReportingAssumption DEF Sample, Show
  <2> QED
    BY <2>3, ReportingAssumption DEF Due, ThrottleInv, Never
<1> QED
  BY <1>1, ThrottleAlways, PTL DEF ReportingSpec

\* The clock never overstates how long ago the last sample was shown.
SpacedInv ==
  Level < 2 => /\ shownReal \in Nat \cup {Never}
               /\ shownReal # Never => /\ shownWall # Never
                                       /\ wall - shownWall <= real - shownReal

LEMMA SpacedStep ==
  ASSUME OnlyBackward
  PROVE  ThrottleInv /\ SpacedInv /\ [ReportingNext]_allVars => SpacedInv'
<1> SUFFICES ASSUME ThrottleInv, SpacedInv, [ReportingNext]_allVars, Level < 2
             PROVE  SpacedInv'
  BY DEF SpacedInv
<1> USE DEF ThrottleInv, SpacedInv, Never
<1>1. ASSUME NEW n, Sample(n), UNCHANGED <<real, wall>>
      PROVE  SpacedInv'
  BY <1>1 DEF Sample
<1>2. CASE OtherSample
  BY <1>2 DEF OtherSample, vars
<1>3. CASE UNCHANGED <<last, shownReal, shownWall>>
  <2>1. ThrottleInv' /\ UNCHANGED shownWall
    BY <1>3, ThrottleStep
  <2>2. CASE Tick
    BY <1>3, <2>1, <2>2 DEF Tick
  <2>3. CASE SetClock
    <3>1. PICK d \in ClockSteps : wall' = wall + d
      BY <2>3 DEF SetClock
    <3>2. d \in Int /\ d <= 0 /\ real' = real
      BY <2>3, FetchingAssumption, OnlyBackward DEF SetClock, OnlyBackward
    <3> QED
      BY <1>3, <2>1, <3>1, <3>2
  <2>4. CASE UNCHANGED <<real, wall>>
    BY <1>3, <2>4
  <2> QED
    BY <2>2, <2>3, <2>4, ReportingStepIsStep, ClocksStep
<1> QED
  BY <1>1, <1>2, <1>3, ThrottleMoves

\* The samples of one source are shown at least Gap apart in true time, and are
\* dropped for no other reason than that.
THEOREM SamplesAlwaysThrottled ==
  ASSUME OnlyBackward PROVE ReportingSpec => SamplesThrottled
<1>1. ReportingInit => SpacedInv
  BY DEF ReportingInit, SpacedInv
<1>2. ReportingSpec => []SpacedInv
  BY <1>1, ThrottleAlways, SpacedStep, PTL DEF ReportingSpec
<1>3. ThrottleInv /\ SpacedInv /\ [ReportingNext]_allVars => [SampleSpaced]_allVars
  <2> SUFFICES ASSUME ThrottleInv, SpacedInv, [ReportingNext]_allVars,
                      shownReal' # shownReal, shownReal # Never, Level < 2
               PROVE  shownReal' - shownReal >= Gap
    BY DEF SampleSpaced
  <2>1. PICK n : Sample(n)
    BY ThrottleMoves DEF OtherSample
  <2>2. Due(Mine) /\ shownReal' = real
    BY <2>1 DEF Sample
  <2> QED
    BY <2>2, ReportingAssumption DEF Due, ThrottleInv, SpacedInv, Never
<1> QED
  BY <1>2, <1>3, ThrottleAlways, NeverStarved, PTL DEF ReportingSpec, SamplesThrottled
==============================================================================
