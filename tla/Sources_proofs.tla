---------------------------- MODULE Sources_proofs ----------------------------
(***************************************************************************)
(* What holds of every chunk, feed, file and server: each key is answered  *)
(* once, in order; Missing is said of nothing that was not heard in full,  *)
(* data of nothing but what was; the record that is stored is the one the  *)
(* files or doi.org hold; the flat reader sees what the nesting of a feed  *)
(* says; and the right one of its entries answers an arXiv id.             *)
(***************************************************************************)
EXTENDS Sources, WellFoundedInduction, SequenceTheorems, TLAPS

Listed(s) == s \in Seq({s[i] : i \in DOMAIN s})

LEMMA AppendListed ==
  ASSUME NEW s, Listed(s), NEW e
  PROVE  /\ Listed(Append(s, e))
         /\ Len(s) \in Nat /\ DOMAIN s = 1..Len(s)
         /\ Len(Append(s, e)) = Len(s) + 1
         /\ DOMAIN Append(s, e) = 1..(Len(s) + 1)
         /\ \A i \in 1..Len(s) : Append(s, e)[i] = s[i]
         /\ Append(s, e)[Len(s) + 1] = e
<1> DEFINE S == {s[i] : i \in DOMAIN s} \cup {e}
           t == Append(s, e)
<1>1. s \in Seq(S) /\ Len(s) \in Nat /\ DOMAIN s = 1..Len(s)
  BY DEF Listed
<1>2. t \in Seq(S) /\ Len(t) = Len(s) + 1 /\ DOMAIN t = 1..Len(t)
  BY <1>1
<1>3. /\ \A i \in 1..Len(s) : t[i] = s[i]
      /\ t[Len(s) + 1] = e
  BY <1>1
<1>4. t \in Seq({t[i] : i \in DOMAIN t})
  BY <1>2
<1> QED
  BY <1>1, <1>2, <1>3, <1>4 DEF Listed

\* A success with a readable body was answered in full.
LEMMA SuccessIsSound ==
  ASSUME NEW url, NEW Bodies, Cut \notin Bodies,
         NEW event \in Events(url, Bodies),
         IsSuccess(Fetched(url, event)),
         Fetched(url, event).body \notin {Garbled, NotObject}
  PROVE  Sound(event)
<1>1. CASE Target(url) = "Http"
  <2>1. event \in HttpEvents(Bodies) /\ Fetched(url, event) = FetchHttp(event)
    BY <1>1 DEF Events, Fetched
  <2>2. event.happened = "response" /\ event.body # Cut
    BY <2>1 DEF FetchHttp, FetchError, IsSuccess
  <2>3. FetchHttp(event) = Response(event.status, event.body)
    BY <2>2 DEF FetchHttp
  <2> QED
    BY <2>1, <2>2, <2>3 DEF Response, IsSuccess, Sound
<1>2. CASE Target(url) = "File"
  <2>1. event \in FileEvents(Bodies) /\ Fetched(url, event) = FetchFile(event)
    BY <1>2 DEF Events, Fetched
  <2>2. event.happened = "read"
    BY <2>1 DEF FetchFile, FetchError, Response, IsSuccess, FileEvents
  <2>3. FetchFile(event) = Response(200, event.body) /\ event.body \in Bodies
    BY <2>1, <2>2 DEF FetchFile, FileEvents
  <2> QED
    BY <2>1, <2>2, <2>3 DEF Response, Sound
<1>3. CASE Target(url) \notin {"Http", "File"}
  BY <1>3 DEF Fetched, FetchError, IsSuccess
<1> QED
  BY <1>1, <1>2, <1>3

\* Missing is only said of a DOI when a response came back whole with a 404.
LEMMA DoiMissingHeard ==
  ASSUME NEW key, NEW event \in Events("https", DoiBodies \cup {Garbled, NotObject}),
         DoiAnswer(key, Fetched("https", event)).outcome = "missing"
  PROVE  event.happened = "response" /\ event.body # Cut /\ event.status = 404
<1> DEFINE answer == Fetched("https", event)
<1>1. answer = FetchHttp(event)
  BY DEF Fetched, Target, UrlScheme
<1>2. answer.ok /\ answer.status = 404
  BY DEF DoiAnswer, Concrete, Failed, Missing
<1>3. event.happened = "response" /\ event.body # Cut
  BY <1>1, <1>2 DEF FetchHttp, FetchError
<1> QED
  BY <1>1, <1>2, <1>3 DEF FetchHttp, Response

------------------------------------------------------------------------------
Full == Len(answers) = Len(Keys) /\ DOMAIN answers = 1..Len(Keys)

Control ==
  /\ config \in Configs
  /\ Listed(log) /\ Listed(answers)
  /\ phase \in {"overrides", "query", "feed"} => config.source = "arxiv"
  /\ phase = "ask" => config.source = "doi"
  /\ phase = "load" => config.source = "bibfile"
  /\ phase = "format" => config.source = "manual"
  /\ phase \notin {"ask", "done"} => answers = <<>>
  /\ phase = "done" => Full
  /\ config.source = "doi" =>
       Len(log) = Len(answers) /\ (phase = "ask" => Len(answers) < Len(Keys))

\* A chunk whose requests went wrong is over, or fails as a whole.
SoundSoFar ==
  phase \in {"overrides", "query", "feed", "load"} =>
    \A n \in DOMAIN log : Sound(log[n])

\* What a reader of the keys alone can say of the answers.
KeysMatch == \A i \in DOMAIN answers : answers[i].key = Keys[i]

SourcesInv == Control /\ SoundSoFar /\ KeysMatch /\ MissingIsHeard

LEMMA KeyFacts ==
  ASSUME Control
  PROVE  /\ Len(Keys) \in Nat \ {0} /\ DOMAIN Keys = 1..Len(Keys)
         /\ config.source \in {"arxiv", "doi", "bibfile", "manual"}
BY SourcesAssumption DEF Control, Keys

\* A chunk answered as a whole.
LEMMA WholeAnswer ==
  ASSUME Control, config' = config, Listed(log)', config.source # "doi",
         NEW R, Answer(R), R = [i \in DOMAIN Keys |-> R[i]],
         \A i \in DOMAIN Keys : R[i].key = Keys[i]
  PROVE  Control' /\ KeysMatch' /\ SoundSoFar'
<1>1. Len(Keys) \in Nat /\ DOMAIN Keys = 1..Len(Keys)
  BY KeyFacts
<1>2. answers' = R /\ R = [i \in 1..Len(Keys) |-> R[i]] /\ phase' = "done" /\ Keys' = Keys
  BY <1>1 DEF Answer, Keys
<1>3. answers' \in Seq({answers'[i] : i \in DOMAIN answers'})
  BY <1>1, <1>2
<1>4. Full'
  BY <1>1, <1>2 DEF Full
<1> QED
  BY <1>1, <1>2, <1>3, <1>4 DEF Control, Listed, KeysMatch, SoundSoFar

LEMMA FailAllAnswers ==
  ASSUME Control, config' = config, Listed(log)', config.source # "doi", FailAll
  PROVE  SourcesInv'
<1> DEFINE R == [i \in DOMAIN Keys |-> Failed(Keys[i])]
<1>1. Answer(R) /\ R = [i \in DOMAIN Keys |-> R[i]]
  BY DEF FailAll
<1>2. \A i \in DOMAIN Keys : R[i].key = Keys[i] /\ R[i].outcome # "missing"
  BY DEF Failed
<1>3. Control' /\ KeysMatch' /\ SoundSoFar'
  BY <1>1, <1>2, WholeAnswer
<1>4. answers' = R /\ DOMAIN R = DOMAIN Keys
  BY <1>1 DEF Answer
<1>5. MissingIsHeard'
  BY <1>2, <1>4 DEF MissingIsHeard
<1> QED
  BY <1>3, <1>5 DEF SourcesInv

\* A request that goes well keeps what the chunk has heard sound.
LEMMA SoundAppended ==
  ASSUME Listed(log), NEW event, log' = Append(log, event), Sound(event),
         \A n \in DOMAIN log : Sound(log[n])
  PROVE  Listed(log)' /\ \A n \in DOMAIN log' : Sound(log'[n])
<1>1. Listed(log') /\ DOMAIN log = 1..Len(log) /\ DOMAIN log' = 1..(Len(log) + 1)
  BY AppendListed
<1>2. \A n \in 1..Len(log) : log'[n] = log[n]
  BY AppendListed
<1>3. log'[Len(log) + 1] = event /\ Len(log) \in Nat
  BY AppendListed
<1>4. ASSUME NEW n \in DOMAIN log' PROVE Sound(log'[n])
  BY <1>1, <1>2, <1>3, <1>4
<1> QED
  BY <1>1, <1>4 DEF Listed

LEMMA SourcesInit == Init => SourcesInv
<1> SUFFICES ASSUME Init PROVE SourcesInv
  OBVIOUS
<1>1. answers = <<>> /\ log = <<>> /\ config \in Configs /\ phase = FirstPhase
  BY DEF Init
<1>2. config.source \in {"arxiv", "doi", "bibfile", "manual"} /\ Len(Keys) \in Nat \ {0}
  BY <1>1, SourcesAssumption DEF Keys
<1>3. CASE config.source = "arxiv"
  BY <1>1, <1>2, <1>3 DEF FirstPhase, SourcesInv, Control, SoundSoFar, KeysMatch,
                          MissingIsHeard, Listed
<1>4. CASE config.source # "arxiv"
  <2>1. phase = [doi |-> "ask", bibfile |-> "load", manual |-> "format"][config.source]
    BY <1>1, <1>4 DEF FirstPhase
  <2>2. \/ config.source = "doi" /\ phase = "ask"
        \/ config.source = "bibfile" /\ phase = "load"
        \/ config.source = "manual" /\ phase = "format"
    BY <1>2, <1>4, <2>1
  <2> QED
    BY <1>1, <1>2, <2>2 DEF SourcesInv, Control, SoundSoFar, KeysMatch,
                            MissingIsHeard, Listed
<1> QED
  BY <1>3, <1>4

\* One more resolution of the DOI source.
LEMMA ResolveOneStep == SourcesInv /\ ResolveOne => SourcesInv'
<1> SUFFICES ASSUME SourcesInv, ResolveOne PROVE SourcesInv'
  OBVIOUS
<1> DEFINE n == Len(answers) + 1
           key == Keys[n]
<1>1. /\ Control /\ KeysMatch /\ MissingIsHeard
      /\ phase = "ask" /\ config.source = "doi"
      /\ config' = config /\ Keys' = Keys
      /\ phase' = IF Len(answers') = Len(Keys) THEN "done" ELSE "ask"
  BY DEF SourcesInv, Control, ResolveOne, Keys
<1>2. /\ Listed(log) /\ Listed(answers)
      /\ Len(log) = Len(answers) /\ Len(answers) < Len(Keys)
      /\ Len(Keys) \in Nat
  BY <1>1, KeyFacts DEF Control
<1>3. PICK event, answer :
        /\ log' = Append(log, event) /\ answers' = Append(answers, answer)
        /\ answer.key = key
        /\ answer.outcome = "missing" =>
             event.happened = "response" /\ event.body # Cut /\ event.status = 404
  <2>1. CASE key = <<>> \/ Space \in ToSet(key)
    BY <2>1 DEF ResolveOne, Failed
  <2>2. CASE ~(key = <<>> \/ Space \in ToSet(key))
    <3>1. PICK event \in Events("https", DoiBodies \cup {Garbled, NotObject}) :
            /\ log' = Append(log, event)
            /\ answers' = Append(answers, DoiAnswer(key, Fetched("https", event)))
      BY <2>2 DEF ResolveOne
    <3>2. DoiAnswer(key, Fetched("https", event)).key = key
      BY DEF DoiAnswer, Concrete, Failed, Missing
    <3>3. DoiAnswer(key, Fetched("https", event)).outcome = "missing" =>
            event.happened = "response" /\ event.body # Cut /\ event.status = 404
      <4> HIDE DEF key
      <4> SUFFICES ASSUME DoiAnswer(key, Fetched("https", event)).outcome = "missing"
                   PROVE  event.happened = "response" /\ event.body # Cut /\ event.status = 404
        OBVIOUS
      <4> QED
        BY DoiMissingHeard
    <3>4. PICK answer : answer = DoiAnswer(key, Fetched("https", event))
      OBVIOUS
    <3>5. /\ answers' = Append(answers, answer) /\ answer.key = key
          /\ answer.outcome = "missing" =>
               event.happened = "response" /\ event.body # Cut /\ event.status = 404
      BY <3>1, <3>2, <3>3, <3>4
    <3> WITNESS event, answer
    <3> QED
      BY <3>1, <3>5
  <2> QED
    BY <2>1, <2>2
<1>4. /\ Listed(log') /\ Len(log') = n /\ DOMAIN log' = 1..n
      /\ \A i \in 1..Len(log) : log'[i] = log[i]
      /\ log'[n] = event /\ DOMAIN log = 1..Len(log) /\ Len(answers) \in Nat
  BY <1>2, <1>3, AppendListed
<1>5. /\ Listed(answers') /\ Len(answers') = n /\ DOMAIN answers' = 1..n
      /\ \A i \in 1..Len(answers) : answers'[i] = answers[i]
      /\ answers'[n] = answer /\ DOMAIN answers = 1..Len(answers)
  BY <1>2, <1>3, AppendListed
<1>6. Control'
  BY <1>1, <1>2, <1>4, <1>5 DEF Control, Full, Listed
<1>7. SoundSoFar'
  BY <1>1 DEF SoundSoFar
<1>8. KeysMatch'
  BY <1>1, <1>3, <1>4, <1>5 DEF KeysMatch
<1>9. MissingIsHeard'
  <2> SUFFICES ASSUME NEW i \in 1..n, answers'[i].outcome = "missing" PROVE Heard(i)'
    BY <1>5 DEF MissingIsHeard
  <2>1. CASE i = n
    BY <1>1, <1>3, <1>4, <1>5, <2>1 DEF Heard
  <2>2. CASE i # n
    <3>1. i \in DOMAIN answers /\ answers'[i] = answers[i] /\ log'[i] = log[i]
      BY <1>2, <1>4, <1>5, <2>2
    <3>2. Heard(i)
      BY <1>1, <3>1 DEF MissingIsHeard
    <3> QED
      BY <1>1, <3>1, <3>2 DEF Heard, Sound
  <2> QED
    BY <2>1, <2>2
<1> QED
  BY <1>6, <1>7, <1>8, <1>9 DEF SourcesInv

\* A chunk answered key by key out of what was heard in full.
LEMMA LookedUp ==
  ASSUME SourcesInv, config' = config, log' = log,
         config.source \in {"arxiv", "bibfile"}, phase \in {"feed", "load"},
         config.source = "arxiv" => tokenized',
         config.source = "bibfile" => Len(log) = Len(config.files),
         NEW R, Answer(R), R = [i \in DOMAIN Keys |-> R[i]],
         \A i \in DOMAIN Keys : R[i].key = Keys[i]
  PROVE  SourcesInv'
<1>1. Control' /\ KeysMatch' /\ SoundSoFar'
  BY WholeAnswer DEF SourcesInv, Control, Listed
<1>2. \A n \in DOMAIN log' : Sound(log'[n])
  BY DEF SourcesInv, SoundSoFar
<1>3. \A i : Heard(i)'
  BY <1>2 DEF Heard, Sound
<1> QED
  BY <1>1, <1>3 DEF SourcesInv, MissingIsHeard

\* Every step of every source keeps the invariant.
LEMMA SourcesStep == SourcesInv /\ [Next]_vars => SourcesInv'
<1> SUFFICES ASSUME SourcesInv, [Next]_vars PROVE SourcesInv'
  OBVIOUS
<1>0. Control /\ SoundSoFar /\ KeysMatch /\ MissingIsHeard /\ Listed(log)
  BY DEF SourcesInv, Control
<1>1. CASE LoadOverrides
  <2>1. PICK event \in Events(config.file, OverrideBodies \cup {Garbled, NotObject}) :
          /\ log' = Append(log, event)
          /\ IF /\ IsSuccess(Fetched(config.file, event))
                /\ Fetched(config.file, event).body \notin {Garbled, NotObject}
             THEN phase' = "query" /\ UNCHANGED answers
             ELSE FailAll
    BY <1>1 DEF LoadOverrides
  <2>2. config' = config /\ phase = "overrides" /\ config.source = "arxiv"
    BY <1>0, <1>1 DEF LoadOverrides, Control
  <2>3. Listed(log)'
    BY <1>0, <2>1, AppendListed DEF Listed
  <2>4. CASE FailAll
    BY <1>0, <2>2, <2>3, <2>4, FailAllAnswers
  <2>5. CASE /\ IsSuccess(Fetched(config.file, event))
             /\ Fetched(config.file, event).body \notin {Garbled, NotObject}
    <3>1. Cut \notin OverrideBodies \cup {Garbled, NotObject}
      BY SourcesAssumption
    <3>2. Sound(event)
      BY <2>5, <3>1, SuccessIsSound
    <3>3. \A n \in DOMAIN log' : Sound(log'[n])
      BY <1>0, <2>1, <2>2, <3>2, SoundAppended DEF SoundSoFar
    <3> QED
      BY <1>0, <2>1, <2>2, <2>3, <2>5, <3>3
         DEF SourcesInv, Control, SoundSoFar, KeysMatch, MissingIsHeard, Keys, Listed, Full
  <2> QED
    BY <2>1, <2>4, <2>5
<1>2. CASE Query
  <2>1. PICK event \in Events("https", {Feed, Garbled}) :
          /\ log' = Append(log, event)
          /\ IF IsSuccess(Fetched("https", event)) /\ Fetched("https", event).body = Feed
             THEN phase' = "feed" /\ UNCHANGED answers
             ELSE FailAll
    BY <1>2 DEF Query
  <2>2. config' = config /\ phase = "query" /\ config.source = "arxiv"
    BY <1>0, <1>2 DEF Query, Control
  <2>3. Listed(log)'
    BY <1>0, <2>1, AppendListed DEF Listed
  <2>4. CASE FailAll
    BY <1>0, <2>2, <2>3, <2>4, FailAllAnswers
  <2>5. CASE IsSuccess(Fetched("https", event)) /\ Fetched("https", event).body = Feed
    <3>1. Target("https") = "Http" /\ event \in HttpEvents({Feed, Garbled})
      BY <2>1 DEF Target, UrlScheme, Events
    <3>2. Fetched("https", event) = FetchHttp(event)
      BY <3>1 DEF Fetched
    <3>3. event.happened = "response" /\ event.body # Cut
      BY <2>5, <3>2 DEF FetchHttp, FetchError, IsSuccess
    <3>4. FetchHttp(event) = Response(event.status, event.body)
      BY <3>3 DEF FetchHttp
    <3>5. event.body = Feed /\ event.status \in 200..299
      BY <2>5, <3>2, <3>4 DEF Response, IsSuccess
    <3>6. Sound(event)
      BY <3>3, <3>5, SourcesAssumption DEF Sound
    <3>7. \A n \in DOMAIN log' : Sound(log'[n])
      BY <1>0, <2>1, <2>2, <3>6, SoundAppended DEF SoundSoFar
    <3> QED
      BY <1>0, <2>1, <2>2, <2>3, <2>5, <3>7
         DEF SourcesInv, Control, SoundSoFar, KeysMatch, MissingIsHeard, Keys, Listed, Full
  <2> QED
    BY <2>1, <2>4, <2>5
<1>3. ASSUME phase = "feed", UNCHANGED <<config, phase, answers, log>> PROVE SourcesInv'
  BY <1>0, <1>3
     DEF SourcesInv, Control, SoundSoFar, KeysMatch, MissingIsHeard, Keys, Listed, Full
<1>4. ASSUME NEW local, OpenElement(local) PROVE SourcesInv'
  BY <1>3, <1>4 DEF OpenElement
<1>5. CASE CloseElement
  BY <1>3, <1>5 DEF CloseElement
<1>6. ASSUME NEW piece, NEW cdata, Characters(piece, cdata) PROVE SourcesInv'
  BY <1>3, <1>6 DEF Characters
<1>7. CASE BreakFeed
  <2>1. config' = config /\ log' = log /\ phase = "feed" /\ config.source = "arxiv" /\ FailAll
    BY <1>0, <1>7 DEF BreakFeed, Control
  <2> QED
    BY <1>0, <2>1, FailAllAnswers DEF Listed
<1>8. CASE EndFeed
  <2> DEFINE R == [i \in DOMAIN Keys |-> ResolveKey(Keys[i], parser.entries)]
  <2>1. /\ config' = config /\ log' = log /\ phase = "feed" /\ config.source = "arxiv"
        /\ tokenized' /\ Answer(R) /\ R = [i \in DOMAIN Keys |-> R[i]]
    BY <1>0, <1>8 DEF EndFeed, Control
  <2>2. \A i \in DOMAIN Keys : R[i].key = Keys[i]
    BY DEF ResolveKey, Concrete, Chained, Missing
  <2> HIDE DEF R
  <2> QED
    BY <2>1, <2>2, LookedUp
<1>9. CASE LoadFile
  <2>1. PICK event \in Events(config.files[Len(log) + 1], BibBodies \cup {Garbled, NotObject}) :
          /\ log' = Append(log, event)
          /\ IF /\ IsSuccess(Fetched(config.files[Len(log) + 1], event))
                /\ Fetched(config.files[Len(log) + 1], event).body
                     \notin {Garbled, NotObject}
             THEN UNCHANGED <<phase, answers>>
             ELSE FailAll
    BY <1>9 DEF LoadFile
  <2>2. config' = config /\ phase = "load" /\ config.source = "bibfile"
    BY <1>0, <1>9 DEF LoadFile, Control
  <2>3. Listed(log)'
    BY <1>0, <2>1, AppendListed DEF Listed
  <2>4. CASE FailAll
    BY <1>0, <2>2, <2>3, <2>4, FailAllAnswers
  <2>5. CASE /\ IsSuccess(Fetched(config.files[Len(log) + 1], event))
             /\ Fetched(config.files[Len(log) + 1], event).body \notin {Garbled, NotObject}
    <3>1. Cut \notin BibBodies \cup {Garbled, NotObject}
      BY SourcesAssumption
    <3>2. Sound(event)
      BY <2>5, <3>1, SuccessIsSound
    <3>3. \A n \in DOMAIN log' : Sound(log'[n])
      BY <1>0, <2>1, <2>2, <3>2, SoundAppended DEF SoundSoFar
    <3> QED
      BY <1>0, <2>1, <2>2, <2>3, <2>5, <3>3
         DEF SourcesInv, Control, SoundSoFar, KeysMatch, MissingIsHeard, Keys, Listed, Full
  <2> QED
    BY <2>1, <2>4, <2>5
<1>10. CASE LookUpAll
  <2> DEFINE R == [i \in DOMAIN Keys |-> LookUp(Keys[i])]
  <2>1. /\ config' = config /\ log' = log /\ phase = "load" /\ config.source = "bibfile"
        /\ Len(log) = Len(config.files) /\ Answer(R) /\ R = [i \in DOMAIN Keys |-> R[i]]
    BY <1>0, <1>10 DEF LookUpAll, Control
  <2>2. \A i \in DOMAIN Keys : R[i].key = Keys[i]
    BY DEF LookUp, Concrete, Failed, Missing
  <2> HIDE DEF R
  <2> QED
    BY <2>1, <2>2, LookedUp
<1>11. CASE Format
  <2> DEFINE R == [i \in DOMAIN Keys |-> Concrete(Keys[i], Keys[i])]
  <2>1. /\ config' = config /\ log' = log /\ config.source = "manual"
        /\ Answer(R) /\ R = [i \in DOMAIN Keys |-> R[i]]
    BY <1>0, <1>11 DEF Format, Control
  <2>2. \A i \in DOMAIN Keys : R[i].key = Keys[i] /\ R[i].outcome # "missing"
    BY DEF Concrete
  <2>3. answers' = R
    BY <2>1 DEF Answer
  <2> HIDE DEF R
  <2>4. Control' /\ KeysMatch' /\ SoundSoFar'
    BY <1>0, <2>1, <2>2, WholeAnswer DEF Listed
  <2>5. MissingIsHeard'
    BY <2>1, <2>2, <2>3 DEF MissingIsHeard
  <2> QED
    BY <2>4, <2>5 DEF SourcesInv
<1>12. CASE ResolveOne
  BY <1>12, ResolveOneStep
<1>13. CASE Stop \/ UNCHANGED vars
  <2>1. UNCHANGED <<config, phase, answers, log, tokenized>>
    BY <1>13 DEF Stop, vars
  <2>2. Control' /\ KeysMatch' /\ SoundSoFar'
    BY <1>0, <2>1 DEF Control, SoundSoFar, KeysMatch, Sound, Keys, Listed, Full
  <2>3. MissingIsHeard'
    BY <1>0, <2>1 DEF MissingIsHeard, Heard, Sound
  <2> QED
    BY <2>2, <2>3 DEF SourcesInv
<1> QED
  BY <1>1, <1>2, <1>4, <1>5, <1>6, <1>7, <1>8, <1>9, <1>10, <1>11, <1>12, <1>13
     DEF Next, ReadFeed

LEMMA SourcesInvariant == Spec => []SourcesInv
BY SourcesInit, SourcesStep, PTL DEF Spec

\* Every chunk of every source, asked of any server: one resolution per key, in the
\* order and under the very keys that were requested.
THEOREM OneAnswerPerKeyAlways == Spec => []OneAnswerPerKey
<1>1. SourcesInv => OneAnswerPerKey
  BY DEF SourcesInv, Control, KeysMatch, OneAnswerPerKey, Done, Full
<1> QED
  BY <1>1, SourcesInvariant, PTL

\* No source ever says Missing because a part of what it asked for failed: every file,
\* feed or answer came with success and could be read through, so that an outage cannot
\* drop a cached copy.  A feed that was cut between two tags counts as read through.
THEOREM MissingIsHeardAlways == Spec => []MissingIsHeard
<1>1. SourcesInv => MissingIsHeard
  BY DEF SourcesInv
<1> QED
  BY <1>1, SourcesInvariant, PTL

------------------------------------------------------------------------------
(* Reading a file.                                                           *)

\* A set of numbers that is not empty has a least.
LEMMA Least ==
  ASSUME NEW S \in SUBSET Nat, S # {} PROVE \E k \in S : \A n \in S : k <= n
<1> DEFINE R == OpToRel(<, Nat)
<1>1. IsWellFoundedOn(R, Nat)
  BY NatLessThanWellFounded, Zenon
<1>2. R = {p \in Nat \X Nat : p[1] < p[2]}
  BY Zenon DEF OpToRel
<1> HIDE DEF R
<1>3. \A m, n \in Nat : m < n => <<m, n>> \in R
  BY <1>2
<1>4. \E k \in S : \A n \in S : ~(<<n, k>> \in R)
  BY <1>1, WFMin
<1>5. PICK k \in S : \A n \in S : ~(<<n, k>> \in R)
  BY <1>4
<1>6. \A n \in S : n \in Nat /\ k \in Nat /\ ~(n < k)
  BY <1>3, <1>5
<1> QED
  BY <1>6

\* Induction: a set of numbers with 0 and every successor of its members is all of them.
LEMMA NaturalInduction ==
  ASSUME NEW S \in SUBSET Nat, 0 \in S, \A n \in S : n + 1 \in S
  PROVE  S = Nat
<1> SUFFICES ASSUME Nat \ S # {} PROVE FALSE
  OBVIOUS
<1>1. PICK k \in Nat \ S : \A n \in Nat \ S : k <= n
  BY Least
<1>2. k # 0 /\ k - 1 \in Nat /\ ~(k <= k - 1) /\ (k - 1) + 1 = k
  BY <1>1
<1> QED
  BY <1>1, <1>2

\* The map after one more pair of a file, and after each of the first k.
Takes(body, map, i) ==
  IF Usable(body, body.items[i]) THEN Insert(map, body.items[i]) ELSE map
IsReading(w, body, k) ==
  /\ w = [i \in 0..k |-> w[i]] /\ w[0] = fromFiles
  /\ \A i \in 1..k : w[i] = Takes(body, w[i - 1], i)

LEMMA ReadingExists ==
  ASSUME NEW body, NEW m \in Nat PROVE \E w : IsReading(w, body, m)
<1> DEFINE S == {k \in Nat : \E w : IsReading(w, body, k)}
<1>1. 0 \in S
  <2> DEFINE w == [i \in 0..0 |-> fromFiles]
  <2>1. w = [i \in 0..0 |-> w[i]] /\ w[0] = fromFiles
    OBVIOUS
  <2>2. \A i \in 1..0 : w[i] = Takes(body, w[i - 1], i)
    OBVIOUS
  <2> HIDE DEF w
  <2> QED
    BY <2>1, <2>2 DEF IsReading
<1>2. ASSUME NEW k \in S PROVE k + 1 \in S
  <2>1. k \in Nat
    OBVIOUS
  <2>2. PICK w : IsReading(w, body, k)
    BY <1>2
  <2> DEFINE v == [i \in 0..(k + 1) |-> IF i = k + 1 THEN Takes(body, w[k], k + 1) ELSE w[i]]
  <2>3. /\ v = [i \in 0..(k + 1) |-> v[i]]
        /\ v[k + 1] = Takes(body, w[k], k + 1)
        /\ \A i \in 0..k : v[i] = w[i]
    BY <2>1
  <2> HIDE DEF v
  <2>4. v[0] = fromFiles
    <3>1. 0 \in 0..k
      BY <2>1
    <3> QED
      BY <2>2, <2>3, <3>1 DEF IsReading
  <2>5. ASSUME NEW i \in 1..(k + 1) PROVE v[i] = Takes(body, v[i - 1], i)
    <3>1. CASE i = k + 1
      <4>1. i - 1 = k /\ k \in 0..k
        BY <2>1, <3>1
      <4> QED
        BY <2>3, <3>1, <4>1
    <3>2. CASE i # k + 1
      <4>1. i \in 1..k /\ i \in 0..k /\ i - 1 \in 0..k
        BY <2>1, <3>2
      <4> QED
        BY <2>2, <2>3, <4>1 DEF IsReading
    <3> QED
      BY <3>1, <3>2
  <2>6. IsReading(v, body, k + 1)
    BY <2>3, <2>4, <2>5 DEF IsReading
  <2> QED
    BY <2>1, <2>6
<1> HIDE DEF S
<1>3. S \in SUBSET Nat
  BY DEF S
<1>4. S = Nat
  BY <1>1, <1>2, <1>3, NaturalInduction
<1> QED
  BY <1>4 DEF S

\* Where a file has a usable item of this id.
HasId(body, key, i) ==
  /\ i \in 1..Len(body.items)
  /\ Usable(body, body.items[i]) /\ body.items[i].id = key

\* The map after k pairs of a file: of an id the file has had so far, its last item; of
\* any other, what was there before.
HoldsLast(map, body, k) ==
  \A key :
    /\ key \in DOMAIN map
         <=> key \in DOMAIN fromFiles \/ \E i \in 1..k : HasId(body, key, i)
    /\ key \in DOMAIN map =>
         \/ \E i \in 1..k : /\ HasId(body, key, i) /\ map[key] = body.items[i].item
                            /\ \A j \in 1..k : HasId(body, key, j) => j <= i
         \/ /\ \A i \in 1..k : ~HasId(body, key, i)
            /\ map[key] = fromFiles[key]

LEMMA TakesHoldLast ==
  ASSUME NEW body, Len(body.items) \in Nat, NEW k \in Nat, k + 1 <= Len(body.items),
         NEW map, HoldsLast(map, body, k)
  PROVE  HoldsLast(Takes(body, map, k + 1), body, k + 1)
<1> DEFINE pair == body.items[k + 1]
           next == Takes(body, map, k + 1)
<1>1. \A i \in 1..(k + 1) : i \in 1..k \/ i = k + 1
  OBVIOUS
<1>2. k + 1 \in 1..Len(body.items) /\ \A i \in 1..k : i \in 1..(k + 1) /\ i <= k + 1
  OBVIOUS
<1>3. \A key : HasId(body, key, k + 1) <=> Usable(body, pair) /\ pair.id = key
  BY <1>2 DEF HasId
<1> SUFFICES ASSUME NEW key
             PROVE  /\ key \in DOMAIN next
                         <=> \/ key \in DOMAIN fromFiles
                             \/ \E i \in 1..(k + 1) : HasId(body, key, i)
                    /\ key \in DOMAIN next =>
                         \/ \E i \in 1..(k + 1) :
                              /\ HasId(body, key, i) /\ next[key] = body.items[i].item
                              /\ \A j \in 1..(k + 1) : HasId(body, key, j) => j <= i
                         \/ /\ \A i \in 1..(k + 1) : ~HasId(body, key, i)
                            /\ next[key] = fromFiles[key]
  BY DEF HoldsLast
<1>4. /\ key \in DOMAIN map
           <=> key \in DOMAIN fromFiles \/ \E i \in 1..k : HasId(body, key, i)
      /\ key \in DOMAIN map =>
           \/ \E i \in 1..k : /\ HasId(body, key, i) /\ map[key] = body.items[i].item
                              /\ \A j \in 1..k : HasId(body, key, j) => j <= i
           \/ /\ \A i \in 1..k : ~HasId(body, key, i)
              /\ map[key] = fromFiles[key]
  BY DEF HoldsLast
<1>5. CASE HasId(body, key, k + 1)
  <2>1. key \in DOMAIN next /\ next[key] = pair.item
    BY <1>3, <1>5 DEF Takes, Insert
  <2>2. k + 1 \in 1..(k + 1)
    OBVIOUS
  <2> HIDE DEF next
  <2> QED
    BY <1>1, <1>2, <1>5, <2>1, <2>2
<1>6. CASE ~HasId(body, key, k + 1)
  <2>1. (key \in DOMAIN next <=> key \in DOMAIN map)
    BY <1>3, <1>6 DEF Takes, Insert
  <2>2. key \in DOMAIN map => next[key] = map[key]
    BY <1>3, <1>6 DEF Takes, Insert
  <2> HIDE DEF next
  <2>3. \A i \in 1..(k + 1) : HasId(body, key, i) => i \in 1..k
    BY <1>1, <1>6
  <2>4. CASE key \notin DOMAIN map
    BY <1>2, <1>4, <2>1, <2>3, <2>4
  <2>5. CASE key \in DOMAIN map /\ \A i \in 1..k : ~HasId(body, key, i)
    <3>1. map[key] = fromFiles[key] /\ key \in DOMAIN fromFiles
      BY <1>4, <2>5
    <3> QED
      BY <2>1, <2>2, <2>3, <2>5, <3>1
  <2>6. CASE key \in DOMAIN map /\ \E i \in 1..k : HasId(body, key, i)
    <3>1. PICK i \in 1..k : /\ HasId(body, key, i) /\ map[key] = body.items[i].item
                            /\ \A j \in 1..k : HasId(body, key, j) => j <= i
      BY <1>4, <2>6
    <3>2. i \in 1..(k + 1) /\ \A j \in 1..(k + 1) : HasId(body, key, j) => j <= i
      BY <1>2, <2>3, <3>1
    <3> QED
      BY <2>1, <2>2, <2>6, <3>1, <3>2
  <2> QED
    BY <2>4, <2>5, <2>6
<1> QED
  BY <1>5, <1>6

\* A file that is read leaves the last item it has for each id.
LEMMA LoadedHoldsLast ==
  ASSUME NEW body, NEW m \in Nat, Len(body.items) = m
  PROVE  HoldsLast(Loaded(body), body, m)
<1> DEFINE Follows(w) ==
             w = [i \in 0..m |->
                    IF i = 0 THEN fromFiles
                    ELSE IF Usable(body, body.items[i]) THEN Insert(w[i - 1], body.items[i])
                    ELSE w[i - 1]]
           g == CHOOSE w : Follows(w)
<1>1. Loaded(body) = g[m]
  BY DEF Loaded
<1>2. \E w : Follows(w)
  <2>1. PICK w : IsReading(w, body, m)
    BY ReadingExists
  <2>2. \A i \in 0..m : w[i] = IF i = 0 THEN fromFiles
                               ELSE IF Usable(body, body.items[i])
                               THEN Insert(w[i - 1], body.items[i]) ELSE w[i - 1]
    <3>1. \A i \in 0..m : i = 0 \/ (i # 0 /\ i \in 1..m)
      OBVIOUS
    <3>2. w[0] = fromFiles /\ \A i \in 1..m : w[i] = Takes(body, w[i - 1], i)
      BY <2>1 DEF IsReading
    <3> QED
      BY <3>1, <3>2, Zenon DEF Takes
  <2>3. Follows(w)
    BY <2>1, <2>2 DEF IsReading
  <2> QED
    BY <2>3
<1>3. Follows(g)
  BY <1>2
<1> HIDE DEF g
<1>4. g[0] = fromFiles /\ \A i \in 1..m : g[i] = Takes(body, g[i - 1], i)
  BY <1>3 DEF Takes
<1> DEFINE S == {k \in Nat : k <= m => HoldsLast(g[k], body, k)}
<1>5. 0 \in S
  BY <1>4 DEF HoldsLast
<1>6. ASSUME NEW k \in S PROVE k + 1 \in S
  <2>1. k \in Nat /\ (k + 1) - 1 = k
    OBVIOUS
  <2>2. ASSUME k + 1 <= m PROVE HoldsLast(g[k + 1], body, k + 1)
    <3>1. HoldsLast(g[k], body, k) /\ k + 1 \in 1..m
      BY <1>6, <2>2
    <3>2. g[k + 1] = Takes(body, g[k], k + 1)
      BY <1>4, <2>1, <3>1
    <3> QED
      BY <2>1, <2>2, <3>1, <3>2, TakesHoldLast
  <2> QED
    BY <2>1, <2>2
<1> HIDE DEF S
<1>7. S \in SUBSET Nat
  BY DEF S
<1>8. S = Nat
  BY <1>5, <1>6, <1>7, NaturalInduction
<1>9. HoldsLast(g[m], body, m)
  BY <1>8 DEF S
<1> QED
  BY <1>1, <1>9

------------------------------------------------------------------------------
(* What the map built from the files so far holds.                           *)

\* The body of a success is what was sent.
LEMMA SuccessBody ==
  ASSUME NEW url, NEW Bodies, Cut \notin Bodies,
         NEW event \in Events(url, Bodies), IsSuccess(Fetched(url, event))
  PROVE  Fetched(url, event).body = event.body /\ event.body \in Bodies
<1>1. CASE Target(url) = "Http"
  <2>1. event \in HttpEvents(Bodies) /\ Fetched(url, event) = FetchHttp(event)
    BY <1>1 DEF Events, Fetched
  <2>2. event.happened = "response" /\ event.body # Cut
    BY <2>1 DEF FetchHttp, FetchError, IsSuccess
  <2>3. FetchHttp(event) = Response(event.status, event.body)
    BY <2>2 DEF FetchHttp
  <2>4. event.body \in Bodies
    BY <2>1, <2>2 DEF HttpEvents
  <2> QED
    BY <2>1, <2>3, <2>4 DEF Response
<1>2. CASE Target(url) = "File"
  <2>1. event \in FileEvents(Bodies) /\ Fetched(url, event) = FetchFile(event)
    BY <1>2 DEF Events, Fetched
  <2>2. event.happened = "read"
    BY <2>1 DEF FetchFile, FetchError, Response, IsSuccess, FileEvents
  <2>3. FetchFile(event) = Response(200, event.body) /\ event.body \in Bodies
    BY <2>1, <2>2 DEF FetchFile, FileEvents
  <2> QED
    BY <2>1, <2>3 DEF Response
<1>3. CASE Target(url) \notin {"Http", "File"}
  BY <1>3 DEF Fetched, FetchError, IsSuccess
<1> QED
  BY <1>1, <1>2, <1>3

\* Item i of file f is the last that the files have for `key`.
IsLast(key, f, i) ==
  /\ f \in DOMAIN log /\ HasId(log[f].body, key, i)
  /\ \A g \in DOMAIN log : \A j \in 1..Len(log[g].body.items) :
       HasId(log[g].body, key, j) => g < f \/ (g = f /\ j <= i)

\* The map built so far holds, of each id the files have, the last item.
Reads(key) ==
  /\ key \in DOMAIN fromFiles
       <=> \E f \in DOMAIN log : \E i \in 1..Len(log[f].body.items) :
             HasId(log[f].body, key, i)
  /\ key \in DOMAIN fromFiles =>
       \E f \in DOMAIN log : \E i \in 1..Len(log[f].body.items) :
         IsLast(key, f, i) /\ fromFiles[key] = log[f].body.items[i].item

FilesRead ==
  phase = "load" =>
    /\ \A f \in DOMAIN log : log[f].body \in BibBodies
    /\ \A n \in DOMAIN Keys : Reads(Keys[n])

RecordInv == FilesRead /\ RecordKept

\* What the bibliography has for `key` at place <<f, i>>.
Mentioned(key, f, i, item) ==
  \/ f \in DOMAIN log /\ HasId(log[f].body, key, i) /\ item = log[f].body.items[i].item
  \/ f = 0 /\ i = 0 /\ key \in DOMAIN config.preloaded /\ item = config.preloaded[key]

LEMMA MentionsAre ==
  ASSUME NEW key,
         \A f \in DOMAIN log : DOMAIN log[f].body.items = 1..Len(log[f].body.items)
  PROVE  /\ \A m \in Mentions(key) : Mentioned(key, m[1][1], m[1][2], m[2])
         /\ \A f, i, item : Mentioned(key, f, i, item) => <<<<f, i>>, item>> \in Mentions(key)
<1> DEFINE Here(f) == {i \in DOMAIN log[f].body.items :
                         /\ Usable(log[f].body, log[f].body.items[i])
                         /\ log[f].body.items[i].id = key}
           In(f) == {<<<<f, i>>, log[f].body.items[i].item>> : i \in Here(f)}
           Host == IF key \in DOMAIN config.preloaded
                   THEN {<<<<0, 0>>, config.preloaded[key]>>} ELSE {}
           Files == UNION {In(f) : f \in DOMAIN log}
<1>1. Mentions(key) = Files \cup Host
  BY DEF Mentions
<1>5. \A m : m \in Files <=> \E f \in DOMAIN log : m \in In(f)
  <2> HIDE DEF In
  <2> QED
    OBVIOUS
<1> HIDE DEF Files
<1>2. \A f \in DOMAIN log : \A i : i \in Here(f) <=> HasId(log[f].body, key, i)
  BY DEF HasId
<1>3. ASSUME NEW m \in Mentions(key) PROVE Mentioned(key, m[1][1], m[1][2], m[2])
  <2>1. CASE m \in Host
    BY <2>1 DEF Mentioned
  <2>2. CASE m \notin Host
    <3> HIDE DEF In, Host
    <3>1. PICK f \in DOMAIN log : m \in In(f)
      BY <1>1, <1>5, <2>2
    <3>2. PICK i \in Here(f) : m = <<<<f, i>>, log[f].body.items[i].item>>
      BY <3>1 DEF In
    <3> QED
      BY <1>2, <3>2 DEF Mentioned
  <2> QED
    BY <2>1, <2>2
<1>4. ASSUME NEW f, NEW i, NEW item, Mentioned(key, f, i, item)
      PROVE  <<<<f, i>>, item>> \in Mentions(key)
  <2>1. CASE f \in DOMAIN log /\ HasId(log[f].body, key, i) /\ item = log[f].body.items[i].item
    <3>1. <<<<f, i>>, item>> \in In(f)
      BY <1>2, <2>1
    <3> HIDE DEF In, Host
    <3> QED
      BY <1>1, <1>5, <2>1, <3>1
  <2>2. CASE f = 0 /\ i = 0 /\ key \in DOMAIN config.preloaded /\ item = config.preloaded[key]
    <3>1. <<<<f, i>>, item>> \in Host
      BY <2>2
    <3> HIDE DEF In, Host
    <3> QED
      BY <1>1, <3>1
  <2> QED
    BY <1>4, <2>1, <2>2 DEF Mentioned
<1> QED
  BY <1>3, <1>4

\* Any mention that no other comes after holds the item that counts.
LEMMA LastIs ==
  ASSUME NEW key, NEW f \in Nat, NEW i \in Nat, NEW item,
         <<<<f, i>>, item>> \in Mentions(key),
         \A m \in Mentions(key) :
           /\ m[1][1] \in Nat /\ m[1][2] \in Nat
           /\ m[1][1] < f \/ (m[1][1] = f /\ m[1][2] <= i)
           /\ m[1][1] = f /\ m[1][2] = i => m[2] = item
  PROVE  LastMention(key) = item
<1> DEFINE After(m, n) == n[1][1] < m[1][1] \/ (n[1][1] = m[1][1] /\ n[1][2] <= m[1][2])
           p == <<<<f, i>>, item>>
           l == CHOOSE m \in Mentions(key) : \A n \in Mentions(key) : After(m, n)
<1>1. p \in Mentions(key) /\ p[1][1] = f /\ p[1][2] = i
  OBVIOUS
<1>2. \A n \in Mentions(key) : After(p, n)
  BY <1>1
<1>3. l \in Mentions(key) /\ \A n \in Mentions(key) : After(l, n)
  BY <1>1, <1>2
<1>4. LastMention(key) = l[2]
  BY DEF LastMention
<1> HIDE DEF l, p
<1>5. l[1][1] = f /\ l[1][2] = i
  BY <1>1, <1>3
<1> QED
  BY <1>3, <1>4, <1>5

LEMMA BibFacts ==
  ASSUME NEW body \in BibBodies
  PROVE  Len(body.items) \in Nat /\ DOMAIN body.items = 1..Len(body.items)
BY SourcesAssumption

\* What a bibliography holds of `key`.
Held(key) == IF key \in DOMAIN fromFiles THEN fromFiles[key] ELSE config.preloaded[key]

LEMMA HeldIsLast ==
  ASSUME Control, NEW key, Reads(key), \A f \in DOMAIN log : log[f].body \in BibBodies
  PROVE  /\ key \in DOMAIN fromFiles \cup DOMAIN config.preloaded <=> Mentions(key) # {}
         /\ Mentions(key) # {} => LastMention(key) = Held(key)
<1> DEFINE item == Held(key)
<1>2. \A f \in DOMAIN log :
        /\ f \in Nat /\ 0 < f /\ Len(log[f].body.items) \in Nat
        /\ DOMAIN log[f].body.items = 1..Len(log[f].body.items)
  <2>1. DOMAIN log = 1..Len(log) /\ Len(log) \in Nat
    BY AppendListed DEF Control
  <2> QED
    BY <2>1, BibFacts
<1>3. /\ \A m \in Mentions(key) : Mentioned(key, m[1][1], m[1][2], m[2])
      /\ \A f, i, v : Mentioned(key, f, i, v) => <<<<f, i>>, v>> \in Mentions(key)
  BY <1>2, MentionsAre
<1>4. \A f, i : f \in DOMAIN log /\ HasId(log[f].body, key, i)
                  => i \in 1..Len(log[f].body.items) /\ i \in Nat
  BY <1>2 DEF HasId
<1>5. CASE key \in DOMAIN fromFiles
  <2>1. PICK f \in DOMAIN log : \E i \in 1..Len(log[f].body.items) :
          IsLast(key, f, i) /\ fromFiles[key] = log[f].body.items[i].item
    BY <1>5 DEF Reads
  <2>2. PICK i \in 1..Len(log[f].body.items) :
          IsLast(key, f, i) /\ fromFiles[key] = log[f].body.items[i].item
    BY <2>1
  <2>3. f \in Nat /\ 0 < f /\ i \in Nat /\ item = log[f].body.items[i].item
    BY <1>2, <1>5, <2>2 DEF Held
  <2>4. <<<<f, i>>, item>> \in Mentions(key)
    <3>1. Mentioned(key, f, i, item)
      BY <2>2, <2>3 DEF IsLast, Mentioned
    <3> QED
      BY <1>3, <3>1
  <2>5. ASSUME NEW m \in Mentions(key)
        PROVE  /\ m[1][1] \in Nat /\ m[1][2] \in Nat
               /\ m[1][1] < f \/ (m[1][1] = f /\ m[1][2] <= i)
               /\ m[1][1] = f /\ m[1][2] = i => m[2] = item
    <3>1. Mentioned(key, m[1][1], m[1][2], m[2])
      BY <1>3
    <3>2. CASE m[1][1] = 0 /\ m[1][2] = 0
      BY <2>3, <3>2
    <3>3. CASE /\ m[1][1] \in DOMAIN log /\ HasId(log[m[1][1]].body, key, m[1][2])
               /\ m[2] = log[m[1][1]].body.items[m[1][2]].item
      <4>1. m[1][2] \in 1..Len(log[m[1][1]].body.items) /\ m[1][2] \in Nat /\ m[1][1] \in Nat
        BY <1>2, <1>4, <3>3
      <4>2. m[1][1] < f \/ (m[1][1] = f /\ m[1][2] <= i)
        BY <2>2, <3>3, <4>1 DEF IsLast
      <4> QED
        BY <2>3, <3>3, <4>1, <4>2
    <3> QED
      BY <3>1, <3>2, <3>3 DEF Mentioned
  <2> HIDE DEF item
  <2>6. LastMention(key) = item
    BY <2>3, <2>4, <2>5, LastIs
  <2> QED
    BY <1>5, <2>4, <2>6 DEF item
<1>6. CASE key \notin DOMAIN fromFiles
  <2>1. ASSUME NEW m \in Mentions(key)
        PROVE  /\ key \in DOMAIN config.preloaded
               /\ m[1][1] = 0 /\ m[1][2] = 0 /\ m[2] = item
    <3>1. Mentioned(key, m[1][1], m[1][2], m[2])
      BY <1>3
    <3>2. ~(m[1][1] \in DOMAIN log /\ HasId(log[m[1][1]].body, key, m[1][2]))
      BY <1>4, <1>6 DEF Reads
    <3> QED
      BY <1>6, <3>1, <3>2 DEF Mentioned, Held
  <2>2. CASE key \notin DOMAIN config.preloaded
    BY <1>6, <2>1, <2>2
  <2>3. CASE key \in DOMAIN config.preloaded
    <3>1. <<<<0, 0>>, item>> \in Mentions(key)
      <4>1. Mentioned(key, 0, 0, item)
        BY <1>6, <2>3 DEF Mentioned, Held
      <4> QED
        BY <1>3, <4>1
    <3> HIDE DEF item
    <3>2. \A m \in Mentions(key) :
            /\ m[1][1] \in Nat /\ m[1][2] \in Nat
            /\ m[1][1] < 0 \/ (m[1][1] = 0 /\ m[1][2] <= 0)
            /\ m[1][1] = 0 /\ m[1][2] = 0 => m[2] = item
      BY <2>1
    <3>3. LastMention(key) = item
      BY <3>1, <3>2, LastIs
    <3> QED
      BY <2>3, <3>1, <3>3 DEF item
  <2> QED
    BY <2>2, <2>3
<1> QED
  BY <1>5, <1>6

\* What a bibliography answers with is the last mention of the key.
LEMMA LookUpSays ==
  ASSUME Control, NEW key, Reads(key), \A f \in DOMAIN log : log[f].body \in BibBodies
  PROVE  /\ LookUp(key).outcome = "concrete"
              <=> Mentions(key) # {} /\ LastMention(key) # NotObject
         /\ LookUp(key).outcome # "chained"
         /\ LookUp(key).outcome = "concrete" => LookUp(key).csl = LastMention(key)
<1>1. /\ key \in DOMAIN fromFiles \cup DOMAIN config.preloaded <=> Mentions(key) # {}
      /\ Mentions(key) # {} => LastMention(key) = Held(key)
  BY HeldIsLast
<1>2. LookUp(key) =
        IF key \notin DOMAIN fromFiles \cup DOMAIN config.preloaded THEN Missing(key)
        ELSE IF Held(key) = NotObject THEN Failed(key) ELSE Concrete(key, Held(key))
  BY DEF LookUp, Held
<1> QED
  BY <1>1, <1>2 DEF Missing, Failed, Concrete

\* One more file, read whole: of each id the last item there is now.
LEMMA ReadsMore ==
  ASSUME NEW key, Reads(key), Listed(log), NEW event, log' = Append(log, event),
         event.body \in BibBodies, fromFiles' = Loaded(event.body)
  PROVE  Reads(key)'
<1> DEFINE body == event.body
           m == Len(body.items)
           l == Len(log) + 1
<1>1. m \in Nat /\ Len(log) \in Nat /\ l \in Nat
  BY BibFacts, AppendListed
<1>2. /\ DOMAIN log = 1..Len(log) /\ DOMAIN log' = 1..l
      /\ \A f \in 1..Len(log) : log'[f] = log[f]
      /\ log'[l] = event
  BY AppendListed
<1>3. HoldsLast(fromFiles', body, m)
  BY <1>1, LoadedHoldsLast
<1>4. /\ key \in DOMAIN fromFiles'
           <=> key \in DOMAIN fromFiles \/ \E i \in 1..m : HasId(body, key, i)
      /\ key \in DOMAIN fromFiles' =>
           \/ \E i \in 1..m : /\ HasId(body, key, i) /\ fromFiles'[key] = body.items[i].item
                              /\ \A j \in 1..m : HasId(body, key, j) => j <= i
           \/ /\ \A i \in 1..m : ~HasId(body, key, i)
              /\ fromFiles'[key] = fromFiles[key]
  BY <1>3 DEF HoldsLast
<1>5. l \in DOMAIN log' /\ log'[l].body = body
  BY <1>1, <1>2
<1>6. \A f \in DOMAIN log' : f = l \/ (f \in DOMAIN log /\ log'[f] = log[f] /\ f < l)
  BY <1>1, <1>2
<1>7. \A f \in DOMAIN log : f \in DOMAIN log' /\ log'[f] = log[f] /\ f < l
  BY <1>1, <1>2
<1>8. key \in DOMAIN fromFiles
        <=> \E f \in DOMAIN log : \E i \in 1..Len(log[f].body.items) :
              HasId(log[f].body, key, i)
  BY DEF Reads
<1> DEFINE here == \E i \in 1..m : HasId(body, key, i)
           before == \E f \in DOMAIN log : \E i \in 1..Len(log[f].body.items) :
                       HasId(log[f].body, key, i)
           now == \E f \in DOMAIN log' : \E i \in 1..Len(log'[f].body.items) :
                    HasId(log'[f].body, key, i)
           last == \E f \in DOMAIN log' : \E i \in 1..Len(log'[f].body.items) :
                     /\ f \in DOMAIN log' /\ HasId(log'[f].body, key, i)
                     /\ \A g \in DOMAIN log' : \A j \in 1..Len(log'[g].body.items) :
                          HasId(log'[g].body, key, j) => g < f \/ (g = f /\ j <= i)
                     /\ fromFiles'[key] = log'[f].body.items[i].item
<1> HIDE DEF body, m, l
<1>9. now <=> before \/ here
  BY <1>5, <1>6, <1>7 DEF m
<1>10. ASSUME here PROVE last
  <2>1. PICK i \in 1..m : /\ HasId(body, key, i) /\ fromFiles'[key] = body.items[i].item
                          /\ \A j \in 1..m : HasId(body, key, j) => j <= i
    BY <1>4, <1>10
  <2>2. i \in 1..Len(log'[l].body.items)
    BY <1>5 DEF m
  <2>3. ASSUME NEW g \in DOMAIN log', NEW j \in 1..Len(log'[g].body.items),
               HasId(log'[g].body, key, j)
        PROVE  g < l \/ (g = l /\ j <= i)
    BY <1>5, <1>6, <2>1, <2>3 DEF m
  <2> QED
    BY <1>5, <2>1, <2>2, <2>3
<1>11. ASSUME ~here, key \in DOMAIN fromFiles PROVE last
  <2>1. fromFiles'[key] = fromFiles[key]
    BY <1>4, <1>11
  <2>2. PICK f \in DOMAIN log : \E i \in 1..Len(log[f].body.items) :
          IsLast(key, f, i) /\ fromFiles[key] = log[f].body.items[i].item
    BY <1>11 DEF Reads
  <2>3. PICK i \in 1..Len(log[f].body.items) :
          IsLast(key, f, i) /\ fromFiles[key] = log[f].body.items[i].item
    BY <2>2
  <2>4. /\ f \in DOMAIN log' /\ log'[f] = log[f] /\ HasId(log[f].body, key, i)
        /\ \A g \in DOMAIN log : \A j \in 1..Len(log[g].body.items) :
             HasId(log[g].body, key, j) => g < f \/ (g = f /\ j <= i)
    BY <1>7, <2>3 DEF IsLast
  <2>5. ASSUME NEW g \in DOMAIN log', NEW j \in 1..Len(log'[g].body.items),
               HasId(log'[g].body, key, j)
        PROVE  g < f \/ (g = f /\ j <= i)
    <3>1. g # l
      BY <1>5, <1>11, <2>5 DEF m
    <3> QED
      BY <1>6, <2>4, <2>5, <3>1
  <2> QED
    BY <2>1, <2>3, <2>4, <2>5
<1> HIDE DEF here, before, now, last
<1>12. key \in DOMAIN fromFiles' <=> now
  BY <1>4, <1>8, <1>9 DEF here, before
<1>13. key \in DOMAIN fromFiles' => last
  BY <1>4, <1>10, <1>11 DEF here
<1> QED
  BY <1>12, <1>13 DEF now, last, Reads, IsLast

------------------------------------------------------------------------------
(* The records a source stores.                                              *)

\* A record that is kept says what the one that was sent says.
KeepsRecord(sent, kept) ==
  /\ "doi" \notin DOMAIN kept
  /\ {"DOI", "doi"} \cap DOMAIN sent # {} <=> "DOI" \in DOMAIN kept
  /\ \A f \in DOMAIN sent \ {"doi"} : kept[f] = sent[f]
  /\ DOMAIN sent \cap {"DOI", "doi"} = {"doi"} => kept["DOI"] = sent["doi"]

LEMMA CanonicalKeeps == ASSUME NEW csl PROVE KeepsRecord(csl, CanonicalizeDoi(csl))
<1>1. CASE "doi" \notin DOMAIN csl
  BY <1>1 DEF CanonicalizeDoi, KeepsRecord
<1>2. CASE "doi" \in DOMAIN csl
  <2> DEFINE kept == [f \in (DOMAIN csl \ {"doi"}) \cup {"DOI"} |->
                        IF f \in DOMAIN csl THEN csl[f] ELSE csl["doi"]]
  <2>1. CanonicalizeDoi(csl) = kept
    BY <1>2 DEF CanonicalizeDoi
  <2>2. "doi" \notin DOMAIN kept /\ "DOI" \in DOMAIN kept
    OBVIOUS
  <2>3. \A f \in DOMAIN csl \ {"doi"} : kept[f] = csl[f]
    OBVIOUS
  <2>4. DOMAIN csl \cap {"DOI", "doi"} = {"doi"} => kept["DOI"] = csl["doi"]
    OBVIOUS
  <2> HIDE DEF kept
  <2> QED
    BY <1>2, <2>1, <2>2, <2>3, <2>4 DEF KeepsRecord
<1> QED
  BY <1>1, <1>2

LEMMA RecordInit == Init => RecordInv
BY DEF Init, RecordInv, FilesRead, RecordKept, LaterFileWins, DoiFieldKept, Reads

\* A source without records to keep, and a chunk that failed as a whole.
LEMMA OtherSources ==
  ASSUME Control', config'.source \notin {"doi", "bibfile"} PROVE RecordInv'
BY DEF Control, RecordInv, FilesRead, RecordKept, LaterFileWins, DoiFieldKept

LEMMA FailedChunk == ASSUME FailAll PROVE RecordInv'
<1>1. phase' = "done" /\ \A i \in DOMAIN answers' : answers'[i].outcome = "failed"
  BY DEF FailAll, Answer, Failed
<1> QED
  BY <1>1 DEF RecordInv, FilesRead, RecordKept, LaterFileWins, DoiFieldKept

LEMMA LoadFileRecords == ASSUME SourcesInv, RecordInv, LoadFile PROVE RecordInv'
<1> DEFINE file == config.files[Len(log) + 1]
           Bodies == BibBodies \cup {Garbled, NotObject}
<1>1. PICK event \in Events(file, Bodies) :
        /\ log' = Append(log, event)
        /\ IF /\ IsSuccess(Fetched(file, event))
              /\ Fetched(file, event).body \notin {Garbled, NotObject}
           THEN fromFiles' = Loaded(Fetched(file, event).body) /\ UNCHANGED <<phase, answers>>
           ELSE FailAll
  BY DEF LoadFile
<1>2. CASE FailAll
  BY <1>2, FailedChunk
<1>3. CASE /\ IsSuccess(Fetched(file, event))
           /\ Fetched(file, event).body \notin {Garbled, NotObject}
  <2>1. Cut \notin Bodies
    BY SourcesAssumption
  <2>2. Fetched(file, event).body = event.body /\ event.body \in Bodies
    <3> HIDE DEF file, Bodies
    <3> QED
      BY <1>3, <2>1, SuccessBody
  <2>3. event.body \in BibBodies /\ fromFiles' = Loaded(event.body)
    BY <1>1, <1>3, <2>2
  <2>4. /\ config' = config /\ phase = "load" /\ phase' = "load" /\ answers' = answers
        /\ config.source = "bibfile" /\ answers = <<>> /\ Listed(log) /\ Keys' = Keys
    BY <1>1, <1>3 DEF LoadFile, SourcesInv, Control, Keys
  <2>5. /\ \A f \in DOMAIN log : log[f].body \in BibBodies
        /\ \A n \in DOMAIN Keys : Reads(Keys[n])
    BY <2>4 DEF RecordInv, FilesRead
  <2>6. \A f \in DOMAIN log' : log'[f].body \in BibBodies
    <3>1. /\ DOMAIN log = 1..Len(log) /\ DOMAIN log' = 1..(Len(log) + 1) /\ Len(log) \in Nat
          /\ \A f \in 1..Len(log) : log'[f] = log[f]
          /\ log'[Len(log) + 1] = event
      BY <1>1, <2>4, AppendListed
    <3>2. \A f \in DOMAIN log' : f \in DOMAIN log \/ f = Len(log) + 1
      BY <3>1
    <3> QED
      BY <2>3, <2>5, <3>1, <3>2
  <2>7. ASSUME NEW n \in DOMAIN Keys' PROVE Reads(Keys[n])'
    <3>1. PICK key : key = Keys[n]
      OBVIOUS
    <3>2. Reads(key) /\ Keys'[n] = key
      BY <2>4, <2>5, <3>1
    <3>3. Reads(key)'
      BY <1>1, <2>3, <2>4, <3>2, ReadsMore
    <3> QED
      BY <3>2, <3>3 DEF Reads, IsLast
  <2>8. FilesRead'
    BY <2>6, <2>7 DEF FilesRead
  <2>9. RecordKept'
    BY <2>4 DEF RecordKept, LaterFileWins, DoiFieldKept
  <2> QED
    BY <2>8, <2>9 DEF RecordInv
<1> QED
  BY <1>1, <1>2, <1>3

LEMMA LookUpRecords == ASSUME SourcesInv, RecordInv, LookUpAll PROVE RecordInv'
<1>1. /\ config' = config /\ log' = log /\ phase = "load" /\ phase' = "done"
      /\ config.source = "bibfile" /\ Control /\ Keys' = Keys
      /\ answers' = [i \in DOMAIN Keys |-> LookUp(Keys[i])]
  BY DEF LookUpAll, Answer, SourcesInv, Control, Keys
<1>2. \A f \in DOMAIN log : log[f].body \in BibBodies
  BY <1>1 DEF RecordInv, FilesRead
<1>3. ASSUME NEW i \in DOMAIN answers', answers'[i].outcome = "concrete"
      PROVE  answers'[i].csl = LastMention(Keys[i])'
  <2>1. PICK key : key = Keys[i]
    OBVIOUS
  <2>2. i \in DOMAIN Keys /\ Reads(key) /\ answers'[i] = LookUp(key)
    BY <1>1, <2>1 DEF RecordInv, FilesRead
  <2>3. answers'[i].csl = LastMention(key)
    BY <1>1, <1>2, <1>3, <2>2, LookUpSays
  <2>4. LastMention(Keys[i])' = LastMention(key)
    BY <1>1, <2>1 DEF LastMention, Mentions, Keys
  <2> QED
    BY <2>3, <2>4
<1> QED
  BY <1>1, <1>3 DEF RecordInv, FilesRead, RecordKept, LaterFileWins, DoiFieldKept

LEMMA ResolveOneRecords == ASSUME SourcesInv, RecordInv, ResolveOne PROVE RecordInv'
<1> DEFINE n == Len(answers) + 1
           key == Keys[n]
           Keeps(answer, event) ==
             answer.outcome = "concrete" => KeepsRecord(event.body, answer.csl)
<1>1. /\ config' = config /\ config.source = "doi" /\ phase' # "load"
      /\ Listed(log) /\ Listed(answers) /\ Len(log) = Len(answers)
  BY DEF SourcesInv, Control, ResolveOne
<1>2. PICK event, answer :
        /\ log' = Append(log, event) /\ answers' = Append(answers, answer)
        /\ Keeps(answer, event)
  <2>1. CASE key = <<>> \/ Space \in ToSet(key)
    BY <2>1 DEF ResolveOne, Failed
  <2>2. CASE ~(key = <<>> \/ Space \in ToSet(key))
    <3> DEFINE Bodies == DoiBodies \cup {Garbled, NotObject}
    <3>1. PICK event \in Events("https", Bodies) :
            /\ log' = Append(log, event)
            /\ answers' = Append(answers, DoiAnswer(key, Fetched("https", event)))
      BY <2>2 DEF ResolveOne
    <3>2. PICK answer : answer = DoiAnswer(key, Fetched("https", event))
      OBVIOUS
    <3>3. ASSUME answer.outcome = "concrete" PROVE KeepsRecord(event.body, answer.csl)
      <4>1. /\ IsSuccess(Fetched("https", event))
            /\ answer.csl = CanonicalizeDoi(Fetched("https", event).body)
        BY <3>2, <3>3 DEF DoiAnswer, Concrete, Failed, Missing
      <4>2. Cut \notin Bodies
        BY SourcesAssumption
      <4>3. Fetched("https", event).body = event.body
        <5> HIDE DEF Bodies
        <5> QED
          BY <4>1, <4>2, SuccessBody
      <4> QED
        BY <4>1, <4>3, CanonicalKeeps
    <3> WITNESS event, answer
    <3> QED
      BY <3>1, <3>2, <3>3
  <2> QED
    BY <2>1, <2>2
<1>3. /\ DOMAIN log = 1..Len(log) /\ log'[Len(log) + 1] = event
      /\ \A i \in 1..Len(log) : log'[i] = log[i]
  BY <1>1, <1>2, AppendListed
<1>4. /\ DOMAIN answers' = 1..n /\ answers'[n] = answer /\ Len(answers) \in Nat
      /\ DOMAIN answers = 1..Len(answers)
      /\ \A i \in 1..Len(answers) : answers'[i] = answers[i]
  BY <1>1, <1>2, AppendListed
<1>5. ASSUME NEW i \in DOMAIN answers', answers'[i].outcome = "concrete"
      PROVE  KeepsRecord(log'[i].body, answers'[i].csl)
  <2>1. CASE i = n
    BY <1>1, <1>2, <1>3, <1>4, <1>5, <2>1
  <2>2. CASE i # n
    <3>1. i \in DOMAIN answers /\ answers'[i] = answers[i] /\ log'[i] = log[i]
      BY <1>1, <1>3, <1>4, <2>2
    <3>2. KeepsRecord(log[i].body, answers[i].csl)
      BY <1>1, <1>5, <3>1 DEF RecordInv, RecordKept, DoiFieldKept, KeepsRecord
    <3> QED
      BY <3>1, <3>2
  <2> QED
    BY <2>1, <2>2
<1> QED
  BY <1>1, <1>5 DEF RecordInv, FilesRead, RecordKept, LaterFileWins, DoiFieldKept, KeepsRecord

LEMMA RecordStep == SourcesInv /\ RecordInv /\ [Next]_vars => RecordInv'
<1> SUFFICES ASSUME SourcesInv, RecordInv, [Next]_vars PROVE RecordInv'
  OBVIOUS
<1>1. Control /\ Control'
  BY SourcesStep DEF SourcesInv
<1>2. ASSUME config' = config, phase \in {"overrides", "query", "feed", "format"}
      PROVE  RecordInv'
  BY <1>1, <1>2, OtherSources DEF Control
<1>3. CASE LoadOverrides
  BY <1>2, <1>3 DEF LoadOverrides
<1>4. CASE Query
  BY <1>2, <1>4 DEF Query
<1>5. CASE ReadFeed
  BY <1>2, <1>5 DEF ReadFeed, OpenElement, CloseElement, Characters, BreakFeed, EndFeed
<1>6. CASE Format
  BY <1>2, <1>6 DEF Format
<1>7. CASE LoadFile
  BY <1>7, LoadFileRecords
<1>8. CASE LookUpAll
  BY <1>8, LookUpRecords
<1>9. CASE ResolveOne
  BY <1>9, ResolveOneRecords
<1>10. CASE Stop \/ UNCHANGED vars
  <2>1. UNCHANGED <<config, phase, answers, log, fromFiles>>
    BY <1>10 DEF Stop, vars
  <2>2. FilesRead'
    BY <2>1 DEF RecordInv, FilesRead, Reads, IsLast, Keys
  <2>3. RecordKept'
    BY <2>1 DEF RecordInv, RecordKept, LaterFileWins, DoiFieldKept, LastMention, Mentions, Keys
  <2> QED
    BY <2>2, <2>3 DEF RecordInv
<1> QED
  BY <1>3, <1>4, <1>5, <1>6, <1>7, <1>8, <1>9, <1>10 DEF Next

\* Whatever the files and doi.org hold, the record of a key is theirs: of all the items
\* that have its id the last one of the last file, the host's own where no file has it;
\* of a DOI every field as it was sent, under the one spelling of its DOI field.
THEOREM RecordKeptAlways == Spec => []RecordKept
<1>1. RecordInv => RecordKept
  BY DEF RecordInv
<1> QED
  BY <1>1, SourcesInvariant, RecordInit, RecordStep, PTL DEF Spec

------------------------------------------------------------------------------
(* Sequences: the last item, and the concatenation of a sequence of           *)
(* sequences.                                                                *)

\* The last item of a sequence, taken off and changed.
LEMMA LastOfAppend ==
  ASSUME NEW s, Listed(s), NEW e, NEW f
  PROVE  /\ Front(Append(s, e)) = s /\ Last(Append(s, e)) = e
         /\ [Append(s, e) EXCEPT ![Len(s) + 1] = f] = Append(s, f)
<1> DEFINE S == {s[i] : i \in DOMAIN s} \cup {e, f}
           n == Len(s)
           t == Append(s, e)
           u == Append(s, f)
           v == [t EXCEPT ![n + 1] = f]
<1>1. s \in Seq(S) /\ n \in Nat
  BY DEF Listed
<1>2. /\ t \in Seq(S) /\ Len(t) = n + 1 /\ t[n + 1] = e
      /\ \A i \in 1..n : t[i] = s[i]
  BY <1>1, AppendListed
<1>3. /\ u \in Seq(S) /\ Len(u) = n + 1 /\ u[n + 1] = f
      /\ \A i \in 1..n : u[i] = s[i]
  BY <1>1, AppendListed
<1> HIDE DEF S, t, u
<1>4. Last(t) = e /\ Front(t) = SubSeq(t, 1, n)
  BY <1>1, <1>2 DEF Last, Front
<1>5. SubSeq(t, 1, n) = s
  <2>1. \A i \in 1..n : t[i] \in S
    BY <1>1, <1>2
  <2>2. /\ SubSeq(t, 1, n) \in Seq(S) /\ Len(SubSeq(t, 1, n)) = n
        /\ \A i \in 1..n : SubSeq(t, 1, n)[i] = t[i]
    BY <1>1, <2>1
  <2> QED
    BY <1>1, <1>2, <2>2, SeqEqual
<1>6. v = u
  <2>1. DOMAIN t = 1..(n + 1) /\ t \in [1..(n + 1) -> S] /\ f \in S
    BY <1>1, <1>2 DEF S
  <2>2. v \in Seq(S) /\ Len(v) = n + 1 /\ \A i \in 1..(n + 1) : v[i] = IF i = n + 1 THEN f ELSE t[i]
    BY <1>1, <1>2, <2>1
  <2>3. \A i \in 1..(n + 1) : v[i] = u[i]
    <3> SUFFICES ASSUME NEW i \in 1..(n + 1) PROVE v[i] = u[i]
      OBVIOUS
    <3>1. i = n + 1 \/ i \in 1..n
      BY <1>1
    <3> QED
      BY <1>2, <1>3, <2>2, <3>1
  <2> HIDE DEF v
  <2> QED
    BY <1>3, <2>2, <2>3, SeqEqual
<1> QED
  BY <1>4, <1>5, <1>6 DEF t, u

\* What is left of a sequence without its last item.
LEMMA FrontIs ==
  ASSUME NEW s, Listed(s), s # <<>>
  PROVE  /\ Len(s) \in Nat \ {0} /\ Last(s) = s[Len(s)]
         /\ Listed(Front(s)) /\ Len(Front(s)) = Len(s) - 1
         /\ \A i \in 1..(Len(s) - 1) : Front(s)[i] = s[i]
<1> DEFINE S == {s[i] : i \in DOMAIN s}
           t == Front(s)
<1>1. s \in Seq(S) /\ Len(s) \in Nat \ {0} /\ DOMAIN s = 1..Len(s)
  BY DEF Listed
<1>2. \A i \in 1..(Len(s) - 1) : s[i] \in S
  BY <1>1
<1>3. t \in Seq(S) /\ Len(t) = Len(s) - 1
  BY <1>1, <1>2 DEF Front
<1>4. \A i \in 1..(Len(s) - 1) : t[i] = s[i]
  BY <1>1 DEF Front
<1>5. Last(s) = s[Len(s)]
  BY <1>1 DEF Last
<1> HIDE DEF S, t
<1>6. t \in Seq({t[i] : i \in DOMAIN t})
  BY <1>3
<1> QED
  BY <1>1, <1>3, <1>4, <1>5, <1>6 DEF Listed, t

\* The concatenations of the first parts of a sequence.
IsFlat(w, p, n) ==
  /\ w = [i \in 1..n |-> w[i]]
  /\ \A i \in 1..n : w[i] = IF i = 1 THEN p[i] ELSE w[i - 1] \o p[i]

LEMMA FlatExists == ASSUME NEW p, NEW m \in Nat PROVE \E w : IsFlat(w, p, m)
<1> DEFINE S == {k \in Nat : \E w : IsFlat(w, p, k)}
<1>1. 0 \in S
  <2> DEFINE w == [i \in 1..0 |-> p[i]]
  <2>1. w = [i \in 1..0 |-> w[i]]
    OBVIOUS
  <2> HIDE DEF w
  <2>2. IsFlat(w, p, 0)
    BY <2>1 DEF IsFlat
  <2> QED
    BY <2>2
<1>2. ASSUME NEW k \in S PROVE k + 1 \in S
  <2>1. k \in Nat
    OBVIOUS
  <2>2. PICK w : IsFlat(w, p, k)
    BY <1>2
  <2> DEFINE next == IF k = 0 THEN p[1] ELSE w[k] \o p[k + 1]
             v == [i \in 1..(k + 1) |-> IF i = k + 1 THEN next ELSE w[i]]
  <2>3. /\ v = [i \in 1..(k + 1) |-> v[i]]
        /\ v[k + 1] = next
        /\ \A i \in 1..k : v[i] = w[i]
    <3>1. \A i \in 1..k : i \in 1..(k + 1) /\ i # k + 1
      BY <2>1
    <3>2. k + 1 \in 1..(k + 1)
      BY <2>1
    <3> HIDE DEF next
    <3> QED
      BY <3>1, <3>2
  <2> HIDE DEF v
  <2>4. ASSUME NEW i \in 1..(k + 1) PROVE v[i] = IF i = 1 THEN p[i] ELSE v[i - 1] \o p[i]
    <3>1. CASE i = k + 1
      <4>1. CASE k = 0
        BY <2>3, <3>1, <4>1
      <4>2. CASE k # 0
        <5>1. i - 1 = k /\ k \in 1..k /\ i # 1
          BY <2>1, <3>1, <4>2
        <5> QED
          BY <2>3, <3>1, <4>2, <5>1
      <4> QED
        BY <4>1, <4>2
    <3>2. CASE i # k + 1
      <4>1. i \in 1..k /\ (i # 1 => i - 1 \in 1..k)
        BY <2>1, <3>2
      <4> QED
        BY <2>2, <2>3, <4>1 DEF IsFlat
    <3> QED
      BY <3>1, <3>2
  <2>5. IsFlat(v, p, k + 1)
    BY <2>3, <2>4 DEF IsFlat
  <2> QED
    BY <2>1, <2>5
<1> HIDE DEF S
<1>3. S \in SUBSET Nat
  BY DEF S
<1>4. S = Nat
  BY <1>1, <1>2, <1>3, NaturalInduction
<1> QED
  BY <1>4 DEF S

\* Two sequences that begin alike.
SameUpTo(s, t, n) == \A i \in 1..n : s[i] = t[i]

LEMMA FlatAgree ==
  ASSUME NEW p, NEW q, NEW n \in Nat, NEW m \in Nat, n <= m, SameUpTo(p, q, n),
         NEW w, NEW v, IsFlat(w, p, n), IsFlat(v, q, m)
  PROVE  SameUpTo(w, v, n)
<1> DEFINE S == {k \in Nat : k \in 1..n => w[k] = v[k]}
<1>1. 0 \in S
  OBVIOUS
<1>2. ASSUME NEW k \in S PROVE k + 1 \in S
  <2>1. k \in Nat /\ (k + 1) - 1 = k
    OBVIOUS
  <2>2. ASSUME k + 1 \in 1..n PROVE w[k + 1] = v[k + 1]
    <3>1. k + 1 \in 1..m /\ (k + 1 # 1 => k \in 1..n)
      BY <2>1, <2>2
    <3>2. /\ w[k + 1] = IF k + 1 = 1 THEN p[k + 1] ELSE w[k] \o p[k + 1]
          /\ v[k + 1] = IF k + 1 = 1 THEN q[k + 1] ELSE v[k] \o q[k + 1]
      BY <2>1, <2>2, <3>1 DEF IsFlat
    <3>3. k + 1 # 1 => w[k] = v[k]
      BY <1>2, <3>1
    <3>4. p[k + 1] = q[k + 1]
      BY <2>2 DEF SameUpTo
    <3> QED
      BY <2>1, <2>2, <3>2, <3>3, <3>4
  <2> QED
    BY <2>1, <2>2
<1> HIDE DEF S
<1>3. S \in SUBSET Nat
  BY DEF S
<1>4. S = Nat
  BY <1>1, <1>2, <1>3, NaturalInduction
<1> QED
  BY <1>4 DEF S, SameUpTo

LEMMA FlatTyped ==
  ASSUME NEW T, NEW p \in Seq(Seq(T)), NEW w, IsFlat(w, p, Len(p))
  PROVE  \A i \in 1..Len(p) : w[i] \in Seq(T)
<1> DEFINE S == {k \in Nat : k \in 1..Len(p) => w[k] \in Seq(T)}
<1>0. Len(p) \in Nat /\ \A i \in 1..Len(p) : p[i] \in Seq(T)
  OBVIOUS
<1>1. 0 \in S
  OBVIOUS
<1>2. ASSUME NEW k \in S PROVE k + 1 \in S
  <2>1. k \in Nat /\ (k + 1) - 1 = k
    OBVIOUS
  <2>2. ASSUME k + 1 \in 1..Len(p) PROVE w[k + 1] \in Seq(T)
    <3>1. w[k + 1] = IF k + 1 = 1 THEN p[k + 1] ELSE w[k] \o p[k + 1]
      BY <2>1, <2>2 DEF IsFlat
    <3>2. k + 1 # 1 => k \in 1..Len(p) /\ w[k] \in Seq(T)
      BY <1>0, <1>2, <2>1, <2>2
    <3>3. p[k + 1] \in Seq(T)
      BY <1>0, <2>2
    <3>4. \A a, b \in Seq(T) : a \o b \in Seq(T)
      OBVIOUS
    <3> QED
      BY <3>1, <3>2, <3>3, <3>4
  <2> QED
    BY <2>1, <2>2
<1> HIDE DEF S
<1>3. S \in SUBSET Nat
  BY DEF S
<1>4. S = Nat
  BY <1>1, <1>2, <1>3, NaturalInduction
<1> QED
  BY <1>4 DEF S

LEMMA FlattenIs ==
  ASSUME NEW p, Len(p) \in Nat \ {0}
  PROVE  \E w : IsFlat(w, p, Len(p)) /\ FlattenSeq(p) = w[Len(p)]
<1> DEFINE m == Len(p)
           Follows(w) == w = [i \in 1..m |-> IF i = 1 THEN p[i] ELSE w[i - 1] \o p[i]]
           g == CHOOSE w : Follows(w)
<1>1. FlattenSeq(p) = g[m]
  BY DEF FlattenSeq
<1>2. \E w : Follows(w)
  <2>1. PICK w : IsFlat(w, p, m)
    BY FlatExists
  <2>2. Follows(w)
    BY <2>1 DEF IsFlat
  <2> QED
    BY <2>2
<1>3. Follows(g)
  BY <1>2
<1> HIDE DEF g
<1>4. IsFlat(g, p, m)
  BY <1>3 DEF IsFlat
<1> QED
  BY <1>1, <1>4

\* One part more is appended.
LEMMA FlattenAppend ==
  ASSUME NEW T, NEW p \in Seq(Seq(T)), NEW x \in Seq(T)
  PROVE  /\ FlattenSeq(p) \in Seq(T)
         /\ FlattenSeq(Append(p, x)) = FlattenSeq(p) \o x
<1> DEFINE q == Append(p, x)
           n == Len(p)
<1>1. /\ q \in Seq(Seq(T)) /\ n \in Nat /\ Len(q) = n + 1 /\ q[n + 1] = x
      /\ \A i \in 1..n : q[i] = p[i]
  OBVIOUS
<1> HIDE DEF q
<1>2. PICK v : IsFlat(v, q, n + 1) /\ FlattenSeq(q) = v[n + 1]
  <2>1. Len(q) \in Nat \ {0}
    BY <1>1
  <2> QED
    BY <1>1, <2>1, FlattenIs
<1>3. CASE n = 0
  <2>1. p = <<>> /\ FlattenSeq(p) = <<>>
    BY <1>3 DEF FlattenSeq
  <2>2. v[1] = q[1]
    BY <1>2, <1>3 DEF IsFlat
  <2>3. <<>> \o x = x /\ <<>> \in Seq(T)
    BY ConcatEmptySeq
  <2>4. q[1] = x /\ FlattenSeq(q) = v[1]
    BY <1>1, <1>2, <1>3
  <2>5. FlattenSeq(q) = FlattenSeq(p) \o x /\ FlattenSeq(p) \in Seq(T)
    BY <2>1, <2>2, <2>3, <2>4
  <2> QED
    BY <2>5 DEF q
<1>4. CASE n # 0
  <2>1. PICK w : IsFlat(w, p, n) /\ FlattenSeq(p) = w[n]
    BY <1>1, <1>4, FlattenIs
  <2>2. SameUpTo(w, v, n)
    <3>1. n <= n + 1 /\ n + 1 \in Nat /\ SameUpTo(p, q, n)
      BY <1>1 DEF SameUpTo
    <3>2. IsFlat(w, p, n) /\ IsFlat(v, q, n + 1) /\ n \in Nat
      BY <1>1, <1>2, <2>1
    <3>3. PICK m \in Nat : m = n + 1
      BY <1>1
    <3>4. IsFlat(v, q, m) /\ n <= m
      BY <3>1, <3>2, <3>3
    <3> HIDE DEF n
    <3> QED
      BY <3>1, <3>2, <3>4, FlatAgree
  <2>3. v[n + 1] = v[n] \o x
    <3>1. n + 1 \in 1..(n + 1) /\ n + 1 # 1 /\ (n + 1) - 1 = n
      BY <1>1, <1>4
    <3> QED
      BY <1>1, <1>2, <3>1 DEF IsFlat
  <2>4. w[n] \in Seq(T) /\ n \in 1..n
    BY <1>1, <1>4, <2>1, FlatTyped
  <2> QED
    BY <1>2, <2>1, <2>2, <2>3, <2>4 DEF q, SameUpTo
<1> QED
  BY <1>3, <1>4

------------------------------------------------------------------------------
(* The open entry, as its elements say it.                                   *)
TitleOf(entry) ==
  LET titles == PlacesOf(entry, <<"title">>)
  IN  IF titles = {} THEN None ELSE CollapseWs(LastText(entry, titles))
FullDois(entry) == {i \in PlacesOf(entry, <<"doi">>) : Trim(entry[i].text) # <<>>}
DoiOf(entry) ==
  IF FullDois(entry) = {} THEN None ELSE Trim(LastText(entry, FullDois(entry)))
NamesIn(entry) ==
  [i \in DOMAIN entry |-> IF entry[i].path = <<"author", "name">>
                          THEN <<CollapseWs(entry[i].text)>> ELSE <<>>]
Raw(entry) ==
  [id |-> TrimmedAt(entry, <<"id">>), title |-> TitleOf(entry),
   published |-> TrimmedAt(entry, <<"published">>),
   updated |-> TrimmedAt(entry, <<"updated">>), doi |-> DoiOf(entry),
   authors |-> FlattenSeq(NamesIn(entry))]

\* What an entry is read as is what the parser makes of its elements.
LEMMA ReadIsInto == ASSUME NEW entry PROVE ReadEntry(entry) = IntoEntry(Raw(entry))
<1>1. CASE ~IsAbs(TrimmedAt(entry, <<"id">>))
  BY <1>1 DEF ReadEntry, IntoEntry, Raw
<1>2. CASE IsAbs(TrimmedAt(entry, <<"id">>))
  BY <1>2 DEF ReadEntry, IntoEntry, Raw, TitleOf, DoiOf, FullDois, NamesIn
<1> QED
  BY <1>1, <1>2

\* At most one record comes of an entry.
LEMMA ReadsOneAtMost ==
  ASSUME NEW entry, NEW r, r \in {ReadEntry(entry)}
  PROVE  r = <<>> \/ r = <<r[1]>>
BY DEF ReadEntry

LEMMA GreatestPlace ==
  ASSUME NEW n \in Nat, NEW S \in SUBSET (1..n), S # {}
  PROVE  \E i \in S : \A j \in S : j <= i
<1> DEFINE T == {k \in Nat : \A j \in S : j <= k}
<1>1. n \in T
  OBVIOUS
<1>2. PICK k \in T : \A m \in T : k <= m
  <2>1. T \in SUBSET Nat /\ T # {}
    BY <1>1
  <2> HIDE DEF T
  <2> QED
    BY <2>1, Least
<1>3. CASE k \in S
  BY <1>3
<1>4. CASE k \notin S
  <2>0. k \in Nat /\ \A j \in S : j \in Nat /\ j # 0 /\ j <= k /\ j # k
    BY <1>2, <1>4
  <2>1. k # 0
    <3>1. PICK j : j \in S
      OBVIOUS
    <3> QED
      BY <2>0, <3>1
  <2>2. k - 1 \in T
    BY <2>0, <2>1
  <2> QED
    BY <1>2, <2>2
<1> QED
  BY <1>3, <1>4

LEMMA LastTextAppend ==
  ASSUME NEW s, Listed(s), NEW e, NEW P \in SUBSET (DOMAIN s)
  PROVE  /\ P # {} => LastText(Append(s, e), P) = LastText(s, P)
         /\ LastText(Append(s, e), P \cup {Len(s) + 1}) = e.text
<1> DEFINE t == Append(s, e)
           n == Len(s)
           Q == P \cup {n + 1}
<1>1. /\ n \in Nat /\ P \subseteq 1..n /\ t[n + 1] = e
      /\ \A i \in 1..n : t[i] = s[i]
  BY AppendListed
<1> HIDE DEF t, n
<1>2. ASSUME P # {} PROVE LastText(t, P) = LastText(s, P)
  <2>1. \E i \in P : \A j \in P : j <= i
    BY <1>1, <1>2, GreatestPlace
  <2> DEFINE k == CHOOSE i \in P : \A j \in P : j <= i
  <2>2. k \in P
    BY <2>1
  <2> HIDE DEF k
  <2>3. t[k] = s[k]
    BY <1>1, <2>2
  <2> QED
    BY <2>3 DEF LastText, k
<1>3. LastText(t, Q) = e.text
  <2> DEFINE k == CHOOSE i \in Q : \A j \in Q : j <= i
  <2>1. n + 1 \in Q /\ \A j \in Q : j <= n + 1
    BY <1>1
  <2>2. k \in Q /\ \A j \in Q : j <= k
    BY <2>1
  <2>3. Q \subseteq Nat
    BY <1>1
  <2> HIDE DEF k, Q
  <2>4. k = n + 1
    BY <1>1, <2>1, <2>2, <2>3
  <2> QED
    BY <1>1, <2>4 DEF LastText, k
<1> QED
  BY <1>2, <1>3 DEF t, n

LEMMA PlacesAppend ==
  ASSUME NEW s, Listed(s), NEW e, NEW path
  PROVE  /\ PlacesOf(s, path) \in SUBSET (DOMAIN s)
         /\ e.path = path =>
              PlacesOf(Append(s, e), path) = PlacesOf(s, path) \cup {Len(s) + 1}
         /\ e.path # path => PlacesOf(Append(s, e), path) = PlacesOf(s, path)
<1> DEFINE t == Append(s, e)
           n == Len(s)
<1>1. /\ n \in Nat /\ DOMAIN s = 1..n /\ DOMAIN t = 1..(n + 1) /\ t[n + 1] = e
      /\ \A i \in 1..n : t[i] = s[i]
  BY AppendListed
<1> HIDE DEF t, n
<1>2. 1..(n + 1) = (1..n) \cup {n + 1}
  BY <1>1
<1> QED
  BY <1>1, <1>2 DEF PlacesOf, t, n

\* The last text at a path, of an entry one element longer.
LEMMA LastAtAppend ==
  ASSUME NEW s, Listed(s), NEW e, NEW path
  PROVE  LET places == PlacesOf(Append(s, e), path)
         IN  /\ places = {} <=> e.path # path /\ PlacesOf(s, path) = {}
             /\ places # {} =>
                  LastText(Append(s, e), places) =
                    IF e.path = path THEN e.text ELSE LastText(s, PlacesOf(s, path))
<1>1. PICK P : P = PlacesOf(s, path)
  OBVIOUS
<1>2. /\ P \in SUBSET (DOMAIN s)
      /\ e.path = path => PlacesOf(Append(s, e), path) = P \cup {Len(s) + 1}
      /\ e.path # path => PlacesOf(Append(s, e), path) = P
  BY <1>1, PlacesAppend
<1>3. /\ P # {} => LastText(Append(s, e), P) = LastText(s, P)
      /\ LastText(Append(s, e), P \cup {Len(s) + 1}) = e.text
  BY <1>2, LastTextAppend
<1> QED
  BY <1>1, <1>2, <1>3

LEMMA TrimmedAppend ==
  ASSUME NEW s, Listed(s), NEW e, NEW path
  PROVE  TrimmedAt(Append(s, e), path) =
           IF e.path = path THEN Trim(e.text) ELSE TrimmedAt(s, path)
BY LastAtAppend DEF TrimmedAt

LEMMA TitleAppend ==
  ASSUME NEW s, Listed(s), NEW e
  PROVE  TitleOf(Append(s, e)) =
           IF e.path = <<"title">> THEN CollapseWs(e.text) ELSE TitleOf(s)
<1>1. PICK path : path = <<"title">>
  OBVIOUS
<1>2. TitleOf(s) = IF PlacesOf(s, path) = {} THEN None
                   ELSE CollapseWs(LastText(s, PlacesOf(s, path)))
  BY <1>1 DEF TitleOf
<1>3. TitleOf(Append(s, e)) =
        IF PlacesOf(Append(s, e), path) = {} THEN None
        ELSE CollapseWs(LastText(Append(s, e), PlacesOf(Append(s, e), path)))
  BY <1>1 DEF TitleOf
<1>4. TitleOf(Append(s, e)) = IF e.path = path THEN CollapseWs(e.text) ELSE TitleOf(s)
  BY <1>2, <1>3, LastAtAppend
<1> QED
  BY <1>1, <1>4

LEMMA DoiAppend ==
  ASSUME NEW s, Listed(s), NEW e
  PROVE  DoiOf(Append(s, e)) =
           IF e.path = <<"doi">> /\ Trim(e.text) # <<>> THEN Trim(e.text) ELSE DoiOf(s)
<1> DEFINE t == Append(s, e)
           n == Len(s)
<1>1. /\ n \in Nat /\ DOMAIN s = 1..n /\ t[n + 1] = e
      /\ \A i \in 1..n : t[i] = s[i] /\ i # n + 1
  BY AppendListed
<1>2. /\ PlacesOf(s, <<"doi">>) \in SUBSET (DOMAIN s)
      /\ e.path = <<"doi">> => PlacesOf(t, <<"doi">>) = PlacesOf(s, <<"doi">>) \cup {n + 1}
      /\ e.path # <<"doi">> => PlacesOf(t, <<"doi">>) = PlacesOf(s, <<"doi">>)
  BY PlacesAppend
<1> HIDE DEF t, n
<1>3. FullDois(s) \in SUBSET (DOMAIN s)
  BY <1>2 DEF FullDois
<1>4. CASE e.path = <<"doi">> /\ Trim(e.text) # <<>>
  <2>1. FullDois(t) = FullDois(s) \cup {n + 1}
    BY <1>1, <1>2, <1>4 DEF FullDois
  <2>2. LastText(t, FullDois(t)) = e.text
    <3>1. LastText(t, FullDois(s) \cup {n + 1}) = e.text
      BY <1>3, LastTextAppend DEF t, n
    <3> QED
      BY <2>1, <3>1
  <2> QED
    BY <1>4, <2>1, <2>2 DEF DoiOf, t
<1>5. CASE ~(e.path = <<"doi">> /\ Trim(e.text) # <<>>)
  <2>1. FullDois(t) = FullDois(s)
    BY <1>1, <1>2, <1>5 DEF FullDois
  <2>2. FullDois(s) # {} => LastText(t, FullDois(s)) = LastText(s, FullDois(s))
    BY <1>3, LastTextAppend DEF t
  <2> QED
    BY <1>5, <2>1, <2>2 DEF DoiOf, t
<1> QED
  BY <1>4, <1>5

LEMMA NamesAppend ==
  ASSUME NEW s, Listed(s), NEW e
  PROVE  FlattenSeq(NamesIn(Append(s, e))) =
           IF e.path = <<"author", "name">>
           THEN Append(FlattenSeq(NamesIn(s)), CollapseWs(e.text))
           ELSE FlattenSeq(NamesIn(s))
<1> DEFINE t == Append(s, e)
           n == Len(s)
           T == {CollapseWs(s[i].text) : i \in DOMAIN s} \cup {CollapseWs(e.text)}
           p == NamesIn(s)
           x == IF e.path = <<"author", "name">> THEN <<CollapseWs(e.text)>> ELSE <<>>
           q == Append(p, x)
<1>1. /\ n \in Nat /\ DOMAIN s = 1..n /\ DOMAIN t = 1..(n + 1) /\ t[n + 1] = e
      /\ \A i \in 1..n : t[i] = s[i]
  BY AppendListed
<1> HIDE DEF t, n
<1>2. /\ p = [i \in 1..n |-> p[i]]
      /\ \A i \in 1..n : p[i] = IF s[i].path = <<"author", "name">>
                                THEN <<CollapseWs(s[i].text)>> ELSE <<>>
  BY <1>1 DEF NamesIn
<1>3. /\ \A i \in 1..n : CollapseWs(s[i].text) \in T
      /\ CollapseWs(e.text) \in T
  BY <1>1
<1> HIDE DEF T, p
<1>4. x \in Seq(T) /\ \A i \in 1..n : p[i] \in Seq(T)
  <2>1. <<>> \in Seq(T) /\ \A a \in T : <<a>> \in Seq(T)
    OBVIOUS
  <2> QED
    BY <1>2, <1>3, <2>1
<1>5. p \in Seq(Seq(T)) /\ Len(p) = n
  BY <1>1, <1>2, <1>4
<1>6. /\ NamesIn(t) = [i \in 1..(n + 1) |-> NamesIn(t)[i]]
      /\ \A i \in 1..n : NamesIn(t)[i] = p[i]
      /\ NamesIn(t)[n + 1] = x
  <2>1. n + 1 \in 1..(n + 1) /\ \A i \in 1..n : i \in 1..(n + 1)
    BY <1>1
  <2> HIDE DEF x
  <2>2. NamesIn(t) = [i \in 1..(n + 1) |-> IF t[i].path = <<"author", "name">>
                                           THEN <<CollapseWs(t[i].text)>> ELSE <<>>]
    BY <1>1 DEF NamesIn
  <2> QED
    BY <1>1, <1>2, <2>1, <2>2 DEF x
<1> HIDE DEF x
<1>7. /\ q \in Seq(Seq(T)) /\ Len(q) = n + 1 /\ q[n + 1] = x
      /\ \A i \in 1..n : q[i] = p[i]
  BY <1>1, <1>4, <1>5
<1>8. NamesIn(t) = q
  <2> HIDE DEF q
  <2>1. \A i \in 1..(n + 1) : NamesIn(t)[i] = q[i]
    <3> SUFFICES ASSUME NEW i \in 1..(n + 1) PROVE NamesIn(t)[i] = q[i]
      OBVIOUS
    <3>1. i = n + 1 \/ i \in 1..n
      BY <1>1
    <3> QED
      BY <1>6, <1>7, <3>1
  <2>2. \A i \in 1..(n + 1) : NamesIn(t)[i] \in Seq(T)
    BY <1>1, <1>7, <2>1
  <2>3. NamesIn(t) \in Seq(Seq(T)) /\ Len(NamesIn(t)) = n + 1
    <3>1. PICK f : f = NamesIn(t)
      OBVIOUS
    <3>2. f \in [1..(n + 1) -> Seq(T)] /\ n + 1 \in Nat
      BY <1>1, <1>6, <2>2, <3>1
    <3>3. f \in Seq(Seq(T)) /\ Len(f) = n + 1
      BY <3>2
    <3> QED
      BY <3>1, <3>3
  <2> QED
    BY <1>7, <2>1, <2>3, SeqEqual
<1>9. FlattenSeq(p) \in Seq(T) /\ FlattenSeq(q) = FlattenSeq(p) \o x
  BY <1>4, <1>5, FlattenAppend
<1>10. CASE e.path = <<"author", "name">>
  <2>1. Append(FlattenSeq(p), CollapseWs(e.text)) = FlattenSeq(p) \o <<CollapseWs(e.text)>>
    BY <1>3, <1>9, AppendIsConcat
  <2> QED
    BY <1>8, <1>9, <1>10, <2>1 DEF x, t, p
<1>11. CASE e.path # <<"author", "name">>
  <2>1. FlattenSeq(p) \o <<>> = FlattenSeq(p)
    BY <1>9, ConcatEmptySeq
  <2> QED
    BY <1>8, <1>9, <1>11, <2>1 DEF x, t, p
<1> QED
  BY <1>10, <1>11

\* The path of an element the reader captures, by the name of the element.
PathOf(local) == IF local = "name" THEN <<"author", "name">> ELSE <<local>>

\* An entry with one element more: a captured element is stored, any other is not seen.
LEMMA RawAppend ==
  ASSUME NEW s, Listed(s), NEW e
  PROVE  /\ \A local \in TextFields \cup {"name"} :
              e.path = PathOf(local) => Raw(Append(s, e)) = Store(Raw(s), local, e.text)
         /\ (\A local \in TextFields \cup {"name"} : e.path # PathOf(local))
              => Raw(Append(s, e)) = Raw(s)
<1> DEFINE t == Append(s, e)
<1>1. /\ \A path : TrimmedAt(t, path) =
                     IF e.path = path THEN Trim(e.text) ELSE TrimmedAt(s, path)
      /\ TitleOf(t) = IF e.path = <<"title">> THEN CollapseWs(e.text) ELSE TitleOf(s)
      /\ DoiOf(t) = IF e.path = <<"doi">> /\ Trim(e.text) # <<>>
                    THEN Trim(e.text) ELSE DoiOf(s)
      /\ FlattenSeq(NamesIn(t)) =
           IF e.path = <<"author", "name">>
           THEN Append(FlattenSeq(NamesIn(s)), CollapseWs(e.text))
           ELSE FlattenSeq(NamesIn(s))
  BY TrimmedAppend, TitleAppend, DoiAppend, NamesAppend
<1> HIDE DEF t
<1>2. Raw(t) = [id |-> TrimmedAt(t, <<"id">>), title |-> TitleOf(t),
                published |-> TrimmedAt(t, <<"published">>),
                updated |-> TrimmedAt(t, <<"updated">>), doi |-> DoiOf(t),
                authors |-> FlattenSeq(NamesIn(t))]
  BY DEF Raw
<1>3. \A f, g \in STRING : f # g => <<f>> # <<g>>
  OBVIOUS
<1>4. \A f \in STRING : <<f>> # <<"author", "name">>
  OBVIOUS
<1>5. (\A local \in TextFields \cup {"name"} : e.path # PathOf(local)) => Raw(t) = Raw(s)
  <2>1. SUFFICES ASSUME \A local \in TextFields \cup {"name"} : e.path # PathOf(local)
                 PROVE  Raw(t) = Raw(s)
    OBVIOUS
  <2>2. /\ e.path # <<"id">> /\ e.path # <<"title">> /\ e.path # <<"published">>
        /\ e.path # <<"updated">> /\ e.path # <<"doi">> /\ e.path # <<"author", "name">>
    BY <2>1 DEF PathOf, TextFields
  <2> QED
    BY <1>1, <1>2, <2>2 DEF Raw
<1>6. ASSUME e.path = <<"author", "name">> PROVE Raw(t) = Store(Raw(s), "name", e.text)
  <2>1. Store(Raw(s), "name", e.text)
          = [Raw(s) EXCEPT !.authors = Append(@, CollapseWs(e.text))]
    BY Zenon DEF Store
  <2>2. /\ e.path # <<"id">> /\ e.path # <<"title">> /\ e.path # <<"published">>
        /\ e.path # <<"updated">> /\ e.path # <<"doi">>
    BY <1>4, <1>6
  <2> QED
    BY <1>1, <1>2, <1>6, <2>1, <2>2 DEF Raw
<1>7. ASSUME e.path = <<"title">> PROVE Raw(t) = Store(Raw(s), "title", e.text)
  <2>1. Store(Raw(s), "title", e.text) = [Raw(s) EXCEPT !.title = CollapseWs(e.text)]
    BY Zenon DEF Store
  <2> QED
    BY <1>1, <1>2, <1>3, <1>4, <1>7, <2>1 DEF Raw
<1>8. ASSUME e.path = <<"doi">> PROVE Raw(t) = Store(Raw(s), "doi", e.text)
  <2>1. CASE Trim(e.text) = <<>>
    <3>1. Store(Raw(s), "doi", e.text) = Raw(s)
      BY <2>1, Zenon DEF Store
    <3> QED
      BY <1>1, <1>2, <1>3, <1>4, <1>8, <2>1, <3>1 DEF Raw
  <2>2. CASE Trim(e.text) # <<>>
    <3>1. Store(Raw(s), "doi", e.text) = [Raw(s) EXCEPT !.doi = Trim(e.text)]
      BY <2>2, Zenon DEF Store
    <3> QED
      BY <1>1, <1>2, <1>3, <1>4, <1>8, <2>2, <3>1 DEF Raw
  <2> QED
    BY <2>1, <2>2
<1>9. ASSUME e.path = <<"id">> PROVE Raw(t) = Store(Raw(s), "id", e.text)
  <2>1. Store(Raw(s), "id", e.text) = [Raw(s) EXCEPT !.id = Trim(e.text)]
    BY Zenon DEF Store
  <2> QED
    BY <1>1, <1>2, <1>3, <1>4, <1>9, <2>1 DEF Raw
<1>10. ASSUME e.path = <<"published">> PROVE Raw(t) = Store(Raw(s), "published", e.text)
  <2>1. Store(Raw(s), "published", e.text) = [Raw(s) EXCEPT !.published = Trim(e.text)]
    BY Zenon DEF Store
  <2> QED
    BY <1>1, <1>2, <1>3, <1>4, <1>10, <2>1 DEF Raw
<1>11. ASSUME e.path = <<"updated">> PROVE Raw(t) = Store(Raw(s), "updated", e.text)
  <2>1. Store(Raw(s), "updated", e.text) = [Raw(s) EXCEPT !.updated = Trim(e.text)]
    BY Zenon DEF Store
  <2> QED
    BY <1>1, <1>2, <1>3, <1>4, <1>11, <2>1 DEF Raw
<1>12. ASSUME NEW local \in TextFields \cup {"name"}, e.path = PathOf(local)
       PROVE  Raw(t) = Store(Raw(s), local, e.text)
  BY <1>6, <1>7, <1>8, <1>9, <1>10, <1>11, <1>12 DEF PathOf, TextFields
<1> QED
  BY <1>5, <1>12 DEF t

\* No element, no record.
LEMMA RawEmpty == Raw(<<>>) = NewRaw
<1>1. \A path : PlacesOf(<<>>, path) = {}
  BY DEF PlacesOf
<1>2. FullDois(<<>>) = {}
  BY <1>1 DEF FullDois
<1>3. NamesIn(<<>>) = <<>>
  BY DEF NamesIn
<1>4. FlattenSeq(<<>>) = <<>>
  BY DEF FlattenSeq
<1> QED
  BY <1>1, <1>2, <1>3, <1>4 DEF Raw, NewRaw, TrimmedAt, TitleOf, DoiOf

------------------------------------------------------------------------------
(* The parser, token by token.                                               *)
Reader(entries, raw, inAuthor, capture, buf) ==
  [entries |-> entries, raw |-> raw, inAuthor |-> inAuthor, capture |-> capture,
   buf |-> buf]
IsReader(p) == p = Reader(p.entries, p.raw, p.inAuthor, p.capture, p.buf)

LEMMA OpenedEntry ==
  ASSUME NEW p, IsReader(p)
  PROVE  OnOpen(p, "entry") = Reader(p.entries, <<NewRaw>>, FALSE, None, p.buf)
<1>1. OnOpen(p, "entry") = [p EXCEPT !.raw = <<NewRaw>>, !.inAuthor = FALSE, !.capture = None]
  <2>1. PICK local : local = "entry"
    OBVIOUS
  <2>2. OnOpen(p, local) = [p EXCEPT !.raw = <<NewRaw>>, !.inAuthor = FALSE, !.capture = None]
    BY <2>1, Zenon DEF OnOpen, TextFields
  <2> QED
    BY <2>1, <2>2
<1> QED
  BY <1>1 DEF IsReader, Reader

LEMMA OpenedAuthor ==
  ASSUME NEW p, IsReader(p), p.raw # <<>>
  PROVE  OnOpen(p, "author") = Reader(p.entries, p.raw, TRUE, p.capture, p.buf)
<1>1. OnOpen(p, "author") = [p EXCEPT !.inAuthor = TRUE]
  BY Zenon DEF OnOpen, TextFields
<1> QED
  BY <1>1 DEF IsReader, Reader

LEMMA OpenedText ==
  ASSUME NEW p, IsReader(p), p.raw # <<>>, NEW local,
         local \in TextFields \/ (local = "name" /\ p.inAuthor)
  PROVE  OnOpen(p, local) = Reader(p.entries, p.raw, p.inAuthor, local, <<>>)
<1>1. OnOpen(p, local) = [p EXCEPT !.capture = local, !.buf = <<>>]
  BY Zenon DEF OnOpen, TextFields
<1> QED
  BY <1>1 DEF IsReader, Reader

LEMMA OpenedOther ==
  ASSUME NEW p, NEW local, local # "entry",
         p.raw = <<>> \/ (/\ local \notin TextFields \cup {"author"}
                          /\ ~(local = "name" /\ p.inAuthor))
  PROVE  OnOpen(p, local) = p
BY Zenon DEF OnOpen, TextFields

LEMMA ClosedText ==
  ASSUME NEW p, IsReader(p), NEW r, p.raw = <<r>>, p.capture \in TextFields \cup {"name"}
  PROVE  OnClose(p, p.capture) =
           Reader(p.entries, <<Store(r, p.capture, p.buf)>>, p.inAuthor, None, <<>>)
<1> DEFINE q == EndCapture(p, p.capture)
<1>1. q = [p EXCEPT !.capture = None, !.buf = <<>>,
                    !.raw = IF @ = <<>> THEN @ ELSE <<Store(@[1], p.capture, p.buf)>>]
  BY DEF EndCapture
<1>2. q = Reader(p.entries, <<Store(r, p.capture, p.buf)>>, p.inAuthor, None, <<>>)
  <2>1. p.raw # <<>> /\ p.raw[1] = r
    OBVIOUS
  <2>2. q = [p EXCEPT !.capture = None, !.buf = <<>>, !.raw = <<Store(r, p.capture, p.buf)>>]
    BY <1>1, <2>1
  <2> HIDE DEF q
  <2> QED
    BY <2>2 DEF IsReader, Reader
<1>3. p.capture # "author" /\ p.capture # "entry"
  BY DEF TextFields
<1>4. OnClose(p, p.capture) = q
  BY <1>3, Zenon DEF OnClose
<1> QED
  BY <1>2, <1>4

LEMMA ClosedEntry ==
  ASSUME NEW p, IsReader(p), NEW r, p.raw = <<r>>, p.capture # "entry"
  PROVE  OnClose(p, "entry") =
           Reader(p.entries \o IntoEntry(r), <<>>, p.inAuthor, p.capture, p.buf)
<1>1. EndCapture(p, "entry") = p /\ p.raw # <<>> /\ p.raw[1] = r
  BY DEF EndCapture
<1>2. OnClose(p, "entry") = [p EXCEPT !.raw = <<>>, !.entries = @ \o IntoEntry(p.raw[1])]
  BY <1>1, Zenon DEF OnClose
<1> QED
  BY <1>1, <1>2 DEF IsReader, Reader

LEMMA ClosedAuthor ==
  ASSUME NEW p, IsReader(p), p.capture # "author"
  PROVE  OnClose(p, "author") = Reader(p.entries, p.raw, FALSE, p.capture, p.buf)
<1>1. EndCapture(p, "author") = p
  BY DEF EndCapture
<1>2. OnClose(p, "author") = [p EXCEPT !.inAuthor = FALSE]
  BY <1>1, Zenon DEF OnClose
<1> QED
  BY <1>2 DEF IsReader, Reader

LEMMA ClosedOther ==
  ASSUME NEW p, NEW local, p.capture # local, local # "author", local # "entry"
  PROVE  OnClose(p, local) = p
<1>1. EndCapture(p, local) = p
  BY DEF EndCapture
<1> QED
  BY <1>1, Zenon DEF OnClose

LEMMA ReadText ==
  ASSUME NEW p, IsReader(p), NEW piece, NEW cdata
  PROVE  OnText(p, piece, cdata) =
           IF p.capture = None THEN p
           ELSE Reader(p.entries, p.raw, p.inAuthor, p.capture,
                       Append(p.buf, IF cdata THEN piece ELSE Decoded(piece)))
BY DEF OnText, IsReader, Reader

------------------------------------------------------------------------------
(* The elements still open.                                                  *)
Nest(s, children) ==
  /\ Listed(s) /\ (s # <<>> => s[1] = "feed")
  /\ \A i \in 1..Len(s) : s[i] \in DOMAIN children
  /\ \A i \in 2..Len(s) : s[i] \in children[s[i - 1]]

Shape(s) ==
  /\ Len(s) \in Nat /\ \A i \in 1..Len(s) : s[i] \in STRING
  /\ \A i \in 1..Len(s) :
       /\ s[i] = "feed" <=> i = 1
       /\ s[i] = "entry" => i = 2
       /\ s[i] \in TextFields \cup {"author"} => i = 2 \/ (i = 3 /\ s[2] = "entry")
       /\ s[i] \in TextFields \cup {"name"} => i = Len(s)
       /\ s[i] = "author" => Len(s) <= i + 1

LEMMA NestShape ==
  ASSUME NEW c \in Configs, c.source = "arxiv", NEW s, Nest(s, c.children)
  PROVE  Shape(s)
<1> DEFINE ch == c.children
           E == DOMAIN ch
<1>1. /\ "feed" \in E /\ E \subseteq STRING
      /\ \A e \in E :
           /\ ch[e] \subseteq E \ {"feed"}
           /\ "entry" \in ch[e] => e = "feed"
           /\ ch[e] \cap (TextFields \cup {"author"}) # {} => e \in {"feed", "entry"}
           /\ e \in TextFields \cup {"name"} => ch[e] = {}
           /\ e = "author" => \A part \in ch[e] : ch[part] = {}
  BY FeedAssumption
<1>2. /\ Len(s) \in Nat /\ (s # <<>> => s[1] = "feed")
      /\ \A i \in 1..Len(s) : s[i] \in E
      /\ \A i \in 2..Len(s) : s[i] \in ch[s[i - 1]]
  BY DEF Nest, Listed
<1>3. s # <<>> => s[1] = "feed"
  BY <1>2
<1>4. \A i \in 2..Len(s) : i - 1 \in 1..Len(s)
  BY <1>2
<1> HIDE DEF ch, E
<1>5. ASSUME NEW i \in 1..Len(s) PROVE s[i] = "feed" <=> i = 1
  <2>1. CASE i = 1
    <3>1. s # <<>>
      BY <1>2, <2>1 DEF Nest
    <3> QED
      BY <1>3, <2>1, <3>1
  <2>2. CASE i # 1
    <3>1. i \in 2..Len(s) /\ i - 1 \in 1..Len(s)
      BY <1>2, <2>2
    <3>2. s[i - 1] \in E /\ s[i] \in ch[s[i - 1]]
      BY <1>2, <3>1
    <3> QED
      BY <1>1, <2>2, <3>2
  <2> QED
    BY <2>1, <2>2
<1>6. ASSUME NEW i \in 1..Len(s), s[i] = "entry" PROVE i = 2
  <2>1. i # 1
    BY <1>5, <1>6
  <2>2. i \in 2..Len(s) /\ i - 1 \in 1..Len(s)
    BY <1>2, <2>1
  <2>3. s[i - 1] = "feed"
    <3>1. s[i - 1] \in E /\ s[i] \in ch[s[i - 1]]
      BY <1>2, <2>2
    <3>2. "entry" \in ch[s[i - 1]]
      BY <1>6, <3>1
    <3> QED
      BY <1>1, <3>1, <3>2
  <2> QED
    BY <1>5, <2>2, <2>3
<1>7. ASSUME NEW i \in 1..Len(s), s[i] \in TextFields \cup {"author"}
      PROVE  i = 2 \/ (i = 3 /\ s[2] = "entry")
  <2>1. i # 1
    BY <1>5, <1>7 DEF TextFields
  <2>2. i \in 2..Len(s) /\ i - 1 \in 1..Len(s)
    BY <1>2, <2>1
  <2>3. s[i - 1] \in {"feed", "entry"}
    BY <1>1, <1>2, <1>7, <2>2
  <2>4. i - 1 = 1 \/ (i - 1 = 2 /\ s[i - 1] = "entry")
    BY <1>5, <1>6, <2>2, <2>3
  <2> QED
    BY <2>2, <2>4
<1>8. ASSUME NEW i \in 1..Len(s), i # Len(s) PROVE ch[s[i]] # {} /\ s[i + 1] \in ch[s[i]]
  <2>1. i + 1 \in 2..Len(s) /\ (i + 1) - 1 = i
    BY <1>2, <1>8
  <2> QED
    BY <1>2, <2>1
<1>9. ASSUME NEW i \in 1..Len(s), s[i] \in TextFields \cup {"name"} PROVE i = Len(s)
  BY <1>1, <1>2, <1>8, <1>9
<1>10. ASSUME NEW i \in 1..Len(s), s[i] = "author" PROVE Len(s) <= i + 1
  <2>1. SUFFICES ASSUME i + 1 < Len(s) PROVE FALSE
    BY <1>2
  <2>2. i # Len(s) /\ i + 1 \in 1..Len(s) /\ i + 1 # Len(s)
    BY <1>2, <2>1
  <2>3. s[i + 1] \in ch[s[i]] /\ ch[s[i + 1]] # {}
    BY <1>8, <2>2
  <2> QED
    BY <1>1, <1>2, <1>10, <2>3
<1>11. \A i \in 1..Len(s) : s[i] \in STRING
  BY <1>1, <1>2
<1> QED
  BY <1>2, <1>5, <1>6, <1>7, <1>9, <1>10, <1>11 DEF Shape

\* The element on top is one that is captured.
Captures(s) ==
  /\ Len(s) > 2 /\ s[2] = "entry"
  /\ \/ Len(s) = 3 /\ s[3] \in TextFields
     \/ Len(s) = 4 /\ s[3] = "author" /\ s[4] = "name"

LEMMA CapturedPath ==
  ASSUME NEW s, Listed(s), Len(s) > 2, s[2] = "entry", NEW local \in TextFields \cup {"name"}
  PROVE  SubSeq(s, 3, Len(s)) = PathOf(local) <=> Captures(s) /\ s[Len(s)] = local
<1> DEFINE S == {s[i] : i \in DOMAIN s}
           path == SubSeq(s, 3, Len(s))
<1>1. s \in Seq(S) /\ Len(s) \in Nat /\ DOMAIN s = 1..Len(s)
  BY DEF Listed
<1>2. \A i \in 3..Len(s) : s[i] \in S
  BY <1>1
<1> HIDE DEF S
<1>3. /\ path \in Seq(S) /\ Len(path) = Len(s) - 2
      /\ \A i \in 1..(Len(s) - 2) : path[i] = s[i + 2]
  BY <1>1, <1>2
<1> HIDE DEF path
<1>4. ASSUME path = PathOf(local) PROVE Captures(s) /\ s[Len(s)] = local
  <2>1. CASE local = "name"
    <3>1. path = <<"author", "name">>
      BY <1>4, <2>1 DEF PathOf
    <3>2. Len(path) = 2 /\ path[1] = "author" /\ path[2] = "name"
      BY <3>1
    <3>3. Len(s) = 4
      <4>1. Len(s) - 2 = 2
        BY <1>3, <3>2
      <4>2. \A n \in Nat : n - 2 = 2 => n = 4
        OBVIOUS
      <4>3. Len(s) \in Nat
        BY <1>1
      <4> QED
        BY <4>1, <4>2, <4>3
    <3>4. s[3] = "author" /\ s[4] = "name"
      BY <1>3, <3>2, <3>3
    <3> QED
      BY <2>1, <3>3, <3>4 DEF Captures
  <2>2. CASE local # "name"
    <3>1. path = <<local>>
      BY <1>4, <2>2 DEF PathOf
    <3>2. Len(path) = 1 /\ path[1] = local
      BY <3>1
    <3>3. Len(s) = 3
      <4>1. Len(s) - 2 = 1
        BY <1>3, <3>2
      <4>2. \A n \in Nat : n - 2 = 1 => n = 3
        OBVIOUS
      <4>3. Len(s) \in Nat
        BY <1>1
      <4> QED
        BY <4>1, <4>2, <4>3
    <3>4. s[3] = local
      BY <1>3, <3>2, <3>3
    <3> QED
      BY <2>2, <3>3, <3>4 DEF Captures
  <2> QED
    BY <2>1, <2>2
<1>5. ASSUME Captures(s), s[Len(s)] = local PROVE path = PathOf(local)
  <2>1. CASE Len(s) = 3
    <3>1. s[3] = local /\ local \in TextFields
      BY <1>5, <2>1 DEF Captures
    <3>2. PathOf(local) = <<local>>
      BY <3>1 DEF PathOf, TextFields
    <3>3. Len(path) = 1 /\ path[1] = local
      BY <1>1, <1>3, <2>1, <3>1
    <3> QED
      BY <1>3, <3>2, <3>3
  <2>2. CASE Len(s) # 3
    <3>1. Len(s) = 4 /\ s[3] = "author" /\ s[4] = "name" /\ local = "name"
      BY <1>5, <2>2 DEF Captures
    <3>2. PathOf(local) = <<"author", "name">>
      BY <3>1 DEF PathOf
    <3>3. Len(path) = 2 /\ path[1] = "author" /\ path[2] = "name"
      BY <1>1, <1>3, <3>1
    <3> QED
      BY <1>3, <3>2, <3>3
  <2> QED
    BY <2>1, <2>2
<1> QED
  BY <1>4, <1>5 DEF path

------------------------------------------------------------------------------
(* The flat reader and the nesting it does not keep.                         *)
Element(s, text) == [path |-> SubSeq(s, 3, Len(s)), text |-> text]
AllElements(entry) ==
  \A i \in DOMAIN entry : entry[i] = [path |-> entry[i].path, text |-> entry[i].text]
ReadAll(closed) == FlattenSeq([i \in DOMAIN closed |-> ReadEntry(closed[i])])

\* The entries closed so far, the open one, and what of it the parser has stored.
Holds(p, s, doc, closed, entry, stored) ==
  /\ Listed(closed) /\ p.entries = ReadAll(closed)
  /\ IF Len(s) >= 2 /\ s[2] = "entry"
     THEN /\ Listed(entry) /\ AllElements(entry) /\ Listed(stored) /\ doc = Append(closed, entry)
          /\ p.raw = <<Raw(stored)>>
          /\ p.inAuthor = (Len(s) > 2 /\ s[3] = "author")
          /\ Len(s) > 2 => entry # <<>>
          /\ entry = IF Captures(s) THEN Append(stored, Element(s, p.buf)) ELSE stored
     ELSE doc = closed /\ p.raw = <<>> /\ p.inAuthor = FALSE
  /\ p.capture = IF Captures(s) THEN Last(s) ELSE None

FeedInv ==
  /\ Nest(stack, config.children)
  /\ stack # <<>> => config.source = "arxiv"
  /\ IsReader(parser)
  /\ \E closed, entry, stored : Holds(parser, stack, document, closed, entry, stored)

LEMMA FeedInvReads == FeedInv => FeedReadFaithfully
<1> SUFFICES ASSUME FeedInv PROVE parser.entries = EntriesSent
  BY DEF FeedReadFaithfully
<1>1. PICK closed, entry, stored : Holds(parser, stack, document, closed, entry, stored)
  BY DEF FeedInv
<1>2. EntriesSent = ReadAll(IF InEntry THEN Front(document) ELSE document)
  BY DEF EntriesSent, ReadAll
<1>3. (IF InEntry THEN Front(document) ELSE document) = closed
  <2>1. CASE InEntry
    <3>1. document = Append(closed, entry) /\ Listed(closed)
      BY <1>1, <2>1 DEF Holds, InEntry
    <3>2. Front(document) = closed
      BY <3>1, LastOfAppend
    <3> QED
      BY <2>1, <3>2
  <2>2. CASE ~InEntry
    BY <1>1, <2>2 DEF Holds, InEntry
  <2> QED
    BY <2>1, <2>2
<1> QED
  BY <1>1, <1>2, <1>3 DEF Holds

LEMMA FeedInit == Init => FeedInv
<1> SUFFICES ASSUME Init PROVE FeedInv
  OBVIOUS
<1>1. stack = <<>> /\ parser = NewParser /\ document = <<>>
  BY DEF Init
<1>2. Nest(<<>>, config.children)
  BY DEF Nest, Listed
<1>3. IsReader(NewParser)
  BY DEF IsReader, Reader, NewParser
<1>4. ReadAll(<<>>) = <<>>
  BY DEF ReadAll, FlattenSeq
<1>5. Listed(<<>>) /\ ~Captures(<<>>) /\ Len(<<>>) = 0
  BY DEF Listed, Captures
<1>6. Holds(NewParser, <<>>, <<>>, <<>>, <<>>, <<>>)
  BY <1>4, <1>5 DEF Holds, NewParser
<1> QED
  BY <1>1, <1>2, <1>3, <1>6 DEF FeedInv

LEMMA ElementsAppend ==
  ASSUME NEW s, Listed(s), NEW e
  PROVE  AllElements(Append(s, e))
           <=> AllElements(s) /\ e = [path |-> e.path, text |-> e.text]
<1> DEFINE n == Len(s)
           t == Append(s, e)
<1>1. /\ n \in Nat /\ DOMAIN s = 1..n /\ DOMAIN t = 1..(n + 1) /\ t[n + 1] = e
      /\ \A i \in 1..n : t[i] = s[i]
  BY AppendListed
<1> HIDE DEF n, t
<1>2. 1..(n + 1) = (1..n) \cup {n + 1}
  BY <1>1
<1> QED
  BY <1>1, <1>2 DEF AllElements, t

\* One entry more is read.
LEMMA ReadAllAppend ==
  ASSUME NEW closed, Listed(closed), NEW entry
  PROVE  ReadAll(Append(closed, entry)) = ReadAll(closed) \o ReadEntry(entry)
<1> DEFINE n == Len(closed)
           d == Append(closed, entry)
           p == [i \in DOMAIN closed |-> ReadEntry(closed[i])]
           x == ReadEntry(entry)
           q == [i \in DOMAIN d |-> ReadEntry(d[i])]
           T == {ReadEntry(closed[i])[1] : i \in DOMAIN closed} \cup {x[1]}
<1>1. /\ n \in Nat /\ DOMAIN closed = 1..n /\ DOMAIN d = 1..(n + 1) /\ d[n + 1] = entry
      /\ \A i \in 1..n : d[i] = closed[i]
  BY AppendListed
<1> HIDE DEF d, n
<1>2. <<>> \in Seq(T) /\ \A a \in T : <<a>> \in Seq(T)
  OBVIOUS
<1>3. \A i \in 1..n : ReadEntry(closed[i])[1] \in T
  BY <1>1
<1>4. x[1] \in T
  OBVIOUS
<1> HIDE DEF T, x
<1>5. \A r : r = <<>> \/ r = <<r[1]>> => (r[1] \in T => r \in Seq(T))
  BY <1>2
<1>6. x \in Seq(T)
  BY <1>4, <1>5, ReadsOneAtMost DEF x
<1>7. p = [i \in 1..n |-> p[i]] /\ \A i \in 1..n : p[i] = ReadEntry(closed[i])
  BY <1>1
<1>8. /\ q = [i \in 1..(n + 1) |-> q[i]] /\ q[n + 1] = x
      /\ \A i \in 1..n : q[i] = p[i]
  <2>1. n + 1 \in 1..(n + 1) /\ \A i \in 1..n : i \in 1..(n + 1)
    BY <1>1
  <2> QED
    BY <1>1, <2>1 DEF x
<1> HIDE DEF p, q
<1>9. \A i \in 1..n : p[i] \in Seq(T)
  <2> SUFFICES ASSUME NEW i \in 1..n PROVE p[i] \in Seq(T)
    OBVIOUS
  <2>1. PICK r : r = ReadEntry(closed[i])
    OBVIOUS
  <2>2. r = <<>> \/ r = <<r[1]>>
    BY <2>1, ReadsOneAtMost
  <2> QED
    BY <1>2, <1>3, <1>7, <2>1, <2>2
<1>10. p \in Seq(Seq(T)) /\ Len(p) = n
  BY <1>1, <1>7, <1>9
<1>11. q = Append(p, x)
  <2> DEFINE u == Append(p, x)
  <2>1. /\ u \in Seq(Seq(T)) /\ Len(u) = n + 1 /\ u[n + 1] = x
        /\ \A i \in 1..n : u[i] = p[i]
    BY <1>1, <1>6, <1>10
  <2> HIDE DEF u
  <2>2. \A i \in 1..(n + 1) : q[i] = u[i]
    <3> SUFFICES ASSUME NEW i \in 1..(n + 1) PROVE q[i] = u[i]
      OBVIOUS
    <3>1. i = n + 1 \/ i \in 1..n
      BY <1>1
    <3> QED
      BY <1>8, <2>1, <3>1
  <2>3. \A i \in 1..(n + 1) : q[i] \in Seq(T)
    BY <1>1, <2>1, <2>2
  <2>4. q \in [1..(n + 1) -> Seq(T)] /\ n + 1 \in Nat
    BY <1>1, <1>8, <2>3
  <2>5. q \in Seq(Seq(T)) /\ Len(q) = n + 1
    BY <2>4
  <2> QED
    BY <2>1, <2>2, <2>5, SeqEqual DEF u
<1> QED
  BY <1>6, <1>10, <1>11, FlattenAppend DEF ReadAll, p, q, x, d

------------------------------------------------------------------------------
(* The tokens of a feed, one by one.                                          *)
LEMMA OpenNest ==
  ASSUME config \in Configs, config.source = "arxiv", Nest(stack, config.children),
         NEW local \in Inside
  PROVE  Nest(Append(stack, local), config.children)
<1> DEFINE t == Append(stack, local)
           ch == config.children
           n == Len(stack)
<1>1. /\ Listed(t) /\ n \in Nat /\ Len(t) = n + 1 /\ t[n + 1] = local
      /\ \A i \in 1..n : t[i] = stack[i]
  BY AppendListed DEF Nest
<1>2. /\ stack # <<>> => stack[1] = "feed"
      /\ \A i \in 1..n : stack[i] \in DOMAIN ch
      /\ \A i \in 2..n : stack[i] \in ch[stack[i - 1]]
  BY DEF Nest
<1>3. "feed" \in DOMAIN ch /\ \A e \in DOMAIN ch : ch[e] \subseteq DOMAIN ch
  BY FeedAssumption
<1>4. stack = <<>> <=> n = 0
  BY <1>1 DEF Nest, Listed
<1>5. n # 0 => n \in 1..n /\ Last(stack) = stack[n]
  BY <1>1 DEF Last
<1> HIDE DEF t, ch, n
<1>6. n = 0 => local = "feed"
  BY <1>4 DEF Inside
<1>7. n # 0 => local \in ch[stack[n]]
  BY <1>4, <1>5 DEF Inside, ch
<1>8. local \in DOMAIN ch
  BY <1>2, <1>3, <1>5, <1>6, <1>7
<1>9. ASSUME NEW i \in 1..(n + 1) PROVE t[i] \in DOMAIN ch
  <2>1. i = n + 1 \/ i \in 1..n
    BY <1>1
  <2> QED
    BY <1>1, <1>2, <1>8, <2>1
<1>10. ASSUME NEW i \in 2..(n + 1) PROVE t[i] \in ch[t[i - 1]]
  <2>1. CASE i = n + 1
    <3>1. i - 1 = n /\ n # 0 /\ n \in 1..n
      BY <1>1, <2>1
    <3> QED
      BY <1>1, <1>7, <2>1, <3>1
  <2>2. CASE i # n + 1
    <3>1. i \in 2..n /\ i \in 1..n /\ i - 1 \in 1..n
      BY <1>1, <2>2
    <3> QED
      BY <1>1, <1>2, <3>1
  <2> QED
    BY <2>1, <2>2
<1>11. t[1] = "feed"
  <2>1. CASE n = 0
    BY <1>1, <1>6, <2>1
  <2>2. CASE n # 0
    <3>1. 1 \in 1..n
      BY <1>1, <2>2
    <3> QED
      BY <1>1, <1>2, <1>4, <2>2, <3>1
  <2> QED
    BY <2>1, <2>2
<1> QED
  BY <1>1, <1>9, <1>10, <1>11 DEF Nest, t, ch

\* A start tag.
LEMMA OpenStep ==
  ASSUME config \in Configs, config.source = "arxiv", FeedInv,
         NEW local, OpenElement(local)
  PROVE  FeedInv'
<1> DEFINE t == Append(stack, local)
           n == Len(stack)
           e == Element(t, <<>>)
<1>1. /\ local \in Inside /\ stack' = t /\ parser' = OnOpen(parser, local)
      /\ config' = config
  BY DEF OpenElement
<1>2. PICK closed, entry, stored : Holds(parser, stack, document, closed, entry, stored)
  BY DEF FeedInv
<1>3. /\ Nest(stack, config.children) /\ IsReader(parser)
      /\ Listed(stack) /\ Nest(t, config.children)
  BY <1>1, OpenNest DEF FeedInv, Nest
<1>4. Shape(stack) /\ Shape(t)
  BY <1>3, NestShape
<1>5. /\ Listed(t) /\ n \in Nat /\ Len(t) = n + 1 /\ t[n + 1] = local
      /\ \A i \in 1..n : t[i] = stack[i]
      /\ Last(t) = local
  BY <1>3, AppendListed, LastOfAppend
<1> SUFFICES \E c1, en1, st1 : IsReader(parser') /\ Holds(parser', t, document', c1, en1, st1)
  BY <1>1, <1>3 DEF FeedInv
<1>6. e = [path |-> SubSeq(stack', 3, Len(stack')), text |-> <<>>]
  BY <1>1 DEF Element
<1>7. /\ n >= 1 => t[1] = stack[1]
      /\ n >= 2 => t[2] = stack[2] /\ t[n] = stack[n]
      /\ n >= 3 => t[3] = stack[3]
  BY <1>5
<1>8. /\ local = "entry" => n = 1
      /\ local \in TextFields \cup {"author"} => n = 1 \/ (n = 2 /\ t[2] = "entry")
      /\ n >= 1 => t[n] \notin TextFields \cup {"name"}
      /\ n >= 3 /\ stack[3] = "author" => n <= 3
  <2>1. n + 1 \in 1..Len(t) /\ n + 1 = Len(t) /\ (n >= 1 => n \in 1..Len(t) /\ n # Len(t))
    BY <1>5
  <2>2. n >= 3 => 3 \in 1..Len(t) /\ t[3] = stack[3]
    BY <1>5, <1>7
  <2>3. /\ \A i \in 1..Len(t) :
              /\ t[i] = "entry" => i = 2
              /\ t[i] \in TextFields \cup {"author"} => i = 2 \/ (i = 3 /\ t[2] = "entry")
              /\ t[i] \in TextFields \cup {"name"} => i = Len(t)
              /\ t[i] = "author" => Len(t) <= i + 1
    BY <1>4 DEF Shape
  <2> HIDE DEF t, n
  <2> QED
    BY <1>5, <2>1, <2>2, <2>3
<1> HIDE DEF t, n, e
<1>9. CASE local # "entry" /\ ~InEntry
  <2>1. document' = document
    BY <1>9, Zenon DEF OpenElement
  <2>2. ~(n >= 2 /\ stack[2] = "entry")
    BY <1>9 DEF InEntry, n
  <2>3. /\ Listed(closed) /\ parser.entries = ReadAll(closed) /\ document = closed
        /\ parser.raw = <<>> /\ parser.inAuthor = FALSE /\ parser.capture = None
    BY <1>2, <2>2 DEF Holds, Captures, n
  <2>4. parser' = parser
    BY <1>1, <1>9, <2>3, OpenedOther
  <2>5. ~(Len(t) >= 2 /\ t[2] = "entry")
    BY <1>5, <1>7, <1>9, <2>2
  <2>6. Holds(parser, t, document', closed, <<>>, <<>>)
    BY <2>1, <2>3, <2>5, <1>5 DEF Holds, Captures
  <2> QED
    BY <1>3, <2>4, <2>6
<1>10. CASE local = "entry"
  <2>2. n = 1
    BY <1>8, <1>10
  <2>0. ~InEntry
    BY <2>2 DEF InEntry, n
  <2>1. document' = Append(document, <<>>)
    BY <1>10, <2>0, Zenon DEF OpenElement
  <2>3. Listed(closed) /\ parser.entries = ReadAll(closed) /\ document = closed
    BY <1>2, <2>2 DEF Holds, n
  <2>4. parser' = Reader(parser.entries, <<NewRaw>>, FALSE, None, parser.buf)
    BY <1>1, <1>3, <1>10, OpenedEntry
  <2>5. Len(t) = 2 /\ t[2] = "entry" /\ ~Captures(t)
    BY <1>5, <1>10, <2>2 DEF Captures
  <2>6. Listed(<<>>) /\ AllElements(<<>>)
    BY DEF Listed, AllElements
  <2>9. parser'.inAuthor = (Len(t) > 2 /\ t[3] = "author")
    <3>1. parser'.inAuthor = FALSE
      BY <2>4 DEF Reader
    <3>2. ~(Len(t) > 2 /\ t[3] = "author")
      BY <2>5
    <3> QED
      BY <3>1, <3>2, Zenon
  <2>10. /\ parser'.entries = parser.entries /\ parser'.raw = <<Raw(<<>>)>>
         /\ parser'.capture = None
    BY <2>4, RawEmpty DEF Reader
  <2>7. Holds(parser', t, document', closed, <<>>, <<>>)
    BY <2>1, <2>3, <2>5, <2>6, <2>9, <2>10 DEF Holds
  <2>8. IsReader(parser')
    BY <2>4 DEF IsReader, Reader
  <2> QED
    BY <2>7, <2>8
<1>11. CASE local # "entry" /\ InEntry
  <2>1. n >= 2 /\ stack[2] = "entry" /\ t[2] = "entry" /\ Len(t) > 2
    BY <1>5, <1>7, <1>11 DEF InEntry, n
  <2>2. ~Captures(stack)
    <3>1. t[n] = stack[n] /\ t[n] \notin TextFields \cup {"name"}
      BY <1>5, <1>7, <1>8, <2>1
    <3> QED
      BY <3>1 DEF Captures, n
  <2>3. /\ Listed(closed) /\ parser.entries = ReadAll(closed)
        /\ Listed(entry) /\ AllElements(entry) /\ entry = stored
        /\ document = Append(closed, entry)
        /\ parser.raw = <<Raw(stored)>> /\ parser.capture = None
        /\ parser.inAuthor = (n > 2 /\ stack[3] = "author")
    BY <1>2, <2>1, <2>2 DEF Holds, n
  <2>4. document' = Append(closed, Append(entry, e))
    <3>1. document' = [document EXCEPT ![Len(document)] = Append(@, e)]
      BY <1>6, <1>11, Zenon DEF OpenElement
    <3>2. Len(document) = Len(closed) + 1 /\ document[Len(closed) + 1] = entry
      BY <2>3, AppendListed
    <3>3. document' = [Append(closed, entry) EXCEPT ![Len(closed) + 1] = Append(entry, e)]
      BY <2>3, <3>1, <3>2
    <3> QED
      <4>1. PICK f : f = Append(entry, e)
        OBVIOUS
      <4>2. [Append(closed, entry) EXCEPT ![Len(closed) + 1] = f] = Append(closed, f)
        BY <2>3, LastOfAppend
      <4> QED
        BY <3>3, <4>1, <4>2
  <2>5. /\ Listed(Append(entry, e)) /\ Append(entry, e) # <<>>
        /\ AllElements(Append(entry, e))
    <3>1. Listed(Append(entry, e)) /\ Len(Append(entry, e)) = Len(entry) + 1 /\ Len(entry) \in Nat
      BY <2>3, AppendListed
    <3>2. e = [path |-> e.path, text |-> e.text]
      BY DEF e, Element
    <3> QED
      BY <2>3, <3>1, <3>2, ElementsAppend
  <2>6. parser.raw # <<>>
    BY <2>3
  <2>7. CASE Captures(t)
    <3>1. \/ n = 2 /\ local \in TextFields /\ t[3] = local
          \/ n = 3 /\ local = "name" /\ t[3] = "author" /\ stack[3] = "author"
      BY <1>5, <1>7, <2>7 DEF Captures
    <3>2. parser.inAuthor = (Len(t) > 2 /\ t[3] = "author")
      BY <1>5, <2>3, <3>1 DEF TextFields
    <3>3. local \in TextFields \/ (local = "name" /\ parser.inAuthor)
      <4>1. CASE n = 2
        BY <3>1, <4>1
      <4>2. CASE n # 2
        <5>1. (n > 2 /\ stack[3] = "author") /\ local = "name"
          BY <3>1, <4>2
        <5>2. parser.inAuthor = (n > 2 /\ stack[3] = "author")
          BY <2>3
        <5> QED
          BY <5>1, <5>2, Zenon
      <4> QED
        BY <4>1, <4>2
    <3>4. parser' = Reader(parser.entries, parser.raw, parser.inAuthor, local, <<>>)
      BY <1>1, <1>3, <2>6, <3>3, OpenedText
    <3>5. Holds(parser', t, document', closed, Append(entry, e), stored)
      BY <1>5, <2>1, <2>3, <2>4, <2>5, <2>7, <3>2, <3>4 DEF Holds, Reader, e
    <3>6. IsReader(parser')
      BY <3>4 DEF IsReader, Reader
    <3> QED
      BY <3>5, <3>6
  <2>8. CASE ~Captures(t)
    <3>1. Raw(Append(stored, e)) = Raw(stored)
      <4>1. e.path = SubSeq(t, 3, Len(t))
        BY DEF e, Element
      <4>2. \A f \in TextFields \cup {"name"} : e.path # PathOf(f)
        BY <1>5, <2>1, <2>8, <4>1, CapturedPath
      <4> QED
        BY <2>3, <4>2, RawAppend
    <3>2. CASE local = "author"
      <4>1. n = 2 /\ t[3] = "author"
        BY <1>5, <1>8, <2>1, <3>2
      <4>2. parser' = Reader(parser.entries, parser.raw, TRUE, parser.capture, parser.buf)
        BY <1>1, <1>3, <2>6, <3>2, OpenedAuthor
      <4>3. parser'.inAuthor = (Len(t) > 2 /\ t[3] = "author")
        BY <2>1, <4>1, <4>2 DEF Reader
      <4>5. /\ parser'.entries = parser.entries /\ parser'.raw = parser.raw
            /\ parser'.capture = parser.capture
        BY <4>2 DEF Reader
      <4>6. Holds(parser', t, document', closed, Append(entry, e), Append(stored, e))
        BY <2>1, <2>3, <2>4, <2>5, <2>8, <3>1, <4>3, <4>5 DEF Holds
      <4>4. IsReader(parser')
        BY <4>2 DEF IsReader, Reader
      <4> QED
        BY <4>4, <4>6
    <3>3. CASE local # "author"
      <4>1. local \notin TextFields
        BY <1>5, <1>8, <2>1, <2>8 DEF Captures
      <4>2. ~(local = "name" /\ parser.inAuthor)
        <5>1. CASE n > 2 /\ stack[3] = "author"
          BY <1>5, <1>7, <1>8, <2>1, <2>8, <5>1 DEF Captures
        <5>2. CASE ~(n > 2 /\ stack[3] = "author")
          BY <2>3, <5>2
        <5> QED
          BY <5>1, <5>2
      <4>3. parser' = parser
        BY <1>1, <1>11, <3>3, <4>1, <4>2, OpenedOther
      <4>4. parser.inAuthor = (Len(t) > 2 /\ t[3] = "author")
        BY <1>5, <1>7, <2>1, <2>3, <3>3
      <4>5. Holds(parser, t, document', closed, Append(entry, e), Append(stored, e))
        BY <2>1, <2>3, <2>4, <2>5, <2>8, <3>1, <4>4 DEF Holds
      <4> QED
        BY <1>3, <4>3, <4>5
    <3> QED
      BY <3>2, <3>3
  <2> QED
    BY <2>7, <2>8
<1> QED
  BY <1>9, <1>10, <1>11

\* An end tag.
LEMMA CloseStep ==
  ASSUME config \in Configs, config.source = "arxiv", FeedInv, CloseElement
  PROVE  FeedInv'
<1> DEFINE u == Front(stack)
           n == Len(stack)
           local == Last(stack)
           p == parser
<1>1. /\ n > 1 /\ parser' = OnClose(p, local) /\ stack' = u
      /\ config' = config /\ document' = document
  BY DEF CloseElement
<1>2. PICK closed, entry, stored : Holds(parser, stack, document, closed, entry, stored)
  BY DEF FeedInv
<1>3. Nest(stack, config.children) /\ IsReader(p) /\ Listed(stack) /\ Shape(stack)
  BY NestShape DEF FeedInv, Nest
<1>4. /\ n \in Nat /\ local = stack[n] /\ Listed(u) /\ Len(u) = n - 1
      /\ \A i \in 1..(n - 1) : u[i] = stack[i]
  <2>1. stack # <<>>
    BY <1>1, <1>3
  <2> QED
    BY <1>3, <2>1, FrontIs
<1>5. Nest(u, config.children)
  <2> DEFINE ch == config.children
  <2>1. /\ stack[1] = "feed" /\ \A i \in 1..n : stack[i] \in DOMAIN ch
        /\ \A i \in 2..n : stack[i] \in ch[stack[i - 1]]
    BY <1>1, <1>3, <1>4 DEF Nest
  <2> HIDE DEF ch, u, n, local
  <2>2. \A i \in 1..(n - 1) : u[i] \in DOMAIN ch
    BY <1>4, <2>1
  <2>3. ASSUME NEW i \in 2..(n - 1) PROVE u[i] \in ch[u[i - 1]]
    <3>1. i \in 2..n /\ i \in 1..(n - 1) /\ i - 1 \in 1..(n - 1)
      BY <1>4
    <3> QED
      BY <1>4, <2>1, <3>1
  <2>4. u[1] = "feed"
    BY <1>1, <1>4, <2>1
  <2> QED
    BY <1>4, <2>2, <2>3, <2>4 DEF Nest, ch
<1> SUFFICES \E c1, en1, st1 : IsReader(parser') /\ Holds(parser', u, document, c1, en1, st1)
  BY <1>1, <1>3, <1>5 DEF FeedInv
<1>6. /\ n > 2 => u[2] = stack[2]
      /\ n > 3 => u[3] = stack[3]
      /\ u[n - 1] = stack[n - 1]
  BY <1>1, <1>4
<1>7. /\ local = "entry" => n = 2
      /\ local = "author" => n = 2 \/ (n = 3 /\ stack[2] = "entry")
      /\ local = "feed" => n = 1
      /\ stack[n - 1] \notin TextFields \cup {"name"}
      /\ local \in STRING
  <2>1. n \in 1..n /\ n - 1 \in 1..n /\ n - 1 # n
    BY <1>1, <1>4
  <2> QED
    BY <1>1, <1>3, <1>4, <2>1 DEF Shape
<1>8. None # local
  BY <1>7, AtomAssumption
<1> HIDE DEF u, n, local
<1>10. CASE ~InEntry
  <2>1. ~(n >= 2 /\ stack[2] = "entry")
    BY <1>10 DEF InEntry, n
  <2>2. /\ Listed(closed) /\ p.entries = ReadAll(closed) /\ document = closed
        /\ p.raw = <<>> /\ p.inAuthor = FALSE /\ p.capture = None
    BY <1>2, <2>1 DEF Holds, Captures, n
  <2>3. local # "entry"
    BY <1>1, <1>4, <1>7, <2>1
  <2>4. parser' = p
    <3>1. CASE local = "author"
      <4>1. p.capture # "author"
        BY <1>8, <2>2, <3>1
      <4>2. OnClose(p, "author") = Reader(p.entries, p.raw, FALSE, p.capture, p.buf)
        BY <1>3, <4>1, ClosedAuthor
      <4> QED
        BY <1>1, <1>3, <2>2, <3>1, <4>2 DEF IsReader
    <3>2. CASE local # "author"
      BY <1>1, <1>8, <2>2, <2>3, <3>2, ClosedOther
    <3> QED
      BY <3>1, <3>2
  <2>5. ~(Len(u) >= 2 /\ u[2] = "entry")
    BY <1>4, <1>6, <2>1
  <2>6. Holds(p, u, document, closed, <<>>, <<>>)
    BY <1>4, <2>2, <2>5 DEF Holds, Captures
  <2> QED
    BY <1>3, <2>4, <2>6
<1>11. CASE InEntry /\ n = 2
  <2>1. local = "entry" /\ stack[2] = "entry" /\ ~Captures(stack)
    BY <1>4, <1>11 DEF InEntry, Captures, n
  <2>2. /\ Listed(closed) /\ p.entries = ReadAll(closed)
        /\ document = Append(closed, entry) /\ entry = stored
        /\ p.raw = <<Raw(stored)>> /\ p.capture = None
    BY <1>2, <1>11, <2>1 DEF Holds, n
  <2>3. p.inAuthor = FALSE
    <3>1. p.inAuthor = (Len(stack) > 2 /\ stack[3] = "author")
      BY <1>2, <1>11, <2>1 DEF Holds, n
    <3>2. ~(Len(stack) > 2)
      BY <1>11 DEF n
    <3> QED
      BY <3>1, <3>2, Zenon
  <2>4. parser' = Reader(p.entries \o IntoEntry(Raw(stored)), <<>>, FALSE, None, p.buf)
    <3>1. p.capture # "entry"
      BY <1>8, <2>1, <2>2
    <3> QED
      BY <1>1, <1>3, <2>1, <2>2, <2>3, <3>1, ClosedEntry
  <2>5. p.entries \o IntoEntry(Raw(stored)) = ReadAll(document)
    <3>1. ReadAll(Append(closed, entry)) = ReadAll(closed) \o ReadEntry(entry)
      BY <2>2, ReadAllAppend
    <3>2. ReadEntry(entry) = IntoEntry(Raw(entry))
      BY ReadIsInto
    <3> QED
      BY <2>2, <3>1, <3>2
  <2>6. Listed(document)
    BY <2>2, AppendListed
  <2>7. ~(Len(u) >= 2) /\ ~Captures(u)
    BY <1>4, <1>11 DEF Captures
  <2>8. Holds(parser', u, document, document, <<>>, <<>>)
    BY <2>4, <2>5, <2>6, <2>7 DEF Holds, Reader
  <2>9. IsReader(parser')
    BY <2>4 DEF IsReader, Reader
  <2> QED
    BY <2>8, <2>9
<1>12. CASE InEntry /\ n # 2
  <2>1. n > 2 /\ stack[2] = "entry" /\ u[2] = "entry" /\ Len(u) >= 2 /\ local # "entry"
    BY <1>1, <1>4, <1>6, <1>7, <1>12 DEF InEntry
  <2>2. /\ Listed(closed) /\ p.entries = ReadAll(closed)
        /\ Listed(entry) /\ AllElements(entry) /\ Listed(stored) /\ entry # <<>>
        /\ document = Append(closed, entry)
        /\ p.raw = <<Raw(stored)>>
        /\ p.inAuthor = (n > 2 /\ stack[3] = "author")
    BY <1>2, <2>1 DEF Holds, n
  <2>3. ~Captures(u)
    <3>1. SUFFICES ASSUME Captures(u) PROVE FALSE
      OBVIOUS
    <3>2. u[n - 1] \in TextFields \cup {"name"}
      BY <1>4, <3>1 DEF Captures
    <3> QED
      BY <1>6, <1>7, <3>2
  <2>4. CASE Captures(stack)
    <3>1. /\ p.capture = local /\ entry = Append(stored, Element(stack, p.buf))
      BY <1>2, <2>1, <2>4 DEF Holds, local, n
    <3>2. \/ n = 3 /\ stack[3] \in TextFields /\ local = stack[3]
          \/ n = 4 /\ stack[3] = "author" /\ local = "name"
      BY <1>4, <2>4 DEF Captures, n
    <3>3. local \in TextFields \cup {"name"}
      BY <3>2
    <3>4. parser' = Reader(p.entries, <<Store(Raw(stored), local, p.buf)>>, p.inAuthor, None, <<>>)
      BY <1>1, <1>3, <2>2, <3>1, <3>3, ClosedText
    <3>5. Raw(entry) = Store(Raw(stored), local, p.buf)
      <4>1. PICK e : e = Element(stack, p.buf)
        OBVIOUS
      <4>2. e.path = SubSeq(stack, 3, Len(stack)) /\ e.text = p.buf
        BY <4>1 DEF Element
      <4>3. e.path = PathOf(local)
        BY <1>3, <1>4, <2>1, <2>4, <3>3, <4>2, CapturedPath DEF n
      <4>4. Raw(Append(stored, e)) = Store(Raw(stored), local, e.text)
        BY <2>2, <3>3, <4>3, RawAppend
      <4> QED
        BY <3>1, <4>1, <4>2, <4>4
    <3>6. p.inAuthor = (Len(u) > 2 /\ u[3] = "author")
      <4>1. CASE n = 3
        <5>1. ~(Len(u) > 2) /\ ~(n > 2 /\ stack[3] = "author")
          BY <1>4, <3>2, <4>1 DEF TextFields
        <5> QED
          BY <2>2, <5>1, Zenon
      <4>2. CASE n # 3
        <5>1. (Len(u) > 2 /\ u[3] = "author") /\ (n > 2 /\ stack[3] = "author")
          BY <1>4, <1>6, <3>2, <4>2
        <5> QED
          BY <2>2, <5>1, Zenon
      <4> QED
        BY <4>1, <4>2
    <3>7. Holds(parser', u, document, closed, entry, entry)
      BY <2>1, <2>2, <2>3, <3>4, <3>5, <3>6 DEF Holds, Reader
    <3>8. IsReader(parser')
      BY <3>4 DEF IsReader, Reader
    <3> QED
      BY <3>7, <3>8
  <2>5. CASE ~Captures(stack)
    <3>1. p.capture = None /\ entry = stored
      BY <1>2, <2>1, <2>5 DEF Holds, n
    <3>2. CASE local = "author"
      <4>1. n = 3
        BY <1>7, <2>1, <3>2
      <4>2. p.capture # "author"
        BY <1>8, <3>1, <3>2
      <4>3. parser' = Reader(p.entries, p.raw, FALSE, p.capture, p.buf)
        BY <1>1, <1>3, <3>2, <4>2, ClosedAuthor
      <4>4. parser'.inAuthor = (Len(u) > 2 /\ u[3] = "author")
        <5>1. ~(Len(u) > 2) /\ parser'.inAuthor = FALSE
          BY <1>4, <4>1, <4>3 DEF Reader
        <5> QED
          BY <5>1, Zenon
      <4>5. /\ parser'.entries = p.entries /\ parser'.raw = p.raw
            /\ parser'.capture = p.capture
        BY <4>3 DEF Reader
      <4>6. Holds(parser', u, document, closed, entry, stored)
        BY <2>1, <2>2, <2>3, <3>1, <4>4, <4>5 DEF Holds
      <4>7. IsReader(parser')
        BY <4>3 DEF IsReader, Reader
      <4> QED
        BY <4>6, <4>7
    <3>3. CASE local # "author"
      <4>1. parser' = p
        BY <1>1, <1>8, <2>1, <3>1, <3>3, ClosedOther
      <4>2. p.inAuthor = (Len(u) > 2 /\ u[3] = "author")
        <5>1. CASE n = 3
          <6>1. ~(Len(u) > 2) /\ ~(n > 2 /\ stack[3] = "author")
            BY <1>4, <3>3, <5>1
          <6> QED
            BY <2>2, <6>1, Zenon
        <5>2. CASE n # 3
          <6>1. Len(u) > 2 /\ n > 2 /\ u[3] = stack[3]
            BY <1>4, <1>6, <2>1, <5>2
          <6> QED
            BY <2>2, <6>1, Zenon
        <5> QED
          BY <5>1, <5>2
      <4>3. Holds(p, u, document, closed, entry, stored)
        BY <2>1, <2>2, <2>3, <3>1, <4>2 DEF Holds
      <4> QED
        BY <1>3, <4>1, <4>3
    <3> QED
      BY <3>2, <3>3
  <2> QED
    BY <2>4, <2>5
<1> QED
  BY <1>10, <1>11, <1>12

\* A run of text.
LEMMA TextStep ==
  ASSUME config \in Configs, config.source = "arxiv", FeedInv,
         NEW piece, NEW cdata, Characters(piece, cdata)
  PROVE  FeedInv'
<1> DEFINE n == Len(stack)
           x == IF cdata THEN piece ELSE Decoded(piece)
           p == parser
<1>1. /\ parser' = OnText(p, piece, cdata) /\ stack' = stack /\ config' = config
  BY DEF Characters
<1>2. PICK closed, entry, stored : Holds(parser, stack, document, closed, entry, stored)
  BY DEF FeedInv
<1>3. Nest(stack, config.children) /\ IsReader(p) /\ Listed(stack) /\ n \in Nat
  BY DEF FeedInv, Nest, Listed
<1> SUFFICES \E c1, en1, st1 : IsReader(parser') /\ Holds(parser', stack, document', c1, en1, st1)
  BY <1>1, <1>3 DEF FeedInv
<1>4. parser' = IF p.capture = None THEN p
                ELSE Reader(p.entries, p.raw, p.inAuthor, p.capture, Append(p.buf, x))
  BY <1>1, <1>3, ReadText
<1>5. CASE ~(InEntry /\ n > 2)
  <2>1. document' = document
    BY <1>5 DEF Characters
  <2>2. ~Captures(stack)
    BY <1>3, <1>5 DEF Captures, InEntry
  <2>3. parser' = p
    BY <1>2, <1>4, <2>2 DEF Holds
  <2> QED
    BY <1>2, <1>3, <2>1, <2>3
<1>6. CASE InEntry /\ n > 2
  <2>1. n > 2 /\ stack[2] = "entry"
    BY <1>3, <1>6 DEF InEntry
  <2>2. /\ Listed(closed) /\ p.entries = ReadAll(closed)
        /\ Listed(entry) /\ AllElements(entry) /\ Listed(stored) /\ entry # <<>>
        /\ document = Append(closed, entry) /\ p.raw = <<Raw(stored)>>
        /\ p.inAuthor = (n > 2 /\ stack[3] = "author")
        /\ entry = IF Captures(stack) THEN Append(stored, Element(stack, p.buf)) ELSE stored
    BY <1>2, <2>1 DEF Holds
  <2>3. Len(document) = Len(closed) + 1 /\ document[Len(document)] = entry
    BY <2>2, AppendListed
  <2>4. PICK w, e : Listed(w) /\ entry = Append(w, e)
    <3> DEFINE S == {entry[i] : i \in DOMAIN entry}
    <3>1. entry \in Seq(S)
      BY <2>2 DEF Listed
    <3> HIDE DEF S
    <3>2. PICK w \in Seq(S), e \in S : entry = Append(w, e)
      BY <2>2, <3>1, SequenceEmptyOrAppend
    <3>3. Listed(w)
      BY <3>2 DEF Listed
    <3> QED
      BY <3>2, <3>3
  <2>5. /\ Len(entry) = Len(w) + 1 /\ entry[Len(entry)] = e
        /\ AllElements(w) /\ e = [path |-> e.path, text |-> e.text]
    <3>1. /\ Len(Append(w, e)) = Len(w) + 1 /\ Len(w) \in Nat
          /\ Append(w, e)[Len(w) + 1] = e
      BY <2>4, AppendListed
    <3>2. AllElements(Append(w, e))
      BY <2>2, <2>4
    <3>3. AllElements(w) /\ e = [path |-> e.path, text |-> e.text]
      BY <2>4, <3>2, ElementsAppend
    <3> QED
      BY <2>4, <3>1, <3>3
  <2> DEFINE f == [path |-> e.path, text |-> Append(e.text, x)]
  <2>6. e.path = SubSeq(stack, 3, Len(stack))
    BY <1>6, <2>3, <2>5 DEF Characters
  <2>7. document' = Append(closed, Append(w, f))
    <3>1. document' = [document EXCEPT ![Len(document)][Len(entry)].text = Append(@, x)]
      BY <1>6, <2>3 DEF Characters
    <3>2. [e EXCEPT !.text = Append(@, x)] = f
      <4>1. PICK a, b : a = e.path /\ b = e.text
        OBVIOUS
      <4>2. e = [path |-> a, text |-> b]
        BY <2>5, <4>1
      <4> HIDE DEF x
      <4>3. [[path |-> a, text |-> b] EXCEPT !.text = Append(@, x)]
              = [path |-> a, text |-> Append(b, x)]
        OBVIOUS
      <4> QED
        BY <4>1, <4>2, <4>3
    <3> HIDE DEF f, x
    <3>3. document' = [document EXCEPT ![Len(document)] = [entry EXCEPT ![Len(entry)] = f]]
      BY <2>3, <2>5, <3>1, <3>2
    <3>4. [entry EXCEPT ![Len(entry)] = f] = Append(w, f)
      BY <2>4, <2>5, LastOfAppend
    <3>5. PICK g : g = Append(w, f)
      OBVIOUS
    <3>6. [document EXCEPT ![Len(document)] = g] = Append(closed, g)
      BY <2>2, <2>3, LastOfAppend
    <3> QED
      BY <3>3, <3>4, <3>5, <3>6
  <2>8. f = [path |-> f.path, text |-> f.text] /\ f.path = e.path /\ f.text = Append(e.text, x)
    OBVIOUS
  <2> HIDE DEF f, x
  <2>9. Listed(Append(w, f)) /\ AllElements(Append(w, f)) /\ Append(w, f) # <<>>
    <3>1. Listed(Append(w, f)) /\ Len(Append(w, f)) = Len(w) + 1 /\ Len(w) \in Nat
      BY <2>4, AppendListed
    <3> QED
      BY <2>4, <2>5, <2>8, <3>1, ElementsAppend
  <2>10. CASE Captures(stack)
    <3>1. p.capture = Last(stack) /\ p.capture # None
      <4>1. Shape(stack) /\ n \in 1..n /\ Last(stack) = stack[n]
        BY <1>3, <2>1, NestShape DEF Last
      <4>2. Last(stack) \in STRING
        BY <4>1 DEF Shape
      <4> QED
        BY <1>2, <2>10, <4>2, AtomAssumption DEF Holds
    <3>2. parser' = Reader(p.entries, p.raw, p.inAuthor, p.capture, Append(p.buf, x))
      BY <1>4, <3>1
    <3>3. w = stored /\ e = Element(stack, p.buf)
      <4>1. PICK d : d = Element(stack, p.buf)
        OBVIOUS
      <4>2. Append(stored, d) = Append(w, e)
        BY <2>2, <2>4, <2>10, <4>1
      <4>3. /\ Front(Append(stored, d)) = stored /\ Last(Append(stored, d)) = d
            /\ Front(Append(w, e)) = w /\ Last(Append(w, e)) = e
        BY <2>2, <2>4, LastOfAppend
      <4> QED
        BY <4>1, <4>2, <4>3
    <3>4. f = Element(stack, Append(p.buf, x))
      BY <2>8, <3>3 DEF Element
    <3>5. Holds(parser', stack, document', closed, Append(w, f), stored)
      BY <2>1, <2>2, <2>7, <2>9, <2>10, <3>1, <3>2, <3>3, <3>4 DEF Holds, Reader
    <3>6. IsReader(parser')
      BY <3>2 DEF IsReader, Reader
    <3> QED
      BY <3>5, <3>6
  <2>11. CASE ~Captures(stack)
    <3>1. parser' = p /\ p.capture = None
      BY <1>2, <1>4, <2>11 DEF Holds
    <3>2. \A l \in TextFields \cup {"name"} : e.path # PathOf(l) /\ f.path # PathOf(l)
      BY <1>3, <2>1, <2>6, <2>8, <2>11, CapturedPath
    <3>3. Raw(Append(w, f)) = Raw(w) /\ Raw(Append(w, e)) = Raw(w)
      BY <2>4, <3>2, RawAppend
    <3>4. p.raw = <<Raw(Append(w, f))>>
      BY <2>2, <2>4, <2>11, <3>3
    <3>5. Holds(p, stack, document', closed, Append(w, f), Append(w, f))
      BY <2>1, <2>2, <2>7, <2>9, <2>11, <3>1, <3>4 DEF Holds
    <3> QED
      BY <1>3, <3>1, <3>5
  <2> QED
    BY <2>10, <2>11
<1> QED
  BY <1>5, <1>6

\* Every step keeps what the reader has of the feed.
LEMMA FeedStep == Control /\ FeedInv /\ [Next]_vars => FeedInv'
<1> SUFFICES ASSUME Control, FeedInv, [Next]_vars PROVE FeedInv'
  OBVIOUS
<1>1. config \in Configs /\ (phase = "feed" => config.source = "arxiv")
  BY DEF Control
<1>2. ASSUME NEW local \in Inside, OpenElement(local) PROVE FeedInv'
  BY <1>1, <1>2, OpenStep DEF OpenElement
<1>3. CASE CloseElement
  BY <1>1, <1>3, CloseStep DEF CloseElement
<1>4. ASSUME NEW piece, NEW cdata, Characters(piece, cdata) PROVE FeedInv'
  BY <1>1, <1>4, TextStep DEF Characters
<1>5. CASE UNCHANGED <<config, parser, stack, document>>
  BY <1>5 DEF FeedInv
<1>6. LoadOverrides \/ Query \/ BreakFeed \/ EndFeed \/ ResolveOne \/ LoadFile \/ LookUpAll
        \/ Format \/ Stop \/ UNCHANGED vars => UNCHANGED <<config, parser, stack, document>>
  BY DEF LoadOverrides, Query, BreakFeed, EndFeed, ResolveOne, LoadFile, LookUpAll, Format,
         Stop, vars, feedVars
<1> QED
  BY <1>2, <1>3, <1>4, <1>5, <1>6 DEF Next, ReadFeed

\* Whatever is written between the tags of a feed, wherever it is cut: the flat reader,
\* which keeps no stack of open elements, has of every entry closed so far what its own
\* elements say, and of no other element anything.
THEOREM FeedReadAlways == Spec => []FeedReadFaithfully
<1>1. SourcesInv => Control
  BY DEF SourcesInv
<1> QED
  BY <1>1, FeedInit, FeedStep, FeedInvReads, SourcesInvariant, PTL DEF Spec

------------------------------------------------------------------------------
(* The entries of a feed, and which of them answers a key.                   *)

\* An id with a version has no digits left in its base.
IsEntry(e) ==
  /\ e.version \in Nat \cup {None}
  /\ e.version # None => e.arxivid.digits = None
AreEntries(entries) ==
  /\ Len(entries) \in Nat /\ DOMAIN entries = 1..Len(entries)
  /\ \A i \in 1..Len(entries) : IsEntry(entries[i])

LEMMA SplitIs ==
  ASSUME NEW id, IsId(id)
  PROVE  LET split == SplitVersion(id)
         IN  /\ split.version \in Nat \cup {None}
             /\ split.version = None => split.base = id
             /\ split.version # None =>
                  /\ split.base = [name |-> id.name, digits |-> None]
                  /\ split.version = id.digits
             /\ split.version = None <=> id.digits = None \/ id.digits > MaxVersion
<1>1. MaxVersion \in Nat /\ None \notin Nat
  BY AtomAssumption
<1>2. id.digits \in Nat \cup {None} /\ id = [name |-> id.name, digits |-> id.digits]
  BY DEF IsId
<1>3. [id EXCEPT !.digits = None] = [name |-> id.name, digits |-> None]
  BY <1>2
<1>4. CASE id.digits # None /\ id.digits <= MaxVersion
  BY <1>1, <1>2, <1>3, <1>4 DEF SplitVersion
<1>5. CASE ~(id.digits # None /\ id.digits <= MaxVersion)
  BY <1>1, <1>2, <1>5 DEF SplitVersion
<1> QED
  BY <1>4, <1>5

LEMMA ReadIsEntry ==
  ASSUME NEW entry, ReadEntry(entry) # <<>>
  PROVE  IsEntry(ReadEntry(entry)[1])
<1> DEFINE r == ReadEntry(entry)[1]
           written == TrimmedAt(entry, <<"id">>)
<1>1. IsAbs(written) /\ r.arxivid = SplitVersion(written[1]).base
                     /\ r.version = SplitVersion(written[1]).version
  BY DEF ReadEntry
<1> HIDE DEF r
<1>2. PICK id \in ArxivIds : written = <<id>>
  BY <1>1 DEF IsAbs
<1>3. IsId(id) /\ written[1] = id
  BY <1>2, AtomAssumption
<1>4. [name |-> id.name, digits |-> None].digits = None
  OBVIOUS
<1>5. IsEntry(r)
  BY <1>1, <1>3, <1>4, SplitIs DEF IsEntry
<1> QED
  BY <1>5 DEF r

\* What a feed is read as: a list of such entries.
LEMMA ReadAllAre == ASSUME NEW closed, Listed(closed) PROVE AreEntries(ReadAll(closed))
<1> DEFINE n == Len(closed)
           p == [i \in DOMAIN closed |-> ReadEntry(closed[i])]
           T == {t \in {ReadEntry(closed[i])[1] : i \in DOMAIN closed} : IsEntry(t)}
<1>1. n \in Nat /\ DOMAIN closed = 1..n
  BY AppendListed
<1>2. /\ p = [i \in 1..n |-> p[i]] /\ \A i \in 1..n : p[i] = ReadEntry(closed[i])
      /\ \A t \in T : IsEntry(t)
      /\ \A i \in 1..n : IsEntry(ReadEntry(closed[i])[1]) => ReadEntry(closed[i])[1] \in T
  BY <1>1
<1> HIDE DEF n, p, T
<1>3. <<>> \in Seq(T) /\ \A a \in T : <<a>> \in Seq(T)
  OBVIOUS
<1>4. ASSUME NEW i \in 1..n PROVE p[i] \in Seq(T)
  <2>1. PICK r : r = ReadEntry(closed[i])
    OBVIOUS
  <2>2. r = <<>> \/ r = <<r[1]>>
    BY <2>1, ReadsOneAtMost
  <2>3. r # <<>> => r[1] \in T
    BY <1>2, <2>1, ReadIsEntry
  <2> QED
    BY <1>2, <1>3, <2>1, <2>2, <2>3
<1>5. p \in Seq(Seq(T)) /\ <<>> \in Seq(T)
  BY <1>1, <1>2, <1>3, <1>4
<1>6. FlattenSeq(p) \in Seq(T)
  BY <1>5, FlattenAppend
<1>7. PICK f : f = FlattenSeq(p)
  OBVIOUS
<1>8. f \in Seq(T) /\ f = ReadAll(closed)
  BY <1>6, <1>7 DEF ReadAll, p
<1>9. Len(f) \in Nat /\ DOMAIN f = 1..Len(f) /\ \A i \in 1..Len(f) : f[i] \in T
  BY <1>8
<1> QED
  BY <1>2, <1>8, <1>9 DEF AreEntries

------------------------------------------------------------------------------
(* select_best and the `find` of a version.                                  *)
Chosen(best, entries, base, i) == IF entries[i].arxivid = base THEN Better(best, entries[i]) ELSE best
IsSelecting(w, entries, base, k) ==
  /\ w = [i \in 0..k |-> w[i]] /\ w[0] = <<>>
  /\ \A i \in 1..k : w[i] = Chosen(w[i - 1], entries, base, i)

LEMMA SelectingExists ==
  ASSUME NEW entries, NEW base, NEW m \in Nat PROVE \E w : IsSelecting(w, entries, base, m)
<1> DEFINE S == {k \in Nat : \E w : IsSelecting(w, entries, base, k)}
<1>1. 0 \in S
  <2> DEFINE w == [i \in 0..0 |-> <<>>]
  <2>1. w = [i \in 0..0 |-> w[i]] /\ w[0] = <<>>
    OBVIOUS
  <2> HIDE DEF w
  <2> QED
    BY <2>1 DEF IsSelecting
<1>2. ASSUME NEW k \in S PROVE k + 1 \in S
  <2>1. k \in Nat
    OBVIOUS
  <2>2. PICK w : IsSelecting(w, entries, base, k)
    BY <1>2
  <2> DEFINE next == Chosen(w[k], entries, base, k + 1)
             v == [i \in 0..(k + 1) |-> IF i = k + 1 THEN next ELSE w[i]]
  <2> HIDE DEF next
  <2>3. /\ v = [i \in 0..(k + 1) |-> v[i]]
        /\ v[k + 1] = next
        /\ \A i \in 0..k : v[i] = w[i]
    BY <2>1
  <2> HIDE DEF v
  <2>4. v[0] = <<>>
    <3>1. 0 \in 0..k
      BY <2>1
    <3> QED
      BY <2>2, <2>3, <3>1 DEF IsSelecting
  <2>5. ASSUME NEW i \in 1..(k + 1) PROVE v[i] = Chosen(v[i - 1], entries, base, i)
    <3>1. CASE i = k + 1
      <4>1. i - 1 = k /\ k \in 0..k
        BY <2>1, <3>1
      <4> QED
        BY <2>3, <3>1, <4>1 DEF next
    <3>2. CASE i # k + 1
      <4>1. i \in 1..k /\ i \in 0..k /\ i - 1 \in 0..k
        BY <2>1, <3>2
      <4> QED
        BY <2>2, <2>3, <4>1 DEF IsSelecting
    <3> QED
      BY <3>1, <3>2
  <2>6. IsSelecting(v, entries, base, k + 1)
    BY <2>3, <2>4, <2>5 DEF IsSelecting
  <2> QED
    BY <2>1, <2>6
<1> HIDE DEF S
<1>3. S \in SUBSET Nat
  BY DEF S
<1>4. S = Nat
  BY <1>1, <1>2, <1>3, NaturalInduction
<1> QED
  BY <1>4 DEF S

\* Entry number i has this base, and none of the first k with this base is better.
IsBest(entries, base, k, i) ==
  /\ i \in 1..k /\ entries[i].arxivid = base
  /\ entries[i].version # None =>
       \A j \in 1..k :
         entries[j].arxivid = base =>
           entries[j].version # None /\ entries[j].version <= entries[i].version

BestSoFar(best, entries, base, k) ==
  \/ best = <<>> /\ \A i \in 1..k : entries[i].arxivid # base
  \/ \E i \in 1..k : best = <<entries[i]>> /\ IsBest(entries, base, k, i)

LEMMA ChosenIsBest ==
  ASSUME NEW entries, AreEntries(entries), NEW base, NEW k \in Nat, k + 1 <= Len(entries),
         NEW best, BestSoFar(best, entries, base, k)
  PROVE  BestSoFar(Chosen(best, entries, base, k + 1), entries, base, k + 1)
<1> DEFINE e == entries[k + 1]
           next == Chosen(best, entries, base, k + 1)
<1>1. \A i \in 1..(k + 1) : i \in 1..k \/ i = k + 1
  OBVIOUS
<1>2. k + 1 \in 1..(k + 1) /\ \A i \in 1..k : i \in 1..(k + 1)
  OBVIOUS
<1>3. \A i \in 1..(k + 1) : entries[i].version \in Nat \cup {None}
  BY DEF AreEntries, IsEntry
<1>4. None \notin Nat
  BY AtomAssumption
<1>5. CASE e.arxivid # base
  <2>1. next = best
    BY <1>5 DEF Chosen
  <2>2. CASE best = <<>> /\ \A i \in 1..k : entries[i].arxivid # base
    BY <1>1, <1>5, <2>1, <2>2 DEF BestSoFar
  <2>3. ASSUME NEW i \in 1..k, best = <<entries[i]>>, IsBest(entries, base, k, i)
        PROVE  BestSoFar(next, entries, base, k + 1)
    <3>1. i \in 1..(k + 1) /\ IsBest(entries, base, k + 1, i)
      BY <1>1, <1>2, <1>5, <2>3 DEF IsBest
    <3> QED
      BY <2>1, <2>3, <3>1 DEF BestSoFar
  <2> QED
    BY <2>2, <2>3 DEF BestSoFar
<1>6. CASE e.arxivid = base
  <2>1. next = Better(best, e)
    BY <1>6 DEF Chosen
  <2>2. CASE best = <<>> /\ \A i \in 1..k : entries[i].arxivid # base
    <3>1. next = <<e>>
      BY <2>1, <2>2 DEF Better
    <3>2. e.version # None => e.version \in Nat /\ e.version <= e.version
      BY <1>2, <1>3
    <3>3. IsBest(entries, base, k + 1, k + 1)
      BY <1>1, <1>2, <1>6, <2>2, <3>2 DEF IsBest
    <3> QED
      BY <1>2, <3>1, <3>3 DEF BestSoFar
  <2>3. ASSUME NEW i \in 1..k, best = <<entries[i]>>, IsBest(entries, base, k, i)
        PROVE  BestSoFar(next, entries, base, k + 1)
    <3> DEFINE b == entries[i]
    <3>1. i \in 1..(k + 1) /\ best # <<>> /\ best[1] = b /\ b.arxivid = base
      BY <1>2, <2>3 DEF IsBest
    <3>2. b.version \in Nat \cup {None} /\ e.version \in Nat \cup {None}
      BY <1>2, <1>3, <3>1
    <3>3. next = IF b.version = None THEN best
                 ELSE IF e.version = None \/ e.version >= b.version THEN <<e>> ELSE best
      BY <2>1, <3>1 DEF Better
    <3> HIDE DEF next, e, b
    <3>4. CASE next = best
      <4>1. b.version # None => e.version # None /\ e.version <= b.version
        <5>1. CASE b.version = None
          BY <5>1
        <5>2. CASE b.version # None /\ (e.version = None \/ e.version >= b.version)
          <6>1. <<e>> = <<b>>
            BY <2>3, <3>3, <3>4, <5>2 DEF b
          <6> QED
            BY <3>2, <5>2, <6>1
        <5>3. CASE b.version # None /\ ~(e.version = None \/ e.version >= b.version)
          BY <3>2, <5>3
        <5> QED
          BY <5>1, <5>2, <5>3
      <4>2. IsBest(entries, base, k + 1, i)
        BY <1>1, <1>2, <2>3, <3>1, <4>1 DEF IsBest, b, e
      <4> QED
        BY <2>3, <3>1, <3>4, <4>2 DEF BestSoFar
    <3>5. CASE next = <<e>> /\ b.version # None /\ (e.version = None \/ e.version >= b.version)
      <4>1. ASSUME e.version # None, NEW j \in 1..(k + 1), entries[j].arxivid = base
            PROVE  entries[j].version # None /\ entries[j].version <= e.version
        <5>1. CASE j = k + 1
          BY <3>2, <4>1, <5>1 DEF e
        <5>2. CASE j \in 1..k
          <6>1. entries[j].version # None /\ entries[j].version <= b.version
            BY <2>3, <3>5, <4>1, <5>2 DEF IsBest, b
          <6>2. entries[j].version \in Nat /\ b.version \in Nat /\ e.version \in Nat
            BY <1>3, <3>2, <3>5, <4>1, <6>1
          <6> QED
            BY <3>5, <4>1, <6>1, <6>2
        <5> QED
          BY <1>1, <4>1, <5>1, <5>2
      <4>2. IsBest(entries, base, k + 1, k + 1)
        BY <1>2, <1>6, <4>1 DEF IsBest, e
      <4> QED
        BY <1>2, <3>5, <4>2 DEF BestSoFar, e
    <3> QED
      BY <3>3, <3>4, <3>5
  <2> QED
    BY <2>2, <2>3 DEF BestSoFar
<1> QED
  BY <1>5, <1>6

\* Of all the entries with this base, one that no other is better than.
LEMMA SelectBestIs ==
  ASSUME NEW entries, AreEntries(entries), NEW base
  PROVE  BestSoFar(SelectBest(entries, base), entries, base, Len(entries))
<1> DEFINE m == Len(entries)
           Follows(w) ==
             w = [i \in 0..m |->
                    IF i = 0 THEN <<>>
                    ELSE IF entries[i].arxivid = base THEN Better(w[i - 1], entries[i])
                    ELSE w[i - 1]]
           g == CHOOSE w : Follows(w)
<1>0. m \in Nat
  BY DEF AreEntries
<1>1. SelectBest(entries, base) = g[m]
  BY DEF SelectBest
<1>2. \E w : Follows(w)
  <2>1. PICK w : IsSelecting(w, entries, base, m)
    BY <1>0, SelectingExists
  <2>2. \A i \in 0..m : w[i] = IF i = 0 THEN <<>>
                               ELSE IF entries[i].arxivid = base
                               THEN Better(w[i - 1], entries[i]) ELSE w[i - 1]
    <3>1. \A i \in 0..m : i = 0 \/ (i # 0 /\ i \in 1..m)
      BY <1>0
    <3>2. w[0] = <<>> /\ \A i \in 1..m : w[i] = Chosen(w[i - 1], entries, base, i)
      BY <2>1 DEF IsSelecting
    <3> QED
      BY <3>1, <3>2, Zenon DEF Chosen
  <2>3. Follows(w)
    BY <2>1, <2>2 DEF IsSelecting
  <2> QED
    BY <2>3
<1>3. Follows(g)
  BY <1>2
<1> HIDE DEF g, m
<1>4. g[0] = <<>> /\ \A i \in 1..m : g[i] = Chosen(g[i - 1], entries, base, i)
  BY <1>0, <1>3 DEF Chosen
<1> DEFINE S == {k \in Nat : k <= m => BestSoFar(g[k], entries, base, k)}
<1>5. 0 \in S
  BY <1>4 DEF BestSoFar
<1>6. ASSUME NEW k \in S PROVE k + 1 \in S
  <2>1. k \in Nat /\ (k + 1) - 1 = k
    OBVIOUS
  <2>2. ASSUME k + 1 <= m PROVE BestSoFar(g[k + 1], entries, base, k + 1)
    <3>1. BestSoFar(g[k], entries, base, k) /\ k + 1 \in 1..m
      BY <1>0, <1>6, <2>2
    <3>2. g[k + 1] = Chosen(g[k], entries, base, k + 1)
      BY <1>4, <2>1, <3>1
    <3>3. k + 1 <= Len(entries)
      BY <2>2 DEF m
    <3> QED
      BY <2>1, <3>1, <3>2, <3>3, ChosenIsBest
  <2> QED
    BY <2>1, <2>2
<1> HIDE DEF S
<1>7. S \in SUBSET Nat
  BY DEF S
<1>8. S = Nat
  BY <1>5, <1>6, <1>7, NaturalInduction
<1>9. BestSoFar(g[m], entries, base, m)
  BY <1>0, <1>8 DEF S
<1> QED
  BY <1>1, <1>9 DEF m

LEMMA SelectVersionIs ==
  ASSUME NEW entries, AreEntries(entries), NEW base, NEW version
  PROVE  LET Exact(i) == entries[i].arxivid = base /\ entries[i].version = version
             found == SelectVersion(entries, base, version)
         IN  \/ found = <<>> /\ \A i \in 1..Len(entries) : ~Exact(i)
             \/ \E i \in 1..Len(entries) : Exact(i) /\ found = <<entries[i]>>
<1> DEFINE exact == {i \in DOMAIN entries :
                       entries[i].arxivid = base /\ entries[i].version = version}
           k == CHOOSE i \in exact : \A j \in exact : i <= j
<1>1. DOMAIN entries = 1..Len(entries) /\ Len(entries) \in Nat
  BY DEF AreEntries
<1>2. SelectVersion(entries, base, version) = IF exact = {} THEN <<>> ELSE <<entries[k]>>
  BY DEF SelectVersion
<1>3. CASE exact = {}
  BY <1>1, <1>2, <1>3
<1>4. CASE exact # {}
  <2>1. exact \in SUBSET Nat
    BY <1>1
  <2>2. \E i \in exact : \A j \in exact : i <= j
    <3> HIDE DEF exact
    <3> QED
      BY <1>4, <2>1, Least
  <2>3. k \in exact
    BY <2>2
  <2> QED
    BY <1>1, <1>2, <1>4, <2>3
<1> QED
  BY <1>3, <1>4

------------------------------------------------------------------------------
(* One key, looked up in the entries of the feed.                            *)

\* Entry number i answers `key`: it is what the key names, the best of them when no
\* version is named, and with its DOI decides how.
AnsweredBy(r, key, entries, i) ==
  LET id == SplitVersion(key)
      doi == EffectiveDoi(id.base, entries[i].doi)
  IN  /\ i \in 1..Len(entries) /\ Matches(entries[i], key)
      /\ id.version = None => IsBest(entries, id.base, Len(entries), i)
      /\ r = IF id.version = None /\ config.chain # None /\ doi # None
             THEN Chained(key, config.chain, doi, id.base)
             ELSE Concrete(key, BuildCsl(entries[i], doi))

KeyAnswered(r, key, entries) ==
  \/ r = Missing(key) /\ \A i \in 1..Len(entries) : ~Matches(entries[i], key)
  \/ \E i \in 1..Len(entries) : AnsweredBy(r, key, entries, i)

LEMMA ResolveKeyAnswers ==
  ASSUME NEW entries, AreEntries(entries), NEW key
  PROVE  KeyAnswered(ResolveKey(key, entries), key, entries)
<1> DEFINE id == SplitVersion(key)
           best == SelectBest(entries, id.base)
           exact == SelectVersion(entries, id.base, id.version)
           found == IF id.version = None THEN best ELSE exact
           Named(i) == /\ i \in 1..Len(entries) /\ Matches(entries[i], key)
                       /\ id.version = None => IsBest(entries, id.base, Len(entries), i)
           Doi(i) == EffectiveDoi(id.base, entries[i].doi)
           Given(i) == IF id.version = None /\ config.chain # None /\ Doi(i) # None
                       THEN Chained(key, config.chain, Doi(i), id.base)
                       ELSE Concrete(key, BuildCsl(entries[i], Doi(i)))
<1>1. \/ found = <<>> /\ \A i \in 1..Len(entries) : ~Matches(entries[i], key)
      \/ \E i \in 1..Len(entries) : Named(i) /\ found = <<entries[i]>>
  <2>1. CASE id.version = None
    <3>1. PICK base : base = id.base
      OBVIOUS
    <3>2. BestSoFar(SelectBest(entries, base), entries, base, Len(entries))
      BY SelectBestIs
    <3>3. \A i : Matches(entries[i], key) <=> entries[i].arxivid = base
      BY <2>1, <3>1 DEF Matches
    <3>4. found = SelectBest(entries, base)
      BY <2>1, <3>1
    <3> HIDE DEF found, id
    <3>5. CASE found = <<>> /\ \A i \in 1..Len(entries) : entries[i].arxivid # base
      BY <3>3, <3>5
    <3>6. ASSUME NEW i \in 1..Len(entries), found = <<entries[i]>>,
                 IsBest(entries, base, Len(entries), i)
          PROVE  Named(i)
      BY <3>1, <3>3, <3>6 DEF IsBest
    <3> HIDE DEF Named
    <3> QED
      BY <3>2, <3>4, <3>5, <3>6 DEF BestSoFar
  <2>2. CASE id.version # None
    <3>1. PICK base, version : base = id.base /\ version = id.version
      OBVIOUS
    <3>2. \A i : Matches(entries[i], key)
                   <=> entries[i].arxivid = base /\ entries[i].version = version
      BY <2>2, <3>1 DEF Matches
    <3>3. found = SelectVersion(entries, base, version)
      BY <2>2, <3>1
    <3> HIDE DEF found, id
    <3> QED
      BY <2>2, <3>2, <3>3, SelectVersionIs
  <2> QED
    BY <2>1, <2>2
<1>2. CASE found = <<>>
  <2>1. ResolveKey(key, entries) = Missing(key)
    BY <1>2 DEF ResolveKey
  <2>2. \A i : found # <<entries[i]>>
    <3> HIDE DEF found
    <3> QED
      BY <1>2
  <2> HIDE DEF found, Named
  <2> QED
    BY <1>1, <2>1, <2>2 DEF KeyAnswered
<1>3. ASSUME NEW i \in 1..Len(entries), Named(i), found = <<entries[i]>>
      PROVE  AnsweredBy(ResolveKey(key, entries), key, entries, i)
  <2>1. found # <<>> /\ found[1] = entries[i]
    <3> HIDE DEF found
    <3> QED
      BY <1>3
  <2>2. ResolveKey(key, entries) =
          IF found = <<>> THEN Missing(key)
          ELSE IF id.version = None /\ config.chain # None
                    /\ EffectiveDoi(id.base, found[1].doi) # None
          THEN Chained(key, config.chain, EffectiveDoi(id.base, found[1].doi), id.base)
          ELSE Concrete(key, BuildCsl(found[1], EffectiveDoi(id.base, found[1].doi)))
    BY Zenon DEF ResolveKey
  <2>3. ResolveKey(key, entries) = Given(i)
    <3> HIDE DEF found, id
    <3> QED
      BY <2>1, <2>2
  <2> HIDE DEF found
  <2> QED
    BY <1>3, <2>3 DEF AnsweredBy
<1> HIDE DEF found, Named
<1> QED
  BY <1>1, <1>2, <1>3 DEF KeyAnswered

------------------------------------------------------------------------------
(* A chunk of the arXiv source, from its overrides to its answers.           *)

KnownOverrides ==
  IF config.file = None THEN config.inline ELSE Layered(config.inline, log[1].body)

\* The overrides are those of the host and of the file that was read; a feed that
\* was tokenized answers every key out of its closed entries, a chunk that ended before
\* fails it.
ArxivInv ==
  config.source = "arxiv" =>
    /\ phase = "overrides" => log = <<>> /\ config.file # None
    /\ phase \in {"query", "feed"} \/ (Done /\ tokenized) =>
         /\ overrides = KnownOverrides
         /\ config.file # None => log # <<>>
    /\ ~Done => ~tokenized
    /\ Done /\ tokenized =>
         /\ \A n \in DOMAIN log : Sound(log[n])
         /\ AreEntries(EntriesSent)
         /\ \A i \in DOMAIN answers : KeyAnswered(answers[i], Keys[i], EntriesSent)
    /\ Done /\ ~tokenized => \A i \in DOMAIN answers : answers[i].outcome = "failed"

LEMMA EntriesAre == FeedInv => AreEntries(EntriesSent) /\ parser.entries = EntriesSent
<1> SUFFICES ASSUME FeedInv
             PROVE  AreEntries(EntriesSent) /\ parser.entries = EntriesSent
  OBVIOUS
<1>1. PICK closed, entry, stored : Holds(parser, stack, document, closed, entry, stored)
  BY DEF FeedInv
<1>2. Listed(closed) /\ parser.entries = ReadAll(closed)
  BY <1>1 DEF Holds
<1>3. parser.entries = EntriesSent
  BY FeedInvReads DEF FeedReadFaithfully
<1> QED
  BY <1>2, <1>3, ReadAllAre

\* The DOI an entry is known by is the one the code works with.
LEMMA KnownDoiIs ==
  ASSUME NEW e, overrides = KnownOverrides
  PROVE  KnownDoi(e) = EffectiveDoi(e.arxivid, e.doi)
BY DEF KnownDoi, EffectiveDoi, KnownOverrides, Layered

LEMMA KeysAreIds ==
  ASSUME Control, config.source = "arxiv", NEW i \in DOMAIN Keys
  PROVE  IsId(Keys[i])
BY FeedAssumption DEF Control, Keys

LEMMA ArxivAnswer ==
  ASSUME Control, ArxivInv, config.source = "arxiv", NEW i \in DOMAIN answers,
         answers[i].outcome \in {"concrete", "chained"}
  PROVE  /\ Done /\ tokenized /\ i \in DOMAIN Keys /\ IsId(Keys[i])
         /\ AreEntries(EntriesSent)
         /\ \E k \in 1..Len(EntriesSent) : AnsweredBy(answers[i], Keys[i], EntriesSent, k)
<1>1. Done
  BY DEF Control, Done
<1>2. i \in DOMAIN Keys
  BY <1>1, KeyFacts DEF Control, Full, Done
<1>3. tokenized /\ AreEntries(EntriesSent) /\ KeyAnswered(answers[i], Keys[i], EntriesSent)
  BY <1>1 DEF ArxivInv
<1>4. answers[i] # Missing(Keys[i])
  BY DEF Missing
<1> QED
  BY <1>1, <1>2, <1>3, <1>4, KeysAreIds DEF KeyAnswered

LEMMA VersionIsKept == Control /\ ArxivInv => VersionKept
<1> SUFFICES ASSUME Control, ArxivInv, config.source = "arxiv", NEW i \in DOMAIN answers,
                    Keys[i].digits # None
             PROVE  /\ answers[i].outcome = "chained" => Keys[i].digits > MaxVersion
                    /\ answers[i].outcome = "concrete" =>
                         Keys[i] = Written([arxivid |-> answers[i].csl.arxivid,
                                            version |-> answers[i].csl.arxiv_version_number])
  BY DEF VersionKept
<1>0. PICK key, r : key = Keys[i] /\ r = answers[i]
  OBVIOUS
<1> SUFFICES ASSUME r.outcome \in {"concrete", "chained"}
             PROVE  /\ r.outcome = "chained" => key.digits > MaxVersion
                    /\ r.outcome = "concrete" =>
                         key = Written([arxivid |-> r.csl.arxivid,
                                        version |-> r.csl.arxiv_version_number])
  BY <1>0
<1>1. PICK k \in 1..Len(EntriesSent) : AnsweredBy(r, key, EntriesSent, k)
  BY <1>0, ArxivAnswer
<1>2. IsId(key) /\ AreEntries(EntriesSent) /\ key.digits # None
  BY <1>0, ArxivAnswer
<1>3. PICK e, id : e = EntriesSent[k] /\ id = SplitVersion(key)
  OBVIOUS
<1>4. IsEntry(e)
  BY <1>2, <1>3 DEF AreEntries
<1>5. e.arxivid = id.base /\ (id.version = None \/ e.version = id.version)
  BY <1>1, <1>3 DEF AnsweredBy, Matches
<1>6. /\ id.version = None => id.base = key
      /\ id.version # None => /\ id.base = [name |-> key.name, digits |-> None]
                              /\ id.version = key.digits
      /\ id.version = None <=> key.digits = None \/ key.digits > MaxVersion
  BY <1>2, <1>3, SplitIs
<1>7. CASE r.outcome = "chained"
  <2>1. id.version = None
    BY <1>1, <1>3, <1>7 DEF AnsweredBy, Chained, Concrete
  <2> QED
    BY <1>2, <1>6, <1>7, <2>1
<1>8. CASE r.outcome = "concrete"
  <2>1. r.csl.arxivid = e.arxivid /\ r.csl.arxiv_version_number = e.version
    BY <1>1, <1>3, <1>8 DEF AnsweredBy, Chained, Concrete, BuildCsl
  <2>2. key = [name |-> key.name, digits |-> key.digits]
    BY <1>2 DEF IsId
  <2>3. CASE id.version = None
    <3>1. e.arxivid = key /\ e.version = None
      BY <1>2, <1>4, <1>5, <1>6, <2>3 DEF IsEntry
    <3> QED
      BY <1>8, <2>1, <3>1 DEF Written
  <2>4. CASE id.version # None
    <3>1. e.arxivid = [name |-> key.name, digits |-> None] /\ e.version = key.digits
      BY <1>5, <1>6, <2>4
    <3>2. [e.arxivid EXCEPT !.digits = key.digits] = key
      BY <2>2, <3>1
    <3> QED
      BY <1>2, <1>8, <2>1, <3>1, <3>2 DEF Written
  <2> QED
    BY <2>3, <2>4
<1> QED
  BY <1>7, <1>8

LEMMA BestIsAnswered == Control /\ ArxivInv => BestEntryAnswers
<1> SUFFICES ASSUME Control, ArxivInv, config.source = "arxiv", NEW i \in DOMAIN answers,
                    SplitVersion(Keys[i]).version = None,
                    answers[i].outcome \in {"concrete", "chained"}
             PROVE  \E e \in Sent :
                      /\ e.arxivid = Keys[i] /\ NoBetter(e)
                      /\ IF config.chain # None /\ KnownDoi(e) # None
                         THEN answers[i] = Chained(Keys[i], config.chain, KnownDoi(e), Keys[i])
                         ELSE answers[i] = Concrete(Keys[i], BuildCsl(e, KnownDoi(e)))
  BY DEF BestEntryAnswers
<1>0. PICK key, r : key = Keys[i] /\ r = answers[i]
  OBVIOUS
<1>1. PICK k \in 1..Len(EntriesSent) : AnsweredBy(r, key, EntriesSent, k)
  BY <1>0, ArxivAnswer
<1>2. Done /\ tokenized /\ IsId(key) /\ AreEntries(EntriesSent)
  BY <1>0, ArxivAnswer
<1>3. overrides = KnownOverrides
  BY <1>2 DEF ArxivInv
<1>4. PICK entries, e : entries = EntriesSent /\ e = entries[k]
  OBVIOUS
<1>5. SplitVersion(key).version = None /\ SplitVersion(key).base = key
  BY <1>0, <1>2, SplitIs
<1>6. e.arxivid = key /\ IsBest(entries, key, Len(entries), k)
  BY <1>1, <1>4, <1>5 DEF AnsweredBy, Matches
<1>7. Sent = {entries[j] : j \in 1..Len(entries)}
  BY <1>2, <1>4 DEF Sent, AreEntries
<1>8. e \in Sent
  BY <1>4, <1>7
<1>9. NoBetter(e)
  BY <1>4, <1>6, <1>7 DEF NoBetter, IsBest
<1>10. KnownDoi(e) = EffectiveDoi(key, e.doi)
  BY <1>3, <1>6, KnownDoiIs
<1>11. r = IF config.chain # None /\ KnownDoi(e) # None
           THEN Chained(key, config.chain, KnownDoi(e), key)
           ELSE Concrete(key, BuildCsl(e, KnownDoi(e)))
  BY <1>1, <1>4, <1>5, <1>10 DEF AnsweredBy
<1> QED
  BY <1>0, <1>6, <1>8, <1>9, <1>11

------------------------------------------------------------------------------
LEMMA ArxivInit == Init => ArxivInv
<1> SUFFICES ASSUME Init, config.source = "arxiv" PROVE ArxivInv
  BY DEF ArxivInv
<1>1. phase = IF config.file = None THEN "query" ELSE "overrides"
  BY DEF Init, FirstPhase
<1>2. overrides = config.inline /\ log = <<>> /\ tokenized = FALSE
  BY DEF Init
<1> QED
  BY <1>1, <1>2 DEF ArxivInv, KnownOverrides, Done

\* A chunk that failed as a whole.
LEMMA ArxivFails ==
  ASSUME FailAll, tokenized' = tokenized, ~tokenized PROVE ArxivInv'
<1>1. phase' = "done" /\ \A i \in DOMAIN answers' : answers'[i].outcome = "failed"
  BY DEF FailAll, Answer, Failed
<1> QED
  BY <1>1 DEF ArxivInv, Done

LEMMA ArxivOverrides ==
  ASSUME Control, ArxivInv, LoadOverrides PROVE ArxivInv'
<1> DEFINE Bodies == OverrideBodies \cup {Garbled, NotObject}
<1>1. PICK event \in Events(config.file, Bodies) :
        /\ log' = Append(log, event)
        /\ IF /\ IsSuccess(Fetched(config.file, event))
              /\ Fetched(config.file, event).body \notin {Garbled, NotObject}
           THEN /\ overrides' = Layered(config.inline, Fetched(config.file, event).body)
                /\ phase' = "query"
           ELSE FailAll
  BY DEF LoadOverrides
<1>2. /\ config.source = "arxiv" /\ phase = "overrides" /\ config' = config
      /\ tokenized' = tokenized /\ ~tokenized /\ log = <<>> /\ config.file # None
  BY DEF LoadOverrides, Control, ArxivInv, feedVars, Done
<1>3. CASE FailAll
  BY <1>2, <1>3, ArxivFails
<1>4. CASE /\ IsSuccess(Fetched(config.file, event))
           /\ Fetched(config.file, event).body \notin {Garbled, NotObject}
  <2>1. Cut \notin Bodies
    BY SourcesAssumption
  <2>2. Fetched(config.file, event).body = event.body
    <3> HIDE DEF Bodies
    <3> QED
      BY <1>4, <2>1, SuccessBody
  <2>3. log' = <<event>>
    BY <1>1, <1>2
  <2>4. log' # <<>> /\ log'[1] = event
    BY <2>3
  <2>5. overrides' = KnownOverrides' /\ phase' = "query"
    BY <1>1, <1>2, <1>4, <2>2, <2>4 DEF KnownOverrides
  <2> QED
    BY <1>2, <2>4, <2>5 DEF ArxivInv, Done
<1> QED
  BY <1>1, <1>3, <1>4

LEMMA ArxivQuery == ASSUME Control, ArxivInv, Query PROVE ArxivInv'
<1>1. PICK event : /\ log' = Append(log, event)
                   /\ phase' = "feed" \/ FailAll
  BY DEF Query
<1>2. /\ config.source = "arxiv" /\ phase = "query" /\ config' = config
      /\ tokenized' = tokenized /\ ~tokenized /\ overrides' = overrides
      /\ overrides = KnownOverrides
      /\ config.file # None => log # <<>>
  BY DEF Query, Control, ArxivInv, feedVars, Done
<1>3. CASE FailAll
  BY <1>2, <1>3, ArxivFails
<1>4. CASE phase' = "feed"
  <2>1. /\ Listed(log) /\ Len(log) \in Nat /\ DOMAIN log = 1..Len(log)
        /\ DOMAIN log' = 1..(Len(log) + 1)
        /\ \A i \in 1..Len(log) : log'[i] = log[i]
    BY <1>1, AppendListed DEF Control
  <2>2. config.file # None => log' # <<>> /\ log'[1] = log[1]
    <3>1. log # <<>> => Len(log) # 0
      BY <2>1, SequenceEmptyOrAppend DEF Listed
    <3>2. log # <<>> => 1 \in 1..Len(log)
      BY <2>1, <3>1
    <3>3. 1 \in DOMAIN log' /\ DOMAIN <<>> = {}
      BY <2>1
    <3>4. log' # <<>>
      BY <3>3
    <3> QED
      BY <1>2, <2>1, <3>2, <3>4
  <2>3. KnownOverrides' = KnownOverrides
    BY <1>2, <2>2 DEF KnownOverrides
  <2> QED
    BY <1>2, <1>4, <2>2, <2>3 DEF ArxivInv, Done
<1> QED
  BY <1>1, <1>3, <1>4

LEMMA ArxivEnds ==
  ASSUME Control, SoundSoFar, FeedInv, ArxivInv, EndFeed PROVE ArxivInv'
<1>1. /\ config.source = "arxiv" /\ phase = "feed" /\ phase' = "done" /\ tokenized' = TRUE
      /\ UNCHANGED <<config, overrides, log, stack, document>> /\ Keys' = Keys
      /\ answers' = [i \in DOMAIN Keys |-> ResolveKey(Keys[i], parser.entries)]
  BY DEF EndFeed, Answer, Control, Keys
<1>2. PICK entries : entries = EntriesSent
  OBVIOUS
<1>3. AreEntries(entries) /\ parser.entries = entries /\ EntriesSent' = entries
  BY <1>1, <1>2, EntriesAre DEF EntriesSent, InEntry
<1>4. ASSUME NEW i \in DOMAIN answers' PROVE KeyAnswered(answers[i], Keys[i], EntriesSent)'
  <2>1. PICK r, key : r = ResolveKey(key, entries) /\ key = Keys[i]
    OBVIOUS
  <2>2. KeyAnswered(r, key, entries)
    BY <1>3, <2>1, ResolveKeyAnswers
  <2>3. KeyAnswered(r, key, entries)'
    BY <1>1, <2>2 DEF KeyAnswered, AnsweredBy, EffectiveDoi
  <2>4. answers'[i] = r /\ Keys'[i] = key
    BY <1>1, <1>3, <2>1
  <2> QED
    BY <1>3, <2>3, <2>4
<1>5. /\ overrides' = KnownOverrides'
      /\ config.file # None => log # <<>>
      /\ \A n \in DOMAIN log' : Sound(log'[n])
  BY <1>1 DEF ArxivInv, KnownOverrides, SoundSoFar
<1> QED
  BY <1>1, <1>3, <1>4, <1>5 DEF ArxivInv, Done

LEMMA ArxivStep ==
  Control /\ SoundSoFar /\ FeedInv /\ ArxivInv /\ [Next]_vars => ArxivInv'
<1> SUFFICES ASSUME Control, SoundSoFar, FeedInv, ArxivInv, [Next]_vars PROVE ArxivInv'
  OBVIOUS
<1>1. CASE LoadOverrides
  BY <1>1, ArxivOverrides
<1>2. CASE Query
  BY <1>2, ArxivQuery
<1>3. ASSUME phase = "feed",
             UNCHANGED <<config, phase, overrides, log, tokenized>>
      PROVE  ArxivInv'
  BY <1>3 DEF ArxivInv, KnownOverrides, Done
<1>4. CASE ReadFeed
  <2>1. ASSUME NEW local, OpenElement(local) PROVE ArxivInv'
    BY <1>3, <2>1 DEF OpenElement
  <2>2. CASE CloseElement
    BY <1>3, <2>2 DEF CloseElement
  <2>3. ASSUME NEW piece, NEW cdata, Characters(piece, cdata) PROVE ArxivInv'
    BY <1>3, <2>3 DEF Characters
  <2>4. CASE BreakFeed
    <3>1. FailAll /\ tokenized' = tokenized /\ phase = "feed" /\ config.source = "arxiv"
      BY <2>4 DEF BreakFeed, feedVars, Control
    <3>2. ~tokenized
      BY <3>1 DEF ArxivInv, Done
    <3> QED
      BY <3>1, <3>2, ArxivFails
  <2>5. CASE EndFeed
    BY <2>5, ArxivEnds
  <2> QED
    BY <1>4, <2>1, <2>2, <2>3, <2>4, <2>5 DEF ReadFeed
<1>5. CASE ResolveOne \/ LoadFile \/ LookUpAll \/ Format
  <2>1. config' = config /\ config.source # "arxiv"
    BY <1>5 DEF ResolveOne, LoadFile, LookUpAll, Format, Control
  <2> QED
    BY <2>1 DEF ArxivInv
<1>6. CASE Stop \/ UNCHANGED vars
  <2>1. UNCHANGED <<config, phase, overrides, log, tokenized, stack, document, answers>>
    BY <1>6 DEF Stop, vars
  <2>2. EntriesSent' = EntriesSent /\ Keys' = Keys /\ KnownOverrides' = KnownOverrides
    BY <2>1 DEF EntriesSent, InEntry, Keys, KnownOverrides
  <2>3. \A r, key, entries :
          KeyAnswered(r, key, entries) => KeyAnswered(r, key, entries)'
    BY <2>1 DEF KeyAnswered, AnsweredBy, EffectiveDoi
  <2> QED
    BY <2>1, <2>2, <2>3 DEF ArxivInv, Done
<1> QED
  BY <1>1, <1>2, <1>4, <1>5, <1>6 DEF Next

LEMMA ArxivInvariant == Spec => [](SourcesInv /\ FeedInv /\ ArxivInv)
<1>1. SourcesInv => Control /\ SoundSoFar
  BY DEF SourcesInv
<1> QED
  BY <1>1, SourcesInvariant, FeedInit, FeedStep, ArxivInit, ArxivStep, PTL DEF Spec

\* Of any feed, in any order of its entries, and with any overrides: an id with a version
\* is answered by the entry of that version or not at all, an id without one by an entry
\* that no other of its base is better than, with the DOI the host or the feed gives it.
THEOREM RightEntryAlways == Spec => []RightEntryAnswers
<1>1. SourcesInv /\ ArxivInv => RightEntryAnswers
  BY VersionIsKept, BestIsAnswered DEF RightEntryAnswers, SourcesInv
<1> QED
  BY <1>1, ArxivInvariant, PTL

------------------------------------------------------------------------------
(* What is heard is answered.                                                *)

\* An answer in full, with success, that made sense is taken for a success.
LEMMA SoundSucceeds ==
  ASSUME NEW url, NEW Bodies, NEW event \in Events(url, Bodies), Sound(event)
  PROVE  /\ IsSuccess(Fetched(url, event))
         /\ Fetched(url, event).body \notin {Garbled, NotObject}
<1>1. /\ event.happened \in {"response", "read"} /\ event.body \notin {Cut, Garbled, NotObject}
      /\ event.happened = "response" => event.status \in 200..299
  BY DEF Sound
<1>2. CASE Target(url) = "Http"
  <2>1. event \in HttpEvents(Bodies) /\ Fetched(url, event) = FetchHttp(event)
    BY <1>2 DEF Events, Fetched
  <2>2. event.happened = "response"
    BY <1>1, <2>1 DEF HttpEvents, TransientErrors, PermanentErrors
  <2>3. FetchHttp(event) = Response(event.status, event.body)
    BY <1>1, <2>2 DEF FetchHttp
  <2> QED
    BY <1>1, <2>1, <2>2, <2>3 DEF Response, IsSuccess
<1>3. CASE Target(url) = "File"
  <2>1. event \in FileEvents(Bodies) /\ Fetched(url, event) = FetchFile(event)
    BY <1>3 DEF Events, Fetched
  <2>2. event.happened = "read"
    BY <1>1, <2>1 DEF FileEvents
  <2>3. FetchFile(event) = Response(200, event.body)
    BY <2>2 DEF FetchFile
  <2> QED
    BY <1>1, <2>1, <2>3 DEF Response, IsSuccess
<1>4. CASE Target(url) \notin {"Http", "File"}
  BY <1>1, <1>4 DEF Events
<1> QED
  BY <1>2, <1>3, <1>4

\* A DOI gets its record if and only if a success was heard that holds one.
LEMMA DoiRecordHeard ==
  ASSUME NEW key, NEW event \in Events("https", DoiBodies \cup {Garbled, NotObject}),
         NEW answer, answer = DoiAnswer(key, Fetched("https", event))
  PROVE  /\ answer.outcome # "chained"
         /\ answer.outcome = "concrete"
              <=> /\ event.happened = "response" /\ event.body # Cut
                  /\ event.status = 404 \/ (Sound(event) /\ DOMAIN event.body # {})
                  /\ event.status # 404
<1> DEFINE got == Fetched("https", event)
           Bodies == DoiBodies \cup {Garbled, NotObject}
<1>1. Cut \notin Bodies /\ event \in Events("https", Bodies)
  BY SourcesAssumption
<1>2. answer = IF IsSuccess(got)
               THEN IF got.body \notin {Garbled, NotObject} /\ DOMAIN got.body # {}
                    THEN Concrete(key, CanonicalizeDoi(got.body)) ELSE Failed(key)
               ELSE IF got.ok /\ got.status = 404 THEN Missing(key) ELSE Failed(key)
  BY DEF DoiAnswer
<1>3. got = FetchHttp(event) /\ event \in HttpEvents(Bodies)
  BY DEF Fetched, Events, Target, UrlScheme
<1>4. IsSuccess(got) => got.body = event.body
  <2> HIDE DEF Bodies
  <2> QED
    BY <1>1, SuccessBody
<1>5. IsSuccess(got) /\ got.body \notin {Garbled, NotObject} <=> Sound(event)
  <2> HIDE DEF Bodies
  <2> QED
    BY <1>1, SuccessIsSound, SoundSucceeds
<1>6. IsSuccess(got) => event.happened = "response" /\ event.body # Cut /\ event.status # 404
  BY <1>3 DEF FetchHttp, FetchError, IsSuccess, Response
<1> HIDE DEF got
<1>7. answer.outcome # "chained"
  BY <1>2 DEF Concrete, Failed, Missing
<1>8. answer.outcome = "concrete"
        <=> IsSuccess(got) /\ got.body \notin {Garbled, NotObject} /\ DOMAIN got.body # {}
  BY <1>2 DEF Concrete, Failed, Missing
<1> QED
  BY <1>4, <1>5, <1>6, <1>7, <1>8

IsData(answer) == answer.outcome \in {"concrete", "chained"}

\* A feed that was tokenized has a closed entry for a key, or answers it as missing; one
\* that was not fails every key.
LEMMA ArxivDataHeard ==
  ASSUME Control, ArxivInv, config.source = "arxiv" PROVE DataIsHeard
<1> SUFFICES ASSUME NEW i \in DOMAIN answers PROVE IsData(answers[i]) <=> Heard(i) /\ Has(i)
  BY DEF DataIsHeard, IsData
<1>1. Done
  BY DEF Control, Done
<1>2. CASE ~tokenized
  <2>1. answers[i].outcome = "failed" /\ ~Heard(i)
    BY <1>1, <1>2 DEF ArxivInv, Heard
  <2> QED
    BY <2>1 DEF IsData
<1>3. CASE tokenized
  <2>1. PICK entries, key, r : entries = EntriesSent /\ key = Keys[i] /\ r = answers[i]
    OBVIOUS
  <2>2. AreEntries(entries) /\ KeyAnswered(r, key, entries)
    BY <1>1, <1>3, <2>1 DEF ArxivInv
  <2>3. Heard(i)
    BY <1>1, <1>3 DEF ArxivInv, Heard
  <2>4. Has(i) <=> \E k \in 1..Len(entries) : Matches(entries[k], key)
    <3>1. Sent = {entries[k] : k \in 1..Len(entries)}
      BY <2>1, <2>2 DEF Sent, AreEntries
    <3>2. Has(i) <=> \E e \in Sent : Matches(e, key)
      BY <2>1 DEF Has
    <3> QED
      BY <3>1, <3>2
  <2>5. CASE r = Missing(key) /\ \A k \in 1..Len(entries) : ~Matches(entries[k], key)
    BY <2>1, <2>4, <2>5 DEF IsData, Missing
  <2>6. ASSUME NEW k \in 1..Len(entries), AnsweredBy(r, key, entries, k)
        PROVE  IsData(answers[i]) /\ Has(i)
    <3>1. Matches(entries[k], key)
      BY <2>6 DEF AnsweredBy
    <3>2. IsData(r)
      BY <2>6 DEF AnsweredBy, IsData, Chained, Concrete
    <3> QED
      BY <2>1, <2>4, <3>1, <3>2
  <2> QED
    BY <2>2, <2>3, <2>5, <2>6 DEF KeyAnswered
<1> QED
  BY <1>2, <1>3

------------------------------------------------------------------------------
\* The three sources that answer key by key or file by file.
OtherDataHeard == config.source # "arxiv" => DataIsHeard

LEMMA OtherInit == Init => OtherDataHeard
BY DEF Init, OtherDataHeard, DataIsHeard

\* A file that is not had, and the chunk that fails of it.
LEMMA LoadFileHeard ==
  ASSUME SourcesInv, LoadFile PROVE OtherDataHeard'
<1> DEFINE file == config.files[Len(log) + 1]
           Bodies == BibBodies \cup {Garbled, NotObject}
<1>1. PICK event \in Events(file, Bodies) :
        /\ log' = Append(log, event)
        /\ \/ /\ IsSuccess(Fetched(file, event))
              /\ Fetched(file, event).body \notin {Garbled, NotObject}
              /\ answers' = answers
           \/ /\ ~(/\ IsSuccess(Fetched(file, event))
                   /\ Fetched(file, event).body \notin {Garbled, NotObject})
              /\ FailAll
  BY DEF LoadFile
<1>2. config' = config /\ config.source = "bibfile" /\ answers = <<>> /\ Listed(log)
  BY DEF LoadFile, SourcesInv, Control
<1>3. CASE answers' = answers
  BY <1>2, <1>3 DEF OtherDataHeard, DataIsHeard
<1>4. CASE /\ ~(/\ IsSuccess(Fetched(file, event))
                /\ Fetched(file, event).body \notin {Garbled, NotObject})
           /\ FailAll
  <2>1. ~Sound(event)
    <3> HIDE DEF file, Bodies
    <3> QED
      BY <1>1, <1>4, SoundSucceeds
  <2>2. Len(log) + 1 \in DOMAIN log' /\ log'[Len(log) + 1] = event
    BY <1>1, <1>2, AppendListed
  <2>3. \A i : ~Heard(i)'
    BY <1>2, <2>1, <2>2 DEF Heard, Sound
  <2>4. \A i \in DOMAIN answers' : answers'[i].outcome = "failed"
    BY <1>4 DEF FailAll, Answer, Failed
  <2> QED
    BY <2>3, <2>4 DEF OtherDataHeard, DataIsHeard
<1> QED
  BY <1>1, <1>3, <1>4

LEMMA LookUpHeard ==
  ASSUME SourcesInv, RecordInv, LookUpAll PROVE OtherDataHeard'
<1>1. /\ config' = config /\ log' = log /\ phase = "load" /\ config.source = "bibfile"
      /\ Control /\ SoundSoFar /\ Keys' = Keys /\ Len(log) = Len(config.files)
      /\ answers' = [i \in DOMAIN Keys |-> LookUp(Keys[i])]
  BY DEF LookUpAll, Answer, SourcesInv, Control, Keys
<1>2. /\ \A f \in DOMAIN log : log[f].body \in BibBodies
      /\ \A n \in DOMAIN log : Sound(log[n])
  BY <1>1 DEF RecordInv, FilesRead, SoundSoFar
<1>3. \A i : Heard(i)'
  BY <1>1, <1>2 DEF Heard, Sound
<1>4. ASSUME NEW i \in DOMAIN answers'
      PROVE  IsData(answers'[i]) <=> /\ Has(i)'
                                     /\ LastMention(Keys[i])' # NotObject
  <2>1. PICK key : key = Keys[i]
    OBVIOUS
  <2>2. i \in DOMAIN Keys /\ Reads(key) /\ answers'[i] = LookUp(key)
    BY <1>1, <2>1 DEF RecordInv, FilesRead
  <2>3. /\ LookUp(key).outcome = "concrete"
             <=> Mentions(key) # {} /\ LastMention(key) # NotObject
        /\ LookUp(key).outcome # "chained"
    BY <1>1, <1>2, <2>2, LookUpSays
  <2>4. LastMention(Keys[i])' = LastMention(key) /\ Mentions(Keys[i])' = Mentions(key)
    BY <1>1, <2>1 DEF LastMention, Mentions, Keys
  <2>5. Has(i)' <=> Mentions(key) # {}
    BY <1>1, <2>4 DEF Has
  <2> QED
    BY <2>2, <2>3, <2>4, <2>5 DEF IsData
<1> QED
  BY <1>1, <1>3, <1>4 DEF OtherDataHeard, DataIsHeard, IsData

LEMMA FormatHeard == ASSUME SourcesInv, Format PROVE OtherDataHeard'
<1>1. /\ config' = config /\ config.source = "manual"
      /\ answers' = [i \in DOMAIN Keys |-> Concrete(Keys[i], Keys[i])]
  BY DEF Format, Answer, SourcesInv, Control
<1> QED
  BY <1>1 DEF OtherDataHeard, DataIsHeard, Heard, Has, Concrete

LEMMA ResolveOneHeard ==
  ASSUME SourcesInv, OtherDataHeard, ResolveOne PROVE OtherDataHeard'
<1> DEFINE n == Len(answers) + 1
           key == Keys[n]
           Whole(event) ==
             /\ event.happened = "response" /\ event.body # Cut
             /\ event.status = 404 \/ (Sound(event) /\ DOMAIN event.body # {})
           Says(answer, event) == IsData(answer) <=> Whole(event) /\ event.status # 404
<1>1. /\ config' = config /\ config.source = "doi" /\ DataIsHeard
      /\ Listed(log) /\ Listed(answers) /\ Len(log) = Len(answers)
  BY DEF SourcesInv, Control, ResolveOne, OtherDataHeard
<1>2. PICK event, answer :
        log' = Append(log, event) /\ answers' = Append(answers, answer) /\ Says(answer, event)
  <2>1. CASE key = <<>> \/ Space \in ToSet(key)
    <3>1. PICK event, answer : event = NothingAsked /\ answer = Failed(key)
      OBVIOUS
    <3>2. log' = Append(log, event) /\ answers' = Append(answers, answer)
      BY <2>1, <3>1 DEF ResolveOne
    <3>3. Says(answer, event)
      BY <3>1 DEF IsData, Failed, NothingAsked
    <3> QED
      BY <3>2, <3>3
  <2>2. CASE ~(key = <<>> \/ Space \in ToSet(key))
    <3> DEFINE Bodies == DoiBodies \cup {Garbled, NotObject}
    <3>1. PICK event \in Events("https", Bodies) :
            /\ log' = Append(log, event)
            /\ answers' = Append(answers, DoiAnswer(key, Fetched("https", event)))
      BY <2>2 DEF ResolveOne
    <3>2. PICK asked, answer : asked = key /\ answer = DoiAnswer(asked, Fetched("https", event))
      OBVIOUS
    <3>3. /\ answer.outcome # "chained"
          /\ answer.outcome = "concrete" <=> Whole(event) /\ event.status # 404
      <4>1. event \in Events("https", DoiBodies \cup {Garbled, NotObject})
        BY <3>1
      <4> HIDE DEF key, n
      <4> QED
        BY <3>2, <4>1, DoiRecordHeard
    <3>4. Says(answer, event)
      BY <3>3 DEF IsData
    <3>5. answers' = Append(answers, answer)
      BY <3>1, <3>2
    <3> HIDE DEF Says
    <3> QED
      BY <3>1, <3>4, <3>5
  <2> QED
    BY <2>1, <2>2
<1>3. /\ DOMAIN log = 1..Len(log) /\ log'[Len(log) + 1] = event
      /\ \A i \in 1..Len(log) : log'[i] = log[i]
  BY <1>1, <1>2, AppendListed
<1>4. /\ DOMAIN answers' = 1..n /\ answers'[n] = answer /\ Len(answers) \in Nat
      /\ DOMAIN answers = 1..Len(answers)
      /\ \A i \in 1..Len(answers) : answers'[i] = answers[i]
  BY <1>1, <1>2, AppendListed
<1>5. ASSUME NEW i \in DOMAIN answers' PROVE Says(answers'[i], log'[i])
  <2>1. CASE i = n
    <3>1. answers'[i] = answer /\ log'[i] = event
      BY <1>1, <1>3, <1>4, <2>1
    <3> HIDE DEF Says
    <3> QED
      BY <1>2, <3>1
  <2>2. CASE i # n
    <3>1. i \in DOMAIN answers /\ answers'[i] = answers[i] /\ log'[i] = log[i]
      BY <1>1, <1>3, <1>4, <2>2
    <3>2. Says(answers[i], log[i])
      BY <1>1, <3>1 DEF DataIsHeard, Heard, Has, IsData
    <3> HIDE DEF Says
    <3> QED
      BY <3>1, <3>2
  <2> QED
    BY <2>1, <2>2
<1> QED
  BY <1>1, <1>5 DEF OtherDataHeard, DataIsHeard, Heard, Has, IsData, Sound

LEMMA OtherStep ==
  SourcesInv /\ RecordInv /\ OtherDataHeard /\ [Next]_vars => OtherDataHeard'
<1> SUFFICES ASSUME SourcesInv, RecordInv, OtherDataHeard, [Next]_vars
             PROVE  OtherDataHeard'
  OBVIOUS
<1>1. CASE LoadOverrides \/ Query \/ ReadFeed
  <2>1. config' = config /\ config.source = "arxiv"
    BY <1>1 DEF SourcesInv, Control, LoadOverrides, Query, ReadFeed, OpenElement, CloseElement,
                Characters, BreakFeed, EndFeed
  <2> QED
    BY <2>1 DEF OtherDataHeard
<1>2. CASE ResolveOne
  BY <1>2, ResolveOneHeard
<1>3. CASE LoadFile
  BY <1>3, LoadFileHeard
<1>4. CASE LookUpAll
  BY <1>4, LookUpHeard
<1>5. CASE Format
  BY <1>5, FormatHeard
<1>6. CASE Stop \/ UNCHANGED vars
  <2>1. UNCHANGED <<config, log, answers, tokenized, document, stack>>
    BY <1>6 DEF Stop, vars
  <2>2. UNCHANGED <<Keys, Sent>> /\ \A key : UNCHANGED <<Mentions(key), LastMention(key)>>
    BY <2>1 DEF Keys, Sent, EntriesSent, InEntry, Mentions, LastMention
  <2>3. \A i : (Heard(i)' <=> Heard(i)) /\ (Has(i)' <=> Has(i))
    BY <2>1, <2>2 DEF Heard, Has, Sound
  <2> QED
    BY <2>1, <2>2, <2>3 DEF OtherDataHeard, DataIsHeard
<1> QED
  BY <1>1, <1>2, <1>3, <1>4, <1>5, <1>6 DEF Next

\* However the requests of a chunk went: a key has a record or a pointer if and only if
\* everything the source needed could be read through and has the key; a part that failed
\* never passes for the whole, and nothing that was found is dropped.
THEOREM DataIsHeardAlways == Spec => []DataIsHeard
<1>1. SourcesInv /\ ArxivInv /\ OtherDataHeard => DataIsHeard
  BY ArxivDataHeard DEF OtherDataHeard, SourcesInv
<1> QED
  BY <1>1, ArxivInvariant, RecordInit, RecordStep, OtherInit, OtherStep, PTL DEF Spec
==============================================================================
