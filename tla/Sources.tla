-------------------------------- MODULE Sources --------------------------------
(***************************************************************************)
(* One retrieve_chunk call of each of the four sources, from its keys to   *)
(* its resolutions: the requests it makes, what they may meet, and how     *)
(* what came back is read.                                                 *)
(*                                                                         *)
(* `config` is the source instance, the chunk it is asked for and the kind *)
(* of feed the server writes; it never changes.  `log`, `document` and     *)
(* `tokenized` record what the world really said, apart from the code's    *)
(* own reading of it.                                                      *)
(***************************************************************************)
EXTENDS Atom, Fetchers, FiniteSets

CONSTANTS
  Configs,        \* source instances, chunks and feeds
  Suppress,       \* an override of None: keep the arXiv metadata
  Feed,           \* a body that is an Atom feed; its tokens follow one by one
  Garbled,        \* a body that is not UTF-8, or not JSON
  NotObject,      \* JSON, but not an object
  OverrideBodies, \* contents of a DOI-override file
  DoiBodies,      \* CSL-JSON objects doi.org answers with
  BibBodies       \* contents of a bibliography file

ASSUME SourcesAssumption ==
  /\ \A c \in Configs :
       /\ c.source \in {"arxiv", "doi", "bibfile", "manual"}
       /\ Len(c.keys) \in Nat \ {0} /\ DOMAIN c.keys = 1..Len(c.keys)
       /\ Len(c.files) \in Nat
  /\ Statuses \subseteq Nat
  /\ Cut \notin OverrideBodies \cup DoiBodies \cup BibBodies \cup {Garbled, NotObject}
  /\ Feed \notin {Garbled, NotObject}
  /\ \A body \in BibBodies :
       Len(body.items) \in Nat /\ DOMAIN body.items = 1..Len(body.items)

\* What the flat reader takes a feed to be: an entry's own fields stand directly in
\* the entry (or in the feed), a text or a name is a leaf, and nothing is nested in
\* the parts of an author (core/source/arxiv.rs: local names are "sufficient for the
\* arXiv feed", a capture is of a "text-bearing leaf").  The keys of such a source are ids.
ASSUME FeedAssumption ==
  \A c \in Configs : c.source = "arxiv" =>
    /\ \A i \in DOMAIN c.keys : IsId(c.keys[i])
    /\ LET elements == DOMAIN c.children
       IN  /\ "feed" \in elements /\ elements \subseteq STRING
           /\ \A e \in elements :
                /\ c.children[e] \subseteq elements \ {"feed"}
                /\ "entry" \in c.children[e] => e = "feed"
                /\ c.children[e] \cap (TextFields \cup {"author"}) # {} =>
                     e \in {"feed", "entry"}
                /\ e \in TextFields \cup {"name"} => c.children[e] = {}
                /\ e = "author" => \A part \in c.children[e] : c.children[part] = {}

VARIABLES
  config,      \* source, keys, and the source's own configuration
  phase,       \* where retrieve_chunk is
  overrides,   \* arXiv: the effective override map
  parser,      \* arXiv: the Atom reader
  fromFiles,   \* bibfile: what the files read so far say of each id
  answers,     \* the resolutions returned
  stack,       \* the elements of the feed still open
  opened,      \* bound: the elements of the feed so far, at most config.room
  log,         \* history: what happened to each request
  document,    \* history: the entries sent, each the sequence of its elements
  tokenized    \* history: the tokenizer went through all that was sent

vars == <<config, phase, overrides, parser, fromFiles, answers, stack, opened, log,
          document, tokenized>>
feedVars == <<parser, stack, opened, document, tokenized>>

Keys == config.keys
FirstPhase ==
  IF config.source = "arxiv" THEN IF config.file = None THEN "query" ELSE "overrides"
  ELSE [doi |-> "ask", bibfile |-> "load", manual |-> "format"][config.source]

Init ==
  /\ config \in Configs
  /\ phase = FirstPhase
  /\ overrides = config.inline
  /\ parser = NewParser
  /\ fromFiles = <<>> /\ answers = <<>> /\ stack = <<>> /\ opened = 0
  /\ log = <<>> /\ document = <<>> /\ tokenized = FALSE

------------------------------------------------------------------------------
(* Resolutions.                                                              *)
Concrete(key, csl) == [key |-> key, outcome |-> "concrete", csl |-> csl]
Chained(key, prefix, target, properties) ==
  [key |-> key, outcome |-> "chained", prefix |-> prefix, target |-> target,
   set_properties |-> properties]
Failed(key) == [key |-> key, outcome |-> "failed"]
Missing(key) == [key |-> key, outcome |-> "missing"]

Answer(resolutions) == answers' = resolutions /\ phase' = "done"

\* Mutant of FailAll: only the first key hears of it.
FailFirst == Answer(<<Failed(Keys[1])>>)

FailAll == Answer([i \in DOMAIN Keys |-> Failed(Keys[i])])

------------------------------------------------------------------------------
(* ArxivSource: the override file, the query, the feed.                      *)

\* The inline map wins.
Layered(inline, file) ==
  [b \in DOMAIN inline \cup DOMAIN file |->
     IF b \in DOMAIN inline THEN inline[b] ELSE file[b]]

\* load_override_file: any trouble fails the whole chunk.
LoadOverrides ==
  /\ phase = "overrides"
  /\ \E event \in Events(config.file, OverrideBodies \cup {Garbled, NotObject}) :
       LET answer == Fetched(config.file, event)
       IN  /\ log' = Append(log, event)
           /\ IF IsSuccess(answer) /\ answer.body \notin {Garbled, NotObject}
              THEN /\ overrides' = Layered(config.inline, answer.body)
                   /\ phase' = "query" /\ UNCHANGED answers
              ELSE FailAll /\ UNCHANGED overrides
  /\ UNCHANGED <<config, fromFiles, feedVars>>

\* One GET for all the ids of the chunk.
Query ==
  /\ phase = "query"
  /\ \E event \in Events("https", {Feed, Garbled}) :
       LET answer == Fetched("https", event)
       IN  /\ log' = Append(log, event)
           /\ IF IsSuccess(answer) /\ answer.body = Feed
              THEN phase' = "feed" /\ UNCHANGED answers
              ELSE FailAll
  /\ UNCHANGED <<config, overrides, fromFiles, feedVars>>

\* The feed, as the server writes it: elements well nested, each inside one that
\* may contain it.
Inside == IF stack = <<>> THEN {"feed"} ELSE config.children[Last(stack)]
InEntry == Len(stack) >= 2 /\ stack[2] = "entry"

OpenElement(local) ==
  /\ phase = "feed"
  /\ local \in Inside
  /\ opened < config.room
  /\ opened' = opened + 1
  /\ stack' = Append(stack, local)
  /\ parser' = OnOpen(parser, local)
  /\ document' =
       CASE local = "entry" -> Append(document, <<>>)
         [] InEntry ->
              [document EXCEPT ![Len(document)] =
                 Append(@, [path |-> SubSeq(stack', 3, Len(stack')), text |-> <<>>])]
         [] OTHER -> document
  /\ UNCHANGED <<config, phase, overrides, fromFiles, answers, log, tokenized>>

CloseElement ==
  /\ phase = "feed" /\ Len(stack) > 1
  /\ parser' = OnClose(parser, Last(stack))
  /\ stack' = Front(stack)
  /\ UNCHANGED <<config, phase, overrides, fromFiles, answers, opened, log, document,
                 tokenized>>

\* A run of text or a CDATA section, right after the element's start tag.
Characters(piece, cdata) ==
  /\ phase = "feed" /\ stack # <<>>
  /\ parser' = OnText(parser, piece, cdata)
  /\ IF InEntry /\ Len(stack) > 2
     THEN LET open == Len(document[Len(document)])
          IN  /\ document[Len(document)][open].path = SubSeq(stack, 3, Len(stack))
              /\ Len(document[Len(document)][open].text) < config.pieces[Last(stack)]
              /\ document' = [document EXCEPT ![Len(document)][open].text =
                                Append(@, IF cdata THEN piece ELSE Decoded(piece))]
     ELSE UNCHANGED document
  /\ UNCHANGED <<config, phase, overrides, fromFiles, answers, stack, opened, log,
                 tokenized>>

\* The tokenizer gives up: what came is not XML, or it was cut within a tag.
BreakFeed ==
  /\ phase = "feed"
  /\ FailAll
  /\ UNCHANGED <<config, overrides, fromFiles, log, feedVars>>

\* effective_doi: the override decides, or the feed; a blank DOI is none.
EffectiveDoi(base, feedDoi) ==
  LET doi == IF base \in DOMAIN overrides THEN overrides[base] ELSE feedDoi
  IN  IF doi \in {None, Suppress} THEN None
      ELSE IF Trim(doi) = <<>> THEN None ELSE Trim(doi)

\* Mutant of Better: the later entry is the better one.
BetterLater(best, e) == <<e>>

\* select_best: a versionless entry, else the highest version, the later of equals.
Better(best, e) ==
  IF best = <<>> THEN <<e>>
  ELSE IF best[1].version = None THEN best
  ELSE IF e.version = None \/ e.version >= best[1].version THEN <<e>> ELSE best
SelectBest(entries, base) ==
  LET best[i \in 0..Len(entries)] ==
        IF i = 0 THEN <<>>
        ELSE IF entries[i].arxivid = base THEN Better(best[i - 1], entries[i])
        ELSE best[i - 1]
  IN  best[Len(entries)]

\* `find`: the first entry of exactly this version.
SelectVersion(entries, base, version) ==
  LET exact == {i \in DOMAIN entries :
                  entries[i].arxivid = base /\ entries[i].version = version}
  IN  IF exact = {} THEN <<>> ELSE <<entries[CHOOSE i \in exact : \A j \in exact : i <= j]>>

BuildCsl(e, doi) ==
  [title |-> e.title, author |-> e.authors,
   issued |-> IF e.updated # None THEN e.updated ELSE e.published,
   DOI |-> doi, arxivid |-> e.arxivid, arxiv_version_number |-> e.version]

\* resolve_key: a version asked for is never chained away.
ResolveKey(key, entries) ==
  LET id == SplitVersion(key)
      found == IF id.version = None THEN SelectBest(entries, id.base)
               ELSE SelectVersion(entries, id.base, id.version)
      entry == found[1]
      doi == EffectiveDoi(id.base, entry.doi)
  IN  IF found = <<>> THEN Missing(key)
      ELSE IF id.version = None /\ config.chain # None /\ doi # None
      THEN Chained(key, config.chain, doi, id.base)
      ELSE Concrete(key, BuildCsl(entry, doi))

\* The end of what was sent, wherever it was cut: the tokenizer does not ask that the
\* open elements, or the feed itself, be closed.  Every key is looked up in the entries
\* that were.
EndFeed ==
  /\ phase = "feed"
  /\ tokenized' = TRUE
  /\ Answer([i \in DOMAIN Keys |-> ResolveKey(Keys[i], parser.entries)])
  /\ UNCHANGED <<config, overrides, fromFiles, log, parser, stack, opened, document>>

------------------------------------------------------------------------------
(* DoiSource: one request per key, in order.                                 *)
NothingAsked == [happened |-> "nothing", status |-> NoStatus, body |-> Cut]

\* canonicalize_doi_key: a lone `doi` becomes `DOI`, beside a `DOI` it is dropped.
CanonicalizeDoi(csl) ==
  IF "doi" \notin DOMAIN csl THEN csl
  ELSE [f \in (DOMAIN csl \ {"doi"}) \cup {"DOI"} |->
          IF f \in DOMAIN csl THEN csl[f] ELSE csl["doi"]]

\* Mutant of DoiAnswer: a refusal reads like doi.org's "no such DOI".
DoiAnswerAnyStatus(key, answer) ==
  IF IsSuccess(answer)
  THEN IF answer.body \notin {Garbled, NotObject} /\ DOMAIN answer.body # {}
       THEN Concrete(key, CanonicalizeDoi(answer.body)) ELSE Failed(key)
  ELSE IF answer.ok THEN Missing(key) ELSE Failed(key)

\* Only a 404 says that there is no such DOI; a 200 must hold a non-empty object.
DoiAnswer(key, answer) ==
  IF IsSuccess(answer)
  THEN IF answer.body \notin {Garbled, NotObject} /\ DOMAIN answer.body # {}
       THEN Concrete(key, CanonicalizeDoi(answer.body)) ELSE Failed(key)
  ELSE IF answer.ok /\ answer.status = 404 THEN Missing(key) ELSE Failed(key)

\* resolve_one: an empty DOI, or one with white space, is not asked for.
ResolveOne ==
  /\ phase = "ask"
  /\ LET key == Keys[Len(answers) + 1]
     IN  IF key = <<>> \/ Space \in ToSet(key)
         THEN /\ log' = Append(log, NothingAsked)
              /\ answers' = Append(answers, Failed(key))
         ELSE \E event \in Events("https", DoiBodies \cup {Garbled, NotObject}) :
                /\ log' = Append(log, event)
                /\ answers' = Append(answers, DoiAnswer(key, Fetched("https", event)))
  /\ phase' = IF Len(answers') = Len(Keys) THEN "done" ELSE "ask"
  /\ UNCHANGED <<config, overrides, fromFiles, feedVars>>

------------------------------------------------------------------------------
(* BibliographyFileSource: every file, then every key.  A file is a list of  *)
(* items or a map from ids to items, [shape, items].                         *)

\* A list drops what has no id to be found by.
Usable(body, pair) == body.shape = "map" \/ (pair.id # None /\ pair.item # NotObject)

\* Mutant of Insert: the first file that has an id keeps it.
InsertFirst(map, pair) ==
  [id \in DOMAIN map \cup {pair.id} |-> IF id \in DOMAIN map THEN map[id] ELSE pair.item]

\* Later files, and later entries of one file, win.
Insert(map, pair) ==
  [id \in DOMAIN map \cup {pair.id} |-> IF id = pair.id THEN pair.item ELSE map[id]]

\* The map after every (id, item) pair of a file, in its order.
Loaded(body) ==
  LET loaded[i \in 0..Len(body.items)] ==
        IF i = 0 THEN fromFiles
        ELSE IF Usable(body, body.items[i]) THEN Insert(loaded[i - 1], body.items[i])
        ELSE loaded[i - 1]
  IN  loaded[Len(body.items)]

\* Mutant of LoadFile: a file that does not load is skipped.
LoadFileOrSkip ==
  /\ phase = "load"
  /\ Len(log) < Len(config.files)
  /\ LET file == config.files[Len(log) + 1]
     IN  \E event \in Events(file, BibBodies \cup {Garbled, NotObject}) :
           LET answer == Fetched(file, event)
           IN  /\ log' = Append(log, event)
               /\ IF IsSuccess(answer) /\ answer.body \notin {Garbled, NotObject}
                  THEN fromFiles' = Loaded(answer.body)
                  ELSE UNCHANGED fromFiles
               /\ UNCHANGED <<phase, answers>>
  /\ UNCHANGED <<config, overrides, feedVars>>

\* One file that cannot be had fails every key, also those of other files.
LoadFile ==
  /\ phase = "load"
  /\ Len(log) < Len(config.files)
  /\ LET file == config.files[Len(log) + 1]
     IN  \E event \in Events(file, BibBodies \cup {Garbled, NotObject}) :
           LET answer == Fetched(file, event)
           IN  /\ log' = Append(log, event)
               /\ IF IsSuccess(answer) /\ answer.body \notin {Garbled, NotObject}
                  THEN /\ fromFiles' = Loaded(answer.body)
                       /\ UNCHANGED <<phase, answers>>
                  ELSE FailAll /\ UNCHANGED fromFiles
  /\ UNCHANGED <<config, overrides, feedVars>>

\* The files are laid over the entries the host supplied.
LookUp(key) ==
  LET item == IF key \in DOMAIN fromFiles THEN fromFiles[key] ELSE config.preloaded[key]
  IN  IF key \notin DOMAIN fromFiles \cup DOMAIN config.preloaded THEN Missing(key)
      ELSE IF item = NotObject THEN Failed(key)
      ELSE Concrete(key, item)

LookUpAll ==
  /\ phase = "load"
  /\ Len(log) = Len(config.files)
  /\ Answer([i \in DOMAIN Keys |-> LookUp(Keys[i])])
  /\ UNCHANGED <<config, overrides, fromFiles, log, feedVars>>

------------------------------------------------------------------------------
\* ManualSource: the key is the citation; nothing is asked, nothing can fail.
Format ==
  /\ phase = "format"
  /\ Answer([i \in DOMAIN Keys |-> Concrete(Keys[i], Keys[i])])
  /\ UNCHANGED <<config, overrides, fromFiles, log, feedVars>>

------------------------------------------------------------------------------
ReadFeed ==
  \/ \E local \in Inside : OpenElement(local)
  \/ CloseElement
  \/ /\ stack # <<>> /\ Last(stack) \in DOMAIN config.text
     /\ \E run \in config.text[Last(stack)] : Characters(run.piece, run.cdata)
  \/ BreakFeed \/ EndFeed

Stop == phase = "done" /\ UNCHANGED vars

Next ==
  \/ LoadOverrides \/ Query \/ ReadFeed
  \/ ResolveOne
  \/ LoadFile \/ LookUpAll
  \/ Format
  \/ Stop

Spec == Init /\ [][Next]_vars

------------------------------------------------------------------------------
(* What the documents say, read by the path of each element.                 *)
PlacesOf(entry, path) == {i \in DOMAIN entry : entry[i].path = path}
LastText(entry, places) ==
  entry[CHOOSE i \in places : \A j \in places : j <= i].text
\* The last text at `path`, trimmed; None without one.
TrimmedAt(entry, path) ==
  LET places == PlacesOf(entry, path)
  IN  IF places = {} THEN None ELSE Trim(LastText(entry, places))

ReadEntry(entry) ==
  LET id == SplitVersion(TrimmedAt(entry, <<"id">>)[1])
      titles == PlacesOf(entry, <<"title">>)
      dois == {i \in PlacesOf(entry, <<"doi">>) : Trim(entry[i].text) # <<>>}
  IN  IF ~IsAbs(TrimmedAt(entry, <<"id">>)) THEN <<>>
      ELSE << [arxivid |-> id.base, version |-> id.version,
               title |-> IF titles = {} THEN None
                         ELSE CollapseWs(LastText(entry, titles)),
               authors |-> FlattenSeq([i \in DOMAIN entry |->
                             IF entry[i].path = <<"author", "name">>
                             THEN <<CollapseWs(entry[i].text)>> ELSE <<>>]),
               published |-> TrimmedAt(entry, <<"published">>),
               updated |-> TrimmedAt(entry, <<"updated">>),
               doi |-> IF dois = {} THEN None ELSE Trim(LastText(entry, dois))] >>

EntriesSent ==
  LET closed == IF InEntry THEN Front(document) ELSE document
  IN  FlattenSeq([i \in DOMAIN closed |-> ReadEntry(closed[i])])
Sent == {EntriesSent[i] : i \in DOMAIN EntriesSent}

Matches(entry, key) ==
  LET id == SplitVersion(key)
  IN  entry.arxivid = id.base /\ (id.version = None \/ entry.version = id.version)

\* The items the bibliography has for `key`, as pairs <<where, item>>: the last is
\* the one that counts, the host's own entry comes before every file.
Mentions(key) ==
  (UNION {LET items == log[f].body.items
              here == {i \in DOMAIN items :
                         Usable(log[f].body, items[i]) /\ items[i].id = key}
          IN  {<<<<f, i>>, items[i].item>> : i \in here} : f \in DOMAIN log})
    \cup (IF key \in DOMAIN config.preloaded
          THEN {<<<<0, 0>>, config.preloaded[key]>>} ELSE {})
LastMention(key) ==
  (CHOOSE m \in Mentions(key) :
     \A n \in Mentions(key) :
       n[1][1] < m[1][1] \/ (n[1][1] = m[1][1] /\ n[1][2] <= m[1][2]))[2]

\* A request that was answered in full, with success, and made sense.
Sound(event) ==
  /\ event.happened = "response" => event.status \in 200..299
  /\ event.happened \in {"response", "read"}
  /\ event.body \notin {Cut, Garbled, NotObject}

\* Whether the source really heard, for key number i, what it needed to hear.
Heard(i) ==
  /\ config.source \in {"arxiv", "bibfile"} => \A n \in DOMAIN log : Sound(log[n])
  /\ config.source = "arxiv" => tokenized
  /\ config.source = "bibfile" => Len(log) = Len(config.files)
  /\ config.source = "doi" =>
       /\ log[i].happened = "response" /\ log[i].body # Cut
       /\ log[i].status = 404 \/ (Sound(log[i]) /\ DOMAIN log[i].body # {})

\* Whether what it heard has the key.
Has(i) ==
  /\ config.source = "arxiv" => \E e \in Sent : Matches(e, Keys[i])
  /\ config.source = "bibfile" => Mentions(Keys[i]) # {}
  /\ config.source = "doi" => log[i].status # 404

Done == phase = "done"

------------------------------------------------------------------------------
\* The contract of retrieve_chunk: exactly one resolution per requested key, under
\* the key as it was requested, however the requests went.
OneAnswerPerKey ==
  /\ Done => Len(answers) = Len(Keys)
  /\ \A i \in DOMAIN answers : answers[i].key = Keys[i]

\* A source says Missing, which drops the cached copy, only if every file, feed or
\* answer it asked for came with success and could be read through; never because one
\* part failed.  A feed that was cut between two tags, in a text or before its first
\* tag is read through: the ids it had no room for are Missing, although a "malformed
\* feed" is to be Failed (source/mod.rs:65-67); and so is the id that arXiv answers
\* with an error entry, although that one is to be Failed too (arxiv.rs:39-41).
MissingIsHeard ==
  \A i \in DOMAIN answers : answers[i].outcome = "missing" => Heard(i)

\* Metadata comes from what was really heard, and a key that was heard of is
\* answered: a failed part never passes for the whole, nothing found is dropped.
DataIsHeard ==
  \A i \in DOMAIN answers :
    answers[i].outcome \in {"concrete", "chained"} <=>
      /\ Heard(i) /\ Has(i)
      /\ config.source = "bibfile" => LastMention(Keys[i]) # NotObject

\* The flat reader sees what the nesting says: the ids, titles, dates, DOIs and
\* authors of exactly the entries that are arXiv's, none from another element or
\* another entry.
FeedReadFaithfully == parser.entries = EntriesSent

\* The id of an entry, as it is written.
Written(e) ==
  IF e.version = None THEN e.arxivid ELSE [e.arxivid EXCEPT !.digits = e.version]

\* An id written with digits is answered by the entry of that very id or not at
\* all, and never by a pointer to a DOI, which knows no versions, unless the digits
\* are too many to be a version.
VersionKept ==
  config.source = "arxiv" =>
    \A i \in DOMAIN answers :
      Keys[i].digits # None =>
        /\ answers[i].outcome = "chained" => Keys[i].digits > MaxVersion
        /\ answers[i].outcome = "concrete" =>
             Keys[i] = Written([arxivid |-> answers[i].csl.arxivid,
                                version |-> answers[i].csl.arxiv_version_number])

\* The DOI an entry is known by: the host's override, inline before the file's, or
\* else the feed's; a blank one is none.
KnownDoi(e) ==
  LET map == IF config.file = None THEN config.inline
             ELSE [b \in DOMAIN config.inline \cup DOMAIN log[1].body |->
                     IF b \in DOMAIN config.inline THEN config.inline[b]
                     ELSE log[1].body[b]]
      doi == IF e.arxivid \in DOMAIN map THEN map[e.arxivid] ELSE e.doi
  IN  IF doi \in {None, Suppress} THEN None
      ELSE IF Trim(doi) = <<>> THEN None ELSE Trim(doi)
NoBetter(e) ==
  e.version # None =>
    \A f \in Sent :
      f.arxivid = e.arxivid => f.version # None /\ f.version <= e.version

\* An id without a version is answered by its latest entry: by a pointer to the
\* DOI that entry is known by, if it has one and DOIs are chained, else by its own
\* metadata.
BestEntryAnswers ==
  config.source = "arxiv" =>
    \A i \in DOMAIN answers :
      /\ SplitVersion(Keys[i]).version = None
      /\ answers[i].outcome \in {"concrete", "chained"}
      => \E e \in Sent :
           /\ e.arxivid = Keys[i] /\ NoBetter(e)
           /\ IF config.chain # None /\ KnownDoi(e) # None
              THEN answers[i] = Chained(Keys[i], config.chain, KnownDoi(e), Keys[i])
              ELSE answers[i] = Concrete(Keys[i], BuildCsl(e, KnownDoi(e)))

\* An arXiv id is answered by the entry it names and by no other.
RightEntryAnswers == VersionKept /\ BestEntryAnswers

\* A bibliography answers with the last item of the last file that has the id, the
\* host's own entries being the fallback.
LaterFileWins ==
  config.source = "bibfile" =>
    \A i \in DOMAIN answers :
      answers[i].outcome = "concrete" => answers[i].csl = LastMention(Keys[i])

\* A DOI record is stored under one spelling of its DOI field, and no field of it
\* gets lost or changes its value: DOI, where given, is what doi.org wrote there.
DoiFieldKept ==
  config.source = "doi" =>
    \A i \in DOMAIN answers :
      answers[i].outcome = "concrete" =>
        LET sent == log[i].body  kept == answers[i].csl
        IN  /\ "doi" \notin DOMAIN kept
            /\ {"DOI", "doi"} \cap DOMAIN sent # {} <=> "DOI" \in DOMAIN kept
            /\ \A f \in DOMAIN sent \ {"doi"} : kept[f] = sent[f]
            /\ DOMAIN sent \cap {"DOI", "doi"} = {"doi"} => kept["DOI"] = sent["doi"]

\* The record that is stored is the one the user's files or doi.org hold.
RecordKept == LaterFileWins /\ DoiFieldKept
==============================================================================
