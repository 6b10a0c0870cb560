---------------------------------- MODULE Atom ---------------------------------
(***************************************************************************)
(* The arXiv source's Atom reader: a handful of flags driven by the tokens *)
(* of the feed, with no stack of open elements.                            *)
(*                                                                         *)
(* A text is a sequence of pieces.  An id piece is a record [name, digits] *)
(* for .../abs/<name>v<digits> (digits = None: no version suffix); the     *)
(* other pieces are model values.                                          *)
(***************************************************************************)
EXTENDS Integers, Sequences, SequencesExt

CONSTANTS
  None,         \* Rust's None
  Space,        \* a run of white space
  Ampersand,    \* the character &
  AmpReference, \* its escaped spelling &amp;
  ArxivIds,     \* arXiv ids as written, records [name, digits]
  MaxVersion    \* u32::MAX

IsId(id) ==
  /\ id = [name |-> id.name, digits |-> id.digits]
  /\ id.digits \in Nat \cup {None}

ASSUME AtomAssumption ==
  /\ MaxVersion \in Nat
  /\ \A id \in ArxivIds : IsId(id)
  /\ None \notin STRING \cup Nat

------------------------------------------------------------------------------
(* Texts.                                                                    *)

\* str::trim.
Trim(text) ==
  LET marks == {i \in DOMAIN text : text[i] # Space}
  IN  IF marks = {} THEN <<>>
      ELSE SubSeq(text, CHOOSE i \in marks : \A j \in marks : i <= j,
                        CHOOSE i \in marks : \A j \in marks : i >= j)

\* Trimmed, and runs of spaces made one.
CollapseWs(text) ==
  LET Join(out, piece) ==
        IF piece = Space /\ out # <<>> /\ Last(out) = Space THEN out
        ELSE Append(out, piece)
  IN  FoldLeft(Join, <<>>, Trim(text))

\* push_decoded: a known reference becomes its character, others stay as written.
Decoded(piece) == IF piece = AmpReference THEN Ampersand ELSE piece

\* The base id and the version of an id; digits beyond u32 are no version, they
\* belong to the base.
SplitVersion(id) ==
  IF id.digits # None /\ id.digits <= MaxVersion
  THEN [base |-> [id EXCEPT !.digits = None], version |-> id.digits]
  ELSE [base |-> id, version |-> None]

------------------------------------------------------------------------------
(* The parser: `raw` is the open entry, if any, `capture` the element being  *)
(* read, `buf` its text so far.                                              *)
NewRaw ==
  [id |-> None, title |-> None, published |-> None, updated |-> None, doi |-> None,
   authors |-> <<>>]

NewParser ==
  [entries |-> <<>>, raw |-> <<>>, inAuthor |-> FALSE, capture |-> None,
   buf |-> <<>>]

TextFields == {"id", "title", "published", "updated", "doi"}

OnOpen(p, local) ==
  CASE local = "entry" ->
         [p EXCEPT !.raw = <<NewRaw>>, !.inAuthor = FALSE, !.capture = None]
    [] p.raw # <<>> /\ local = "author" -> [p EXCEPT !.inAuthor = TRUE]
    [] p.raw # <<>> /\ (local \in TextFields \/ (local = "name" /\ p.inAuthor)) ->
         [p EXCEPT !.capture = local, !.buf = <<>>]
    [] OTHER -> p

\* What a captured element sets: a blank <doi> sets nothing.
Store(raw, local, text) ==
  CASE local = "name" -> [raw EXCEPT !.authors = Append(@, CollapseWs(text))]
    [] local = "title" -> [raw EXCEPT !.title = CollapseWs(text)]
    [] local = "doi" /\ Trim(text) = <<>> -> raw
    [] OTHER -> [raw EXCEPT ![local] = Trim(text)]

\* parse_arxiv_id: an .../abs/<id> URL and nothing else, so no error entry.
IsAbs(id) == \E written \in ArxivIds : id = <<written>>

\* into_entry: an entry without an arXiv id is dropped.
IntoEntry(raw) ==
  IF ~IsAbs(raw.id) THEN <<>>
  ELSE LET id == SplitVersion(raw.id[1])
       IN  << [arxivid |-> id.base, version |-> id.version, title |-> raw.title,
               authors |-> raw.authors, published |-> raw.published,
               updated |-> raw.updated, doi |-> raw.doi] >>

EndCapture(p, local) ==
  IF p.capture # local THEN p
  ELSE [p EXCEPT !.capture = None, !.buf = <<>>,
                 !.raw = IF @ = <<>> THEN @ ELSE <<Store(@[1], local, p.buf)>>]

\* Mutant of OnClose: the flag of an author outlives the author.
OnCloseStillAuthor(p, local) ==
  LET q == EndCapture(p, local)
  IN  IF local = "entry" /\ q.raw # <<>>
      THEN [q EXCEPT !.raw = <<>>, !.entries = @ \o IntoEntry(q.raw[1])]
      ELSE q

OnClose(p, local) ==
  LET q == EndCapture(p, local)
  IN  CASE local = "author" -> [q EXCEPT !.inAuthor = FALSE]
        [] local = "entry" /\ q.raw # <<>> ->
             [q EXCEPT !.raw = <<>>, !.entries = @ \o IntoEntry(q.raw[1])]
        [] OTHER -> q

\* on_text_unescaped decodes, on_text (CDATA) does not.
OnText(p, piece, cdata) ==
  IF p.capture = None THEN p
  ELSE [p EXCEPT !.buf = Append(@, IF cdata THEN piece ELSE Decoded(piece))]
==============================================================================
