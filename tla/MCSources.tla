------------------------------- MODULE MCSources -------------------------------
(***************************************************************************)
(* Chunks of the four sources.  The arXiv ids are a, its versions 1 and 2, *)
(* and a3, whose digits overflow.  MCResolve varies the versions, DOIs and *)
(* overrides, MCTitles and MCAuthors the elements of the feed.             *)
(***************************************************************************)
EXTENDS Sources

CONSTANTS DoiA, DoiB, Word, ErrorUrl, Article, Book, Note

Id(name, digits) == [name |-> name, digits |-> digits]
a == Id("a", None)
MCArxivIds == {a, Id("a", 1), Id("a", 2), Id("a", 3)}

Plain(pieces) == [piece : pieces, cdata : {FALSE}]
Source(source, keys) ==
  [source |-> source, keys |-> keys, chain |-> None, inline |-> <<>>, file |-> None,
   files |-> <<>>, preloaded |-> <<>>, children |-> <<>>, text |-> <<>>, pieces |-> <<>>,
   room |-> 0]

MCOverrideBodies == {a :> Suppress, a :> <<DoiB>>}

Overriding(inline, file, room) ==
  [Source("arxiv", <<Id("a", 1), a, Id("b", None)>>) EXCEPT
      !.chain = "dx", !.inline = inline, !.file = file, !.room = room,
      !.children = [feed |-> {"entry"}, entry |-> {"id", "doi"}, id |-> {}, doi |-> {}],
      !.pieces = [id |-> 1, doi |-> 1],
      !.text = [id |-> Plain({a, Id("a", 1), Id("a", 2)}), doi |-> Plain({DoiA, Space})]]
MCResolve ==
  {Overriding(<<>>, None, 7), [Overriding(<<>>, None, 6) EXCEPT !.chain = None],
   Overriding(<<>>, "https", 6), Overriding(a :> Suppress, "file", 6),
   Overriding(a :> <<DoiB>>, "http", 6), Overriding(a :> <<Space>>, None, 6),
   Overriding(<<>>, "ftp", 6)}

MCTitles ==
  {[Source("arxiv", <<Id("a", 3), Id("a", 2)>>) EXCEPT
      !.room = 5,
      !.children = [feed |-> {"id", "entry"}, entry |-> {"id", "title", "updated", "published"},
                    id |-> {}, title |-> {}, updated |-> {}, published |-> {}],
      !.pieces = [id |-> 1, title |-> 2, updated |-> 1, published |-> 1],
      !.text = [id |-> Plain({Id("a", 3), ErrorUrl}),
                title |-> Plain({Word, Space, AmpReference})
                            \cup [piece : {AmpReference}, cdata : {TRUE}],
                updated |-> Plain({Word}), published |-> Plain({Word})]]}

MCAuthors ==
  {[Source("arxiv", <<a>>) EXCEPT
      !.room = 7,
      !.children = [feed |-> {"entry"}, entry |-> {"id", "author", "contributor"},
                    author |-> {"name", "affiliation"}, contributor |-> {"name"},
                    id |-> {}, name |-> {}, affiliation |-> {}],
      !.pieces = [id |-> 1, name |-> 1, affiliation |-> 1],
      !.text = [id |-> Plain({a}), name |-> Plain({Word}), affiliation |-> Plain({Word})]]}

MCDoi == {Source("doi", << <<DoiA>>, <<DoiA, Space>>, <<DoiB>> >>)}
MCDoiBodies == {<<>>, [title |-> Article]} \cup [DOI : {DoiA}, doi : {DoiB}] \cup [doi : {DoiB}]

MCBib ==
  {[Source("bibfile", <<"x", "y">>) EXCEPT
      !.files = files, !.preloaded = [x |-> Note]] :
     files \in {<<>>, <<"https", "file">>, <<"", "c">>, <<"ftp">>}}
Pair(id, item) == [id |-> id, item |-> item]
MCBibBodies ==
  [shape : {"list", "map"},
   items : {<<>>, <<Pair("x", Article)>>, <<Pair("x", Book), Pair("y", Article)>>,
            <<Pair("y", Article), Pair("y", Book)>>, <<Pair("x", NotObject)>>}]

MCConfigs ==
  MCResolve \cup MCTitles \cup MCAuthors \cup MCDoi \cup MCBib
    \cup {Source("manual", << <<Word>>, <<Space>> >>)}
==============================================================================
