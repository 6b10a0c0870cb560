--------------------------------- MODULE MCCli ---------------------------------
(* Two worlds side by side: cites 1 and 2 chain to targets of their own (3,   *)
(* 4); 5 and 6 may share the target 7, which may lead back to 5, and 5 may    *)
(* chain to a prefix nobody registered.  A script stays in one world.         *)
EXTENDS Cli

CONSTANTS arxiv, doi, arxiv2, doi2, other, bad

MCCites == 1..8
MCPrefix == <<arxiv, arxiv, doi, doi, arxiv2, arxiv2, doi2, other>>
MCTargets == <<{3}, {4}, {}, {}, {7, 8}, {7}, {5}, {}>>

Batch == [minBatch |-> 2, maxDefer |-> 1, topUp |-> TRUE, minAge |-> 0,
          toChunk |-> TRUE, extra |-> 0]
MCPolicies ==
  (arxiv :> Batch) @@ (arxiv2 :> Batch) @@ (doi :> Eager) @@ (doi2 :> Eager)

MCPayload == [c \in MCCites |-> [title |-> c, DOI |-> c, reference |-> c]]
MCProperties ==
  [c \in MCCites |-> IF c = 7 THEN [note |-> c, id |-> c, reference |-> c]
                     ELSE [note |-> c, DOI |-> c]]

\* Both cites of a world in either order and alone, the target alone, one cite in
\* two spellings, nothing, and a line that does not parse.
Canonical(s) == [i \in DOMAIN s |-> Argument(s[i], TRUE)]
Lines(a, b) ==
  {Canonical(<<a, b>>), Canonical(<<b>>), <<Argument(a, FALSE), Argument(a, TRUE)>>}
GraphLines ==
  Lines(5, 6) \cup {Canonical(<<5, 7>>), Canonical(<<7, 6>>)}
MCScripts ==
  {<<l, k>> : l, k \in Lines(1, 2)} \cup
  {<<l, Canonical(<<5, 6>>)>> : l \in GraphLines} \cup
  {<<Canonical(<<5, 6>>), Canonical(<<7, 6>>)>>} \cup
  {<<<<>>, <<Argument(1, TRUE), bad>>>>}
==============================================================================
