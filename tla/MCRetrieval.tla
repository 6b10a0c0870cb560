----------------------------- MODULE MCRetrieval -----------------------------
(* Two sources, an arxiv-like one that batches and a doi-like eager one, and  *)
(* a request for what another request chains to.                              *)
EXTENDS Retrieval

CONSTANTS arxiv, doi

MCPolicies ==
  [p \in {arxiv, doi} |->
    IF p = arxiv
      THEN [minBatch |-> 2, maxDefer |-> 1, topUp |-> TRUE, minAge |-> 0,
            toChunk |-> TRUE, extra |-> 0]
      ELSE Eager]

\* Arxiv cites 1 and 2 may each chain to a doi cite of their own; 3 is also
\* requested itself.
TreeCites == {1, 2, 3, 4}
TreePrefix == <<arxiv, arxiv, doi, doi>>
TreeTargets == <<{3}, {4}, {}, {}>>
==============================================================================
