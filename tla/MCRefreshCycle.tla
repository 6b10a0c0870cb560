---------------------------- MODULE MCRefreshCycle ----------------------------
(* Small sources: TTLs of a few ticks, three entries, chunks of two.         *)
EXTENDS RefreshCycle

MCHash == [k \in Keys |-> 2 * k]

\* Batched like arXiv: a minimum batch, filled up to the chunk.
ChunkPolicy == [minBatch |-> 2, maxDefer |-> 9, topUp |-> TRUE, minAge |-> 40,
                toChunk |-> TRUE, extra |-> 0]
\* Per-key like doi.org: one extra entry, any age.
ExtraPolicy == [minBatch |-> 3, maxDefer |-> 1, topUp |-> TRUE, minAge |-> 0,
                toChunk |-> FALSE, extra |-> 1]
MCInEffect == {ChunkPolicy, ExtraPolicy}
==============================================================================
