CONSTANTS
  StalePercent = 0
  JitterPercent = 0
  Grace = 1
  MaxMillis = 30
  DrawRange = 2
  Sources = {arxiv, doi}
  BatchingOf <- MCPolicies
  ChunkSize = 2
  Requestable = {1, 2, 3}
  DefaultTtl = 2
  Ttls = {2}
  MaxChainDepth = 3
  ExtraAnswers = {}
  MaxRequest = 2
  MaxRetrieves = 2
  MaxTime = 4
  NoPrefix = none
  NoCite = nocite
  arxiv = arxiv
  doi = doi
  Cites <- TreeCites
  PrefixOf <- TreePrefix
  Targets <- TreeTargets
SPECIFICATION Spec
INVARIANTS FailureDiscoverable
CHECK_DEADLOCK FALSE
