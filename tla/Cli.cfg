CONSTANTS
  StalePercent = 0
  JitterPercent = 0
  Grace = 1
  MaxMillis = 30
  DrawRange = 2
  Sources = {arxiv, doi, arxiv2, doi2}
  BatchingOf <- MCPolicies
  ChunkSize = 2
  Requestable = {}
  DefaultTtl = 1
  Ttls = {1}
  MaxChainDepth = 3
  ExtraAnswers = {5, 6, 7}
  MaxRequest = 2
  MaxRetrieves = 2
  MaxTime = 2
  NoPrefix = none
  NoCite = nocite
  arxiv = arxiv
  doi = doi
  arxiv2 = arxiv2
  doi2 = doi2
  other = other
  bad = bad
  Malformed = bad
  Cites <- MCCites
  PrefixOf <- MCPrefix
  Targets <- MCTargets
  Payload <- MCPayload
  Properties <- MCProperties
  DropFields = {"reference"}
  Scripts <- MCScripts
SPECIFICATION FairCliSpec
INVARIANTS
  TypeOK BrokenWalkReported OriginsLeadToFailure ApartFailureDiscoverable
  RunHonest
PROPERTIES FetchedOnce OutageKeepsCache NearestWins RunEnds
CHECK_DEADLOCK FALSE
