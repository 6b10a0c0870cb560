CONSTANTS
  Interval = 2
  ChunkSize = 1
  MaxRetries = 2
  Base = 4
  Cap = 4
  Width = 3
  HonorRetryAfter = TRUE
  RetryAfters = {0, 9}
  Urls = {"https", "file"}
  Statuses = {200, 404, 503}
  Cut = cut
  Seeds = {0, 1}
  ClockSteps <- MCBackSteps
  MaxSkew = 4
  MaxKeys = 2
  MaxRequests = 2
  MaxPasses = 2
  MaxTime = 1
  Level = 1
  Gap = 3
  Mine = mine
  Other = other
  MaxOthers = 1
  OthersUntil = 0
SPECIFICATION FairReportingSpec
INVARIANTS AnnouncedIsUnderway FinalCountShown
PROPERTIES SamplesThrottled RetriedWhileWorthIt ChunkStartsSpaced BackoffSane PassEnds
CHECK_DEADLOCK FALSE
