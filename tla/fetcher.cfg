SPECIFICATION FetchSpec
CONSTANTS
  None = None
  MaxRetries = 3
  MaxBackoff = 3
  DefaultWait = 6
  Durations = {0, 4}
  Resets <- MCResets
  RetryAfters <- MCRetryAfters
INVARIANTS
  FetchTypeOK
  ResultFollowsAnswers
  HonoursReset
  SleepIsBounded
PROPERTIES
  CallReturns
