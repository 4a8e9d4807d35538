\* The fetch loop's clock, in 0.1 s ticks, with the code's constants:
\* POLL_INTERVAL 0.2 s, REQUEST_TIMEOUT 1 s, BACKOFF_INITIAL 0.5 s,
\* BACKOFF_MAX 8 s.  Does an unreachable source delay the healthy one?
CONSTANTS
  s1 = s1
  s2 = s2
  NONE = NONE
  SourceOrder <- TwoSources
  PollInterval = 2
  RequestTimeout = 10
  RequestTime = 1
  BackoffInitial = 5
  BackoffMax = 80
  MaxTime = 60
SPECIFICATION Spec
INVARIANT HealthyPolledOnTime
