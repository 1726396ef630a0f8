SPECIFICATION Spec
CONSTANTS
  Posts = {p1}
  MaxEvents = 2
  PostSize = 3
  MaxPosts = 2
  MaxSends = 2
  MaxRetries = 1
  MaxFaults = 1
  MaxCrashes = 1
  Inherited = TRUE
  None = None
INVARIANTS
  TypeOK
  Converged
  StagesHaveTimes
PROPERTIES
  TimesWrittenOnce
  ImplementsLifecycle
CHECK_DEADLOCK FALSE
