SPECIFICATION Spec
CONSTANTS
  Posts = {p1}
  MaxEvents = 2
  PostSize = 1
  MaxPosts = 2
  MaxSends = 2
  MaxRetries = 1
  MaxFaults = 0
  MaxCrashes = 0
  Inherited = FALSE
  None = None
PROPERTIES
  RetriedAwaitsItsAttempt
CHECK_DEADLOCK FALSE
