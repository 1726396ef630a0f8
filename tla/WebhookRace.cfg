SPECIFICATION Spec
CONSTANTS
  Posts = {p1, p2}
  MaxEvents = 2
  PostSize = 1
  MaxPosts = 2
  MaxSends = 2
  MaxRetries = 0
  MaxFaults = 0
  MaxCrashes = 0
  Inherited = FALSE
  None = None
INVARIANTS
  Converged
CHECK_DEADLOCK FALSE
