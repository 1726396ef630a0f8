SPECIFICATION FairSpec
CONSTANTS
  Messages = {1}
  MaxAttempts = 2
  Engines = {e1, e2, e3, e4, e5, e6}
  Requests = {h1}
  Operations = {"create", "start", "pause", "resume"}
  MaxRequests = 4
  MaxCrashes = 0
  MaxFaults = 0
  Inherited = FALSE
  None = None
INVARIANTS
  AcceptedAtMostOncePerLife
CHECK_DEADLOCK FALSE
