SPECIFICATION FairSpec
CONSTANTS
  Messages = {1, 2}
  MaxAttempts = 1
  Engines = {e1, e2, e3, e4, e5}
  Requests = {h1}
  Operations = {"create", "start", "pause", "resume", "stop", "retry"}
  MaxRequests = 4
  MaxCrashes = 1
  MaxFaults = 0
  Inherited = FALSE
  None = None
PROPERTIES
  RunningSettles
CHECK_DEADLOCK FALSE
