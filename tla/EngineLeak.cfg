SPECIFICATION FairSpec
CONSTANTS
  Messages = {1}
  MaxAttempts = 2
  Engines = {e1, e2, e3, e4, e5, e6}
  Requests = {h1}
  Operations = {"create", "start"}
  MaxRequests = 2
  MaxCrashes = 0
  MaxFaults = 1
  Inherited = FALSE
  None = None
INVARIANTS
  ClaimHasRunner
CHECK_DEADLOCK FALSE
