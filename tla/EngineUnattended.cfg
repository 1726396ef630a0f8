SPECIFICATION Spec
CONSTANTS
  Messages = {1, 2}
  MaxAttempts = 2
  Engines = {e1, e2, e3}
  Requests = {h1}
  Operations = {"create", "start"}
  MaxRequests = 2
  MaxCrashes = 2
  MaxFaults = 2
  Inherited = TRUE
  None = None
INVARIANTS
  CompletedIsDrained
  CountersAgree
  RunningHasRunner
PROPERTIES
  StatusFollowsTable
CHECK_DEADLOCK FALSE
