SPECIFICATION Spec
CONSTANTS
  Messages = {1, 2}
  MaxAttempts = 2
  Engines = {e1, e2, e3, e4, e5, e6}
  Requests = {h1}
  Operations = {"create", "start", "stop", "retry"}
  MaxRequests = 5
  MaxCrashes = 0
  MaxFaults = 0
  Inherited = FALSE
  None = None
PROPERTIES
  SentIsFinal
  AttemptsOnlyForward
CHECK_DEADLOCK FALSE
