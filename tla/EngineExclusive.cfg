SPECIFICATION Spec
CONSTANTS
  Messages = {1, 2}
  MaxAttempts = 2
  Engines = {e1, e2, e3, e4, e5}
  Requests = {h1, h2}
  Operations = {"create", "start", "stop"}
  MaxRequests = 4
  MaxCrashes = 1
  MaxFaults = 1
  Inherited = FALSE
  None = None
INVARIANTS
  OneLiveRunner
  AcceptedAtMostOncePerLife
SYMMETRY Symmetry
CHECK_DEADLOCK FALSE
