SPECIFICATION FairSpec
CONSTANTS
  SessionIds = {x1, x2}
  Nonces = {n1}
  MaxBatch = 2
  MaxEvents = 2
  MaxSessions = 1
  MaxRoutes = 2
INVARIANTS BackendInStep RuntimeInStep
PROPERTIES EventsAnswered DeniedIsAnswered
CHECK_DEADLOCK FALSE
