SPECIFICATION Spec
CONSTANTS
  c1 = c1
  c2 = c2
  Client <- Clients
  MaxReq = 2
  require_auth = TRUE
  redis_db = 1
  Completion <- Waits
  Transient <- Commands
  AllocFails = FALSE
INVARIANT DbSelected
