\* One animate_client that is killed and reaped; nobody else connects.
SPECIFICATION FairSpec
CONSTANTS
  Sessions = {s1}
  Workers = {w1}
  None = None
  MaxRequests = 1
  Growth = 8
  Kinds = {"rpc"}
  Pipelined = FALSE
  Killable = TRUE
  Reaped = TRUE
  AllocFails = FALSE
CHECK_DEADLOCK FALSE
PROPERTY KilledClientCleared
