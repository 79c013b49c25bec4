\* Two instances of animate_client on a pool of two: each waits for a reply
\* before it sends again, and may be killed.  The server may die of SIGPIPE when
\* a client closes its FIFOs right after Disconnect.
SPECIFICATION FairSpec
CONSTANTS
  Sessions = {s1, s2}
  Workers = {w1, w2}
  None = None
  MaxRequests = 2
  Growth = 8
  Kinds = {"rpc", "Disconnect", "Reject"}
  Pipelined = FALSE
  Killable = TRUE
  Reaped = TRUE
  AllocFails = FALSE
CHECK_DEADLOCK FALSE
INVARIANTS
  
  
  
  ExecutesInOrder
  TableSound
PROPERTY EveryRequestAnswered
