\* One client that pipelines its lines into a pool of three; allocations may fail
\* and the client may vanish.  The server may die of SIGPIPE or of a freed
\* session, and hangs after an error path leaked sessions_lock.
SPECIFICATION Spec
CONSTANTS
  Sessions = {s1}
  Workers = {w1, w2, w3}
  None = None
  MaxRequests = 3
  Growth = 1
  Kinds = {"rpc", "Disconnect", "Overlong"}
  Pipelined = TRUE
  Killable = TRUE
  Reaped = TRUE
  AllocFails = TRUE
SYMMETRY Symmetry
CHECK_DEADLOCK FALSE
INVARIANTS
  TypeOK
  OrderedDelivery
  TicketHeldOnce
  PipelineInv
  DrainComplete
PROPERTY RepliesInOrder
