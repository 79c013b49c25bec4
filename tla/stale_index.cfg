\* Three instances of animate_client.  The session at a ready index has moved by
\* the time it is read: the one found there is disconnected at the end of its
\* FIFO although its Disconnect is still being executed.
SPECIFICATION Spec
CONSTANTS
  Sessions = {s1, s2, s3}
  Workers = {w1, w2}
  None = None
  MaxRequests = 2
  Growth = 8
  Kinds = {"rpc", "Disconnect", "Reject"}
  Pipelined = FALSE
  Killable = FALSE
  Reaped = FALSE
  AllocFails = FALSE
SYMMETRY Symmetry
CHECK_DEADLOCK FALSE
INVARIANT StructsInUseKept
