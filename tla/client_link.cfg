\* Two clients that connect at any time and write lines that are empty, fit the
\* buffer with their newline exactly, or are too long by one or two.
SPECIFICATION FairSpec
CONSTANTS
  Clients = {c1, c2}
  None = None
  BufSize = 4
  LineLengths = {0, 2, 3, 4}
  MaxWrites = 2
CHECK_DEADLOCK FALSE
INVARIANTS
  TypeOK
  OneSessionEach
  LinesFramed
  
PROPERTIES
  Connects
  LinesArrive
