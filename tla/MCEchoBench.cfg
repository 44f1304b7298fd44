\* DataSize = 2 * Window + 1 is the most that cannot block both sides.  All processes
\* may end.
SPECIFICATION FairSpec
CONSTANTS
  Clients = {c1, c2}
  TotalConns = 2
  DataSize = 5
  BufferSize = 2
  Window = 2
INVARIANTS TypeOK EchoExact Accounted
PROPERTIES BenchEnds StopsAfterConnection
CHECK_DEADLOCK FALSE
