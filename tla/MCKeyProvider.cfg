\* TLSHub behaves as the client expects: logs only before a final message,
\* and the receive queue is large enough.
SPECIFICATION FairSpec
CONSTANTS
  t1 = t1
  t2 = t2
  Tuples <- MCTuples
  NoTuple = NoTuple
  MaxGen = 2
  MaxLogs = 2
  MaxPending = 2
  RcvBuf = 3
  LateLogs = FALSE
  SendFails = FALSE
  Modes = {"TLSHUB", "OPENSSL"}
  SwitchModes = FALSE
INVARIANTS
  TypeOK
  OwnKey
  InSync
  CleanShutdown
PROPERTIES
  CallsReturn
  KeepsPromise
