\* Late logs, a short receive queue, failing sends and mode switches.  The
\* client may then wait for ever for an answer that was never sent.
SPECIFICATION Spec
CONSTANTS
  t1 = t1
  t2 = t2
  Tuples <- MCTuples
  NoTuple = NoTuple
  MaxGen = 1
  MaxLogs = 2
  MaxPending = 2
  RcvBuf = 2
  LateLogs = TRUE
  SendFails = TRUE
  Modes = {"TLSHUB", "OPENSSL"}
  SwitchModes = TRUE
CHECK_DEADLOCK FALSE
INVARIANTS
  FinalsMatched
PROPERTIES
  NegotiatesOnlyOnRequest
