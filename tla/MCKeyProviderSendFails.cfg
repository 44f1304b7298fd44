\* sendto may return -1; a client that waits for ever stops the system.
SPECIFICATION FairSpec
CONSTANTS
  t1 = t1
  t2 = t2
  Tuples <- MCTuples
  NoTuple = NoTuple
  MaxGen = 1
  MaxLogs = 1
  MaxPending = 2
  RcvBuf = 3
  LateLogs = FALSE
  SendFails = TRUE
  Modes = {"TLSHUB"}
  SwitchModes = FALSE
CHECK_DEADLOCK FALSE
PROPERTY CallsReturn
