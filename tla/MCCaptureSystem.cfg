\* Two CPUs and one socket, used for up to three connections of two 4-tuples; files
\* of up to two and three lines.
SPECIFICATION SystemSpec
CONSTANTS
  s1 = s1
  c1 = c1
  c2 = c2
  u1 = u1
  u2 = u2
  DefaultPath = "default"
  MaxMappings = 2
  NoFile = NoFile
  NoTable = NoTable
  NoNode = NoNode
  ConfigSet <- MCConfigSet
  MappingSet <- MCMappingSet
  Pods <- MCPods
  Socks = {s1}
  CPUs = {c1, c2}
  NoSock = NoSock
  MaxEntries = 1
  RingSize = 2
  SharedSocks = {}
  MaxConns = 3
  FlowOf <- MCFlowOf
  Tuples <- MCTuples
  NoTuple = NoTuple
  MaxGen = 1
  MaxLogs = 1
  MaxPending = 1
  RcvBuf = 2
  LateLogs = FALSE
  SendFails = FALSE
  Modes = {"TLSHUB", "OPENSSL", "BORINGSSL"}
  SwitchModes = FALSE
\* The program ends.
CHECK_DEADLOCK FALSE
INVARIANTS
  FilesRead
  EventsAccounted
PROPERTIES
  EventsHandled
  StopsOnSignal
