\* One socket is used by several threads, one is not; the map holds fewer entries
\* than there are sockets.
SPECIFICATION Spec
CONSTANTS
  s1 = s1
  s2 = s2
  c1 = c1
  c2 = c2
  Socks <- MCSocks
  CPUs <- MCCPUs
  NoSock = NoSock
  MaxEntries = 1
  RingSize = 1
  SharedSocks = {s1}
  MaxConns = 4
SYMMETRY MCSymmetry
\* When MaxConns connections are closed nothing is left to do.
CHECK_DEADLOCK FALSE
INVARIANTS
  TypeOK
  AtMostOnce
  NotMissed
  OneCapturePerConnect
