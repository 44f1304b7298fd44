\* Several threads send on one socket.
SPECIFICATION Spec
CONSTANTS
  s1 = s1
  s2 = s2
  c1 = c1
  c2 = c2
  Socks <- MCSocks
  CPUs <- MCCPUs
  NoSock = NoSock
  MaxEntries = 2
  RingSize = 1
  SharedSocks = {s1, s2}
  MaxConns = 2
SYMMETRY MCSymmetry
\* When MaxConns connections are closed nothing is left to do.
CHECK_DEADLOCK FALSE
INVARIANT NeverTwice
