\* Two threads on two sockets.  They may call again and again.
SPECIFICATION Spec
CONSTANTS
  p1 = p1
  p2 = p2
  Threads <- MCThreads
  Socks = {1, 2}
  Materials <- MCMaterials
  SaltSize = 2
  IvSize = 2
SYMMETRY MCSymmetry
INVARIANTS
  TypeOK
  Configured
  OneAttempt
