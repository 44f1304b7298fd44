\* No shortage of sockets or memory.
SPECIFICATION Spec
CONSTANTS
  t1 = t1
  t2 = t2
  u1 = u1
  u2 = u2
  NoTuple = NoTuple
  Tids <- MCTids
  Tuples <- MCTuples
  Expiring = {u1, u2}
  MaxGen = 2
  MaxLogs = 1
  MaxLeft = 1
  Exhausted = {}
  Faulty = {}
INVARIANT ZeroMeansKey
