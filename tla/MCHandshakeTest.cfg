\* t1: a port id that test programs may have, and whose sends and receives may
\* fail.  t2: a thread on hypertls.c that may run out of sockets or memory.
\* They share two 4-tuples, one of which may expire.
SPECIFICATION TestFairSpec
CONSTANTS
  t1 = t1
  t2 = t2
  u1 = u1
  u2 = u2
  NoTuple = NoTuple
  Tids <- MCTids
  Tuples <- MCTuples
  Hypertls = {t2}
  Programs = {t1}
  Turns = 2
  Expiring = {u1}
  MaxGen = 2
  MaxLogs = 1
  MaxLeft = 1
  Exhausted = {t2}
  Faulty = {t1}
INVARIANTS
  TypeOK
  OwnKey
  TrueVerdict
  InSync
  PassMeansNegotiated
PROPERTIES
  CallsReturn
  TestEnds
