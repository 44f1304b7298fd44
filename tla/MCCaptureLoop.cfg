\* Two slots, a clock that runs to 3, two events in the buffer.  The process ends.
SPECIFICATION FairSpec
CONSTANTS
  MaxConnections = 2
  MaxTime = 3
  MinSentinel = 9
  RingSize = 2
  Toggles = TRUE
INVARIANT TypeOK
INVARIANT Conserved
INVARIANT Measured
INVARIANT ReportExact
PROPERTY ShutsDown
CHECK_DEADLOCK FALSE
