\* Time to 3, three transfers on one connection, two memory readings.  Monitoring
\* ends with the report.
SPECIFICATION Spec
CONSTANTS
  Modulus = 8
  Boot <- MCBoot
  MaxTicks = 2
  MaxTime = 3
  Interval = 1
  Threshold = 1
  Slots = {1}
  Transfers <- MCTransfers
  MaxCalls = 3
  RssValues = {1, 2}
CHECK_DEADLOCK FALSE
INVARIANTS
  UsageExact
  ThroughputExact
  ExportsAgree
PROPERTY PeaksExact
