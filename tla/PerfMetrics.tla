---------------------------- MODULE PerfMetrics ----------------------------
(***************************************************************************)
(* capture/src/performance_metrics.c: what the context keeps of the        *)
(* connections it tracks.  One action operator per library function; the   *)
(* caller (CaptureLoop) decides when each is called.                       *)
(*                                                                         *)
(* A slot is the source's conn_index plus 1, and NoSlot its -1.  Times are *)
(* readings of CLOCK_MONOTONIC.  Throughput, CPU and memory samples are    *)
(* left out: nothing below depends on them.                                *)
(***************************************************************************)
EXTENDS Integers, FiniteSets, Folds

CONSTANTS MaxConnections, \* max_connections (1000 in main.c)
          MaxTime,        \* bound: the clock stops there
          MinSentinel     \* initial value of the running minimum (999999 ms)

ASSUME MetricsAssumption == MaxConnections \in Nat /\ MaxTime \in Nat /\ MinSentinel \in Nat

VARIABLES now,
          monitoring_enabled,
          current_connections,
          connection_latency, key_negotiation,  \* a timepoint for each slot
          total_connections, successful_connections, failed_connections,
          active_connections,
          stats               \* what calculate_stats last computed

tableVars == <<current_connections, connection_latency, key_negotiation>>
countVars == <<total_connections, successful_connections, failed_connections, active_connections>>
metricsVars == <<now, monitoring_enabled, tableVars, countVars, stats>>

Slots == 1 .. MaxConnections
NoSlot == 0

Zero == [start |-> 0, duration |-> 0]
NoSummary == [min |-> MinSentinel, max |-> 0, avg |-> <<0, 0>>]

(* perf_metrics_init                                                       *)
perf_metrics_init ==
  /\ now = 0
  /\ monitoring_enabled = TRUE
  /\ current_connections = 0
  /\ connection_latency = [i \in Slots |-> Zero]
  /\ key_negotiation = [i \in Slots |-> Zero]
  /\ total_connections = 0 /\ successful_connections = 0 /\ failed_connections = 0
  /\ active_connections = 0
  /\ stats = [latency |-> NoSummary, negotiation |-> NoSummary]

Tick ==
  /\ now < MaxTime
  /\ now' = now + 1
  /\ UNCHANGED <<monitoring_enabled, tableVars, countVars, stats>>

perf_metrics_set_enabled(enabled) ==
  /\ monitoring_enabled' = enabled
  /\ UNCHANGED <<now, tableVars, countVars, stats>>
----------------------------------------------------------------------------
(* The test every function below starts with.                              *)
Tracked(i) == monitoring_enabled /\ i # NoSlot /\ i <= current_connections

perf_timepoint_start(tp) == [start |-> now, duration |-> tp.duration]
perf_timepoint_end(tp) == [start |-> tp.start, duration |-> now - tp.start]

(* Mutated form: one slot too many.                                        *)
NewSlotOffByOne ==
  IF monitoring_enabled /\ current_connections <= MaxConnections
    THEN current_connections + 1 ELSE NoSlot

(* The slot that perf_metrics_connection_start returns.  Slots are used    *)
(* once: nothing gives one back.                                           *)
NewSlot ==
  IF monitoring_enabled /\ current_connections < MaxConnections
    THEN current_connections + 1 ELSE NoSlot

perf_metrics_connection_start ==
  /\ IF NewSlot # NoSlot
       THEN /\ current_connections' = NewSlot
            /\ connection_latency' = [connection_latency EXCEPT ![NewSlot] = Zero]
            /\ key_negotiation' = [key_negotiation EXCEPT ![NewSlot] = Zero]
            /\ total_connections' = total_connections + 1
            /\ active_connections' = active_connections + 1
       ELSE UNCHANGED <<tableVars, total_connections, active_connections>>
  /\ UNCHANGED <<now, monitoring_enabled, successful_connections, failed_connections, stats>>

SetLatency(i, tp) ==
  /\ connection_latency' = IF Tracked(i) THEN [connection_latency EXCEPT ![i] = tp]
                                         ELSE connection_latency
  /\ UNCHANGED <<now, monitoring_enabled, current_connections, key_negotiation, countVars, stats>>

SetNegotiation(i, tp) ==
  /\ key_negotiation' = IF Tracked(i) THEN [key_negotiation EXCEPT ![i] = tp]
                                      ELSE key_negotiation
  /\ UNCHANGED <<now, monitoring_enabled, current_connections, connection_latency, countVars, stats>>

perf_metrics_connection_latency_start(i) == SetLatency(i, perf_timepoint_start(connection_latency[i]))
perf_metrics_connection_latency_end(i) == SetLatency(i, perf_timepoint_end(connection_latency[i]))
perf_metrics_key_negotiation_start(i) == SetNegotiation(i, perf_timepoint_start(key_negotiation[i]))
perf_metrics_key_negotiation_end(i) == SetNegotiation(i, perf_timepoint_end(key_negotiation[i]))

(* Nothing here remembers that connection i has ended already.             *)
perf_metrics_connection_end(i, success) ==
  /\ IF Tracked(i)
       THEN /\ successful_connections' = successful_connections + (IF success THEN 1 ELSE 0)
            /\ failed_connections' = failed_connections + (IF success THEN 0 ELSE 1)
            /\ active_connections' =
                 IF active_connections > 0 THEN active_connections - 1 ELSE 0
       ELSE UNCHANGED <<successful_connections, failed_connections, active_connections>>
  /\ UNCHANGED <<now, monitoring_enabled, tableVars, total_connections, stats>>
----------------------------------------------------------------------------
(* Mutated form: a connection that was not measured counts as a sample.    *)
AddSampleZeros(d, sum) ==
  [count |-> sum.count + 1,
   min   |-> IF d < sum.min THEN d ELSE sum.min,
   max   |-> IF d > sum.max THEN d ELSE sum.max,
   total |-> sum.total + d]

(* perf_metrics_calculate_stats.  One turn of its loop: a duration of 0    *)
(* counts as not measured.                                                 *)
AddSample(d, sum) ==
  IF d > 0
    THEN [count |-> sum.count + 1,
          min   |-> IF d < sum.min THEN d ELSE sum.min,
          max   |-> IF d > sum.max THEN d ELSE sum.max,
          total |-> sum.total + d]
    ELSE sum

(* Without a sample the minimum is set to 0 and the average, a total and a *)
(* count here, stays what it was.                                          *)
Summary(tps, old) ==
  LET sum == MapThenFoldSet(AddSample,
                            [count |-> 0, min |-> MinSentinel, max |-> 0, total |-> 0],
                            LAMBDA i : tps[i].duration,
                            LAMBDA S : CHOOSE i \in S : \A j \in S : i >= j,
                            1 .. current_connections)
  IN  IF sum.count > 0
        THEN [min |-> sum.min, max |-> sum.max, avg |-> <<sum.total, sum.count>>]
        ELSE [min |-> 0, max |-> sum.max, avg |-> old.avg]

perf_metrics_calculate_stats ==
  /\ stats' = [latency     |-> Summary(connection_latency, stats.latency),
               negotiation |-> Summary(key_negotiation, stats.negotiation)]
  /\ UNCHANGED <<now, monitoring_enabled, tableVars, countVars>>
============================================================================
