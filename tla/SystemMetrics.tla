--------------------------- MODULE SystemMetrics ---------------------------
(***************************************************************************)
(* capture/src/performance_metrics.c, the part PerfMetrics leaves out: the *)
(* CPU and memory samples that main.c takes every few seconds, the data    *)
(* transfers of the tracked connections, and the final report and files.   *)
(*                                                                         *)
(* The five busy and the two idle counters of /proc/stat are added up, as  *)
(* the code does: the sums wrap with the width of the integers.  The       *)
(* kernel documents that iowait may decrease.  A percentage or a rate is a *)
(* fraction <<n, d>>; constant factors are left out.                       *)
(***************************************************************************)
EXTENDS Integers, FiniteSetsExt

CONSTANTS Modulus,   \* 2^64 for the unsigned long long counters
          Boot,      \* [busy, idle]: the counters when monitoring starts
          MaxTicks,  \* bound: how far the counters move between two readings
          MaxTime,   \* bound: the clock stops there
          Interval,  \* PERF_UPDATE_INTERVAL_SEC (5)
          Threshold, \* shortest time a throughput is computed for (100 ms)
          Slots,     \* tracked connections
          Transfers, \* [sent, received]: what one call may record
          MaxCalls,  \* bound: data transfers recorded per connection
          RssValues  \* what VmRSS may be, 0 if the line is missing

ASSUME SystemAssumption ==
  /\ Modulus \in Nat \ {0} /\ MaxTicks \in Nat /\ MaxTime \in Nat
  /\ Interval \in Nat \ {0} /\ Threshold \in Nat /\ MaxCalls \in Nat
  /\ Boot \in [busy : 0 .. Modulus - 1, idle : 0 .. Modulus - 1]
  /\ Transfers \subseteq [sent : Nat, received : Nat] /\ RssValues \subseteq Nat
  /\ IsFiniteSet(Slots)

VARIABLES pc,           \* "loop", then "json", "csv", "done"
          now,          \* CLOCK_MONOTONIC
          age,          \* main's time(NULL) - last_perf_update
          cpu,          \* the kernel's counters when they were last read
          monitoring_enabled,
          sys,          \* prev_cpu_stat, cpu_first_call, system_metrics and their peaks
          conn_metrics, \* what each slot keeps of its transfers
          stats,        \* what calculate_stats last computed
          printed, json, csv,  \* the report and the two files, or None
          delta,        \* history: what the last CPU figure is about, or None
          log           \* history: bytes recorded for each slot, and when

outVars == <<printed, json, csv>>
sampleVars == <<cpu, sys, delta>>
vars == <<pc, now, age, monitoring_enabled, sampleVars, conn_metrics, stats, outVars, log>>

None == <<>>
Zero == <<0, 1>>
Less(x, y) == x[1] * y[2] < y[1] * x[2]
Add(x, y) == <<x[1] * y[2] + y[1] * x[2], x[2] * y[2]>>

Init ==
  /\ pc = "loop" /\ now = 0 /\ age = 0
  /\ cpu = Boot
  /\ monitoring_enabled = TRUE
  /\ sys = [prev |-> [busy |-> 0, idle |-> 0], first |-> TRUE,
            usage |-> Zero, peak |-> Zero, rss |-> 0, peak_rss |-> 0]
  /\ conn_metrics = [i \in Slots |-> [sent |-> 0, received |-> 0, first |-> 0, last |-> 0, rate |-> Zero]]
  /\ stats = [bytes |-> 0, max |-> Zero, avg |-> <<Zero, 1>>, usage |-> Zero, rss |-> 0]
  /\ printed = None /\ json = None /\ csv = None
  /\ delta = None
  /\ log = [i \in Slots |-> [calls |-> 0, bytes |-> 0, begin |-> None, end |-> 0]]
----------------------------------------------------------------------------
(* Time passes; the wall clock is set back.                                *)

Tick ==
  /\ pc = "loop" /\ now < MaxTime
  /\ now' = now + 1
  /\ age' = IF age < Interval THEN age + 1 ELSE age
  /\ UNCHANGED <<pc, monitoring_enabled, sampleVars, conn_metrics, stats, outVars, log>>

SetClockBack ==
  /\ pc = "loop" /\ age = Interval
  /\ age' = 0
  /\ UNCHANGED <<pc, now, monitoring_enabled, sampleVars, conn_metrics, stats, outVars, log>>

perf_metrics_set_enabled(enabled) ==
  /\ pc = "loop"
  /\ monitoring_enabled' = enabled
  /\ UNCHANGED <<pc, now, age, cpu, sampleVars, conn_metrics, stats, outVars, log>>
----------------------------------------------------------------------------
(* perf_metrics_update_system                                              *)

(* The sums have moved by b and i since they were last read; the code sees *)
(* what is left of them in its integers.                                   *)
read_cpu_stat ==
  \E b \in 0 .. MaxTicks, i \in -1 .. MaxTicks :
    /\ b + i <= MaxTicks
    /\ cpu' = [busy |-> (cpu.busy + b) % Modulus, idle |-> (cpu.idle + i) % Modulus]
    /\ delta' = IF sys.first THEN None ELSE <<[busy |-> b, idle |-> i]>>

(* Mutated form: two equal readings are not told apart.                    *)
calculate_cpu_usage_NoTest(prev, curr) ==
  LET total_diff == ((curr.busy + curr.idle) - (prev.busy + prev.idle)) % Modulus
      idle_diff  == (curr.idle - prev.idle) % Modulus
  IN  <<(total_diff - idle_diff) % Modulus, total_diff>>

calculate_cpu_usage(prev, curr) ==
  LET total_diff == ((curr.busy + curr.idle) - (prev.busy + prev.idle)) % Modulus
      idle_diff  == (curr.idle - prev.idle) % Modulus
  IN  IF total_diff = 0 THEN Zero
      ELSE <<(total_diff - idle_diff) % Modulus, total_diff>>

Peak(x, peak) == IF Less(peak, x) THEN x ELSE peak

(* What reading the CPU counters makes of sys; the first call has nothing  *)
(* to compare with.                                                        *)
CpuSampled ==
  LET usage == IF sys.first THEN Zero ELSE calculate_cpu_usage(sys.prev, cpu')
  IN  [sys EXCEPT !.prev = cpu', !.first = FALSE,
                  !.usage = usage, !.peak = Peak(usage, @)]

MemorySampled(s, rss) ==
  [s EXCEPT !.rss = rss, !.peak_rss = IF rss > @ THEN rss ELSE @]

(* Mutated form: the counters are kept only once the memory was read too.  *)
UpdateLatePrev ==
  /\ read_cpu_stat
  /\ \/ sys' = [CpuSampled EXCEPT !.prev = sys.prev, !.first = sys.first]
     \/ \E rss \in RssValues : sys' = MemorySampled(CpuSampled, rss)

(* Mutated form: the peak is not updated when the memory cannot be read.   *)
UpdateLatePeak ==
  /\ read_cpu_stat
  /\ \/ sys' = [CpuSampled EXCEPT !.peak = sys.peak]
     \/ \E rss \in RssValues : sys' = MemorySampled(CpuSampled, rss)

(* The CPU figures stay updated when the memory cannot be read.            *)
Update ==
  /\ read_cpu_stat
  /\ \/ sys' = CpuSampled
     \/ \E rss \in RssValues : sys' = MemorySampled(CpuSampled, rss)

perf_metrics_update_system ==
  \/ monitoring_enabled /\ Update
  \/ UNCHANGED sampleVars      \* monitoring is off, or /proc/stat cannot be read

(* The main loop; a failed update is not tried again before the next turn. *)
PeriodicUpdate ==
  /\ pc = "loop" /\ age >= Interval
  /\ perf_metrics_update_system
  /\ age' = 0
  /\ UNCHANGED <<pc, now, monitoring_enabled, conn_metrics, stats, outVars, log>>
----------------------------------------------------------------------------
(* perf_metrics_record_data_transfer                                       *)

(* Mutated form: only what was sent tells whether there was data before.   *)
RecordedSentOnly(cm, tr) ==
  LET first == IF cm.sent = 0 THEN now ELSE cm.first
      sent == cm.sent + tr.sent
      received == cm.received + tr.received
  IN  [sent |-> sent, received |-> received, first |-> first, last |-> now,
       rate |-> IF now - first > Threshold THEN <<sent + received, now - first>> ELSE cm.rate]

Recorded(cm, tr) ==
  LET first == IF cm.sent = 0 /\ cm.received = 0 THEN now ELSE cm.first
      sent == cm.sent + tr.sent
      received == cm.received + tr.received
  IN  [sent |-> sent, received |-> received, first |-> first, last |-> now,
       rate |-> IF now - first > Threshold THEN <<sent + received, now - first>> ELSE cm.rate]

perf_metrics_record_data_transfer(i, tr) ==
  /\ pc = "loop" /\ monitoring_enabled
  /\ log[i].calls < MaxCalls
  /\ conn_metrics' = [conn_metrics EXCEPT ![i] = Recorded(@, tr)]
  /\ log' = [log EXCEPT ![i] =
                [calls |-> @.calls + 1, bytes |-> @.bytes + tr.sent + tr.received, end |-> now,
                 begin |-> IF @.begin = None /\ tr.sent + tr.received > 0 THEN <<now>> ELSE @.begin]]
  /\ UNCHANGED <<pc, now, age, monitoring_enabled, sampleVars, stats, outVars>>
----------------------------------------------------------------------------
(* The throughput part of perf_metrics_calculate_stats, and its last lines.*)
Bytes(i) == conn_metrics[i].sent + conn_metrics[i].received

(* Mutated form: the running total is not set back.                        *)
CalculatedKeepingBytes ==
  [stats EXCEPT !.bytes = @ + MapThenSumSet(Bytes, Slots),
                !.usage = sys.usage, !.rss = sys.rss]

Calculated ==
  LET rated == {i \in Slots : conn_metrics[i].rate[1] > 0}
      Rate(i) == conn_metrics[i].rate
  IN  [bytes |-> MapThenSumSet(Bytes, Slots),
       max   |-> FoldSet(LAMBDA i, m : Peak(Rate(i), m), Zero, rated),
       avg   |-> IF rated = {} THEN stats.avg
                 ELSE <<FoldSet(LAMBDA i, sum : Add(Rate(i), sum), Zero, rated), Cardinality(rated)>>,
       usage |-> sys.usage, rss |-> sys.rss]

Exported(next, out) ==
  /\ pc' = next
  /\ UNCHANGED <<now, age, monitoring_enabled, sampleVars, conn_metrics, log, out>>

(* A signal ends the loop; main prints the report and writes two files,    *)
(* either of which it may fail to open.                                    *)
perf_metrics_print_report ==
  /\ pc = "loop"
  /\ stats' = Calculated
  /\ printed' = stats'
  /\ Exported("json", <<json, csv>>)

perf_metrics_export_json ==
  /\ pc = "json"
  /\ \/ UNCHANGED <<stats, json>>
     \/ stats' = Calculated /\ json' = [summary |-> stats', connections |-> conn_metrics]
  /\ Exported("csv", <<printed, csv>>)

perf_metrics_export_csv ==
  /\ pc = "csv"
  /\ csv' \in {None, conn_metrics}
  /\ Exported("done", <<stats, printed, json>>)
----------------------------------------------------------------------------
Next ==
  \/ Tick \/ SetClockBack \/ PeriodicUpdate
  \/ \E enabled \in BOOLEAN : perf_metrics_set_enabled(enabled)
  \/ \E i \in Slots, tr \in Transfers : perf_metrics_record_data_transfer(i, tr)
  \/ perf_metrics_print_report \/ perf_metrics_export_json \/ perf_metrics_export_csv

Spec == Init /\ [][Next]_vars
----------------------------------------------------------------------------
(* The CPU figure is the busy share of what the counters really did since   *)
(* they were last read, through a wrap of either sum and however many       *)
(* updates failed in between, and 0 if nothing moved.  It only exceeds 1    *)
(* when the idle counters went backwards.                                   *)
UsageExact ==
  delta # None =>
    LET b == delta[1].busy  i == delta[1].idle IN
    IF b + i = 0 THEN sys.usage = Zero
    ELSE /\ sys.usage[1] = b
         /\ b + i > 0 => sys.usage[2] = b + i
         /\ Less(<<1, 1>>, sys.usage) => i < 0

(* A peak never falls, never stays below a sample, and only moves to one:   *)
(* it is the greatest figure ever sampled, also by an update that failed    *)
(* half-way.                                                                *)
PeaksExact ==
  [][/\ ~Less(sys'.peak, sys.peak) /\ ~Less(sys'.peak, sys'.usage)
     /\ sys'.peak # sys.peak => sys'.peak = sys'.usage
     /\ sys'.peak_rss >= sys.peak_rss /\ sys'.peak_rss >= sys'.rss
     /\ sys'.peak_rss # sys.peak_rss => sys'.peak_rss = sys'.rss]_vars

(* A connection's throughput is all it transferred over the time from its   *)
(* first byte, not from an earlier empty transfer, to its last call, and 0  *)
(* until that time exceeds the threshold.                                   *)
ThroughputExact ==
  \A i \in Slots :
    LET time == log[i].end - log[i].begin[1]
    IN  conn_metrics[i].rate =
          IF log[i].begin # None /\ time > Threshold THEN <<log[i].bytes, time>> ELSE Zero

(* The report and the files agree, although the statistics are computed     *)
(* anew for the file, and account for every byte recorded.                  *)
ExportsAgree ==
  pc = "done" =>
    /\ json # None => json.summary = printed
    /\ json # None /\ csv # None => json.connections = csv
    /\ printed.bytes = MapThenSumSet(LAMBDA i : log[i].bytes, Slots)
    /\ \A i \in Slots : ~Less(printed.max, conn_metrics[i].rate)
============================================================================
