------------------------ MODULE SystemMetricsProofs ------------------------
(***************************************************************************)
(* Proofs about SystemMetrics, for counters of any width, any number of    *)
(* slots and any sizes and times of the transfers.                         *)
(***************************************************************************)
EXTENDS SystemMetrics, FiniteSetTheorems, TLAPS

USE DEF vars, sampleVars, outVars
----------------------------------------------------------------------------
(* Arithmetic of counters that wrap.                                       *)

LEMMA ModRange ==
  ASSUME NEW m \in Nat \ {0}, NEW a \in Int
  PROVE  a % m \in 0 .. m - 1
OBVIOUS

(* A number and its remainder differ by a multiple.                        *)
LEMMA ModWrap ==
  ASSUME NEW m \in Nat \ {0}, NEW r \in 0 .. m - 1
  PROVE  /\ r % m = r /\ (r + m) % m = r /\ (r - m) % m = r
         /\ (r + m + m) % m = r /\ (r - m - m) % m = r
OBVIOUS

LEMMA ModCases ==
  ASSUME NEW m \in Nat \ {0}, NEW x \in 0 .. m - 1, NEW d \in Int, -1 <= d, d < m
  PROVE  (x + d) % m \in {x + d, x + d - m, x + d + m}
<1>1. CASE x + d \in 0 .. m - 1
  BY <1>1, ModWrap
<1>2. CASE x + d < 0
  <2>1. x + d + m \in 0 .. m - 1 /\ x + d = (x + d + m) - m
    BY <1>2
  <2>2. ((x + d + m) - m) % m = x + d + m
    BY <2>1, ModWrap
  <2>. QED BY <2>1, <2>2
<1>3. CASE x + d >= m
  <2>1. x + d - m \in 0 .. m - 1 /\ x + d = (x + d - m) + m
    BY <1>3
  <2>2. ((x + d - m) + m) % m = x + d - m
    BY <2>1, ModWrap
  <2>. QED BY <2>1, <2>2
<1>. QED BY <1>1, <1>2, <1>3

(* What the code computes from two readings is what the sums did between   *)
(* them, although both may have wrapped and their sum is not reduced.      *)
LEMMA UsageFacts ==
  ASSUME NEW m \in Nat \ {0}, m = Modulus,
         NEW prev, NEW x \in 0 .. m - 1, x = prev.busy, NEW y \in 0 .. m - 1, y = prev.idle,
         NEW b \in Nat, NEW i \in Int, -1 <= i, b < m, b + i < m,
         NEW curr, curr.busy = (x + b) % m, curr.idle = (y + i) % m,
         NEW usage, usage = calculate_cpu_usage(prev, curr)
  PROVE  IF b + i = 0 THEN usage = Zero
         ELSE usage[1] = b /\ (b + i > 0 => usage[2] = b + i)
<1>0. x \in Nat /\ y \in Nat /\ x < m /\ y < m /\ m \in Nat /\ m > 0
  OBVIOUS
<1>1. PICK u \in Nat : u = (x + b) % m /\ u \in {x + b, x + b - m, x + b + m} /\ u < m
  <2>1. x + b \in Int /\ b \in Int /\ -1 <= b
    BY <1>0
  <2>2. (x + b) % m \in {x + b, x + b - m, x + b + m}
    BY <2>1, ModCases
  <2>3. (x + b) % m \in 0 .. m - 1
    BY <2>1, ModRange
  <2>. QED BY <1>0, <2>2, <2>3
<1>2. PICK v \in Nat : v = (y + i) % m /\ v \in {y + i, y + i - m, y + i + m} /\ v < m
  <2>1. y + i \in Int /\ i < m
    BY <1>0
  <2>2. (y + i) % m \in {y + i, y + i - m, y + i + m}
    BY <2>1, ModCases
  <2>3. (y + i) % m \in 0 .. m - 1
    BY <2>1, ModRange
  <2>. QED BY <1>0, <2>2, <2>3
<1>. u \in {x + b, x + b - m, x + b + m} /\ v \in {y + i, y + i - m, y + i + m}
  BY <1>1, <1>2
<1>3. PICK total : total = ((u + v) - (x + y)) % m
  OBVIOUS
<1>4. PICK idle : idle = (v - y) % m
  OBVIOUS
<1>5. PICK part : part = (total - idle) % m
  OBVIOUS
<1>6. usage = IF total = 0 THEN Zero ELSE <<part, total>>
  BY <1>1, <1>2, <1>3, <1>4, <1>5 DEF calculate_cpu_usage
<1>7. total = IF b + i >= 0 THEN b + i ELSE m - 1
  <2>1. PICK t \in 0 .. m - 1 : t = IF b + i >= 0 THEN b + i ELSE m - 1
    BY <1>0
  <2>2. PICK s \in Int : s = b + i /\ s \in {t, t - m}
    BY <1>0, <2>1
  <2>3. PICK p \in Int, q \in Int : /\ p = u - x /\ p \in {b, b - m, b + m}
                                    /\ q = v - y /\ q \in {i, i - m, i + m}
    BY <1>0
  <2>4. PICK w \in Int : w = (u + v) - (x + y) /\ w = p + q
    BY <1>0, <2>3
  <2>5. p + q \in {s, s + m, s - m, s + m + m, s - m - m}
    <3>1. p = b \/ p = b - m \/ p = b + m
      BY <2>3
    <3>2. q = i \/ q = i - m \/ q = i + m
      BY <2>3
    <3>. QED BY <1>0, <2>2, <3>1, <3>2
  <2>6. w \in {t, t + m, t - m, t + m + m, t - m - m, t - m - m - m}
    <3>1. w = s \/ w = s + m \/ w = s - m \/ w = s + m + m \/ w = s - m - m
      BY <2>4, <2>5
    <3>2. t \in Int /\ m \in Int
      BY <1>0
    <3>3. CASE s = t
      BY <3>1, <3>3
    <3>4. CASE s = t - m
      <4>1. /\ s + m = t /\ s + m + m = t + m /\ s - m = t - m - m /\ s - m - m = t - m - m - m
        BY <3>2, <3>4
      <4>. QED BY <3>1, <3>4, <4>1
    <3>. QED BY <2>2, <3>3, <3>4
  <2>7. (t - m - m - m) % m = t
    OBVIOUS
  <2>8. w % m = t
    BY <2>6, <2>7, ModWrap
  <2>. QED BY <1>3, <2>1, <2>4, <2>8
<1>8. idle = IF i >= 0 THEN i ELSE m - 1
  <2>1. PICK t \in 0 .. m - 1 : t = IF i >= 0 THEN i ELSE m - 1
    BY <1>0
  <2>2. v - y \in {t, t + m, t - m, t + m + m, t - m - m}
    BY <1>0, <2>1
  <2>. QED BY <1>4, <2>1, <2>2, ModWrap
<1>9. part = b
  <2>1. b \in 0 .. m - 1
    BY <1>0
  <2>2. total - idle \in {b, b - m}
    BY <1>0, <1>7, <1>8
  <2>. QED BY <1>5, <2>1, <2>2, ModWrap
<1>. QED
  <2>1. CASE total = 0
    <3>1. b + i = 0 \/ b = 0
      BY <1>0, <1>7, <2>1
    <3>2. usage = Zero
      BY <1>6, <2>1
    <3>. QED BY <1>7, <2>1, <3>1, <3>2 DEF Zero
  <2>2. CASE total # 0
    <3>1. usage[1] = b /\ usage[2] = total
      BY <1>6, <1>9, <2>2
    <3>. QED BY <1>7, <2>2, <3>1
  <2>. QED BY <2>1, <2>2

Fractions == Nat \X Nat

(* Whatever the two readings are.                                          *)
LEMMA UsageType ==
  ASSUME NEW prev, NEW curr, prev.busy \in Int, prev.idle \in Int, curr.busy \in Int, curr.idle \in Int
  PROVE  calculate_cpu_usage(prev, curr) \in Fractions
<1>1. Modulus \in Nat \ {0} /\ Zero \in Fractions
  BY SystemAssumption DEF Zero, Fractions
<1>2. PICK total \in Nat : total = ((curr.busy + curr.idle) - (prev.busy + prev.idle)) % Modulus
  BY <1>1, ModRange
<1>3. PICK idle \in Nat : idle = (curr.idle - prev.idle) % Modulus
  BY <1>1, ModRange
<1>4. PICK part \in Nat : part = (total - idle) % Modulus
  <2>1. PICK d \in Int : d = total - idle
    OBVIOUS
  <2>2. d % Modulus \in 0 .. Modulus - 1
    BY <1>1, ModRange
  <2>. QED BY <1>1, <2>1, <2>2
<1>5. calculate_cpu_usage(prev, curr) = IF total = 0 THEN Zero ELSE <<part, total>>
  BY <1>2, <1>3, <1>4 DEF calculate_cpu_usage
<1>. QED BY <1>1, <1>5 DEF Fractions
----------------------------------------------------------------------------
(* The samples.  After the first one the counters kept for the next        *)
(* comparison are the ones last read, also when the memory was not read;   *)
(* the peaks are not below the current figures.                            *)
Counters == [busy : 0 .. Modulus - 1, idle : 0 .. Modulus - 1]
System == [prev : Counters, first : BOOLEAN, usage : Fractions, peak : Fractions,
           rss : Nat, peak_rss : Nat]

SampleInv ==
  /\ cpu \in Counters /\ sys \in System
  /\ ~sys.first => sys.prev = cpu
  /\ ~Less(sys.peak, sys.usage) /\ sys.peak_rss >= sys.rss

(* What one step may do to the samples.                                    *)
PeaksStep ==
  /\ ~Less(sys'.peak, sys.peak) /\ ~Less(sys'.peak, sys'.usage)
  /\ sys'.peak # sys.peak => sys'.peak = sys'.usage
  /\ sys'.peak_rss >= sys.peak_rss /\ sys'.peak_rss >= sys'.rss
  /\ sys'.peak_rss # sys.peak_rss => sys'.peak_rss = sys'.rss

LEMMA PeakFacts ==
  ASSUME NEW x \in Fractions, NEW p \in Fractions
  PROVE  /\ Peak(x, p) \in Fractions /\ ~Less(Peak(x, p), p) /\ ~Less(Peak(x, p), x)
         /\ Peak(x, p) # p => Peak(x, p) = x
<1>1. /\ x[1] \in Nat /\ x[2] \in Nat /\ p[1] \in Nat /\ p[2] \in Nat
  BY DEF Fractions
<1>2. ~Less(x, x) /\ ~Less(p, p) /\ (Less(p, x) => ~Less(x, p))
  BY <1>1 DEF Less
<1>. QED BY <1>2 DEF Peak

(* A reading of the counters.                                              *)
LEMMA CpuSampledFacts ==
  ASSUME SampleInv, read_cpu_stat,
         NEW usage, usage = (IF sys.first THEN Zero ELSE calculate_cpu_usage(sys.prev, cpu'))
  PROVE  /\ cpu' \in Counters /\ CpuSampled \in System
         /\ CpuSampled.prev = cpu' /\ CpuSampled.first = FALSE
         /\ CpuSampled.usage = usage /\ CpuSampled.peak = Peak(usage, sys.peak)
         /\ CpuSampled.rss = sys.rss /\ CpuSampled.peak_rss = sys.peak_rss
         /\ usage \in Fractions
<1>1. cpu' \in Counters
  <2>1. PICK b \in Int, i \in Int :
          cpu' = [busy |-> (cpu.busy + b) % Modulus, idle |-> (cpu.idle + i) % Modulus]
    BY SystemAssumption DEF read_cpu_stat
  <2>2. cpu.busy + b \in Int /\ cpu.idle + i \in Int /\ Modulus \in Nat \ {0}
    BY SystemAssumption DEF SampleInv, Counters
  <2>3. (cpu.busy + b) % Modulus \in 0 .. Modulus - 1 /\ (cpu.idle + i) % Modulus \in 0 .. Modulus - 1
    BY <2>2, ModRange
  <2>. QED BY <2>1, <2>3 DEF Counters
<1>2. usage \in Fractions
  <2>1. sys.prev \in Counters
    BY DEF SampleInv, System
  <2>2. /\ sys.prev.busy \in Int /\ sys.prev.idle \in Int /\ cpu'.busy \in Int /\ cpu'.idle \in Int
    BY <1>1, <2>1, SystemAssumption DEF Counters
  <2>3. Zero \in Fractions
    BY DEF Zero, Fractions
  <2>. QED BY <2>2, <2>3, UsageType
<1>3. CpuSampled = [sys EXCEPT !.prev = cpu', !.first = FALSE, !.usage = usage, !.peak = Peak(usage, @)]
  BY DEF CpuSampled
<1>4. sys \in System /\ sys.peak \in Fractions
  BY DEF SampleInv, System
<1>5. PICK p \in Fractions : p = Peak(usage, sys.peak)
  BY <1>2, <1>4, PeakFacts
<1>6. CpuSampled = [prev |-> cpu', first |-> FALSE, usage |-> usage, peak |-> p,
                    rss |-> sys.rss, peak_rss |-> sys.peak_rss]
  BY <1>3, <1>4, <1>5 DEF System
<1>7. sys.rss \in Nat /\ sys.peak_rss \in Nat
  BY <1>4 DEF System
<1>. QED BY <1>1, <1>2, <1>5, <1>6, <1>7 DEF System

LEMMA UpdateStep ==
  ASSUME SampleInv, Update
  PROVE  SampleInv' /\ PeaksStep
<1>0. read_cpu_stat /\ (sys' = CpuSampled \/ \E rss \in RssValues : sys' = MemorySampled(CpuSampled, rss))
  BY DEF Update
<1>1. PICK usage : usage = (IF sys.first THEN Zero ELSE calculate_cpu_usage(sys.prev, cpu'))
  OBVIOUS
<1>2. PICK s : s = CpuSampled
  OBVIOUS
<1>3. /\ cpu' \in Counters /\ s \in System /\ s.prev = cpu' /\ s.first = FALSE
      /\ s.usage = usage /\ s.peak = Peak(usage, sys.peak)
      /\ s.rss = sys.rss /\ s.peak_rss = sys.peak_rss /\ usage \in Fractions
  BY <1>0, <1>1, <1>2, CpuSampledFacts
<1>4. /\ sys.peak \in Fractions /\ sys.rss \in Nat /\ sys.peak_rss \in Nat /\ sys.peak_rss >= sys.rss
  BY DEF SampleInv, System
<1>5. /\ ~Less(s.peak, sys.peak) /\ ~Less(s.peak, s.usage)
      /\ s.peak # sys.peak => s.peak = s.usage
  BY <1>3, <1>4, PeakFacts
<1>6. CASE sys' = s
  BY <1>3, <1>4, <1>5, <1>6 DEF SampleInv, PeaksStep
<1>7. ASSUME NEW rss \in RssValues, sys' = MemorySampled(s, rss) PROVE SampleInv' /\ PeaksStep
  <2>1. rss \in Nat
    BY SystemAssumption
  <2>2. PICK top \in Nat : top = IF rss > s.peak_rss THEN rss ELSE s.peak_rss
    BY <1>3, <1>4, <2>1
  <2>3. sys' = [s EXCEPT !.rss = rss, !.peak_rss = top]
    BY <1>3, <1>7, <2>2 DEF MemorySampled, System
  <2>4. /\ sys' \in System /\ sys'.rss = rss /\ sys'.peak_rss = top /\ sys'.usage = s.usage
        /\ sys'.peak = s.peak /\ sys'.prev = s.prev /\ sys'.first = s.first
    BY <1>3, <2>1, <2>3 DEF System
  <2>. QED BY <1>3, <1>4, <1>5, <2>1, <2>2, <2>4 DEF SampleInv, PeaksStep
<1>. QED BY <1>0, <1>2, <1>6, <1>7

LEMMA SamplesKept ==
  ASSUME SampleInv, UNCHANGED <<cpu, sys>>
  PROVE  SampleInv' /\ PeaksStep
<1>1. sys.peak \in Fractions /\ sys.rss \in Nat /\ sys.peak_rss \in Nat
  BY DEF SampleInv, System
<1>2. ~Less(sys.peak, sys.peak)
  BY <1>1, PeakFacts DEF Peak
<1>. QED BY <1>1, <1>2 DEF SampleInv, PeaksStep

(* Every step of the program is a reading or leaves the samples alone.     *)
LEMMA SampleSteps ==
  ASSUME [Next]_vars
  PROVE  (Update /\ UNCHANGED <<conn_metrics, log, now>>) \/ UNCHANGED sampleVars
BY DEF Next, Tick, SetClockBack, PeriodicUpdate, perf_metrics_update_system, perf_metrics_set_enabled,
       perf_metrics_record_data_transfer, perf_metrics_print_report, perf_metrics_export_json,
       perf_metrics_export_csv, Exported

LEMMA SampleInvariant == Spec => [](SampleInv) /\ [][PeaksStep]_vars
<1>1. Init => SampleInv
  <2>. SUFFICES ASSUME Init PROVE SampleInv
    OBVIOUS
  <2>1. cpu \in Counters /\ Zero \in Fractions /\ 0 \in 0 .. Modulus - 1
    BY SystemAssumption DEF Init, Counters, Zero, Fractions
  <2>2. sys \in System
    BY <2>1 DEF Init, System, Counters
  <2>3. sys.first /\ sys.peak = Zero /\ sys.usage = Zero /\ sys.rss = 0 /\ sys.peak_rss = 0
    BY DEF Init
  <2>. QED BY <2>1, <2>2, <2>3 DEF SampleInv, Less, Zero
<1>2. SampleInv /\ [Next]_vars => SampleInv' /\ PeaksStep
  BY SampleSteps, UpdateStep, SamplesKept
<1>. QED BY <1>1, <1>2, PTL DEF Spec

(* The peaks that perf_metrics_update_system keeps never fall, are never   *)
(* below a sample and only move to one, also when an update fails between  *)
(* the CPU and the memory figures, for counters of any width.              *)
THEOREM PeaksCorrect == Spec => PeaksExact
BY SampleInvariant, PTL DEF PeaksExact, PeaksStep

LEMMA UpdateUsage ==
  ASSUME SampleInv, Update, MaxTicks < Modulus
  PROVE  UsageExact'
<1>1. PICK b \in 0 .. MaxTicks, i \in -1 .. MaxTicks :
        /\ b + i <= MaxTicks
        /\ cpu' = [busy |-> (cpu.busy + b) % Modulus, idle |-> (cpu.idle + i) % Modulus]
        /\ delta' = IF sys.first THEN None ELSE <<[busy |-> b, idle |-> i]>>
  BY DEF Update, read_cpu_stat
<1>2. CASE sys.first
  BY <1>1, <1>2 DEF UsageExact
<1>3. CASE ~sys.first
  <2>0. PICK usage : usage = calculate_cpu_usage(sys.prev, cpu')
    OBVIOUS
  <2>1. PICK s : s = CpuSampled
    OBVIOUS
  <2>2. s \in System /\ s.usage = usage /\ usage \in Fractions
    BY <1>3, <2>0, <2>1, CpuSampledFacts DEF Update
  <2>3. sys'.usage = usage
    <3>1. CASE sys' = s
      BY <2>2, <3>1
    <3>2. ASSUME NEW rss \in RssValues, sys' = MemorySampled(s, rss) PROVE sys'.usage = usage
      BY <2>2, <3>2 DEF MemorySampled, System
    <3>. QED BY <2>1, <3>1, <3>2 DEF Update
  <2>4. PICK m \in Nat \ {0} : m = Modulus /\ MaxTicks \in Nat /\ MaxTicks < m
    BY SystemAssumption
  <2>5. PICK x \in 0 .. m - 1, y \in 0 .. m - 1 : x = cpu.busy /\ y = cpu.idle
    BY <2>4 DEF SampleInv, Counters
  <2>6. sys.prev.busy = x /\ sys.prev.idle = y
    BY <1>3, <2>5 DEF SampleInv
  <2>7. cpu'.busy = (x + b) % m /\ cpu'.idle = (y + i) % m
    BY <1>1, <2>4, <2>5
  <2>8. b \in Nat /\ i \in Int /\ -1 <= i /\ b < m /\ b + i < m
    BY <1>1, <2>4
  <2>9. IF b + i = 0 THEN usage = Zero ELSE usage[1] = b /\ (b + i > 0 => usage[2] = b + i)
    BY <2>0, <2>4, <2>5, <2>6, <2>7, <2>8, UsageFacts
  <2>10. b + i # 0 /\ Less(<<1, 1>>, usage) => i < 0
    <3>. SUFFICES ASSUME b + i # 0, Less(<<1, 1>>, usage) PROVE i < 0
      OBVIOUS
    <3>1. usage[1] \in Nat /\ usage[2] \in Nat
      BY <2>2 DEF Fractions
    <3>2. usage[2] < usage[1]
      BY <3>1 DEF Less
    <3>3. CASE b + i > 0
      BY <2>8, <2>9, <3>2, <3>3
    <3>4. CASE b + i < 0
      BY <2>8, <3>4
    <3>. QED BY <2>8, <3>3, <3>4
  <2>11. delta' = <<[busy |-> b, idle |-> i]>>
    BY <1>1, <1>3
  <2>12. delta'[1].busy = b /\ delta'[1].idle = i
    BY <2>11
  <2>. QED BY <2>3, <2>9, <2>10, <2>12 DEF UsageExact
<1>. QED BY <1>2, <1>3

(* What perf_metrics_update_system shows as CPU usage is the busy share of *)
(* what the counters did since they were last read: for any width of the   *)
(* counters, through any wrap of the sums, and after any number of updates *)
(* that failed, if the counters move by less than one full turn between    *)
(* two readings (2^64 ticks in the code).                                  *)
THEOREM UsageCorrect ==
  ASSUME MaxTicks < Modulus
  PROVE  Spec => []UsageExact
<1>1. Init => UsageExact
  BY DEF Init, UsageExact
<1>2. SampleInv /\ UsageExact /\ [Next]_vars => UsageExact'
  <2>. SUFFICES ASSUME SampleInv, UsageExact, [Next]_vars PROVE UsageExact'
    OBVIOUS
  <2>1. CASE Update
    BY <2>1, UpdateUsage
  <2>2. CASE UNCHANGED sampleVars
    BY <2>2 DEF UsageExact
  <2>. QED BY <2>1, <2>2, SampleSteps
<1>. QED BY <1>1, <1>2, SampleInvariant, PTL DEF Spec
----------------------------------------------------------------------------
(* The transfers of one connection, at time t: cm is what the context      *)
(* keeps of them and lg what was recorded.  The first byte is told from    *)
(* an earlier empty transfer by the counts still being 0.                  *)
Connection == [sent : Nat, received : Nat, first : Nat, last : Nat, rate : Fractions]
Record == [calls : Nat, bytes : Nat, begin : {None} \cup {<<x>> : x \in Nat}, end : Nat]

RateOf(lg, first) ==
  IF lg.begin # None /\ lg.end - first > Threshold THEN <<lg.bytes, lg.end - first>> ELSE Zero

SlotInv(cm, lg, t) ==
  /\ cm \in Connection /\ lg \in Record
  /\ lg.bytes = cm.sent + cm.received
  /\ lg.begin = None <=> lg.bytes = 0
  /\ lg.begin # None => lg.begin = <<cm.first>> /\ cm.first <= lg.end
  /\ lg.end <= t
  /\ cm.rate = RateOf(lg, cm.first)

TransferInv ==
  /\ now \in Nat
  /\ conn_metrics \in [Slots -> Connection] /\ log \in [Slots -> Record]
  /\ \A i \in Slots : SlotInv(conn_metrics[i], log[i], now)

Logged(lg, tr) ==
  [calls |-> lg.calls + 1, bytes |-> lg.bytes + tr.sent + tr.received, end |-> now,
   begin |-> IF lg.begin = None /\ tr.sent + tr.received > 0 THEN <<now>> ELSE lg.begin]

LEMMA RecordedSlot ==
  ASSUME NEW cm, NEW lg, SlotInv(cm, lg, now), now \in Nat, NEW tr \in [sent : Nat, received : Nat]
  PROVE  SlotInv(Recorded(cm, tr), Logged(lg, tr), now)
<1>0. /\ cm \in Connection /\ lg \in Record
      /\ cm.sent \in Nat /\ cm.received \in Nat /\ cm.first \in Nat /\ cm.rate \in Fractions
      /\ lg.bytes \in Nat /\ lg.calls \in Nat /\ lg.end \in Nat
      /\ lg.begin \in {None} \cup {<<x>> : x \in Nat}
      /\ tr.sent \in Nat /\ tr.received \in Nat /\ Threshold \in Nat
  BY SystemAssumption DEF SlotInv, Connection, Record
<1>1. PICK first \in Nat : first = IF cm.sent = 0 /\ cm.received = 0 THEN now ELSE cm.first
  BY <1>0
<1>2. PICK sent \in Nat, received \in Nat : sent = cm.sent + tr.sent /\ received = cm.received + tr.received
  BY <1>0
<1>3. PICK rate : rate = IF now - first > Threshold THEN <<sent + received, now - first>> ELSE cm.rate
  OBVIOUS
<1>4. PICK c : /\ c = Recorded(cm, tr)
               /\ c = [sent |-> sent, received |-> received, first |-> first, last |-> now, rate |-> rate]
  BY <1>1, <1>2, <1>3 DEF Recorded
<1>5. PICK l : l = Logged(lg, tr)
  OBVIOUS
<1>6. /\ l.calls = lg.calls + 1 /\ l.bytes = lg.bytes + tr.sent + tr.received /\ l.end = now
      /\ l.begin = IF lg.begin = None /\ tr.sent + tr.received > 0 THEN <<now>> ELSE lg.begin
  BY <1>5 DEF Logged
<1>7. /\ c.sent = sent /\ c.received = received /\ c.first = first /\ c.rate = rate
  BY <1>4
<1>8. first <= now
  BY <1>0, <1>1 DEF SlotInv
<1>9. rate \in Fractions
  BY <1>0, <1>2, <1>3, <1>8 DEF Fractions
<1>10. c \in Connection
  BY <1>4, <1>9 DEF Connection
<1>11. l \in Record
  <2>1. l.begin \in {None} \cup {<<x>> : x \in Nat}
    BY <1>0, <1>6
  <2>2. lg.calls + 1 \in Nat /\ lg.bytes + tr.sent + tr.received \in Nat
    BY <1>0
  <2>. QED BY <1>0, <1>5, <1>6, <2>1, <2>2 DEF Logged, Record
<1>12. l.bytes = sent + received
  BY <1>0, <1>2, <1>6 DEF SlotInv
<1>13. /\ l.begin = None <=> l.bytes = 0
       /\ l.begin # None => l.begin = <<first>> /\ first <= now
  <2>1. CASE lg.begin = None
    <3>1. cm.sent = 0 /\ cm.received = 0 /\ first = now
      BY <1>0, <1>1, <2>1 DEF SlotInv
    <3>2. l.bytes = tr.sent + tr.received
      BY <1>0, <1>2, <1>12, <3>1
    <3>3. <<now>> # None
      BY DEF None
    <3>. QED BY <1>0, <1>6, <2>1, <3>1, <3>2, <3>3
  <2>2. CASE lg.begin # None
    <3>1. lg.bytes > 0 /\ lg.begin = <<cm.first>>
      BY <1>0, <2>2 DEF SlotInv
    <3>2. first = cm.first
      BY <1>0, <1>1, <3>1 DEF SlotInv
    <3>. QED BY <1>0, <1>6, <1>8, <2>2, <3>1, <3>2
  <2>. QED BY <2>1, <2>2
<1>14. rate = RateOf(l, first)
  <2>1. CASE l.begin = None
    <3>1. lg.begin = None /\ lg.bytes = 0
      BY <1>0, <1>6, <1>12, <1>13, <2>1 DEF None, SlotInv
    <3>2. first = now /\ cm.rate = Zero
      BY <1>0, <1>1, <3>1 DEF SlotInv, RateOf
    <3>. QED BY <1>0, <1>3, <2>1, <3>2 DEF RateOf
  <2>2. CASE l.begin # None /\ now - first > Threshold
    BY <1>3, <1>6, <1>12, <2>2 DEF RateOf
  <2>3. CASE l.begin # None /\ ~(now - first > Threshold)
    <3>1. cm.rate = Zero
      <4>1. CASE lg.begin = None
        BY <4>1 DEF SlotInv, RateOf
      <4>2. CASE lg.begin # None
        <5>1. first = cm.first /\ lg.end <= now
          BY <1>0, <1>1, <4>2 DEF SlotInv
        <5>2. ~(lg.end - cm.first > Threshold)
          BY <1>0, <2>3, <5>1
        <5>. QED BY <5>2 DEF SlotInv, RateOf
      <4>. QED BY <4>1, <4>2
    <3>. QED BY <1>3, <1>6, <2>3, <3>1 DEF RateOf
  <2>. QED BY <2>1, <2>2, <2>3
<1>15. SlotInv(c, l, now)
  BY <1>6, <1>7, <1>10, <1>11, <1>12, <1>13, <1>14 DEF SlotInv
<1>. QED BY <1>4, <1>5, <1>15

LEMMA TransferSteps ==
  ASSUME TransferInv, [Next]_vars
  PROVE  TransferInv'
<1>0. \A i \in Slots : SlotInv(conn_metrics[i], log[i], now) /\ log[i].end \in Nat
  BY DEF TransferInv, SlotInv, Record
<1>1. CASE UNCHANGED <<conn_metrics, log>> /\ now' \in {now, now + 1}
  <2>1. now \in Nat /\ now' \in Nat /\ now <= now'
    BY <1>1 DEF TransferInv
  <2>2. \A i \in Slots : SlotInv(conn_metrics[i], log[i], now')
    BY <1>0, <2>1 DEF SlotInv
  <2>. QED BY <1>1, <2>1, <2>2 DEF TransferInv
<1>2. ASSUME NEW i \in Slots, NEW tr \in Transfers, perf_metrics_record_data_transfer(i, tr)
      PROVE  TransferInv'
  <2>1. tr \in [sent : Nat, received : Nat] /\ now \in Nat /\ now' = now
    BY <1>2, SystemAssumption DEF TransferInv, perf_metrics_record_data_transfer
  <2>2. PICK c, l : c = Recorded(conn_metrics[i], tr) /\ l = Logged(log[i], tr)
    OBVIOUS
  <2>3. conn_metrics' = [conn_metrics EXCEPT ![i] = c] /\ log' = [log EXCEPT ![i] = l]
    BY <1>2, <2>2 DEF perf_metrics_record_data_transfer, TransferInv, Logged
  <2>4. SlotInv(c, l, now)
    BY <1>0, <2>1, <2>2, RecordedSlot
  <2>5. c \in Connection /\ l \in Record
    BY <2>4 DEF SlotInv
  <2>6. conn_metrics' \in [Slots -> Connection] /\ log' \in [Slots -> Record]
    BY <2>3, <2>5 DEF TransferInv
  <2>7. \A j \in Slots : SlotInv(conn_metrics'[j], log'[j], now)
    BY <1>0, <2>3, <2>4 DEF TransferInv
  <2>. QED BY <2>1, <2>6, <2>7 DEF TransferInv
<1>3. \/ UNCHANGED <<conn_metrics, log>> /\ now' \in {now, now + 1}
      \/ \E i \in Slots, tr \in Transfers : perf_metrics_record_data_transfer(i, tr)
  BY DEF Next, Tick, SetClockBack, PeriodicUpdate, perf_metrics_set_enabled,
         perf_metrics_print_report, perf_metrics_export_json, perf_metrics_export_csv, Exported
<1>. QED BY <1>1, <1>2, <1>3

LEMMA TransferInvariant == Spec => []TransferInv
<1>1. Init => TransferInv
  <2>. SUFFICES ASSUME Init PROVE TransferInv
    OBVIOUS
  <2>1. PICK cm, lg : /\ cm = [sent |-> 0, received |-> 0, first |-> 0, last |-> 0, rate |-> Zero]
                      /\ lg = [calls |-> 0, bytes |-> 0, begin |-> None, end |-> 0]
    OBVIOUS
  <2>2. conn_metrics = [i \in Slots |-> cm] /\ log = [i \in Slots |-> lg] /\ now = 0
    BY <2>1 DEF Init
  <2>3. cm \in Connection /\ lg \in Record
    BY <2>1 DEF Connection, Record, Zero, Fractions
  <2>4. SlotInv(cm, lg, 0)
    BY <2>1, <2>3 DEF SlotInv, RateOf
  <2>. QED BY <2>2, <2>3, <2>4 DEF TransferInv
<1>. QED BY <1>1, TransferSteps, PTL DEF Spec

(* perf_metrics_record_data_transfer keeps, for every slot and any sizes   *)
(* and times of the transfers, the throughput since the first byte.        *)
THEOREM ThroughputCorrect == Spec => []ThroughputExact
<1>1. TransferInv => ThroughputExact
  <2>. SUFFICES ASSUME TransferInv, NEW i \in Slots
                PROVE  conn_metrics[i].rate =
                         IF log[i].begin # None /\ log[i].end - log[i].begin[1] > Threshold
                           THEN <<log[i].bytes, log[i].end - log[i].begin[1]>> ELSE Zero
    BY DEF ThroughputExact
  <2>1. SlotInv(conn_metrics[i], log[i], now)
    BY DEF TransferInv
  <2>2. log[i].begin # None => log[i].begin[1] = conn_metrics[i].first
    BY <2>1 DEF SlotInv
  <2>. QED BY <2>1, <2>2 DEF SlotInv, RateOf
<1>. QED BY <1>1, TransferInvariant, PTL
----------------------------------------------------------------------------
(* The report's loops over the slots.  They are folds over finite sets,    *)
(* which are recursive functions; induction is by a smallest               *)
(* counterexample.                                                         *)

LEMMA Least ==
  ASSUME NEW N \in SUBSET Nat, N # {}
  PROVE  \E m \in N : \A n \in N : m <= n
<1>1. IsWellFoundedOn({p \in Nat \X Nat : p[1] < p[2]}, Nat)
  BY NatLessThanWellFounded DEF OpToRel
<1>2. PICK m \in N : \A n \in N : ~(<<n, m>> \in {p \in Nat \X Nat : p[1] < p[2]})
  BY <1>1, WFMin
<1>3. \A n \in N : ~(n < m)
  BY <1>2
<1>. QED BY <1>3

(* The element that a fold takes first.                                    *)
Any(s) == CHOOSE x \in s : TRUE

LEMMA AnyFacts ==
  ASSUME NEW S, IsFiniteSet(S), NEW s \in SUBSET S, s # {}
  PROVE  /\ Any(s) \in s /\ s \ {Any(s)} \in SUBSET S
         /\ Cardinality(s) \in Nat /\ Cardinality(s) > 0
         /\ Cardinality(s \ {Any(s)}) = Cardinality(s) - 1
<1>1. Any(s) \in s
  BY DEF Any
<1>2. IsFiniteSet(s)
  BY FS_Subset
<1>3. Cardinality(s) \in Nat /\ Cardinality(s) # 0
  BY <1>2, FS_CardinalityType, FS_EmptySet
<1>4. Cardinality(s \ {Any(s)}) = Cardinality(s) - 1
  BY <1>1, <1>2, FS_RemoveElement
<1>. QED BY <1>1, <1>3, <1>4

(* A set of subsets that has with s also s without its first element, and  *)
(* the empty one, has all.                                                 *)
LEMMA SetInduction ==
  ASSUME NEW S, IsFiniteSet(S), NEW Good \in SUBSET (SUBSET S), {} \in Good,
         \A s \in SUBSET S : s # {} /\ s \ {Any(s)} \in Good => s \in Good
  PROVE  Good = SUBSET S
<1>. SUFFICES ASSUME NEW b \in SUBSET S, b \notin Good PROVE FALSE
  OBVIOUS
<1>. DEFINE Sizes == {Cardinality(s) : s \in (SUBSET S) \ Good}
<1>1. \A s \in SUBSET S : Cardinality(s) \in Nat
  BY FS_Subset, FS_CardinalityType
<1>2. Sizes \in SUBSET Nat /\ Sizes # {}
  BY <1>1
<1>3. PICK m \in Sizes : \A n \in Sizes : m <= n
  <2>. HIDE DEF Sizes
  <2>. QED BY <1>2, Least
<1>4. PICK s \in (SUBSET S) \ Good : m = Cardinality(s)
  BY <1>3
<1>5. s # {} /\ s \ {Any(s)} \notin Good
  BY <1>4
<1>6. s \ {Any(s)} \in SUBSET S /\ Cardinality(s \ {Any(s)}) = m - 1 /\ m \in Nat
  BY <1>4, <1>5, AnyFacts
<1>7. m - 1 \in Sizes
  BY <1>5, <1>6
<1>. QED BY <1>3, <1>6, <1>7

(* A recursion over a finite set has a solution.                           *)
Solution(g, S, V, base, F) ==
  /\ g \in [SUBSET S -> V]
  /\ \A s \in SUBSET S : g[s] = IF s = {} THEN base ELSE F[<<Any(s), g[s \ {Any(s)}]>>]

LEMMA RecursionExists ==
  ASSUME NEW S, IsFiniteSet(S), NEW V, NEW base \in V, NEW F \in [S \X V -> V]
  PROVE  \E g : Solution(g, S, V, base, F)
<1>. DEFINE Layer(k) == {s \in SUBSET S : Cardinality(s) <= k}
            Solves(g, k) ==
              /\ g \in [Layer(k) -> V]
              /\ \A s \in Layer(k) : g[s] = IF s = {} THEN base ELSE F[<<Any(s), g[s \ {Any(s)}]>>]
            Bad == {k \in Nat : ~\E g : Solves(g, k)}
<1>1. \A s \in SUBSET S : /\ Cardinality(s) \in Nat /\ Cardinality(s) <= Cardinality(S)
                          /\ Cardinality(s) = 0 <=> s = {}
  BY FS_Subset, FS_CardinalityType, FS_EmptySet
<1>2. Bad = {}
  <2>. SUFFICES ASSUME Bad # {} PROVE FALSE
    OBVIOUS
  <2>1. PICK k \in Bad : \A m \in Bad : k <= m
    <3>1. Bad \in SUBSET Nat
      OBVIOUS
    <3>. HIDE DEF Bad
    <3>. QED BY <3>1, Least
  <2>2. k \in Nat /\ k # 0
    <3>1. Layer(0) = {{}}
      BY <1>1
    <3>2. Solves([s \in Layer(0) |-> base], 0)
      BY <3>1
    <3>. HIDE DEF Solves
    <3>. QED BY <2>1, <3>2
  <2>3. k \in Nat /\ k - 1 \in Nat /\ k - 1 \notin Bad
    <3>. HIDE DEF Bad
    <3>. QED BY <2>1, <2>2
  <2>4. PICK g : Solves(g, k - 1)
    BY <2>3
  <2>5. PICK h : h = [s \in Layer(k) |-> IF s \in Layer(k - 1) THEN g[s] ELSE F[<<Any(s), g[s \ {Any(s)}]>>]]
    OBVIOUS
  <2>6. ASSUME NEW s \in Layer(k), s # {}
        PROVE  s \ {Any(s)} \in Layer(k - 1) /\ Any(s) \in S
    <3>1. s \in SUBSET S /\ Cardinality(s) <= k
      OBVIOUS
    <3>2. s \ {Any(s)} \in SUBSET S /\ Any(s) \in s /\ Cardinality(s) \in Nat
          /\ Cardinality(s \ {Any(s)}) = Cardinality(s) - 1
      BY <2>6, <3>1, AnyFacts
    <3>. QED BY <2>3, <3>1, <3>2
  <2>7. Layer(k - 1) \subseteq Layer(k) /\ {} \in Layer(k - 1)
    BY <1>1, <2>3
  <2>8. \A s \in Layer(k - 1) : h[s] = g[s]
    BY <2>5, <2>7
  <2>9. ASSUME NEW s \in Layer(k)
        PROVE  h[s] \in V /\ h[s] = IF s = {} THEN base ELSE F[<<Any(s), h[s \ {Any(s)}]>>]
    <3>1. CASE s = {}
      BY <2>4, <2>7, <2>8, <3>1
    <3>2. CASE s # {}
      <4>1. s \ {Any(s)} \in Layer(k - 1) /\ Any(s) \in S
        BY <2>6, <3>2
      <4>2. h[s \ {Any(s)}] = g[s \ {Any(s)}] /\ g[s \ {Any(s)}] \in V
        BY <2>4, <2>8, <4>1
      <4>3. h[s] = F[<<Any(s), g[s \ {Any(s)}]>>]
        BY <2>4, <2>5, <3>2
      <4>. QED BY <3>2, <4>1, <4>2, <4>3
    <3>. QED BY <3>1, <3>2
  <2>10. Solves(h, k)
    BY <2>5, <2>9
  <2>. QED BY <2>1, <2>10
<1>3. PICK g : Solves(g, Cardinality(S))
  BY <1>1, <1>2
<1>4. Layer(Cardinality(S)) = SUBSET S
  BY <1>1
<1>. QED BY <1>3, <1>4 DEF Solution

(* The two totals are folds over the slots whose terms are equal.          *)
LEMMA BytesAdded ==
  ASSUME TransferInv
  PROVE  MapThenSumSet(Bytes, Slots) = MapThenSumSet(LAMBDA i : log[i].bytes, Slots)
<1>1. \A i \in Slots : Bytes(i) \in Nat /\ log[i].bytes = Bytes(i)
  BY DEF TransferInv, SlotInv, Connection, Bytes
<1>2. IsFiniteSet(Slots)
  BY SystemAssumption
<1>3. PICK bytes \in [Slots -> Nat] : \A i \in Slots : bytes[i] = Bytes(i)
  <2>1. [i \in Slots |-> Bytes(i)] \in [Slots -> Nat]
    BY <1>1
  <2>. QED BY <2>1
<1>4. PICK F \in [Slots \X Nat -> Nat] : \A i \in Slots, n \in Nat : F[<<i, n>>] = bytes[i] + n
  <2>1. [p \in Slots \X Nat |-> bytes[p[1]] + p[2]] \in [Slots \X Nat -> Nat]
    OBVIOUS
  <2>. QED BY <2>1
<1>5. PICK f \in [SUBSET Slots -> Nat] :
        \A s \in SUBSET Slots : f[s] = IF s = {} THEN 0 ELSE F[<<Any(s), f[s \ {Any(s)}]>>]
  <2>1. 0 \in Nat
    OBVIOUS
  <2>2. \E f : Solution(f, Slots, Nat, 0, F)
    BY <1>2, <1>4, <2>1, RecursionExists
  <2>. QED BY <2>2 DEF Solution
<1>6. ASSUME NEW s \in SUBSET Slots, s # {}
      PROVE  Any(s) \in Slots /\ s \ {Any(s)} \in SUBSET Slots
  BY <1>2, <1>6, AnyFacts
<1>7. ASSUME NEW s \in SUBSET Slots
      PROVE  f[s] = IF s = {} THEN 0 ELSE Bytes(Any(s)) + f[s \ {Any(s)}]
  <2>1. CASE s = {}
    BY <1>5, <2>1
  <2>2. CASE s # {}
    <3>1. Any(s) \in Slots /\ f[s \ {Any(s)}] \in Nat
      BY <1>5, <1>6, <2>2
    <3>2. F[<<Any(s), f[s \ {Any(s)}]>>] = Bytes(Any(s)) + f[s \ {Any(s)}]
      BY <1>3, <1>4, <3>1
    <3>. QED BY <1>5, <2>2, <3>2
  <2>. QED BY <2>1, <2>2
<1>8. f = [s \in SUBSET Slots |-> IF s = {} THEN 0 ELSE Bytes(Any(s)) + f[s \ {Any(s)}]]
  BY <1>5, <1>7
<1>9. f = [s \in SUBSET Slots |-> IF s = {} THEN 0 ELSE log[Any(s)].bytes + f[s \ {Any(s)}]]
  BY <1>1, <1>5, <1>6, <1>7
<1>10. PICK g : /\ g = [s \in SUBSET Slots |-> IF s = {} THEN 0 ELSE Bytes(Any(s)) + g[s \ {Any(s)}]]
                /\ MapThenSumSet(Bytes, Slots) = g[Slots]
  BY <1>8, Zenon DEF MapThenSumSet, MapThenFoldSet, Any
<1>11. PICK h : /\ h = [s \in SUBSET Slots |-> IF s = {} THEN 0 ELSE log[Any(s)].bytes + h[s \ {Any(s)}]]
                /\ MapThenSumSet(LAMBDA i : log[i].bytes, Slots) = h[Slots]
  BY <1>9, Zenon DEF MapThenSumSet, MapThenFoldSet, Any
<1>12. DEFINE Good == {s \in SUBSET Slots : g[s] = h[s]}
<1>13. {} \in Good
  BY <1>10, <1>11
<1>14. ASSUME NEW s \in SUBSET Slots, s # {}, s \ {Any(s)} \in Good
       PROVE  s \in Good
  <2>1. Any(s) \in Slots /\ g[s \ {Any(s)}] = h[s \ {Any(s)}]
    BY <1>6, <1>14
  <2>2. g[s] = Bytes(Any(s)) + g[s \ {Any(s)}] /\ h[s] = log[Any(s)].bytes + h[s \ {Any(s)}]
    BY <1>10, <1>11, <1>14
  <2>. QED BY <1>1, <2>1, <2>2
<1>15. Good \in SUBSET (SUBSET Slots)
  OBVIOUS
<1>16. Good = SUBSET Slots
  <2>. HIDE DEF Good
  <2>. QED BY <1>2, <1>13, <1>14, <1>15, SetInduction
<1>17. g[Slots] = h[Slots]
  BY <1>16
<1>. QED BY <1>10, <1>11, <1>17

(* What calculate_stats computes, of what it reads.                        *)
Rated(cm) == {i \in Slots : cm[i].rate[1] > 0}
Total(cm) == MapThenSumSet(LAMBDA i : cm[i].sent + cm[i].received, Slots)
Fastest(cm) == FoldSet(LAMBDA i, m : Peak(cm[i].rate, m), Zero, Rated(cm))
RateSum(cm) == FoldSet(LAMBDA i, sum : Add(cm[i].rate, sum), Zero, Rated(cm))
Average(cm, old) == IF Rated(cm) = {} THEN old ELSE <<RateSum(cm), Cardinality(Rated(cm))>>
Computed(cm, s, old) ==
  [bytes |-> Total(cm), max |-> Fastest(cm), avg |-> Average(cm, old), usage |-> s.usage, rss |-> s.rss]

LEMMA CalculatedIs == Calculated = Computed(conn_metrics, sys, stats.avg)
BY Zenon DEF Calculated, Computed, Total, Fastest, RateSum, Average, Rated, Bytes

(* Comparing fractions.                                                    *)
Positive == Nat \X (Nat \ {0})

LEMMA Product ==
  ASSUME NEW a \in Nat, NEW b \in Nat, NEW c \in Nat
  PROVE  /\ a * b \in Nat /\ a * b = b * a /\ (a * b) * c = a * (b * c)
         /\ a <= b => a * c <= b * c
         /\ a * c < b * c => a < b
OBVIOUS

LEMMA NotLessTransitive ==
  ASSUME NEW x \in Positive, NEW y \in Positive, NEW z \in Positive, ~Less(x, y), ~Less(y, z)
  PROVE  ~Less(x, z)
<1>1. PICK a \in Nat, b \in Nat \ {0} : a = x[1] /\ b = x[2]
  BY DEF Positive
<1>2. PICK c \in Nat, d \in Nat \ {0} : c = y[1] /\ d = y[2]
  BY DEF Positive
<1>3. PICK e \in Nat, f \in Nat \ {0} : e = z[1] /\ f = z[2]
  BY DEF Positive
<1>. b \in Nat /\ d \in Nat /\ f \in Nat /\ d > 0
  BY <1>1, <1>2, <1>3
<1>4. c * b <= a * d /\ e * d <= c * f
  <2>1. ~(a * d < c * b) /\ ~(c * f < e * d)
    BY <1>1, <1>2, <1>3 DEF Less
  <2>2. a * d \in Nat /\ c * b \in Nat /\ c * f \in Nat /\ e * d \in Nat
    BY Product
  <2>. QED BY <2>1, <2>2
<1>5. (c * b) * f <= (a * d) * f /\ (e * d) * b <= (c * f) * b
  BY <1>4, Product
<1>6. (c * b) * f = (c * f) * b
  BY Product
<1>7. (a * d) * f = (a * f) * d /\ (e * d) * b = (e * b) * d
  BY Product
<1>8. (e * b) * d <= (a * f) * d
  <2>1. (c * b) * f \in Nat /\ (a * d) * f \in Nat /\ (e * d) * b \in Nat
    BY Product
  <2>. QED BY <1>5, <1>6, <1>7, <2>1
<1>9. ~(a * f < e * b)
  <2>1. PICK p \in Nat, q \in Nat : p = a * f /\ q = e * b
    BY Product
  <2>2. q * d <= p * d
    BY <1>8, <2>1
  <2>3. ~(p < q)
    BY <2>2
  <2>. QED BY <2>1, <2>3
<1>. QED BY <1>1, <1>3, <1>9 DEF Less

(* The running maximum is not below any rate it went through.              *)
LEMMA FastestFacts ==
  ASSUME NEW cm, \A i \in Slots : cm[i].rate \in Positive
  PROVE  \A i \in Slots : ~Less(Fastest(cm), cm[i].rate)
<1>1. PICK R : R = Rated(cm)
  OBVIOUS
<1>2. R \in SUBSET Slots /\ IsFiniteSet(R) /\ \A i \in Slots : i \in R <=> cm[i].rate[1] > 0
  BY <1>1, SystemAssumption, FS_Subset DEF Rated
<1>3. Zero \in Positive
  BY DEF Zero, Positive
<1>4. ASSUME NEW x \in Positive, NEW m \in Positive
      PROVE  Peak(x, m) \in Positive /\ ~Less(Peak(x, m), m) /\ ~Less(Peak(x, m), x)
  <2>1. x \in Fractions /\ m \in Fractions
    BY DEF Positive, Fractions
  <2>. QED BY <2>1, PeakFacts DEF Peak
<1>5. PICK F \in [R \X Positive -> Positive] :
        \A i \in R, m \in Positive : F[<<i, m>>] = Peak(cm[i].rate, m)
  <2>1. [p \in R \X Positive |-> Peak(cm[p[1]].rate, p[2])] \in [R \X Positive -> Positive]
    BY <1>2, <1>4
  <2>. QED BY <2>1
<1>6. PICK f : Solution(f, R, Positive, Zero, F)
  BY <1>2, <1>3, <1>5, RecursionExists
<1>7. ASSUME NEW s \in SUBSET R, s # {}
      PROVE  Any(s) \in R /\ Any(s) \in s /\ s \ {Any(s)} \in SUBSET R
  BY <1>2, <1>7, AnyFacts
<1>8. ASSUME NEW s \in SUBSET R
      PROVE  f[s] = IF s = {} THEN Zero ELSE Peak(cm[Any(s)].rate, f[s \ {Any(s)}])
  <2>1. CASE s = {}
    BY <1>6, <2>1 DEF Solution
  <2>2. CASE s # {}
    <3>1. Any(s) \in R /\ f[s \ {Any(s)}] \in Positive
      BY <1>6, <1>7, <2>2 DEF Solution
    <3>2. F[<<Any(s), f[s \ {Any(s)}]>>] = Peak(cm[Any(s)].rate, f[s \ {Any(s)}])
      BY <1>5, <3>1
    <3>. QED BY <1>6, <2>2, <3>2 DEF Solution
  <2>. QED BY <2>1, <2>2
<1>9. f = [s \in SUBSET R |-> IF s = {} THEN Zero ELSE Peak(cm[Any(s)].rate, f[s \ {Any(s)}])]
  BY <1>6, <1>8 DEF Solution
<1>10. PICK g : /\ g = [s \in SUBSET R |-> IF s = {} THEN Zero ELSE Peak(cm[Any(s)].rate, g[s \ {Any(s)}])]
                /\ Fastest(cm) = g[R]
  BY <1>1, <1>9, Zenon DEF Fastest, FoldSet, MapThenFoldSet, Any
<1>11. DEFINE Good == {s \in SUBSET R : g[s] \in Positive /\ \A i \in s : ~Less(g[s], cm[i].rate)}
<1>12. {} \in Good
  BY <1>3, <1>10
<1>13. ASSUME NEW s \in SUBSET R, s # {}, s \ {Any(s)} \in Good
       PROVE  s \in Good
  <2>1. PICK m \in Positive : m = g[s \ {Any(s)}] /\ \A i \in s \ {Any(s)} : ~Less(m, cm[i].rate)
    BY <1>13
  <2>2. PICK x \in Positive : x = cm[Any(s)].rate
    BY <1>2, <1>7, <1>13
  <2>3. g[s] = Peak(x, m)
    BY <1>10, <1>13, <2>1, <2>2
  <2>4. Peak(x, m) \in Positive /\ ~Less(Peak(x, m), m) /\ ~Less(Peak(x, m), x)
    BY <1>4
  <2>5. ASSUME NEW i \in s
        PROVE  ~Less(Peak(x, m), cm[i].rate)
    <3>1. cm[i].rate \in Positive
      BY <1>2
    <3>2. CASE i = Any(s)
      BY <2>2, <2>4, <3>2
    <3>3. CASE i # Any(s)
      BY <2>1, <2>4, <3>1, <3>3, NotLessTransitive
    <3>. QED BY <3>2, <3>3
  <2>. QED BY <2>3, <2>4, <2>5
<1>14. Good = SUBSET R
  <2>1. Good \in SUBSET (SUBSET R)
    OBVIOUS
  <2>. HIDE DEF Good
  <2>. QED BY <1>2, <1>12, <1>13, <2>1, SetInduction
<1>15. g[R] \in Positive /\ \A i \in R : ~Less(g[R], cm[i].rate)
  BY <1>14
<1>16. ASSUME NEW i \in Slots, i \notin R
       PROVE  ~Less(g[R], cm[i].rate)
  <2>1. cm[i].rate \in Positive /\ ~(cm[i].rate[1] > 0)
    BY <1>2, <1>16
  <2>2. PICK x : x = cm[i].rate
    OBVIOUS
  <2>3. x[1] = 0 /\ x[2] \in Nat
    BY <2>1, <2>2 DEF Positive
  <2>4. PICK y : y = g[R] /\ y[1] \in Nat /\ y[2] \in Nat
    BY <1>15 DEF Positive
  <2>5. y[1] * x[2] \in Nat /\ x[1] * y[2] = 0
    BY <2>3, <2>4, Product
  <2>. QED BY <2>2, <2>4, <2>5 DEF Less
<1>. QED BY <1>10, <1>15, <1>16
----------------------------------------------------------------------------
(* The report and the files.  Nothing is written before the loop ends, and *)
(* what is read for them does not change after it.                         *)
ExportInv ==
  /\ pc = "loop" => json = None /\ csv = None
  /\ pc # "loop" => stats = printed /\ \E old : printed = Computed(conn_metrics, sys, old)
  /\ json # None => json.summary = printed /\ json.connections = conn_metrics
  /\ csv # None => csv = conn_metrics

(* Computing the statistics anew changes nothing: the average, which is    *)
(* kept when no connection has a rate, was kept the first time too.        *)
LEMMA ComputedAgain ==
  ASSUME NEW cm, NEW s, NEW old
  PROVE  Computed(cm, s, Computed(cm, s, old).avg) = Computed(cm, s, old)
<1>1. Computed(cm, s, old).avg = Average(cm, old)
  BY DEF Computed
<1>2. Average(cm, Average(cm, old)) = Average(cm, old)
  BY DEF Average
<1>. QED BY <1>1, <1>2 DEF Computed

LEMMA ExportSteps ==
  ASSUME ExportInv, [Next]_vars
  PROVE  ExportInv'
<1>1. CASE pc = "loop" /\ pc' = pc /\ UNCHANGED outVars
  BY <1>1 DEF ExportInv
<1>2. CASE perf_metrics_print_report
  <2>1. /\ pc = "loop" /\ pc' = "json" /\ json' = None /\ csv' = None
        /\ UNCHANGED <<conn_metrics, sys>> /\ stats' = Calculated /\ printed' = stats'
    BY <1>2 DEF perf_metrics_print_report, Exported, ExportInv
  <2>2. printed' = Computed(conn_metrics', sys', stats.avg)
    BY <2>1, CalculatedIs
  <2>. QED BY <2>1, <2>2 DEF ExportInv
<1>3. CASE perf_metrics_export_json
  <2>1. /\ pc = "json" /\ pc' = "csv" /\ UNCHANGED <<conn_metrics, sys, printed, csv>>
        /\ \/ UNCHANGED <<stats, json>>
           \/ stats' = Calculated /\ json' = [summary |-> stats', connections |-> conn_metrics]
    BY <1>3 DEF perf_metrics_export_json, Exported
  <2>2. PICK old : stats = printed /\ printed = Computed(conn_metrics, sys, old)
    BY <2>1 DEF ExportInv
  <2>3. Calculated = printed
    BY <2>2, CalculatedIs, ComputedAgain
  <2>4. stats' = printed'
    BY <2>1, <2>2, <2>3
  <2>5. \E o : printed' = Computed(conn_metrics', sys', o)
    BY <2>1, <2>2
  <2>6. json' # None => json'.summary = printed' /\ json'.connections = conn_metrics'
    BY <2>1, <2>4 DEF ExportInv
  <2>. QED BY <2>1, <2>4, <2>5, <2>6 DEF ExportInv
<1>4. CASE perf_metrics_export_csv
  <2>1. /\ pc = "csv" /\ pc' = "done" /\ UNCHANGED <<conn_metrics, sys, stats, printed, json>>
        /\ csv' \in {None, conn_metrics}
    BY <1>4 DEF perf_metrics_export_csv, Exported
  <2>. QED BY <2>1 DEF ExportInv
<1>5. CASE UNCHANGED vars
  BY <1>5 DEF ExportInv
<1>. QED BY <1>1, <1>2, <1>3, <1>4, <1>5
         DEF Next, Tick, SetClockBack, PeriodicUpdate, perf_metrics_set_enabled,
             perf_metrics_record_data_transfer

(* The report printed at the end accounts for every byte recorded and its  *)
(* maximum is not below any connection's rate, and the files written after *)
(* it say the same, for any number of connections.                         *)
THEOREM ExportsCorrect == Spec => []ExportsAgree
<1>1. Init => ExportInv
  BY DEF Init, ExportInv
<1>2. Spec => []ExportInv
  BY <1>1, ExportSteps, PTL DEF Spec
<1>3. ExportInv /\ TransferInv => ExportsAgree
  <2>. SUFFICES ASSUME ExportInv, TransferInv, pc = "done" PROVE ExportsAgree
    BY DEF ExportsAgree
  <2>1. PICK old : printed = Computed(conn_metrics, sys, old)
    BY DEF ExportInv
  <2>2. printed.bytes = Total(conn_metrics) /\ printed.max = Fastest(conn_metrics)
    BY <2>1 DEF Computed
  <2>3. Total(conn_metrics) = MapThenSumSet(Bytes, Slots)
    BY Zenon DEF Total, Bytes
  <2>4. printed.bytes = MapThenSumSet(LAMBDA i : log[i].bytes, Slots)
    BY <2>2, <2>3, BytesAdded, Zenon
  <2>5. ASSUME NEW i \in Slots PROVE conn_metrics[i].rate \in Positive
    <3>1. SlotInv(conn_metrics[i], log[i], now) /\ Threshold \in Nat
      BY SystemAssumption DEF TransferInv
    <3>2. PICK lg, first : /\ lg = log[i] /\ first = conn_metrics[i].first
                           /\ lg.bytes \in Nat /\ lg.end \in Nat /\ first \in Nat
      BY <3>1 DEF SlotInv, Connection, Record
    <3>. QED BY <3>1, <3>2 DEF SlotInv, RateOf, Zero, Positive
  <2>6. \A i \in Slots : ~Less(printed.max, conn_metrics[i].rate)
    BY <2>2, <2>5, FastestFacts
  <2>. QED BY <2>4, <2>6, Zenon DEF ExportsAgree, ExportInv
<1>. QED BY <1>2, <1>3, TransferInvariant, PTL
============================================================================
