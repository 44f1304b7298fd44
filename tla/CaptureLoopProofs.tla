-------------------------- MODULE CaptureLoopProofs --------------------------
(***************************************************************************)
(* Proofs about CaptureLoop.  Conserved is inductive together with the     *)
(* types and one fact about the handler: once a tracked connection has a   *)
(* slot, monitoring stays enabled until the handler returns, for           *)
(* perf_metrics_set_enabled is called between two events only.             *)
(*                                                                         *)
(* The report is a fold over the connections with a latency; what its loop *)
(* holds after each of them is shown by a smallest counterexample.         *)
(***************************************************************************)
EXTENDS CaptureLoop, FiniteSetTheorems, TLAPS

(* A slot is only held while the metrics exist and are enabled.            *)
Enabled == InFlight => monitoring_enabled /\ perf_ctx

(* handle_tcp_event begins with conn_index = -1.                           *)
Fresh == pc = "conn_start" => conn_index = NoSlot

CountInv == Types /\ Enabled /\ Fresh /\ Conserved

LEMMA StepFacts ==
  /\ DOMAIN SetupSteps = 1 .. 8
  /\ Len(SetupSteps) = 8
  /\ \A i \in 1 .. 8 : SetupSteps[i] \in StepNames
  /\ StepNames = {"pods", "provider", "metrics", "object", "load", "attach", "map", "ring"}
  /\ \A i \in 1 .. 8 : After(i) \in StepNames \cup {"signals"}
<1>1. DOMAIN SetupSteps = 1 .. 8 /\ Len(SetupSteps) = 8
  BY DEF SetupSteps
<1>2. \A i \in 1 .. 8 : SetupSteps[i] \in StepNames
  BY <1>1 DEF StepNames
<1>3. \A i \in 1 .. 8 : i = 1 \/ i = 2 \/ i = 3 \/ i = 4 \/ i = 5 \/ i = 6 \/ i = 7 \/ i = 8
  OBVIOUS
<1>4. StepNames = {"pods", "provider", "metrics", "object", "load", "attach", "map", "ring"}
  BY <1>1, <1>3 DEF StepNames, SetupSteps
<1>5. \A i \in 1 .. 8 : After(i) \in StepNames \cup {"signals"}
  BY <1>1, <1>2 DEF After
<1>. QED BY <1>1, <1>2, <1>4, <1>5

LEMMA InitCounts == Init => CountInv
<1>. SUFFICES ASSUME Init PROVE CountInv
  OBVIOUS
<1>. USE MetricsAssumption DEF Init, perf_metrics_init
<1>1. Types
  BY StepFacts DEF Types, Slots, Zero, NoSlot
<1>2. ~InFlight
  BY DEF InFlight
<1>. QED BY <1>1, <1>2 DEF CountInv, Enabled, Fresh, Conserved

(* Steps that leave the metrics alone and do not move into, out of or      *)
(* within the tracked part of the handler.                                 *)
LEMMA OutsideCounts ==
  ASSUME CountInv, Types', UNCHANGED <<countVars, current_connections>>,
         InFlight' => InFlight /\ UNCHANGED <<monitoring_enabled, perf_ctx>>,
         InFlight => InFlight', Fresh'
  PROVE  CountInv'
BY DEF CountInv, Enabled, Conserved, countVars

LEMMA SetupCounts ==
  ASSUME CountInv, NEW i \in 1 .. 8, SetUp(i)
  PROVE  CountInv'
<1>. USE StepFacts DEF SetUp, metricsVars, tableVars, countVars
<1>1. pc \in StepNames /\ pc' \in StepNames \cup {"signals", "report"}
  OBVIOUS
<1>2. Types'
  BY <1>1 DEF CountInv, Types, Slots
<1>3. ~InFlight /\ ~InFlight'
  BY <1>1 DEF InFlight, Handler
<1>4. Fresh'
  BY <1>1 DEF Fresh
<1>. QED BY <1>2, <1>3, <1>4, OutsideCounts

LEMMA LoopCounts ==
  ASSUME CountInv,
         \/ RegisterSignals \/ WhileRunning \/ PollEvents \/ NextEvent \/ PollReturns
         \/ Cleanup \/ sig_handler \/ Killed \/ EventArrives
  PROVE  CountInv'
<1>. USE DEF RegisterSignals, WhileRunning, PollEvents, NextEvent, PollReturns,
             Cleanup, Release, CleanupSteps, sig_handler, Killed, EventArrives
<1>1. UNCHANGED metricsVars
  OBVIOUS
<1>. USE DEF metricsVars, tableVars, countVars
<1>2. Types'
  <2>. USE <1>1 DEF CountInv, Types, Slots, NoSlot, Handler
  <2>1. CASE RegisterSignals \/ WhileRunning \/ PollReturns \/ sig_handler
    BY <2>1
  <2>2. CASE PollEvents \/ NextEvent \/ EventArrives
    BY <2>2
  <2>3. CASE Cleanup \/ Killed
    BY <2>3
  <2>. QED BY <2>1, <2>2, <2>3
<1>3. (InFlight' <=> InFlight) /\ (InFlight' => UNCHANGED perf_ctx)
  BY StepFacts DEF InFlight, Handler, perf_ctx
<1>4. Fresh'
  BY DEF CountInv, Fresh
<1>. QED BY <1>1, <1>2, <1>3, <1>4, OutsideCounts

LEMMA MetricsCounts ==
  ASSUME CountInv, SetEnabled \/ (Tick /\ UNCHANGED loopVars) \/ Report
  PROVE  CountInv'
<1>. USE DEF metricsVars, tableVars, countVars, loopVars
<1>1. UNCHANGED <<countVars, tableVars>>
  BY DEF SetEnabled, perf_metrics_set_enabled, Tick, Report, perf_metrics_calculate_stats
<1>2. Types'
  <2>1. CASE SetEnabled
    BY <2>1, <1>1 DEF SetEnabled, perf_metrics_set_enabled, CountInv, Types, Slots
  <2>2. CASE Tick /\ UNCHANGED loopVars
    <3>1. now' \in 0 .. MaxTime /\ now <= now' /\ now \in Nat
      BY <2>2, MetricsAssumption DEF Tick, CountInv, Types
    <3>2. 0 .. now \subseteq 0 .. now'
      BY <3>1
    <3>3. /\ connection_latency' \in [Slots -> [start : 0 .. now', duration : 0 .. now']]
          /\ key_negotiation' \in [Slots -> [start : 0 .. now', duration : 0 .. now']]
      <4>1. [start : 0 .. now, duration : 0 .. now] \subseteq [start : 0 .. now', duration : 0 .. now']
        BY <3>2
      <4>. QED BY <1>1, <4>1 DEF CountInv, Types
    <3>. QED BY <2>2, <1>1, <3>1, <3>3 DEF Tick, CountInv, Types
  <2>3. CASE Report
    <3>1. UNCHANGED <<now, monitoring_enabled>> /\ pc' = "cleanup"
      BY <2>3 DEF Report, perf_metrics_calculate_stats, Goto
    <3>. QED BY <2>3, <1>1, <3>1 DEF Report, Goto, CountInv, Types, Slots, CleanupSteps
  <2>. QED BY <2>1, <2>2, <2>3
<1>3. (InFlight' <=> InFlight) /\ (InFlight' => UNCHANGED <<monitoring_enabled, perf_ctx>>)
  <2>1. CASE SetEnabled \/ Report
    BY <2>1 DEF SetEnabled, Report, Goto, InFlight, Handler
  <2>2. CASE Tick /\ UNCHANGED loopVars
    BY <2>2 DEF Tick, InFlight, Handler, perf_ctx
  <2>. QED BY <2>1, <2>2
<1>4. Fresh'
  BY DEF SetEnabled, Tick, Report, Goto, CountInv, Fresh
<1>. QED BY <1>1, <1>2, <1>3, <1>4, OutsideCounts

(* perf_metrics_connection_start: the new slot is in range and counts as   *)
(* active, or there is none and nothing is counted.                        *)
LEMMA StartCounts ==
  ASSUME CountInv, ConnectionStart
  PROVE  CountInv'
<1>. USE DEF ConnectionStart
<1>1. ~InFlight /\ active_connections = 0 /\ conn_index = NoSlot
  BY DEF InFlight, CountInv, Conserved, Fresh
<1>2. CASE perf_ctx /\ NewSlot # NoSlot
  <2>1. /\ NewSlot = current_connections + 1 /\ NewSlot \in Slots /\ monitoring_enabled
        /\ current_connections' = NewSlot /\ conn_index' = NewSlot
        /\ total_connections' = total_connections + 1
        /\ active_connections' = active_connections + 1
        /\ UNCHANGED <<now, monitoring_enabled, successful_connections, failed_connections>>
    BY <1>2, MetricsAssumption
       DEF perf_metrics_connection_start, NewSlot, NoSlot, Slots, CountInv, Types
  <2>2. /\ connection_latency' \in [Slots -> [start : 0 .. now, duration : 0 .. now]]
        /\ key_negotiation' \in [Slots -> [start : 0 .. now, duration : 0 .. now]]
    BY <1>2, <2>1, MetricsAssumption DEF perf_metrics_connection_start, Zero, CountInv, Types
  <2>3. Types'
    BY <2>1, <2>2, MetricsAssumption DEF CountInv, Types, Slots, Handler
  <2>4. InFlight'
    BY <2>1, <1>2 DEF InFlight, Handler
  <2>5. Enabled' /\ Fresh'
    BY <1>2, <2>1 DEF Enabled, Fresh, perf_ctx
  <2>6. Conserved'
    <3>1. /\ total_connections = current_connections
          /\ total_connections = successful_connections + failed_connections
          /\ total_connections \in Nat
          /\ successful_connections \in Nat /\ failed_connections \in Nat
      BY <1>1 DEF CountInv, Types, Conserved
    <3>2. /\ total_connections' = current_connections'
          /\ total_connections'
               = successful_connections' + failed_connections' + active_connections'
          /\ active_connections' = 1
      BY <1>1, <2>1, <3>1
    <3>. QED BY <2>4, <3>2 DEF Conserved
  <2>. QED BY <2>3, <2>5, <2>6 DEF CountInv
<1>3. CASE ~(perf_ctx /\ NewSlot # NoSlot)
  <2>1. UNCHANGED <<now, monitoring_enabled, tableVars, countVars>>
    BY <1>3 DEF perf_metrics_connection_start, metricsVars, countVars
  <2>2. conn_index' = NoSlot /\ ~InFlight'
    BY <1>1, <1>3 DEF InFlight
  <2>3. Types'
    BY <2>1, <2>2, MetricsAssumption DEF CountInv, Types, Slots, Handler, tableVars, countVars, NoSlot
  <2>. QED BY <2>1, <2>2, <2>3, <1>1, OutsideCounts DEF tableVars, Fresh
<1>. QED BY <1>2, <1>3

(* The four clock calls, and key_provider_get_key, count nothing.          *)
LEMMA TimerCounts ==
  ASSUME CountInv,
         LatencyStart \/ NegotiationStart \/ GetKeyReturns \/ NegotiationEnd \/ LatencyEnd
  PROVE  CountInv'
<1>. DEFINE Timepoint == [start : 0 .. now, duration : 0 .. now]
<1>1. /\ pc \in Handler \ {"conn_start"} /\ pc' \in Handler \ {"conn_start"}
      /\ UNCHANGED <<keep_running, held, err, waiting, batch, conn_index>>
  BY DEF LatencyStart, NegotiationStart, GetKeyReturns, NegotiationEnd, LatencyEnd, Goto, Handler
<1>2. UNCHANGED <<now, monitoring_enabled, current_connections, countVars>>
  BY DEF LatencyStart, NegotiationStart, GetKeyReturns, NegotiationEnd, LatencyEnd, Measure,
         perf_metrics_connection_latency_start, perf_metrics_connection_latency_end,
         perf_metrics_key_negotiation_start, perf_metrics_key_negotiation_end,
         SetLatency, SetNegotiation, metricsVars, tableVars
<1>3. connection_latency' \in [Slots -> Timepoint] /\ key_negotiation' \in [Slots -> Timepoint]
  <2>. USE DEF Measure, metricsVars, tableVars
  <2>1. /\ connection_latency \in [Slots -> Timepoint] /\ key_negotiation \in [Slots -> Timepoint]
        /\ now \in Nat /\ (conn_index # NoSlot => conn_index \in Slots)
    <3>1. /\ connection_latency \in [Slots -> Timepoint] /\ key_negotiation \in [Slots -> Timepoint]
          /\ now \in 0 .. MaxTime /\ conn_index \in 0 .. current_connections
          /\ current_connections \in 0 .. MaxConnections
      BY DEF CountInv, Types
    <3>. QED BY <3>1, MetricsAssumption DEF Slots, NoSlot
  <2>2. ASSUME NEW tp \in Timepoint
        PROVE  perf_timepoint_start(tp) \in Timepoint /\ perf_timepoint_end(tp) \in Timepoint
    <3>1. now \in 0 .. now /\ tp.start \in 0 .. now /\ tp.duration \in 0 .. now
      BY <2>1
    <3>2. now - tp.start \in 0 .. now
      BY <2>1, <3>1
    <3>. QED BY <3>1, <3>2 DEF perf_timepoint_start, perf_timepoint_end
  <2>3. CASE LatencyStart
    BY <2>1, <2>2, <2>3 DEF LatencyStart, perf_metrics_connection_latency_start, SetLatency
  <2>4. CASE LatencyEnd
    BY <2>1, <2>2, <2>4 DEF LatencyEnd, perf_metrics_connection_latency_end, SetLatency
  <2>5. CASE NegotiationStart
    BY <2>1, <2>2, <2>5 DEF NegotiationStart, perf_metrics_key_negotiation_start, SetNegotiation
  <2>6. CASE NegotiationEnd
    BY <2>1, <2>2, <2>6 DEF NegotiationEnd, perf_metrics_key_negotiation_end, SetNegotiation
  <2>7. CASE GetKeyReturns
    BY <2>1, <2>7 DEF GetKeyReturns
  <2>. QED BY <2>3, <2>4, <2>5, <2>6, <2>7
<1>4. Types'
  BY <1>1, <1>2, <1>3 DEF CountInv, Types, countVars
<1>5. (InFlight' <=> InFlight) /\ UNCHANGED perf_ctx /\ Fresh'
  BY <1>1 DEF InFlight, perf_ctx, Fresh
<1>. QED BY <1>2, <1>4, <1>5, OutsideCounts

(* perf_metrics_connection_end: a connection in flight is tracked, so it   *)
(* is counted as a success or a failure and is no longer active.           *)
LEMMA EndCounts ==
  ASSUME CountInv, ConnectionEnd
  PROVE  CountInv'
<1>. USE DEF ConnectionEnd
<1>1. pc' = "next_event" /\ UNCHANGED <<keep_running, held, err, waiting, batch, conn_index>>
  BY DEF Goto
<1>2. ~InFlight' /\ Fresh'
  BY <1>1 DEF InFlight, Handler, Fresh
<1>3. UNCHANGED <<now, monitoring_enabled, tableVars, total_connections>>
  BY DEF Measure, perf_metrics_connection_end, metricsVars, countVars
<1>4. CASE InFlight
  <2>1. perf_ctx /\ conn_index # NoSlot /\ Tracked(conn_index) /\ active_connections = 1
    BY <1>4 DEF InFlight, CountInv, Enabled, Conserved, Tracked, Types, NoSlot
  <2>2. /\ active_connections' = 0
        /\ successful_connections' \in Nat /\ failed_connections' \in Nat
        /\ \/ /\ successful_connections' = successful_connections + 1
              /\ failed_connections' = failed_connections
           \/ /\ successful_connections' = successful_connections
              /\ failed_connections' = failed_connections + 1
    BY <2>1 DEF Measure, perf_metrics_connection_end, CountInv, Types
  <2>3. Types'
    BY <1>1, <1>3, <2>2 DEF CountInv, Types, tableVars, Handler, Slots
  <2>4. Conserved'
    <3>1. /\ total_connections = current_connections
          /\ total_connections = successful_connections + failed_connections + 1
          /\ successful_connections \in Nat /\ failed_connections \in Nat
      BY <2>1 DEF CountInv, Types, Conserved
    <3>2. /\ total_connections' = current_connections'
          /\ total_connections'
               = successful_connections' + failed_connections' + active_connections'
      <4>1. total_connections' = total_connections /\ current_connections' = current_connections
        BY <1>3 DEF tableVars
      <4>2. total_connections' = current_connections'
        BY <4>1, <3>1
      <4>3. successful_connections' + failed_connections'
              = successful_connections + failed_connections + 1
        <5>1. CASE /\ successful_connections' = successful_connections + 1
                   /\ failed_connections' = failed_connections
          BY <5>1, <3>1
        <5>2. CASE /\ successful_connections' = successful_connections
                   /\ failed_connections' = failed_connections + 1
          BY <5>2, <3>1
        <5>. QED BY <2>2, <5>1, <5>2
      <4>4. successful_connections' + failed_connections' + active_connections'
              = successful_connections' + failed_connections'
        BY <2>2
      <4>. QED BY <4>1, <4>2, <4>3, <4>4, <3>1
    <3>. QED BY <1>2, <2>2, <3>2 DEF Conserved
  <2>. QED BY <1>2, <2>3, <2>4 DEF CountInv, Enabled
<1>5. CASE ~InFlight
  <2>1. conn_index = NoSlot
    BY <1>5 DEF InFlight, Handler
  <2>2. UNCHANGED countVars
    BY <2>1 DEF Measure, metricsVars
  <2>3. Types'
    BY <1>1, <1>3, <2>2 DEF CountInv, Types, tableVars, countVars, Handler, Slots
  <2>. QED BY <1>2, <1>3, <1>5, <2>2, <2>3, OutsideCounts DEF tableVars
<1>. QED BY <1>4, <1>5

LEMMA CountStep ==
  ASSUME CountInv, [Next]_vars
  PROVE  CountInv'
<1>1. CASE UNCHANGED vars
  BY <1>1 DEF vars, metricsVars, tableVars, countVars, loopVars, CountInv, Types, Slots,
              Enabled, Fresh, Conserved, InFlight, perf_ctx
<1>2. CASE MainStep
  BY <1>2, StepFacts, SetupCounts, LoopCounts, MetricsCounts, StartCounts, TimerCounts, EndCounts
     DEF MainStep, handle_tcp_event
<1>3. CASE Environment
  BY <1>3, LoopCounts, MetricsCounts DEF Environment
<1>. QED BY <1>1, <1>2, <1>3 DEF Next

LEMMA CountInvariant == Spec => []CountInv
BY InitCounts, CountStep, PTL DEF Spec

(* What main holds at each point of the set-up and the clean-up.           *)
HeldInv ==
  /\ held \subseteq StepNames
  /\ "attach" \in held \/ "ring" \in held => "object" \in held
  /\ pc \in {"load", "attach", "map", "ring"} => "object" \in held
  /\ pc \in (CleanupSteps \cup {"exited"}) \ {"cleanup"} => "ring" \notin held
  /\ pc \in {"close_object", "close_provider", "free_metrics", "free_pods", "exited"} =>
       "attach" \notin held
  /\ pc \in {"close_provider", "free_metrics", "free_pods", "exited"} =>
       held \cap {"object", "load", "map"} = {}
  /\ pc \in {"free_metrics", "free_pods", "exited"} => "provider" \notin held
  /\ pc \in {"free_pods", "exited"} => "metrics" \notin held
  /\ pc = "exited" => held = {}

(* Only set-up and clean-up change it.                                     *)
LEMMA HeldKept ==
  ASSUME HeldInv, UNCHANGED held, pc' = pc \/ pc' \notin StepNames \cup CleanupSteps \cup {"exited"}
                                  \/ pc' = "cleanup"
  PROVE  HeldInv'
BY StepFacts DEF HeldInv, CleanupSteps

LEMMA SetUpHolds ==
  ASSUME HeldInv, NEW i \in 1 .. 8, SetUp(i)
  PROVE  HeldInv'
<1>1. \/ i = 1 \/ i = 2 \/ i = 3 \/ i = 4 \/ i = 5 \/ i = 6 \/ i = 7 \/ i = 8
  OBVIOUS
<1>2. /\ SetupSteps[1] = "pods" /\ SetupSteps[2] = "provider" /\ SetupSteps[3] = "metrics"
      /\ SetupSteps[4] = "object" /\ SetupSteps[5] = "load" /\ SetupSteps[6] = "attach"
      /\ SetupSteps[7] = "map" /\ SetupSteps[8] = "ring"
      /\ After(1) = "provider" /\ After(2) = "metrics" /\ After(3) = "object"
      /\ After(4) = "load" /\ After(5) = "attach" /\ After(6) = "map"
      /\ After(7) = "ring" /\ After(8) = "signals"
  BY DEF SetupSteps, After
<1>3. /\ pc = SetupSteps[i]
      /\ \/ held' = held \cup {pc} /\ pc' = After(i)
         \/ pc \in {"pods", "metrics", "attach"} /\ pc' = After(i) /\ held' = held
         \/ pc' = "report" /\ held' = held
  BY DEF SetUp, Optional
<1>. QED BY <1>1, <1>2, <1>3, StepFacts DEF HeldInv, CleanupSteps

LEMMA CleanupHolds ==
  ASSUME HeldInv, Cleanup
  PROVE  HeldInv'
<1>. USE StepFacts DEF HeldInv, Release, CleanupSteps
<1>1. CASE Release("cleanup", {"ring"}, "detach") \/ Release("detach", {"attach"}, "close_object")
  BY <1>1
<1>2. CASE Release("close_object", {"object", "load", "map"}, "close_provider")
  BY <1>2
<1>3. CASE Release("close_provider", {"provider"}, "free_metrics")
  BY <1>3
<1>4. CASE Release("free_metrics", {"metrics"}, "free_pods")
  BY <1>4
<1>5. CASE Release("free_pods", {"pods"}, "exited")
  <2>1. held \subseteq {"pods"}
    BY <1>5
  <2>2. held' = {} /\ pc' = "exited"
    BY <1>5, <2>1
  <2>. QED BY <2>2
<1>. QED BY <1>1, <1>2, <1>3, <1>4, <1>5 DEF Cleanup

LEMMA HeldInvariant == Spec => []HeldInv
<1>1. Init => HeldInv
  BY StepFacts DEF Init, HeldInv, CleanupSteps
<1>2. HeldInv /\ [Next]_vars => HeldInv'
  <2>. SUFFICES ASSUME HeldInv, [Next]_vars PROVE HeldInv'
    OBVIOUS
  <2>1. CASE \E i \in DOMAIN SetupSteps : SetUp(i)
    BY <2>1, SetUpHolds, StepFacts
  <2>2. CASE Cleanup
    BY <2>2, CleanupHolds
  <2>3. CASE Killed
    BY <2>3 DEF Killed, HeldInv, CleanupSteps
  <2>4. CASE \/ RegisterSignals \/ WhileRunning \/ PollEvents \/ NextEvent \/ PollReturns
             \/ Report \/ handle_tcp_event
    <3>1. UNCHANGED held
      BY <2>4 DEF RegisterSignals, WhileRunning, PollEvents, NextEvent, PollReturns, Report,
             handle_tcp_event, ConnectionStart, LatencyStart, NegotiationStart, GetKeyReturns,
             NegotiationEnd, LatencyEnd, ConnectionEnd, Goto
    <3>2. pc' \in Handler \cup {"loop", "poll", "report", "next_event", "cleanup"}
      BY <2>4 DEF RegisterSignals, WhileRunning, PollEvents, NextEvent, PollReturns, Report,
             handle_tcp_event, ConnectionStart, LatencyStart, NegotiationStart, GetKeyReturns,
             NegotiationEnd, LatencyEnd, ConnectionEnd, Goto, Handler
    <3>. QED BY <3>1, <3>2, HeldKept, StepFacts DEF Handler, CleanupSteps
  <2>5. CASE \/ sig_handler \/ EventArrives \/ SetEnabled \/ (Tick /\ UNCHANGED loopVars)
             \/ UNCHANGED vars
    BY <2>5, HeldKept DEF sig_handler, EventArrives, SetEnabled, loopVars, vars
  <2>. QED BY <2>1, <2>2, <2>3, <2>4, <2>5 DEF Next, MainStep, Environment
<1>. QED BY <1>1, <1>2, PTL DEF Spec

(* For every number of slots, every clock bound and every buffer size the  *)
(* variables of main.c and the metrics keep their types: no slot out of    *)
(* range is written, and no duration is longer than the time that passed,  *)
(* so the unsigned subtraction of perf_time_diff_ns never wraps.           *)
(* The object is open while anything of it is used, and main returns with  *)
(* nothing held.                                                           *)
THEOREM TypeCorrect == Spec => []TypeOK
<1>1. CountInv /\ HeldInv => TypeOK
  BY DEF CountInv, HeldInv, TypeOK
<1>. QED BY <1>1, CountInvariant, HeldInvariant, PTL

(* For every number of slots, connections and events, and with monitoring  *)
(* switched on and off between events, the counters of the metrics add up. *)
THEOREM CountersConserved == Spec => []Conserved
BY CountInvariant, PTL DEF CountInv
----------------------------------------------------------------------------
(* What the handler's two clocks show while it is busy with slot i.  The   *)
(* negotiation runs within the connection's latency, and a latency is only *)
(* written on the way to a success.                                        *)
ClocksOf(lat, neg) ==
  /\ pc # "end_ok" => lat.duration = 0
  /\ pc \in {"latency_start", "neg_start", "get_key", "neg_end_ok", "neg_end_fail"} =>
       neg.duration = 0
  /\ pc \in {"get_key", "neg_end_ok", "neg_end_fail"} => lat.start <= neg.start
  /\ pc \in {"latency_end", "end_fail"} => lat.start + neg.duration <= now
  /\ pc = "end_ok" => neg.duration <= lat.duration

Clocks == InFlight => ClocksOf(connection_latency[conn_index], key_negotiation[conn_index])

(* The connections that are over, and those of them that have a latency.   *)
Done == {i \in 1 .. current_connections : ~(InFlight /\ i = conn_index)}
Timed == {i \in Done : connection_latency[i].duration > 0}

MeasureInv == CountInv /\ Clocks /\ Measured

LEMMA MeasuredMeans ==
  Measured <=> /\ \A i \in Timed : key_negotiation[i].duration <= connection_latency[i].duration
               /\ Cardinality(Timed) <= successful_connections
BY DEF Measured, Timed, Done

(* Nothing happens to the connections that are over.                       *)
LEMMA MeasuredStays ==
  ASSUME Measured, UNCHANGED successful_connections, Done' = Done,
         \A i \in Done : /\ connection_latency'[i] = connection_latency[i]
                        /\ key_negotiation'[i] = key_negotiation[i]
  PROVE  Measured'
<1>1. Timed' = Timed /\ Timed \subseteq Done
  BY DEF Timed
<1>2. /\ \A i \in Timed : key_negotiation[i].duration <= connection_latency[i].duration
      /\ Cardinality(Timed) <= successful_connections
  BY MeasuredMeans
<1>3. /\ \A i \in Timed' : key_negotiation'[i].duration <= connection_latency'[i].duration
      /\ Cardinality(Timed') <= successful_connections'
  BY <1>1, <1>2
<1>. QED BY <1>3 DEF Measured, Timed, Done

(* Steps that leave the tables alone and the handler where it is.          *)
LEMMA OutsideMeasures ==
  ASSUME MeasureInv, UNCHANGED <<tableVars, successful_connections>>,
         InFlight' <=> InFlight, InFlight => UNCHANGED conn_index,
         InFlight' => Clocks'
  PROVE  Clocks' /\ Measured'
<1>1. Done' = Done
  BY DEF Done, tableVars
<1>2. Measured'
  BY <1>1, MeasuredStays DEF MeasureInv, tableVars
<1>. QED BY <1>2 DEF Clocks

LEMMA LoopMeasures ==
  ASSUME MeasureInv,
         \/ \E i \in 1 .. 8 : SetUp(i)
         \/ RegisterSignals \/ WhileRunning \/ PollEvents \/ NextEvent \/ PollReturns
         \/ Cleanup \/ sig_handler \/ Killed \/ EventArrives \/ SetEnabled \/ Report
         \/ (Tick /\ UNCHANGED loopVars)
  PROVE  Clocks' /\ Measured'
<1>. USE DEF metricsVars, tableVars, countVars, loopVars
<1>1. CASE \/ \E i \in 1 .. 8 : SetUp(i)
           \/ RegisterSignals \/ WhileRunning \/ PollEvents \/ NextEvent \/ PollReturns
           \/ Cleanup \/ Killed \/ SetEnabled \/ Report
  <2>1. UNCHANGED <<tableVars, successful_connections>>
    BY <1>1 DEF SetUp, RegisterSignals, WhileRunning, PollEvents, NextEvent, PollReturns, Cleanup,
                Release, Killed, SetEnabled, Report, perf_metrics_set_enabled, perf_metrics_calculate_stats
  <2>2. ~InFlight /\ ~InFlight'
    <3>1. CASE \E i \in 1 .. 8 : SetUp(i)
      <4>1. pc \in StepNames /\ pc' \in StepNames \cup {"signals", "report"}
        BY <3>1, StepFacts DEF SetUp
      <4>. QED BY <4>1, StepFacts DEF InFlight, Handler
    <3>2. CASE Killed
      BY <3>2, StepFacts DEF Killed, InFlight, Handler
    <3>3. CASE \/ RegisterSignals \/ WhileRunning \/ PollEvents \/ NextEvent \/ PollReturns
               \/ Cleanup \/ SetEnabled \/ Report
      BY <3>3 DEF RegisterSignals, WhileRunning, PollEvents, NextEvent, PollReturns, Cleanup,
                  Release, SetEnabled, Report, Goto, InFlight, Handler
    <3>. QED BY <1>1, <3>1, <3>2, <3>3
  <2>. QED BY <2>1, <2>2, OutsideMeasures
<1>2. CASE sig_handler \/ EventArrives
  <2>1. UNCHANGED <<now, tableVars, successful_connections, pc, conn_index>>
    BY <1>2 DEF sig_handler, EventArrives
  <2>2. (InFlight' <=> InFlight) /\ Clocks'
    BY <2>1 DEF MeasureInv, Clocks, ClocksOf, InFlight
  <2>. QED BY <2>1, <2>2, OutsideMeasures
<1>3. CASE Tick /\ UNCHANGED loopVars
  <2>1. UNCHANGED <<tableVars, successful_connections, pc, conn_index>> /\ now' = now + 1
    BY <1>3 DEF Tick
  <2>2. InFlight' <=> InFlight
    BY <2>1 DEF InFlight
  <2>3. ASSUME InFlight PROVE Clocks'
    <3>1. PICK lat, neg : lat = connection_latency[conn_index] /\ neg = key_negotiation[conn_index]
      OBVIOUS
    <3>2. ClocksOf(lat, neg)
      BY <2>3, <3>1 DEF MeasureInv, Clocks
    <3>3. now \in Nat /\ lat.start \in Nat /\ neg.duration \in Nat
      <4>1. /\ now \in 0 .. MaxTime /\ conn_index \in Slots
            /\ connection_latency \in [Slots -> [start : 0 .. now, duration : 0 .. now]]
            /\ key_negotiation \in [Slots -> [start : 0 .. now, duration : 0 .. now]]
        BY <2>3, MetricsAssumption DEF MeasureInv, CountInv, Types, Slots, InFlight, NoSlot
      <4>. QED BY <3>1, <4>1, MetricsAssumption
    <3>4. ClocksOf(lat, neg)'
      BY <2>1, <3>2, <3>3 DEF ClocksOf
    <3>. QED BY <2>1, <3>1, <3>4 DEF Clocks, ClocksOf
  <2>. QED BY <2>1, <2>2, <2>3, OutsideMeasures
<1>. QED BY <1>1, <1>2, <1>3

LEMMA StartMeasures ==
  ASSUME MeasureInv, ConnectionStart
  PROVE  Clocks' /\ Measured'
<1>. USE DEF metricsVars, tableVars, countVars
<1>0. pc = "conn_start" /\ pc' = "latency_start" /\ ~InFlight /\ conn_index = NoSlot /\ Types
  BY DEF ConnectionStart, InFlight, MeasureInv, CountInv, Fresh
<1>1. CASE perf_ctx /\ NewSlot # NoSlot
  <2>1. /\ NewSlot = current_connections + 1 /\ NewSlot \in Slots
        /\ current_connections' = NewSlot /\ conn_index' = NewSlot
        /\ connection_latency' = [connection_latency EXCEPT ![NewSlot] = Zero]
        /\ key_negotiation' = [key_negotiation EXCEPT ![NewSlot] = Zero]
        /\ UNCHANGED successful_connections
    BY <1>0, <1>1, MetricsAssumption
       DEF ConnectionStart, perf_metrics_connection_start, NewSlot, NoSlot, Slots, Types
  <2>2. PICK s \in Slots : s = NewSlot
    BY <2>1
  <2>3. /\ s = current_connections + 1 /\ current_connections' = s /\ conn_index' = s
        /\ current_connections \in Nat
        /\ connection_latency' = [connection_latency EXCEPT ![s] = Zero]
        /\ key_negotiation' = [key_negotiation EXCEPT ![s] = Zero]
    BY <1>0, <2>1, <2>2, MetricsAssumption DEF Types
  <2>4. InFlight'
    BY <1>0, <1>1, <2>2, <2>3 DEF InFlight, Handler
  <2>5. Done' = Done /\ s \notin Done
    BY <1>0, <2>3, <2>4 DEF Done
  <2>6. connection_latency'[s] = Zero /\ key_negotiation'[s] = Zero
    BY <1>0, <2>3 DEF Types
  <2>7. Clocks'
    BY <1>0, <2>3, <2>6 DEF Clocks, ClocksOf, Zero
  <2>8. ASSUME NEW i \in Done
        PROVE  connection_latency'[i] = connection_latency[i] /\ key_negotiation'[i] = key_negotiation[i]
    <3>1. i # s /\ i \in Slots
      BY <1>0, <2>5, MetricsAssumption DEF Done, Types, Slots
    <3>. QED BY <1>0, <2>3, <3>1 DEF Types
  <2>. QED BY <2>1, <2>5, <2>7, <2>8, MeasuredStays DEF MeasureInv
<1>2. CASE ~(perf_ctx /\ NewSlot # NoSlot)
  <2>1. UNCHANGED <<tableVars, successful_connections>> /\ conn_index' = NoSlot
    BY <1>0, <1>2 DEF ConnectionStart, perf_metrics_connection_start
  <2>2. ~InFlight'
    BY <2>1 DEF InFlight
  <2>. QED BY <1>0, <2>1, <2>2, OutsideMeasures
<1>. QED BY <1>1, <1>2

(* What a clock call does to the slot of the connection it is about.       *)
LEMMA TimerMeasures ==
  ASSUME MeasureInv,
         LatencyStart \/ NegotiationStart \/ GetKeyReturns \/ NegotiationEnd \/ LatencyEnd
  PROVE  Clocks' /\ Measured'
<1>0. /\ pc \in Handler \ {"conn_start"} /\ pc' \in Handler \ {"conn_start"}
      /\ UNCHANGED <<conn_index, held>>
  BY DEF LatencyStart, NegotiationStart, GetKeyReturns, NegotiationEnd, LatencyEnd, Goto, Handler
<1>1. UNCHANGED <<now, monitoring_enabled, current_connections, countVars>>
  BY DEF LatencyStart, NegotiationStart, GetKeyReturns, NegotiationEnd, LatencyEnd, Measure,
         perf_metrics_connection_latency_start, perf_metrics_connection_latency_end,
         perf_metrics_key_negotiation_start, perf_metrics_key_negotiation_end,
         SetLatency, SetNegotiation, metricsVars, tableVars
<1>2. InFlight' <=> InFlight
  BY <1>0 DEF InFlight
<1>3. CASE ~InFlight
  <2>1. conn_index = NoSlot
    BY <1>0, <1>3 DEF InFlight
  <2>2. UNCHANGED <<tableVars, successful_connections>>
    BY <2>1 DEF LatencyStart, NegotiationStart, GetKeyReturns, NegotiationEnd, LatencyEnd, Measure,
                metricsVars, tableVars, countVars
  <2>. QED BY <1>2, <1>3, <2>2, OutsideMeasures
<1>4. CASE InFlight
  <2>0. Types /\ perf_ctx /\ conn_index # NoSlot
    BY <1>4 DEF MeasureInv, CountInv, Enabled, InFlight
  <2>1. PICK i \in Slots : i = conn_index /\ i \in 1 .. current_connections
    BY <2>0, MetricsAssumption DEF Types, Slots, NoSlot
  <2>2. Tracked(i)
    BY <1>4, <2>0, <2>1 DEF MeasureInv, CountInv, Enabled, Tracked, NoSlot, Types
  <2>3. PICK lat, neg : lat = connection_latency[i] /\ neg = key_negotiation[i]
    OBVIOUS
  <2>4. /\ now \in Nat
        /\ lat.start \in Nat /\ lat.start <= now /\ neg.start \in Nat /\ neg.start <= now
        /\ lat.duration \in Nat /\ neg.duration \in Nat
        /\ connection_latency \in [Slots -> [start : 0 .. now, duration : 0 .. now]]
        /\ key_negotiation \in [Slots -> [start : 0 .. now, duration : 0 .. now]]
    <3>1. /\ now \in Nat
          /\ connection_latency \in [Slots -> [start : 0 .. now, duration : 0 .. now]]
          /\ key_negotiation \in [Slots -> [start : 0 .. now, duration : 0 .. now]]
      BY <2>0, MetricsAssumption DEF Types
    <3>. QED BY <2>3, <3>1
  <2>5. ClocksOf(lat, neg)
    BY <1>4, <2>1, <2>3 DEF MeasureInv, Clocks
  <2>6. ASSUME NEW l, NEW n, ClocksOf(l, n)',
               connection_latency' = [connection_latency EXCEPT ![i] = l],
               key_negotiation' = [key_negotiation EXCEPT ![i] = n]
        PROVE  Clocks' /\ Measured'
    <3>1. connection_latency'[i] = l /\ key_negotiation'[i] = n
      BY <2>4, <2>6
    <3>2. Clocks'
      BY <1>0, <2>1, <2>6, <3>1 DEF Clocks, ClocksOf
    <3>3. Done' = Done /\ i \notin Done
      BY <1>0, <1>1, <1>2, <1>4, <2>1 DEF Done
    <3>4. \A j \in Done : /\ connection_latency'[j] = connection_latency[j]
                          /\ key_negotiation'[j] = key_negotiation[j]
      BY <2>4, <2>6, <3>3
    <3>. QED BY <1>1, <3>2, <3>3, <3>4, MeasuredStays DEF MeasureInv, countVars
  <2>7. /\ connection_latency = [connection_latency EXCEPT ![i] = lat]
        /\ key_negotiation = [key_negotiation EXCEPT ![i] = neg]
    BY <2>3, <2>4
  <2>8. CASE LatencyStart
    <3>1. /\ pc = "latency_start" /\ pc' = "neg_start" /\ UNCHANGED key_negotiation
          /\ connection_latency' = [connection_latency EXCEPT ![i] = perf_timepoint_start(lat)]
      BY <2>0, <2>1, <2>2, <2>3, <2>8
         DEF LatencyStart, Goto, Measure, perf_metrics_connection_latency_start, SetLatency
    <3>2. PICK l : l = perf_timepoint_start(lat)
      OBVIOUS
    <3>3. l.duration = lat.duration
      BY <3>2 DEF perf_timepoint_start
    <3>4. ClocksOf(l, neg)'
      BY <2>5, <3>1, <3>3 DEF ClocksOf
    <3>. QED BY <2>6, <2>7, <3>1, <3>2, <3>4
  <2>9. CASE NegotiationStart
    <3>1. /\ pc = "neg_start" /\ pc' = "get_key" /\ UNCHANGED connection_latency
          /\ key_negotiation' = [key_negotiation EXCEPT ![i] = perf_timepoint_start(neg)]
      BY <2>0, <2>1, <2>2, <2>3, <2>9
         DEF NegotiationStart, Goto, Measure, perf_metrics_key_negotiation_start, SetNegotiation
    <3>2. PICK n : n = perf_timepoint_start(neg)
      OBVIOUS
    <3>3. n.start = now /\ n.duration = neg.duration
      BY <3>2 DEF perf_timepoint_start
    <3>4. ClocksOf(lat, n)'
      BY <1>1, <2>4, <2>5, <3>1, <3>3 DEF ClocksOf
    <3>. QED BY <2>6, <2>7, <3>1, <3>2, <3>4
  <2>10. CASE GetKeyReturns
    <3>1. pc = "get_key" /\ pc' \in {"neg_end_ok", "neg_end_fail"} /\ UNCHANGED metricsVars
      BY <2>10 DEF GetKeyReturns, Goto
    <3>2. ClocksOf(lat, neg)'
      BY <2>5, <3>1 DEF ClocksOf
    <3>. QED BY <2>6, <2>7, <3>1, <3>2 DEF metricsVars, tableVars
  <2>11. CASE NegotiationEnd
    <3>1. /\ pc \in {"neg_end_ok", "neg_end_fail"} /\ pc' \in {"latency_end", "end_fail"}
          /\ UNCHANGED connection_latency
          /\ key_negotiation' = [key_negotiation EXCEPT ![i] = perf_timepoint_end(neg)]
      BY <2>0, <2>1, <2>2, <2>3, <2>11
         DEF NegotiationEnd, Goto, Measure, perf_metrics_key_negotiation_end, SetNegotiation
    <3>2. PICK n : n = perf_timepoint_end(neg)
      OBVIOUS
    <3>3. n.duration = now - neg.start
      BY <3>2 DEF perf_timepoint_end
    <3>4. ClocksOf(lat, n)'
      BY <1>1, <2>4, <2>5, <3>1, <3>3 DEF ClocksOf
    <3>. QED BY <2>6, <2>7, <3>1, <3>2, <3>4
  <2>12. CASE LatencyEnd
    <3>1. /\ pc = "latency_end" /\ pc' = "end_ok" /\ UNCHANGED key_negotiation
          /\ connection_latency' = [connection_latency EXCEPT ![i] = perf_timepoint_end(lat)]
      BY <2>0, <2>1, <2>2, <2>3, <2>12
         DEF LatencyEnd, Goto, Measure, perf_metrics_connection_latency_end, SetLatency
    <3>2. PICK l : l = perf_timepoint_end(lat)
      OBVIOUS
    <3>3. l.duration = now - lat.start
      BY <3>2 DEF perf_timepoint_end
    <3>4. ClocksOf(l, neg)'
      BY <1>1, <2>4, <2>5, <3>1, <3>3 DEF ClocksOf
    <3>. QED BY <2>6, <2>7, <3>1, <3>2, <3>4
  <2>. QED BY <2>8, <2>9, <2>10, <2>11, <2>12
<1>. QED BY <1>3, <1>4

(* The connection is over: it may have joined the measured ones only if it *)
(* is also counted as a success.                                           *)
LEMMA EndMeasures ==
  ASSUME MeasureInv, ConnectionEnd
  PROVE  Clocks' /\ Measured'
<1>. USE DEF metricsVars, tableVars, countVars
<1>0. /\ pc \in {"end_ok", "end_fail"} /\ pc' = "next_event" /\ ~InFlight' /\ Types
      /\ UNCHANGED <<tableVars, conn_index>>
  BY DEF ConnectionEnd, Goto, InFlight, Handler, Measure, perf_metrics_connection_end,
         MeasureInv, CountInv
<1>1. CASE ~InFlight
  <2>1. conn_index = NoSlot
    BY <1>0, <1>1 DEF InFlight, Handler
  <2>2. UNCHANGED successful_connections
    BY <2>1 DEF ConnectionEnd, Measure
  <2>. QED BY <1>0, <1>1, <2>2, OutsideMeasures
<1>2. CASE InFlight
  <2>0. perf_ctx /\ conn_index # NoSlot
    BY <1>2 DEF MeasureInv, CountInv, Enabled, InFlight
  <2>1. PICK i \in Slots : i = conn_index /\ i \in 1 .. current_connections
    BY <1>0, <2>0, MetricsAssumption DEF Types, Slots, NoSlot
  <2>2. Tracked(i)
    BY <1>0, <1>2, <2>0, <2>1 DEF MeasureInv, CountInv, Enabled, Tracked, NoSlot, Types
  <2>3. /\ successful_connections' = successful_connections + (IF pc = "end_ok" THEN 1 ELSE 0)
        /\ successful_connections \in Nat
    BY <1>0, <2>0, <2>1, <2>2 DEF ConnectionEnd, Measure, perf_metrics_connection_end, Types
  <2>4. Done' = Done \cup {i} /\ i \notin Done
    BY <1>0, <1>2, <2>1 DEF Done
  <2>5. ClocksOf(connection_latency[i], key_negotiation[i])
    BY <1>2, <2>1 DEF MeasureInv, Clocks
  <2>6. IsFiniteSet(Timed) /\ Cardinality(Timed) \in Nat
    <3>1. IsFiniteSet(1 .. current_connections)
      BY <1>0, FS_Interval, MetricsAssumption DEF Types
    <3>2. Timed \in SUBSET (1 .. current_connections)
      BY DEF Timed, Done
    <3>. QED BY <3>1, <3>2, FS_Subset, FS_CardinalityType
  <2>7. /\ \A j \in Timed : key_negotiation[j].duration <= connection_latency[j].duration
        /\ Cardinality(Timed) <= successful_connections
    BY MeasuredMeans DEF MeasureInv
  <2>8. CASE pc = "end_ok" /\ connection_latency[i].duration > 0
    <3>1. Timed' = Timed \cup {i} /\ i \notin Timed
      BY <1>0, <2>4, <2>8 DEF Timed
    <3>2. Cardinality(Timed') = Cardinality(Timed) + 1
      BY <2>6, <3>1, FS_AddElement
    <3>3. /\ \A j \in Timed' : key_negotiation'[j].duration <= connection_latency'[j].duration
          /\ Cardinality(Timed') <= successful_connections'
      BY <1>0, <2>3, <2>5, <2>6, <2>7, <2>8, <3>1, <3>2 DEF ClocksOf
    <3>. QED BY <1>0, <3>3 DEF Clocks, Measured, Timed, Done
  <2>9. CASE ~(pc = "end_ok" /\ connection_latency[i].duration > 0)
    <3>1. ~(connection_latency[i].duration > 0)
      BY <2>5, <2>9 DEF ClocksOf
    <3>2. Timed' = Timed
      BY <1>0, <2>4, <3>1 DEF Timed
    <3>3. /\ \A j \in Timed' : key_negotiation'[j].duration <= connection_latency'[j].duration
          /\ Cardinality(Timed') <= successful_connections'
      BY <1>0, <2>3, <2>6, <2>7, <3>2
    <3>. QED BY <1>0, <3>3 DEF Clocks, Measured, Timed, Done
  <2>. QED BY <2>8, <2>9
<1>. QED BY <1>1, <1>2

(* The latencies that the report is about: for every number of slots and   *)
(* events, a connection that has one got its key and took at least as long *)
(* as its negotiation; handle_tcp_event leaves none on a failed path.      *)
THEOREM MeasuredCorrect == Spec => []Measured
<1>1. Init => MeasureInv
  <2>. SUFFICES ASSUME Init PROVE MeasureInv
    OBVIOUS
  <2>1. ~InFlight /\ current_connections = 0 /\ successful_connections = 0
    BY DEF Init, perf_metrics_init, InFlight
  <2>2. Timed = {}
    BY <2>1 DEF Timed, Done
  <2>3. Cardinality(Timed) = 0
    BY <2>2, FS_EmptySet
  <2>. QED BY <2>1, <2>2, <2>3, InitCounts, MeasuredMeans DEF MeasureInv, Clocks
<1>2. MeasureInv /\ [Next]_vars => MeasureInv'
  <2>. SUFFICES ASSUME MeasureInv, [Next]_vars PROVE MeasureInv'
    OBVIOUS
  <2>0. CountInv'
    BY CountStep DEF MeasureInv
  <2>1. CASE UNCHANGED vars
    BY <2>0, <2>1 DEF vars, metricsVars, tableVars, countVars, loopVars, MeasureInv, Clocks,
                      ClocksOf, InFlight, Measured
  <2>2. CASE MainStep
    BY <2>0, <2>2, StepFacts, LoopMeasures, StartMeasures, TimerMeasures, EndMeasures
       DEF MainStep, handle_tcp_event, MeasureInv
  <2>3. CASE Environment
    BY <2>0, <2>3, LoopMeasures DEF Environment, MeasureInv
  <2>. QED BY <2>1, <2>2, <2>3 DEF Next
<1>3. MeasureInv => Measured
  BY DEF MeasureInv
<1>. QED BY <1>1, <1>2, <1>3, PTL DEF Spec
----------------------------------------------------------------------------
(* The report.  perf_metrics_calculate_stats is a fold, which is a         *)
(* recursive function; induction is by the least counterexample.           *)

LEMMA Least ==
  ASSUME NEW S \in SUBSET Nat, S # {}
  PROVE  \E m \in S : \A n \in S : m <= n
<1>1. IsWellFoundedOn({p \in Nat \X Nat : p[1] < p[2]}, Nat)
  BY NatLessThanWellFounded DEF OpToRel
<1>2. PICK m \in S : \A n \in S : ~(<<n, m>> \in {p \in Nat \X Nat : p[1] < p[2]})
  BY <1>1, WFMin
<1>3. \A n \in S : ~(n < m)
  BY <1>2
<1>. QED BY <1>3

(* The element that the fold takes first: the last one.                    *)
Top(S) == CHOOSE i \in S : \A j \in S : i >= j

LEMMA TopFacts ==
  ASSUME NEW k \in Nat, NEW s \in SUBSET (1 .. k), s # {}
  PROVE  Top(s) \in s /\ \A j \in s : Top(s) >= j
<1>1. PICK u \in Nat : (\A j \in s : u >= j) /\ \A v \in Nat : (\A j \in s : v >= j) => u <= v
  <2>1. k \in {v \in Nat : \A j \in s : v >= j}
    OBVIOUS
  <2>2. PICK u \in {v \in Nat : \A j \in s : v >= j} :
          \A v \in {w \in Nat : \A j \in s : w >= j} : u <= v
    BY <2>1, Least
  <2>. QED BY <2>2
<1>2. u \in s
  <2>. SUFFICES ASSUME u \notin s PROVE FALSE
    OBVIOUS
  <2>1. \A j \in s : j \in Nat /\ j >= 1 /\ u - 1 >= j
    BY <1>1
  <2>2. u - 1 \in Nat
    <3>1. PICK j \in s : TRUE
      OBVIOUS
    <3>. QED BY <1>1, <2>1, <3>1
  <2>3. u <= u - 1
    BY <1>1, <2>1, <2>2
  <2>. QED BY <2>3
<1>3. \E i \in s : \A j \in s : i >= j
  BY <1>1, <1>2
<1>. QED BY <1>3 DEF Top

Sums == [count : Nat, min : Nat, max : Nat, total : Nat]
NoSum == [count |-> 0, min |-> MinSentinel, max |-> 0, total |-> 0]

(* g adds up the samples of each subset of 1 .. k.                         *)
SumsUp(g, tps, k) ==
  g = [s \in SUBSET (1 .. k) |->
         IF s = {} THEN NoSum ELSE AddSample(tps[Top(s)].duration, g[s \ {Top(s)}])]

LEMMA FoldExists ==
  ASSUME NEW tps, NEW n \in Nat
  PROVE  \E g : SumsUp(g, tps, n)
<1>. DEFINE Bad == {k \in Nat : ~\E g : SumsUp(g, tps, k)}
<1>. SUFFICES ASSUME Bad # {} PROVE FALSE
  OBVIOUS
<1>1. PICK k \in Bad : \A m \in Bad : k <= m
  BY Least
<1>2. k # 0
  <2>1. SUBSET (1 .. 0) = {{}}
    OBVIOUS
  <2>2. PICK g : g = [s \in SUBSET (1 .. 0) |-> NoSum]
    OBVIOUS
  <2>3. g = [s \in SUBSET (1 .. 0) |->
               IF s = {} THEN NoSum ELSE AddSample(tps[Top(s)].duration, g[s \ {Top(s)}])]
    BY <2>1, <2>2
  <2>. QED BY <2>3 DEF SumsUp
<1>3. k \in Nat /\ k - 1 \in Nat /\ k - 1 \notin Bad
  BY <1>1, <1>2
<1>4. PICK g : SumsUp(g, tps, k - 1)
  BY <1>3
<1>. HIDE DEF Bad
<1>5. PICK h : h = [s \in SUBSET (1 .. k) |->
                      IF k \in s THEN AddSample(tps[k].duration, g[s \ {k}]) ELSE g[s]]
  OBVIOUS
<1>6. ASSUME NEW s \in SUBSET (1 .. k)
      PROVE  h[s] = IF s = {} THEN NoSum ELSE AddSample(tps[Top(s)].duration, h[s \ {Top(s)}])
  <2>1. CASE k \in s
    <3>1. Top(s) = k
      <4>1. Top(s) \in 1 .. k /\ Top(s) >= k
        BY <1>3, <2>1, TopFacts
      <4>. QED BY <1>3, <4>1
    <3>2. s \ {k} \in SUBSET (1 .. k) /\ h[s \ {k}] = g[s \ {k}]
      BY <1>5
    <3>. QED BY <1>5, <2>1, <3>1, <3>2
  <2>2. CASE k \notin s
    <3>1. s \in SUBSET (1 .. k - 1) /\ h[s] = g[s]
      BY <1>3, <1>5, <2>2
    <3>2. CASE s # {}
      <4>1. h[s \ {Top(s)}] = g[s \ {Top(s)}]
        BY <1>5, <2>2
      <4>. QED BY <1>4, <3>1, <3>2, <4>1 DEF SumsUp
    <3>. QED BY <1>4, <3>1, <3>2 DEF SumsUp
  <2>. QED BY <2>1, <2>2
<1>7. SumsUp(h, tps, k)
  BY <1>5, <1>6 DEF SumsUp
<1>. QED BY <1>1, <1>7 DEF Bad

(* What calculate_stats computes, with the sums of its loop named.         *)
LEMMA SummaryFold ==
  ASSUME NEW tps, NEW old, current_connections \in Nat
  PROVE  \E g : /\ SumsUp(g, tps, current_connections)
                /\ Summary(tps, old) =
                     IF g[1 .. current_connections].count > 0
                       THEN [min |-> g[1 .. current_connections].min,
                             max |-> g[1 .. current_connections].max,
                             avg |-> <<g[1 .. current_connections].total,
                                       g[1 .. current_connections].count>>]
                       ELSE [min |-> 0, max |-> g[1 .. current_connections].max, avg |-> old.avg]
<1>1. PICK f : SumsUp(f, tps, current_connections)
  BY FoldExists
<1>2. PICK g : /\ SumsUp(g, tps, current_connections)
               /\ g[1 .. current_connections] =
                    MapThenFoldSet(AddSample, [count |-> 0, min |-> MinSentinel, max |-> 0, total |-> 0],
                                   LAMBDA i : tps[i].duration,
                                   LAMBDA S : CHOOSE i \in S : \A j \in S : i >= j,
                                   1 .. current_connections)
  BY <1>1, Zenon DEF SumsUp, MapThenFoldSet, Top, NoSum
<1>. QED BY <1>2 DEF Summary

(* The measured samples among the first k, and what the loop has computed  *)
(* after them.                                                             *)
Samples(tps, k) == {i \in 1 .. k : tps[i].duration > 0}

Summed(sum, tps, k) ==
  /\ sum \in Sums
  /\ sum.count = Cardinality(Samples(tps, k))
  /\ Samples(tps, k) = {} => sum.min = MinSentinel /\ sum.max = 0
  /\ \A i \in Samples(tps, k) : sum.min <= tps[i].duration /\ tps[i].duration <= sum.max
  /\ Samples(tps, k) # {} =>
       \E i, j \in Samples(tps, k) : sum.min = tps[i].duration /\ sum.max = tps[j].duration
  /\ sum.min * sum.count <= sum.total /\ sum.total <= sum.max * sum.count

LEMMA SamplesFinite ==
  ASSUME NEW tps, NEW k \in Nat
  PROVE  /\ IsFiniteSet(Samples(tps, k)) /\ Cardinality(Samples(tps, k)) \in Nat
         /\ Cardinality(Samples(tps, k)) = 0 <=> Samples(tps, k) = {}
<1>1. IsFiniteSet(1 .. k)
  BY FS_Interval
<1>2. Samples(tps, k) \in SUBSET (1 .. k)
  BY DEF Samples
<1>. QED BY <1>1, <1>2, FS_Subset, FS_CardinalityType, FS_EmptySet

LEMMA Scaled ==
  ASSUME NEW a \in Nat, NEW b \in Nat, NEW c \in Nat, a <= b
  PROVE  a * c <= b * c /\ a * (c + 1) = a * c + a /\ a * c \in Nat
OBVIOUS

(* One turn of the loop.                                                   *)
LEMMA AddedSample ==
  ASSUME NEW tps, NEW k \in Nat \ {0}, \A i \in 1 .. k : tps[i].duration \in 0 .. MinSentinel,
         NEW sum, Summed(sum, tps, k - 1)
  PROVE  Summed(AddSample(tps[k].duration, sum), tps, k)
<1>. DEFINE S == Samples(tps, k - 1)
<1>0. /\ sum \in Sums /\ sum.count \in Nat /\ sum.min \in Nat /\ sum.max \in Nat /\ sum.total \in Nat
      /\ k - 1 \in Nat /\ MinSentinel \in Nat
  <2>1. sum \in Sums
    BY DEF Summed
  <2>2. k - 1 \in Nat /\ MinSentinel \in Nat
    BY MetricsAssumption
  <2>. QED BY <2>1, <2>2 DEF Sums
<1>1. PICK d \in Nat : d = tps[k].duration /\ d <= MinSentinel
  <2>1. k \in 1 .. k
    OBVIOUS
  <2>. QED BY <1>0, <2>1
<1>. 1 .. k = (1 .. k - 1) \cup {k} /\ k \notin 1 .. k - 1
  OBVIOUS
<1>2. CASE d > 0
  <2>1. Samples(tps, k) = S \cup {k} /\ k \notin S
    BY <1>0, <1>1, <1>2 DEF Samples
  <2>2. PICK r : r = AddSample(d, sum)
    OBVIOUS
  <2>3. PICK lo \in Nat, hi \in Nat : /\ lo = IF d < sum.min THEN d ELSE sum.min
                                      /\ hi = IF d > sum.max THEN d ELSE sum.max
    BY <1>0
  <2>4. r = [count |-> sum.count + 1, min |-> lo, max |-> hi, total |-> sum.total + d]
    BY <1>2, <2>2, <2>3 DEF AddSample
  <2>5. /\ r \in Sums /\ r.count = sum.count + 1 /\ r.min = lo /\ r.max = hi /\ r.total = sum.total + d
    BY <1>0, <2>4 DEF Sums
  <2>6. r.count = Cardinality(Samples(tps, k))
    <3>1. IsFiniteSet(S) /\ Cardinality(S) \in Nat
      BY <1>0, SamplesFinite
    <3>2. Cardinality(S \cup {k}) = Cardinality(S) + 1
      BY <2>1, <3>1, FS_AddElement
    <3>3. sum.count = Cardinality(S)
      BY DEF Summed
    <3>. QED BY <2>1, <2>5, <3>2, <3>3
  <2>8. lo <= sum.min /\ lo <= d /\ sum.max <= hi /\ d <= hi
    BY <1>0, <2>3
  <2>9. CASE S = {}
    <3>1. lo = d /\ hi = d
      BY <1>1, <1>2, <2>3, <2>9 DEF Summed
    <3>2. Samples(tps, k) = {k}
      BY <2>1, <2>9
    <3>3. sum.count = 0
      BY <1>0, <2>9, SamplesFinite DEF Summed
    <3>4. sum.total = 0
      BY <1>0, <3>3 DEF Summed
    <3>5. r.min * r.count <= r.total /\ r.total <= r.max * r.count
      BY <2>5, <3>1, <3>3, <3>4
    <3>. QED BY <1>1, <2>2, <2>5, <2>6, <3>1, <3>2, <3>5 DEF Summed
  <2>10. CASE S # {}
    <3>1. PICK i \in S, j \in S : sum.min = tps[i].duration /\ sum.max = tps[j].duration
      BY <2>10 DEF Summed
    <3>2. \E x, y \in Samples(tps, k) : lo = tps[x].duration /\ hi = tps[y].duration
      <4>1. \E x \in Samples(tps, k) : lo = tps[x].duration
        BY <1>1, <2>1, <2>3, <3>1
      <4>2. \E y \in Samples(tps, k) : hi = tps[y].duration
        BY <1>1, <2>1, <2>3, <3>1
      <4>. QED BY <4>1, <4>2
    <3>3. ASSUME NEW x \in Samples(tps, k) PROVE lo <= tps[x].duration /\ tps[x].duration <= hi
      <4>1. CASE x = k
        BY <1>1, <2>8, <4>1
      <4>2. CASE x \in S
        <5>1. sum.min <= tps[x].duration /\ tps[x].duration <= sum.max
          BY <4>2 DEF Summed
        <5>2. tps[x].duration \in Int
          <6>1. x \in 1 .. k
            BY <4>2 DEF Samples
          <6>. QED BY <1>0, <6>1
        <5>. QED BY <1>0, <2>8, <5>1, <5>2
      <4>. QED BY <2>1, <4>1, <4>2
    <3>4. lo * (sum.count + 1) <= sum.total + d
      <4>1. lo * sum.count <= sum.min * sum.count /\ lo * (sum.count + 1) = lo * sum.count + lo
            /\ lo * sum.count \in Nat /\ sum.min * sum.count \in Nat
        BY <1>0, <2>8, Scaled
      <4>2. sum.min * sum.count <= sum.total
        BY DEF Summed
      <4>. QED BY <1>0, <2>8, <4>1, <4>2
    <3>5. sum.total + d <= hi * (sum.count + 1)
      <4>1. sum.max * sum.count <= hi * sum.count /\ hi * (sum.count + 1) = hi * sum.count + hi
            /\ hi * sum.count \in Nat /\ sum.max * sum.count \in Nat
        BY <1>0, <2>8, Scaled
      <4>2. sum.total <= sum.max * sum.count
        BY DEF Summed
      <4>. QED BY <1>0, <2>8, <4>1, <4>2
    <3>. QED BY <1>1, <2>1, <2>2, <2>5, <2>6, <3>2, <3>3, <3>4, <3>5 DEF Summed
  <2>. QED BY <2>9, <2>10
<1>3. CASE d = 0
  <2>1. Samples(tps, k) = S
    <3>1. ~(tps[k].duration > 0)
      BY <1>1, <1>3
    <3>. QED BY <3>1 DEF Samples
  <2>2. AddSample(d, sum) = sum
    BY <1>3 DEF AddSample
  <2>. QED BY <1>1, <2>1, <2>2 DEF Summed
<1>. QED BY <1>2, <1>3

(* The whole loop.                                                         *)
LEMMA LoopSummed ==
  ASSUME NEW tps, NEW n \in Nat, \A i \in 1 .. n : tps[i].duration \in 0 .. MinSentinel,
         NEW g, SumsUp(g, tps, n)
  PROVE  Summed(g[1 .. n], tps, n)
<1>. DEFINE Bad == {k \in 0 .. n : ~Summed(g[1 .. k], tps, k)}
<1>. SUFFICES ASSUME Bad # {} PROVE FALSE
  <2>1. n \in 0 .. n
    OBVIOUS
  <2>. QED BY <2>1
<1>0. Bad \in SUBSET Nat
  OBVIOUS
<1>1. PICK k \in Bad : \A m \in Bad : k <= m
  <2>. HIDE DEF Bad
  <2>. QED BY <1>0, Least
<1>2. k # 0
  <2>. SUFFICES Summed(g[1 .. 0], tps, 0)
    OBVIOUS
  <2>1. g[1 .. 0] = NoSum
    <3>1. 1 .. 0 = {} /\ {} \in SUBSET (1 .. n)
      OBVIOUS
    <3>. QED BY <3>1 DEF SumsUp
  <2>2. Samples(tps, 0) = {} /\ Cardinality({}) = 0
    BY FS_EmptySet DEF Samples
  <2>3. NoSum \in Sums /\ NoSum.count = 0 /\ NoSum.min = MinSentinel /\ NoSum.max = 0 /\ NoSum.total = 0
    BY MetricsAssumption DEF NoSum, Sums
  <2>4. NoSum.min * NoSum.count <= NoSum.total /\ NoSum.total <= NoSum.max * NoSum.count
    BY <2>3, MetricsAssumption
  <2>5. Summed(NoSum, tps, 0)
    BY <2>2, <2>3, <2>4 DEF Summed
  <2>. QED BY <2>1, <2>5
<1>3. k \in Nat \ {0} /\ k <= n /\ k - 1 \in 0 .. n /\ k - 1 \notin Bad
  BY <1>1, <1>2
<1>4. PICK sum : sum = g[1 .. k - 1] /\ Summed(sum, tps, k - 1)
  BY <1>3
<1>. HIDE DEF Bad
<1>5. Top(1 .. k) = k
  <2>0. k \in 1 .. k
    BY <1>3
  <2>1. Top(1 .. k) \in 1 .. k /\ Top(1 .. k) >= k
    BY <1>3, <2>0, TopFacts
  <2>. QED BY <1>3, <2>1
<1>6. g[1 .. k] = AddSample(tps[k].duration, sum)
  <2>1. 1 .. k \in SUBSET (1 .. n) /\ k \in 1 .. k
    BY <1>3
  <2>2. (1 .. k) \ {k} = 1 .. k - 1
    BY <1>3
  <2>. QED BY <1>4, <1>5, <2>1, <2>2 DEF SumsUp
<1>7. \A i \in 1 .. k : tps[i].duration \in 0 .. MinSentinel
  <2>1. 1 .. k \subseteq 1 .. n
    BY <1>3
  <2>. QED BY <2>1
<1>8. Summed(g[1 .. k], tps, k)
  BY <1>3, <1>4, <1>6, <1>7, AddedSample
<1>. QED BY <1>1, <1>8 DEF Bad

(* What the report says is what Summarises asks, if nothing was reported   *)
(* before and no sample exceeds the initial value of the minimum.          *)
LEMMA SummaryFacts ==
  ASSUME NEW tps, NEW old, old.avg = <<0, 0>>, current_connections \in Nat,
         \A i \in 1 .. current_connections : tps[i].duration \in 0 .. MinSentinel
  PROVE  Summarises(Summary(tps, old), tps)
<1>1. PICK n \in Nat : n = current_connections
  OBVIOUS
<1>2. PICK g : /\ SumsUp(g, tps, n)
               /\ Summary(tps, old) =
                    IF g[1 .. n].count > 0
                      THEN [min |-> g[1 .. n].min, max |-> g[1 .. n].max,
                            avg |-> <<g[1 .. n].total, g[1 .. n].count>>]
                      ELSE [min |-> 0, max |-> g[1 .. n].max, avg |-> old.avg]
  BY <1>1, SummaryFold
<1>3. PICK sum : sum = g[1 .. n] /\ Summed(sum, tps, n)
  BY <1>1, <1>2, LoopSummed
<1>4. PICK S : S = Samples(tps, n) /\ S = {i \in 1 .. current_connections : tps[i].duration > 0}
  BY <1>1 DEF Samples
<1>5. Cardinality(S) \in Nat /\ (Cardinality(S) = 0 <=> S = {}) /\ sum.count = Cardinality(S)
  BY <1>3, <1>4, SamplesFinite DEF Summed
<1>6. PICK s : s = Summary(tps, old)
  OBVIOUS
<1>7. CASE S = {}
  <2>1. sum.count = 0 /\ sum.max = 0
    BY <1>3, <1>4, <1>5, <1>7 DEF Summed
  <2>2. s.min = 0 /\ s.max = 0 /\ s.avg[2] = 0
    BY <1>2, <1>3, <1>6, <2>1
  <2>. QED BY <1>4, <1>6, <1>7, <2>2 DEF Summarises
<1>8. CASE S # {}
  <2>1. sum.count > 0
    BY <1>5, <1>8
  <2>2. s.min = sum.min /\ s.max = sum.max /\ s.avg[1] = sum.total /\ s.avg[2] = sum.count
    BY <1>2, <1>3, <1>6, <2>1
  <2>3. /\ \A i \in S : sum.min <= tps[i].duration /\ tps[i].duration <= sum.max
        /\ \E i, j \in S : sum.min = tps[i].duration /\ sum.max = tps[j].duration
        /\ sum.min * sum.count <= sum.total /\ sum.total <= sum.max * sum.count
    BY <1>3, <1>4, <1>8 DEF Summed
  <2>4. /\ \A i \in S : s.min <= tps[i].duration /\ tps[i].duration <= s.max
        /\ \E i, j \in S : s.min = tps[i].duration /\ s.max = tps[j].duration
        /\ s.avg[2] = Cardinality(S)
        /\ s.min * s.avg[2] <= s.avg[1] /\ s.avg[1] <= s.max * s.avg[2]
    BY <1>5, <2>2, <2>3
  <2>. QED BY <1>4, <1>6, <1>8, <2>4 DEF Summarises
<1>. QED BY <1>7, <1>8

(* No measured duration exceeds the value the running minimum starts from. *)
InRange ==
  \A i \in 1 .. current_connections :
    connection_latency[i].duration <= MinSentinel /\ key_negotiation[i].duration <= MinSentinel

(* Nothing is reported before main leaves its loop, and what is reported   *)
(* then stays true until the process ends.                                 *)
Reported ==
  /\ pc \notin CleanupSteps \cup {"exited"} => stats.latency.avg = <<0, 0>> /\ stats.negotiation.avg = <<0, 0>>
  /\ pc = "cleanup" /\ perf_ctx /\ InRange =>
       Summarises(stats.latency, connection_latency) /\ Summarises(stats.negotiation, key_negotiation)

LEMMA ReportStep ==
  ASSUME CountInv, Reported, Report
  PROVE  Reported'
<1>0. /\ pc = "report" /\ pc' = "cleanup" /\ UNCHANGED <<held, tableVars>>
  BY DEF Report, Goto, perf_metrics_calculate_stats, metricsVars
<1>. SUFFICES ASSUME perf_ctx', InRange'
              PROVE  /\ Summarises(stats.latency, connection_latency)'
                     /\ Summarises(stats.negotiation, key_negotiation)'
  BY <1>0 DEF Reported, CleanupSteps
<1>1. /\ stats' = [latency     |-> Summary(connection_latency, stats.latency),
                   negotiation |-> Summary(key_negotiation, stats.negotiation)]
      /\ UNCHANGED <<current_connections, connection_latency, key_negotiation>> /\ InRange
  BY <1>0 DEF Report, perf_ctx, perf_metrics_calculate_stats, tableVars, InRange
<1>2. current_connections \in Nat
  BY MetricsAssumption DEF CountInv, Types
<1>3. ASSUME NEW i \in 1 .. current_connections
      PROVE  /\ connection_latency[i].duration \in 0 .. MinSentinel
             /\ key_negotiation[i].duration \in 0 .. MinSentinel
  <2>1. i \in Slots /\ now \in Nat
    BY MetricsAssumption DEF CountInv, Types, Slots
  <2>2. connection_latency[i].duration \in 0 .. now /\ key_negotiation[i].duration \in 0 .. now
    BY <2>1 DEF CountInv, Types
  <2>. QED BY <1>1, <2>1, <2>2, MetricsAssumption DEF InRange
<1>4. Summarises(stats'.latency, connection_latency)
  BY <1>0, <1>1, <1>2, <1>3, SummaryFacts DEF Reported, CleanupSteps
<1>5. Summarises(stats'.negotiation, key_negotiation)
  BY <1>0, <1>1, <1>2, <1>3, SummaryFacts DEF Reported, CleanupSteps
<1>. QED BY <1>1, <1>4, <1>5 DEF Summarises

LEMMA ReportKept ==
  ASSUME Reported, UNCHANGED stats, pc \in CleanupSteps \cup {"exited"} => pc' \in CleanupSteps \cup {"exited"},
         pc' = "cleanup" => pc = "cleanup" /\ UNCHANGED <<tableVars, held>>
  PROVE  Reported'
<1>1. CASE pc' = "cleanup"
  BY <1>1 DEF Reported, perf_ctx, InRange, Summarises, tableVars
<1>2. CASE pc' # "cleanup"
  BY <1>2 DEF Reported
<1>. QED BY <1>1, <1>2

(* Every other step leaves the statistics alone.                           *)
LEMMA OtherSteps ==
  ASSUME CountInv, [Next]_vars, ~Report
  PROVE  /\ UNCHANGED stats /\ (pc \in CleanupSteps \cup {"exited"} => pc' \in CleanupSteps \cup {"exited"})
         /\ pc' = "cleanup" => pc = "cleanup" /\ UNCHANGED <<tableVars, held>>
<1>. USE DEF metricsVars, tableVars, loopVars
<1>1. CASE UNCHANGED vars
  BY <1>1 DEF vars
<1>2. CASE \E i \in DOMAIN SetupSteps : SetUp(i)
  <2>1. UNCHANGED metricsVars /\ pc \in StepNames /\ pc' \in StepNames \cup {"signals", "report"}
    BY <1>2, StepFacts DEF SetUp
  <2>. QED BY <2>1, StepFacts DEF CleanupSteps
<1>3. CASE RegisterSignals \/ WhileRunning \/ PollEvents \/ NextEvent \/ PollReturns \/ Cleanup
  BY <1>3 DEF RegisterSignals, WhileRunning, PollEvents, NextEvent, PollReturns, Cleanup, Release,
              CleanupSteps
<1>4. CASE handle_tcp_event
  <2>1. UNCHANGED stats
    BY <1>4 DEF handle_tcp_event, ConnectionStart, LatencyStart, NegotiationStart, GetKeyReturns,
         NegotiationEnd, LatencyEnd, ConnectionEnd, Measure, perf_metrics_connection_start,
         perf_metrics_connection_latency_start, perf_metrics_connection_latency_end,
         perf_metrics_key_negotiation_start, perf_metrics_key_negotiation_end,
         perf_metrics_connection_end, SetLatency, SetNegotiation
  <2>2. pc \in Handler /\ pc' \in Handler \cup {"next_event"}
    BY <1>4 DEF handle_tcp_event, ConnectionStart, LatencyStart, NegotiationStart, GetKeyReturns,
         NegotiationEnd, LatencyEnd, ConnectionEnd, Goto, Handler
  <2>. QED BY <2>1, <2>2 DEF Handler, CleanupSteps
<1>5. CASE sig_handler \/ Killed \/ EventArrives \/ SetEnabled \/ (Tick /\ UNCHANGED loopVars)
  BY <1>5, StepFacts DEF sig_handler, Killed, EventArrives, SetEnabled, Tick, perf_metrics_set_enabled
<1>. QED BY <1>1, <1>2, <1>3, <1>4, <1>5 DEF Next, MainStep, Environment

(* The report of main.c, for every number of slots, samples and events: it *)
(* covers finished connections only, and the minimum, the maximum and the  *)
(* average that perf_metrics_calculate_stats computes in its loop are      *)
(* those of the measured ones, if no duration exceeds the 999999 ms that   *)
(* the minimum starts from.                                                *)
THEOREM ReportCorrect == Spec => [](InRange => ReportExact)
<1>1. Init => Reported
  BY DEF Init, perf_metrics_init, Reported, NoSummary
<1>2. CountInv /\ Reported /\ [Next]_vars => Reported'
  BY ReportStep, ReportKept, OtherSteps
<1>3. CountInv /\ Reported => (InRange => ReportExact)
  BY DEF CountInv, Conserved, InFlight, Handler, Reported, ReportExact
<1>. QED BY <1>1, <1>2, <1>3, CountInvariant, PTL DEF Spec
==============================================================================
