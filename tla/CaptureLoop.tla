---------------------------- MODULE CaptureLoop ----------------------------
(***************************************************************************)
(* capture/src/main.c: the life of the capture process.  main sets up one  *)
(* resource after the other, polls the perf buffer, which calls            *)
(* handle_tcp_event for each event, until a signal clears keep_running,    *)
(* and cleans up.  One thread does all of it; signals and new events come  *)
(* at any time, and time passes.                                           *)
(*                                                                         *)
(* key_provider_get_key is taken to return, in any time, with a key or     *)
(* without one: KeyProvider says when it does.                             *)
(***************************************************************************)
EXTENDS PerfMetrics, Sequences

CONSTANTS RingSize, \* events the perf buffer can hold
          Toggles   \* is perf_metrics_set_enabled used?

ASSUME LoopAssumption == RingSize \in Nat /\ Toggles \in BOOLEAN

VARIABLES pc,            \* where the main thread stands
          keep_running,
          held,          \* resources main holds
          err,           \* main's err: "ok", "EINTR" or "error"
          waiting,       \* events in the perf buffer
          batch,         \* events the current perf_buffer__poll has still to hand over
          conn_index     \* handle_tcp_event's conn_index

loopVars == <<pc, keep_running, held, err, waiting, batch, conn_index>>
vars == <<metricsVars, loopVars>>

(* What main sets up, in this order.  Without the mapping, the metrics or  *)
(* the probes it only warns and goes on.                                   *)
SetupSteps == <<"pods", "provider", "metrics", "object", "load", "attach", "map", "ring">>
Optional == {"pods", "metrics", "attach"}
StepNames == {SetupSteps[i] : i \in DOMAIN SetupSteps}

(* Steps of main after the report.                                         *)
CleanupSteps ==
  {"cleanup", "detach", "close_object", "close_provider", "free_metrics", "free_pods"}

(* Steps of handle_tcp_event.                                              *)
Handler == {"conn_start", "latency_start", "neg_start", "get_key",
            "neg_end_ok", "neg_end_fail", "latency_end", "end_ok", "end_fail"}

Init ==
  /\ perf_metrics_init
  /\ pc = "pods"
  /\ keep_running = TRUE
  /\ held = {}
  /\ err = "ok"
  /\ waiting = 0 /\ batch = 0
  /\ conn_index = NoSlot
----------------------------------------------------------------------------
(* Set-up.  A step fails or succeeds; every failure that is not optional   *)
(* goes straight to the clean-up.                                          *)
After(i) == IF i = Len(SetupSteps) THEN "signals" ELSE SetupSteps[i + 1]

SetUp(i) ==
  /\ pc = SetupSteps[i]
  /\ \/ held' = held \cup {pc} /\ pc' = After(i) /\ err' = "ok"
     \/ pc \in Optional /\ pc' = After(i) /\ UNCHANGED <<held, err>>
     \/ pc \notin Optional /\ pc' = "report" /\ err' = "error" /\ UNCHANGED held
  /\ UNCHANGED <<metricsVars, keep_running, waiting, batch, conn_index>>

RegisterSignals ==
  /\ pc = "signals"
  /\ pc' = "loop"
  /\ UNCHANGED <<metricsVars, keep_running, held, err, waiting, batch, conn_index>>

(* sig_handler, once it is registered; before that a signal ends the       *)
(* process and the kernel takes everything back.                           *)
sig_handler ==
  /\ pc \notin StepNames \cup {"signals", "exited"}
  /\ keep_running
  /\ keep_running' = FALSE
  /\ UNCHANGED <<metricsVars, pc, held, err, waiting, batch, conn_index>>

Killed ==
  /\ pc \in StepNames \cup {"signals"}
  /\ pc' = "exited"
  /\ held' = {}
  /\ UNCHANGED <<metricsVars, keep_running, err, waiting, batch, conn_index>>
----------------------------------------------------------------------------
(* The main loop.                                                          *)

(* A probe puts an event into the perf buffer.                             *)
EventArrives ==
  /\ "ring" \in held /\ "attach" \in held
  /\ waiting + batch < RingSize
  /\ waiting' = waiting + 1
  /\ UNCHANGED <<metricsVars, pc, keep_running, held, err, batch, conn_index>>

WhileRunning ==
  /\ pc = "loop"
  /\ pc' = IF keep_running THEN "poll" ELSE "report"
  /\ UNCHANGED <<metricsVars, keep_running, held, err, waiting, batch, conn_index>>

(* perf_buffer__poll hands over the events it finds in the buffer, not the *)
(* ones that arrive meanwhile.                                             *)
PollEvents ==
  /\ pc = "poll" /\ waiting > 0
  /\ batch' = waiting
  /\ waiting' = 0
  /\ pc' = "next_event"
  /\ UNCHANGED <<metricsVars, keep_running, held, err, conn_index>>

(* Mutated form: it goes on as long as there are events.                   *)
NextEventUntilEmpty ==
  /\ pc = "next_event"
  /\ IF batch + waiting > 0
       THEN batch' = batch + waiting - 1 /\ waiting' = 0 /\ pc' = "conn_start" /\ UNCHANGED err
       ELSE pc' = "loop" /\ err' = "ok" /\ UNCHANGED <<batch, waiting>>
  /\ conn_index' = NoSlot
  /\ UNCHANGED <<metricsVars, keep_running, held>>

NextEvent ==
  /\ pc = "next_event"
  /\ IF batch > 0
       THEN batch' = batch - 1 /\ pc' = "conn_start" /\ UNCHANGED err
       ELSE pc' = "loop" /\ err' = "ok" /\ UNCHANGED batch
  /\ conn_index' = NoSlot
  /\ UNCHANGED <<metricsVars, keep_running, held, waiting>>

(* Without an event it returns 0 after 100 ms, or -EINTR; on any other     *)
(* error main leaves the loop.                                             *)
PollReturns ==
  /\ pc = "poll"
  /\ \/ waiting = 0 /\ err' \in {"ok", "EINTR"} /\ pc' = "loop"
     \/ err' = "error" /\ pc' = "report"
  /\ UNCHANGED <<metricsVars, keep_running, held, waiting, batch, conn_index>>

SetEnabled ==
  /\ Toggles /\ "metrics" \in held /\ pc = "loop"
  /\ \E enabled \in BOOLEAN : perf_metrics_set_enabled(enabled)
  /\ UNCHANGED loopVars
----------------------------------------------------------------------------
(* handle_tcp_event.  Without a context or a slot nothing is measured.     *)
perf_ctx == "metrics" \in held

Goto(next) ==
  /\ pc' = next
  /\ UNCHANGED <<keep_running, held, err, waiting, batch, conn_index>>

Measure(call) == IF perf_ctx /\ conn_index # NoSlot THEN call ELSE UNCHANGED metricsVars

ConnectionStart ==
  /\ pc = "conn_start"
  /\ IF perf_ctx
       THEN perf_metrics_connection_start /\ conn_index' = NewSlot
       ELSE UNCHANGED <<metricsVars, conn_index>>
  /\ pc' = "latency_start"
  /\ UNCHANGED <<keep_running, held, err, waiting, batch>>

LatencyStart ==
  /\ pc = "latency_start"
  /\ Measure(perf_metrics_connection_latency_start(conn_index))
  /\ Goto("neg_start")

(* Mutated form: the clock is not started.                                 *)
NegotiationStartSkipped ==
  /\ pc = "neg_start"
  /\ Goto("get_key")
  /\ UNCHANGED metricsVars

NegotiationStart ==
  /\ pc = "neg_start"
  /\ Measure(perf_metrics_key_negotiation_start(conn_index))
  /\ Goto("get_key")

GetKeyReturns ==
  /\ pc = "get_key"
  /\ \E next \in {"neg_end_ok", "neg_end_fail"} : Goto(next)
  /\ UNCHANGED metricsVars

NegotiationEnd ==
  /\ pc \in {"neg_end_ok", "neg_end_fail"}
  /\ Measure(perf_metrics_key_negotiation_end(conn_index))
  /\ Goto(IF pc = "neg_end_ok" THEN "latency_end" ELSE "end_fail")

LatencyEnd ==
  /\ pc = "latency_end"
  /\ Measure(perf_metrics_connection_latency_end(conn_index))
  /\ Goto("end_ok")

(* Mutated form: a failure returns without ending the connection.          *)
ConnectionEndOnlyOk ==
  /\ pc \in {"end_ok", "end_fail"}
  /\ IF pc = "end_ok" THEN Measure(perf_metrics_connection_end(conn_index, TRUE))
                      ELSE UNCHANGED metricsVars
  /\ Goto("next_event")

ConnectionEnd ==
  /\ pc \in {"end_ok", "end_fail"}
  /\ Measure(perf_metrics_connection_end(conn_index, pc = "end_ok"))
  /\ Goto("next_event")

handle_tcp_event ==
  \/ ConnectionStart \/ LatencyStart \/ NegotiationStart \/ GetKeyReturns
  \/ NegotiationEnd \/ LatencyEnd \/ ConnectionEnd
----------------------------------------------------------------------------
(* Clean-up.                                                               *)
Report ==
  /\ pc = "report"
  /\ IF perf_ctx THEN perf_metrics_calculate_stats ELSE UNCHANGED metricsVars
  /\ Goto("cleanup")

(* main releases what it holds: the perf buffer, the links, the object     *)
(* (which takes the loaded programs and the maps with it), the provider,   *)
(* the metrics and the table.  What it does not hold it skips.             *)
Release(step, resources, next) ==
  /\ pc = step
  /\ held' = held \ resources
  /\ pc' = next
  /\ UNCHANGED <<metricsVars, keep_running, err, waiting, batch, conn_index>>

Cleanup ==
  \/ Release("cleanup", {"ring"}, "detach")
  \/ Release("detach", {"attach"}, "close_object")
  \/ Release("close_object", {"object", "load", "map"}, "close_provider")
  \/ Release("close_provider", {"provider"}, "free_metrics")
  \/ Release("free_metrics", {"metrics"}, "free_pods")
  \/ Release("free_pods", {"pods"}, "exited")
----------------------------------------------------------------------------
MainStep ==
  \/ \E i \in DOMAIN SetupSteps : SetUp(i)
  \/ RegisterSignals \/ WhileRunning \/ PollEvents \/ NextEvent \/ PollReturns
  \/ handle_tcp_event \/ Report \/ Cleanup

Environment ==
  \/ sig_handler \/ Killed \/ EventArrives \/ SetEnabled
  \/ Tick /\ pc # "exited" /\ UNCHANGED loopVars

Next == MainStep \/ Environment

Spec == Init /\ [][Next]_vars

(* The main thread runs, and key_provider_get_key returns.                 *)
FairSpec == Spec /\ WF_vars(MainStep)
----------------------------------------------------------------------------
(* The handler is between the start and the end of a connection it tracks.  *)
InFlight == pc \in Handler \ {"conn_start"} /\ conn_index # NoSlot

(* The variables of the loop and the metrics.                              *)
Types ==
  /\ now \in 0 .. MaxTime
  /\ monitoring_enabled \in BOOLEAN
  /\ current_connections \in 0 .. MaxConnections
  /\ connection_latency \in [Slots -> [start : 0 .. now, duration : 0 .. now]]
  /\ key_negotiation \in [Slots -> [start : 0 .. now, duration : 0 .. now]]
  /\ total_connections \in Nat /\ successful_connections \in Nat
  /\ failed_connections \in Nat /\ active_connections \in Nat
  /\ pc \in StepNames \cup Handler
              \cup {"signals", "loop", "poll", "next_event", "report"}
              \cup CleanupSteps \cup {"exited"}
  /\ keep_running \in BOOLEAN
  /\ held \subseteq StepNames
  /\ err \in {"ok", "EINTR", "error"}
  /\ waiting \in Nat /\ batch \in Nat
  /\ conn_index \in 0 .. current_connections

(* Every variable of the loop and the metrics has its type, no slot beyond  *)
(* max_connections is used, and clocks are never ahead of the time; the     *)
(* programs are attached and the perf buffer exists only while the object   *)
(* they come from is open; and wherever the set-up failed, main has given   *)
(* back everything when it returns.                                         *)
TypeOK ==
  /\ Types
  /\ "attach" \in held \/ "ring" \in held => "object" \in held
  /\ pc = "exited" => held = {}

(* Each connection the metrics have counted has succeeded, has failed, or   *)
(* is the one the handler is busy with: a start is matched by one end on    *)
(* every path of handle_tcp_event, whatever is switched on or off between   *)
(* two events and however many connections find no slot.                    *)
Conserved ==
  /\ total_connections = current_connections
  /\ total_connections = successful_connections + failed_connections + active_connections
  /\ active_connections = IF InFlight THEN 1 ELSE 0

(* A connection that got its key took at least as long as its negotiation,  *)
(* one that failed has no latency, and there are no more measured latencies *)
(* than successes.                                                          *)
Measured ==
  LET done == {i \in 1 .. current_connections : ~(InFlight /\ i = conn_index)}
      timed == {i \in done : connection_latency[i].duration > 0}
  IN  /\ \A i \in timed : key_negotiation[i].duration <= connection_latency[i].duration
      /\ Cardinality(timed) <= successful_connections

(* What the final report says of the samples of one clock.                  *)
Summarises(sum, tps) ==
  LET S == {i \in 1 .. current_connections : tps[i].duration > 0} IN
  IF S = {} THEN sum.min = 0 /\ sum.max = 0 /\ sum.avg[2] = 0
  ELSE /\ \A i \in S : sum.min <= tps[i].duration /\ tps[i].duration <= sum.max
       /\ \E i, j \in S : sum.min = tps[i].duration /\ sum.max = tps[j].duration
       /\ sum.avg[2] = Cardinality(S)
       /\ sum.min * sum.avg[2] <= sum.avg[1] /\ sum.avg[1] <= sum.max * sum.avg[2]

(* The report main prints on its way out covers finished connections only,  *)
(* and its minimum, maximum and average are those of the measured ones.     *)
ReportExact ==
  pc = "cleanup" /\ perf_ctx =>
    /\ active_connections = 0
    /\ Summarises(stats.latency, connection_latency)
    /\ Summarises(stats.negotiation, key_negotiation)

(* After a signal the process ends, however many events keep coming.        *)
ShutsDown == ~keep_running ~> pc = "exited"
============================================================================
