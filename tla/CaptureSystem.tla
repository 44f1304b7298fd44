--------------------------- MODULE CaptureSystem ---------------------------
(***************************************************************************)
(* The capture program as a whole: main.c reads its files (ConfigFiles),   *)
(* starts the key provider in the configured mode (KeyProvider), attaches  *)
(* the probes (BpfCapture) and asks the provider for the key of each       *)
(* connection the probes report, until a signal stops it.                  *)
(*                                                                         *)
(* One thread runs main, the handler and the provider, so the program      *)
(* reads no event while it waits for TLSHub.  What the metrics record of   *)
(* it is CaptureLoop's subject and left out, as are set-up steps that fail *)
(* after the provider is up (CaptureLoop has them).                        *)
(***************************************************************************)
EXTENDS KeyProvider, ConfigFiles

CONSTANTS Socks, CPUs, NoSock, MaxEntries, RingSize, SharedSocks, MaxConns,
          FlowOf,     \* the 4-tuple of each connection; one may come again
          ConfigSet,   \* what the configuration file may be
          MappingSet,  \* what the mapping files may be, by path
          Pods         \* pods that are looked up

ASSUME MachineAssumption ==
  /\ NoSock \notin Socks /\ RingSize \in Nat /\ MaxConns \in Nat
  /\ IsFiniteSet(CPUs) /\ CPUs # {}
  /\ FlowOf \in [1 .. MaxConns -> Tuples]

(* load_config can choose each of the modes.                               *)
ASSUME FileAssumption ==
  LET Files == Seq([mark : STRING, words : Seq(STRING)]) IN
  /\ {"TLSHUB", "OPENSSL", "BORINGSSL"} \subseteq Modes
  /\ \A f \in ConfigSet : f # NoFile => f \in Files
  /\ \A m \in MappingSet : \A path \in DOMAIN m : m[path] # NoFile => m[path] \in Files

VARIABLES sk, nconns, conn_track_map, sock_info_map, pc, ptr, ring, events, lost, entry, via

Probes == INSTANCE BpfCapture

VARIABLES main,          \* where main stands
          files,         \* the files, until they have been read
          config, pod_node_table,
          keep_running,
          ready,         \* rings perf_buffer__poll has still to read
          cpu, batch,    \* the ring it reads, and how many events it will hand over
          pos,           \* events it has handed over; it frees their space at the end
          asked,         \* has the handler called key_provider_get_key?
          answered       \* history: events handled for each connection

kernelVars == <<sk, nconns, conn_track_map, sock_info_map, pc, ptr, ring, events, lost, entry, via>>
keyVars == <<serviceVars, clientVars, providerVars>>
fileVars == <<files, config, pod_node_table>>
pollVars == <<ready, cpu, batch, pos, asked, answered>>
systemVars == <<kernelVars, keyVars, main, fileVars, keep_running, pollVars>>

NoFiles == [config |-> NoFile]

SystemInit ==
  /\ Init
  /\ Probes!Init
  /\ main = "config"
  /\ \E c \in ConfigSet, m \in MappingSet : files = [config |-> c, mapping |-> m]
  /\ config = [mode |-> "TLSHUB", path |-> DefaultPath]
  /\ pod_node_table = NoTable
  /\ keep_running = TRUE
  /\ cpu = CHOOSE c \in CPUs : TRUE
  /\ ready = {} /\ batch = 0 /\ pos = 0 /\ asked = FALSE
  /\ answered = [n \in Probes!Conns |-> 0]

Goto(next) == main' = next
----------------------------------------------------------------------------
(* Starting up.                                                            *)

FileAt(path) == IF path \in DOMAIN files.mapping THEN files.mapping[path] ELSE NoFile

LoadFiles ==
  /\ main = "config"
  /\ config' = load_config(files.config)
  /\ pod_node_table' = init_pod_node_mapping(FileAt(config'.path))
  /\ Goto("loaded")
  /\ UNCHANGED <<kernelVars, keyVars, files, keep_running, pollVars>>

(* The table is printed and not used again: the model forgets it and the   *)
(* files.                                                                  *)
StartProvider ==
  /\ main = "loaded"
  /\ key_provider_init(config.mode)
  /\ files' = NoFiles /\ pod_node_table' = NoTable
  /\ config' = [config EXCEPT !.path = DefaultPath]
  /\ Goto("init")
  /\ UNCHANGED <<kernelVars, keep_running, pollVars>>

(* The probes are attached and the perf buffer is set up.                  *)
Attach ==
  /\ main = "init" /\ call = "idle"
  /\ Goto(IF phase = "up" THEN "loop" ELSE "cleanup")
  /\ UNCHANGED <<kernelVars, keyVars, fileVars, keep_running, pollVars>>

Attached == main \in {"loop", "poll", "handler"}

sig_handler ==
  /\ Attached /\ keep_running
  /\ keep_running' = FALSE
  /\ UNCHANGED <<kernelVars, keyVars, main, fileVars, pollVars>>
----------------------------------------------------------------------------
(* The main loop.                                                          *)

(* Mutated form: only an error ends the loop.                              *)
LeaveLoopOnError ==
  /\ main = "loop" /\ keep_running
  /\ Goto("cleanup")
  /\ UNCHANGED <<kernelVars, keyVars, fileVars, keep_running, pollVars>>

(* The loop's condition is false, or perf_buffer__poll returns an error.   *)
LeaveLoop ==
  /\ main = "loop"
  /\ Goto("cleanup")
  /\ UNCHANGED <<kernelVars, keyVars, fileVars, keep_running, pollVars>>

(* perf_buffer__poll finds events.                                         *)
PollEvents ==
  /\ main = "loop" /\ keep_running
  /\ ready' = {c \in CPUs : ring[c] # <<>>}
  /\ ready' # {}
  /\ Goto("poll")
  /\ UNCHANGED <<kernelVars, keyVars, fileVars, keep_running, cpu, batch, pos, asked, answered>>

(* It reads a ring as far as it is filled now.                             *)
ReadRing(c) ==
  /\ main = "poll" /\ c \in ready
  /\ ready' = ready \ {c}
  /\ cpu' = c
  /\ batch' = Len(ring[c])
  /\ Goto("handler")
  /\ UNCHANGED <<kernelVars, keyVars, fileVars, keep_running, pos, asked, answered>>

Handled == ring[cpu][pos + 1]

(* handle_tcp_event asks for the key of the connection the event names.    *)
handle_tcp_event ==
  /\ main = "handler" /\ pos < batch /\ ~asked
  /\ \/ key_provider_get_key(FlowOf[Handled])
     \/ openssl_get_key
  /\ asked' = TRUE
  /\ UNCHANGED <<kernelVars, main, fileVars, keep_running, ready, cpu, batch, pos, answered>>

EventReturns(taken) ==
  /\ main = "handler" /\ asked /\ call = "idle"
  /\ answered' = [answered EXCEPT ![Handled] = @ + 1]
  /\ asked' = FALSE
  /\ pos' = IF taken THEN pos + 1 ELSE pos
  /\ UNCHANGED <<kernelVars, keyVars, main, fileVars, keep_running, ready, cpu, batch>>

(* Mutated form: without a key the event is handled again.                 *)
EventHandledIfKey == EventReturns(out.ret = "ok")

(* The handler returns, with or without a key, and the next event follows. *)
EventHandled == EventReturns(TRUE)

RingRead ==
  /\ main = "handler" /\ pos = batch
  /\ Probes!Poll(cpu, batch)
  /\ batch' = 0 /\ pos' = 0
  /\ Goto("poll")
  /\ UNCHANGED <<keyVars, fileVars, keep_running, ready, cpu, asked, answered>>

PollReturns ==
  /\ main = "poll" /\ ready = {}
  /\ Goto("loop")
  /\ UNCHANGED <<kernelVars, keyVars, fileVars, keep_running, pollVars>>

(* The probes are detached, the rings dropped and the provider cleaned up. *)
Cleanup ==
  /\ main = "cleanup"
  /\ key_provider_cleanup
  /\ Goto("exited")
  /\ UNCHANGED <<kernelVars, fileVars, keep_running, pollVars>>

MainStep ==
  \/ LoadFiles \/ StartProvider \/ Attach \/ LeaveLoop \/ Cleanup
  \/ PollEvents \/ (\E c \in CPUs : ReadRing(c)) \/ handle_tcp_event \/ EventHandled
  \/ RingRead \/ PollReturns
----------------------------------------------------------------------------
(* The rest of the machine.  A connection made while no probe is attached  *)
(* leaves no entry; a probe that runs when they are detached ends.         *)
Network(s) ==
  \/ Attached /\ Probes!kprobe_tcp_v4_connect(s)
  \/ /\ ~Attached /\ Probes!Connect(s)
     /\ UNCHANGED <<conn_track_map, sock_info_map, entry, via, pc, ptr, ring, events, lost>>
  \/ Probes!kretprobe_tcp_v4_connect(s) \/ Probes!Accept(s) \/ Probes!Close(s)

Send(c) ==
  \/ Attached /\ \E s \in Socks : Probes!LookupElem(c, s)
  \/ Probes!PerfEventOutput(c) \/ Probes!NotInet(c) \/ Probes!MarkProcessed(c)

Machine ==
  /\ main \notin {"config", "loaded"}
  /\ \/ \E s \in Socks : Network(s)
     \/ \E c \in CPUs : Send(c)
  /\ UNCHANGED <<keyVars, main, fileVars, keep_running, pollVars>>

Inside(step) == step /\ UNCHANGED <<kernelVars, main, fileVars, keep_running, pollVars>>

ProviderSteps == Inside(ProviderStep) \/ Inside(ClientNext /\ UNCHANGED providerVars)
ServiceSteps == Inside(ServiceNext /\ UNCHANGED <<clientVars, providerVars>>)

SystemNext == MainStep \/ sig_handler \/ Machine \/ ProviderSteps \/ ServiceSteps

(* The main thread runs, and TLSHub answers.                               *)
SystemSpec ==
  /\ SystemInit /\ [][SystemNext]_systemVars
  /\ WF_systemVars(MainStep)
  /\ WF_systemVars(ProviderSteps)
  /\ WF_systemVars(Inside(Serve /\ UNCHANGED <<clientVars, providerVars>>))
----------------------------------------------------------------------------
(* What main starts with is what the files say, whatever lines they have:   *)
(* the mode, the path of the mapping, and the node of every pod.  What a    *)
(* line says is what the formats of the two sscanf calls make of it, a pod  *)
(* and a node between blanks: a line "pod=node" says nothing.               *)
FilesRead ==
  main = "loaded" =>
    /\ ConfigSays(files.config, config)
    /\ \A p \in Pods :
         MappingSays(FileAt(config.path), p, get_node_by_pod(pod_node_table, p))

(* Events of connection n that have not been handled.                      *)
Queued(n) ==
  {e \in CPUs \X (1 .. RingSize) :
     e[2] <= Len(ring[e[1]]) /\ ring[e[1]][e[2]] = n /\ ~(e[1] = cpu /\ e[2] <= pos)}

(* Every event the probes put into a ring is there or has been handled,     *)
(* once; the handler asks for the key of the connection it handles; and     *)
(* TLSHub negotiates keys for captured connections only.                    *)
EventsAccounted ==
  /\ \A n \in Probes!Conns : events[n] = answered[n] + Cardinality(Queued(n))
  /\ asked /\ call \in InGetKey => req = FlowOf[Handled]
  /\ \A t \in Tuples : gen[t] > 0 => \E n \in Probes!Conns : FlowOf[n] = t /\ events[n] > 0

(* Every event is handled, although the program waits for TLSHub between    *)
(* two of them, unless the program leaves its loop first.                   *)
EventsHandled ==
  \A n \in Probes!Conns : Queued(n) # {} ~> Queued(n) = {} \/ main \in {"cleanup", "exited"}

(* After a signal the program ends, also when the signal comes while it     *)
(* waits for TLSHub.                                                        *)
StopsOnSignal == ~keep_running ~> main = "exited"
============================================================================
