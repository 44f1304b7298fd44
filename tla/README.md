# A TLA+ model of tlshub-ebpf

This directory models the programs of the repository: the capture process (eBPF probes, event
loop, key provider, KTLS, performance metrics), the TLSHub user API with its test programs, and the
bench client and server.
`PROJECT.json` lists components, runs, the source lines behind every definition, findings,
hazards and theorems; this file explains them.

## 1. The system

Paths are relative to `src/`.

| Part | State | Operations | Hard because |
|---|---|---|---|
| eBPF probes, `capture/src/capture.bpf.c` | `conn_track_map`, `sock_info_map`, per-CPU perf rings | two probes on `tcp_v4_connect`, one on `tcp_sendmsg` | run on several CPUs at once; keys are sock pointers, which the kernel reuses; maps and rings fill up |
| Capture process, `capture/src/main.c` | `keep_running`, resources held, the event being handled | set-up, signal handler, poll loop, `handle_tcp_event`, clean-up | failures in every set-up step, signals at any time, events that keep coming |
| Key provider, `capture/src/key_provider.c` | `current_mode`, `ssl_ctx` | init, get_key, set_mode, cleanup | fetch, handshake, fetch again while keys expire |
| Netlink client, `capture/src/tlshub_client.c` | `netlink_sock`, `nlh` | init, fetch, handshake, cleanup | answers carry no sequence number; LOG messages share the queue; no time-outs |
| Performance metrics, `capture/src/performance_metrics.c` | slots, clocks, counters, summary | start and end of connections and clocks, enable, calculate, export | slots run out; monitoring is switched; zero and sentinel values |
| System metrics, same file | previous CPU counters, current and peak usage, bytes and times of each slot | sample CPU and memory, record a transfer | unsigned differences of counters that wrap or decrease; a sample that fails half-way |
| TLSHub user API, `tlshub-api/tlshub.c` (`hypertls.c` is the same code) | a thread-local netlink context | service_init, handshake, fetch_key | many threads; port ids are thread ids; one socket kept, others opened per call |
| Bench, `bench/src/` | counters per client, `keep_running` of the server | connect, send, receive, close; accept, echo | blocking sends on both sides, time-outs that race with late echoes, serial server |
| Handshake tests, `tlshub-api/tlshub_handshake.c`, `hypertls_handshake.c` | handshakes made | three handshakes, an alarm | the alarm races with a late answer |
| TLSHub kernel module | sessions and keys | INIT, START, FETCH | not in the repository: external |
| KTLS configuration, `capture/src/ktls_config.c` | socket options | three `setsockopt` calls | partial failure; no way back; other threads in between |
| Configuration and pod mapping, `load_config`, `capture/src/pod_mapping.c` | mode, path, a table | read at start; look up | order and form of the lines, a table that is full |

How they interact: the probes write events into perf rings; `perf_buffer__poll` in `main` calls
`handle_tcp_event` for each; the handler asks the key provider for a key, the provider asks the
netlink client, the client the kernel module, all in one thread; the handler tells the metrics
about each step. The user API is a second client of the kernel module, for other programs. The
bench programs generate the TCP traffic to be captured.

What makes each part correct is stated as the properties of section 4.

## 2. Modules

| Module | Models | Uses |
|---|---|---|
| `TlshubService` | kernel module and netlink socket (external) | |
| `TlshubClient` | `tlshub_client.c` | EXTENDS `TlshubService` |
| `KeyProvider` | `key_provider.c` and its caller | EXTENDS `TlshubClient` |
| `KeyRequest` | abstract promise: a request is answered by a key of its own 4-tuple, not older than the request, or refused | INSTANCE in `KeyProvider` |
| `BpfCapture` | `capture.bpf.c`, the kernel's sockets around it | |
| `PerfMetrics` | `performance_metrics.c`, one operator per function | |
| `CaptureLoop` | `main.c` | EXTENDS `PerfMetrics` |
| `TlshubApi` | `tlshub-api/tlshub.c` and the kernel module seen by several threads | |
| `HandshakeTest` | `tlshub_handshake.c`, `hypertls_handshake.c`, threads on `tlshub.c` and `hypertls.c` | EXTENDS `TlshubApi` |
| `KtlsConfig` | `ktls_config.c` and the kernel's TLS options | |
| `SystemMetrics` | the rest of `performance_metrics.c`: samples, transfers, report and exports | |
| `ConfigFiles` | `load_config` and `pod_mapping.c` as operators | |
| `CaptureSystem` | the capture program: files, provider, probes, loop | EXTENDS `KeyProvider`, `ConfigFiles`; INSTANCE `BpfCapture` |
| `EchoBench` | `bench/src/tcp_client.c`, `echo_server.c`, counters of `bench_common.c` | |
| `KeyProviderProofs`, `BpfCaptureProofs`, `CaptureLoopProofs`, `HandshakeTestProofs` (which covers `TlshubApi`), `KtlsConfigProofs`, `SystemMetricsProofs`, `EchoBenchProofs` | proofs | EXTENDS the component |
| `CaptureSystemProofs` | proofs | EXTENDS `CaptureSystem`, `KeyProviderProofs` |
| `MC...` | constants for TLC | |

Actions carry the names of the functions they model. A function that blocks is split there and
nowhere else: `tlshub_fetch_key` sends and blocks, `FetchRecv` is what it does with the message.
A definition whose comment says *Mutated form* is a plausible bug; no specification uses it. TLC
checks each property again with the bug in place of the original and must find it violated.

**Service, client, provider.** A key is the pair of its owner and its generation; the all-zero
key belongs to `NoTuple`. `fn` is the client function blocked in `recvfrom`, `call` where
`key_provider_get_key` or `key_provider_init` stands, `out` what get_key returned last. A send
may fail, unnoticed since the code tests `!ret`; a receive queue of `RcvBuf` messages may
overflow, after which one `recvfrom` returns -1, which the code does not notice either; LOG
messages come while a request is served and, with `LateLogs`, at any time. `SwitchModes` adds
`key_provider_set_mode`. The OpenSSL modes hand out a key that belongs to no 4-tuple.

**Probes.** `kprobe_tcp_sendmsg` has three steps (`LookupElem`; `PerfEventOutput` or `NotInet`;
`MarkProcessed`), because other CPUs run between its map operations. Connections are numbered;
a sock pointer names one only while the kernel keeps the socket. `SharedSocks` are those that
several threads use at once. `entry` and `via` are history: which connection made an entry of
`conn_track_map`, and whose entry a captured connection used.

**Event loop and metrics.** `pc` is the program counter of the main thread and `held` the
resources it has. A set-up step succeeds, fails with a warning (`Optional`), or jumps to the
clean-up, which releases one resource per step (`Release`). A slot is the source's `conn_index` plus one. Time is the monotonic clock and may stand
still between any two calls. `key_provider_get_key` is one step here that takes any time and
succeeds or not: what it does is `KeyProvider`'s business. `perf_metrics_set_enabled` has no
caller in the repository; it is public, and with one thread a caller can only get its turn between
two events, so it is called there.

**User API.** `bound[t]` says whether an open socket has thread id `t` as its port id, `ctx[t]`
is `g_netlink_ctx`. Thread ids are reused (`ThreadExit`), the socket of an ended thread stays
open. `Exhausted` are the ids for which `socket` and `malloc` may fail. `Faulty` are those whose
`sendto` and `recvfrom` may fail and whose receive queue may overflow: a send that returns -1 goes
unnoticed, a fetch whose receive returns -1 takes the cleared buffer for its answer
(`FetchUnread`), a receive that returns 0 ends init and handshake with -2 (`RecvNothing`; init
then forgets its open socket) and a fetch with `exit(-1)` (`ProcessExit`). A receive that returns -1
in the loops of init and handshake is one more turn and no step. Three history variables say what
such a call has done to its port id: `left`, a socket nobody can close any more; `stale`, a request
or message left by a call that gave up on it, until a call begins with nothing left; `lost`, a
request or answer of the call that waits. `MaxLeft` bounds what is left, `Expiring` are the
4-tuples whose keys expire.

In `HandshakeTest` each thread is a test program (ids in `Programs`) or a thread of another process
that calls the API in any order (`prog`), on `hypertls.c` for the ids in `Hypertls`; `tried` are the
4-tuples a program has asked for. A process ends with its result, by `exit(-1)` or, wherever it
is, with the alarm; the kernel then closes its sockets, and a request under way stays with the
kernel module, which may answer it when a new process (`NewProcess`) has the id.

**KTLS.** Each `setsockopt` is a step, so that other threads get between them, and may fail. `done`
and `gaveUp` record how calls of `configure_ktls` ended. Keys are names, IVs short sequences cut
up by `CryptoInfo` as the code does.

**System metrics.** A reading of `/proc/stat` is the sum of the busy and the sum of the idle
counters, each modulo `Modulus`; `delta` keeps how far they really moved. Percentages and rates
are fractions. `age` is the time since main's last sample, on a wall clock that can be set back.

**The whole program.** `CaptureSystem` has one variable, `main`, for where the main thread stands.
It takes the provider's actions and the probes' actions as they are. A call of `perf_buffer__poll`
reads the rings that have events (`ready`), each as far as it is filled when it begins (`batch`),
hands over the events one by one (`pos`) and frees their space at the end. `FlowOf` names the 4-tuple
of each connection; two connections may have the same one. Metrics, and set-up steps that fail
after the provider is up, are left to `CaptureLoop`.

**Bench.** A direction of a connection is a number of bytes of at most `Window`. Calls move any
number of bytes from one up to what fits. A connection is gone for the server when the client has
closed, but stays in the backlog; sending on it is lost, fails or raises SIGPIPE.

## 3. Abstractions and what is left out

- Wording of messages, printing and the layout of files. Of the files read and written the models
  have the content: `ConfigFiles` and the exports of `SystemMetrics`.
- Byte order and encoding of 4-tuples: 4-tuples are model values. `htons` in the clients is
  taken to be undone by the kernel module, which cannot be seen here.
- Lines and words longer than the buffers of `load_config` and `pod_mapping.c`.
- Constant factors of percentages and rates, and the rounding of `double`.

Not modelled:

- Bench: latencies, averages, CPU and memory figures and exports (`bench_common.c`), and the
  command line (`main.c`). They are computed from one sequential loop; nothing depends on them.
- Shell and Python scripts, deployment files, `tlshub_client.c.old` (not compiled).
- The TLSHub kernel module is not in the repository; what is known of it is how it is used.

## 4. Runs

Passing runs:

- `keyprovider` (19 404 states): two 4-tuples, two keys each, two queued logs. The module logs only
  while a request is served and the queue holds the logs and the answer. `OwnKey`: a key returned
  belongs to the 4-tuple asked for and is not older than the call. `InSync`: nothing is left in
  the queues between calls. `CleanShutdown`, `CallsReturn`, and `KeepsPromise`, the refinement of
  `KeyRequest`. Two 4-tuples suffice to confuse answers, and two keys to return an outdated one.
- `keyprovider_faults` (69 892): late logs, a queue that overflows, failing sends, mode switches.
  `FinalsMatched` still holds: no handshake ends on another one's verdict. So does
  `NegotiatesOnlyOnRequest`.
- `capture` (277 025): two sock pointers, one of them shared, two CPUs, four connections, a map
  with one entry, rings with one. Four connections on two pointers force reuse; one map entry
  makes it full. `AtMostOnce`, `NotMissed`, and `OneCapturePerConnect`: entries outlive their
  connections, yet no two captures use the entry of the same connect. CPUs are symmetric.
- `loop` (1 028 440): two slots and any number of connections, so that slots run out; a clock up
  to 3, so that two connections can take different times; two events in the buffer, so that one
  arrives while a batch is handled. `Conserved`, `Measured`, `ReportExact`, `ShutsDown`; `TypeOK`
  also says that nothing is held when `main` returns, and that probes and ring never outlive the
  object they belong to.
- `api` (444 480): two thread ids. One, on `tlshub.c`, is that of a test program with two turns or
  of a thread that calls anything, one after the other, and is faulty; the other, a thread on
  `hypertls.c`, may run out of sockets and memory. Two 4-tuples, one with expiring keys. The two ids
  share only the kernel module and its sessions, so one of each kind suffices; `MaxLeft = 1` is
  enough to read another call's answer, and one left-over message behind a second request shifts
  all that follow. `OwnKey` and `TrueVerdict` hold for every call but those that begin on
  what a call that had given up left. `InSync`: nothing is left by a call that got its answer, and
  a port id is held only by a context or by a socket forgotten on one of two paths (a thread that
  ends, an init that returns -2). `PassMeansNegotiated`. `CallsReturn` and `TestEnds`: every
  call returns and every test ends without its alarm unless a request or an answer is lost.
- `bench` (65 730): two clients with two connections each and `DataSize = 2 * Window + 1`, the
  largest amount that cannot block both sides; one byte more and `BenchEnds` fails. `EchoExact`:
  no byte lost, doubled or delivered to another connection. `Accounted`: a client has counted each
  connection as a success, a failure or a time-out, and the bytes of its successes came back,
  except in at most one connection that a dying server cut short. `StopsAfterConnection`.
- `ktls` (200 556): two threads on two sockets, a key with more than a nonce and one whose nonce
  is a byte too short. `Configured`: success means one key in both directions, whatever the other
  thread sets in between. `OneAttempt`: after a failure with the ULP attached there is no success.
- `metrics` (6 104 336): counters of three bits that wrap, three units of time, three transfers of
  one connection. One slot is enough, as slots share nothing but the sums of `Calculated`.
  `UsageExact`, `PeaksExact`, `ThroughputExact`, `ExportsAgree`. Counters move by at most 2
  between two readings, far less than their range, as 64-bit counters do.
- `system` (246 296): two CPUs, one socket used for up to three connections, the third with the
  4-tuple of the first, rings of two events, every configuration of up to two and every mapping of
  up to three of the lines in `MCCaptureSystem` with a table of two entries. `FilesRead`: what main
  starts with is what the files say, where an entry of a mapping file is a line of two words; the
  `pod=node` lines of one document are none (section 7) and do not disturb the others. `EventsAccounted`, `EventsHandled`, `StopsOnSignal`: no event
  is lost between ring and handler, all are handled and a signal ends the program, although
  its only thread waits for TLSHub in between.

Runs that show a disagreement between the code and what the repository says of it (quotations
are in `PROJECT.json`, "findings"):

- `keyprovider_sendfails`: a failed `sendto` is followed by a `recvfrom` that never returns.
- `capture_twice`: two CPUs sending on one socket both output the connection.
- `api_zero_status`: handshake and fetch in one thread, the documented order: the fetch cannot
  bind its socket and returns status 0, "normal", with a key of zeros.

`CHECK_DEADLOCK FALSE` is given where the system may stop: `loop`, `bench`, `system` and
`metrics` (programs end), `capture` (all connections of the bound used up), and the fault runs of the
key provider (a call that never returns stops the single thread, which is what they show).

## 5. Fairness

- `KeyProvider`: weak fairness of the kernel module's answer to a request (the code
  has no time-out, so it relies on one), of a `recvfrom` with a message to return, and of the
  thread. No call has to be made, no LOG sent, no key expire. A final message is not promised
  to be positive.
- `HandshakeTest`: the same of the kernel module and of every thread id, and weak fairness of a test
  program between its calls. No thread has to call anything, no call has to fail, and the alarm
  need not ring: `TestEnds` does not rest on it.
- `CaptureSystem`: weak fairness of the main thread, of the provider's and client's steps (the same
  thread) and of the kernel module's answer. Nothing of the probes, the traffic or the signal.
- `CaptureLoop`: weak fairness of the main thread, which includes the return of get_key, shown
  by `CallsReturn` of `KeyProvider`; no fairness of events, signals or time.
- `EchoBench`: weak fairness of each process. A time-out is a possible step of a client, never a
  necessary one unless nothing else can happen.

## 6. Proofs

TLAPS proves every safety property of the passing runs, including the two action properties and
the refinement, for every value of the constants that the `ASSUME`s of the modules allow: sets of
any size (finite where something is counted: CPUs in `BpfCapture` and `CaptureSystem`, slots in
`SystemMetrics`), natural numbers as bounds, distinct null values, and for `CaptureSystem` that
the files are sequences of lines, that the caller may choose any of the three modes, and that
every connection has a 4-tuple. Bounds such as `MaxConns` or `MaxGen` are arbitrary in the proofs,
so they are no restriction there. Where a theorem needs more than that, it says so as a hypothesis:

| Theorem | Hypothesis | Why |
|---|---|---|
| `OwnKeyCorrect`, `InSyncCorrect`, `PromiseKept` of `KeyProvider`; `SystemOwnKey` | `~LateLogs`, `MaxLogs < RcvBuf` | without it the code is wrong, see section 7; sends may fail and modes may be switched |
| `ShutdownCorrect`, `SystemShutdown` | `~SwitchModes` | same; `main` never switches |
| `UsageCorrect` | `MaxTicks < Modulus` | counters move by less than a full turn (2^64) between two readings |
| `ReportCorrect` | `InRange`, a state predicate | the running minimum starts at 999999 ms |

Each proof rests on an inductive invariant:

- `KeyProviderProofs`. `TypeInv`: `TypeOK` and `Sessions` (a live session has a key, an expired one
  leaves room for another), without which the bound on generations is not inductive, and `Starting`
  (what an initialisation that waits already has). `SyncInv`: the
  channel is quiet when no function is blocked, and otherwise holds at most one request, or its
  logs and its one answer (`Channel`), whose owner is the 4-tuple of the call (`Links`), and a
  function that has returned a key has returned a current one (`KeyReady`). `FinalInv`, for the
  theorems that hold under all faults (`FinalsMatchedCorrect`, `NegotiationCorrect`): at most one
  INIT or START is under way, or its one final message, and only while its function is blocked.
  `PromiseKept` maps each step to a step or a stutter of `KeyRequest`.
- `BpfCaptureProofs`, `TrackInv`. A sock pointer whose state is not 2 has an output connection only
  while the CPU that output it has still to mark it, and a probe keeps its socket from being freed;
  so when a pointer names another connection without a new `tcp_v4_connect`, its state is 2 and no
  probe is left that saw 1. For shared sockets, outputs and CPUs about to output are counted.
- `CaptureLoopProofs`. `HeldInv`: what `main` holds at each point of set-up and clean-up.
  `CountInv`: a slot is held only while the metrics exist and are enabled, since switching happens
  between events, and a handler starts without one. `MeasureInv` adds what the two clocks show at
  each step of the handler. `Reported`: what the loop of `perf_metrics_calculate_stats` computes is
  the minimum, maximum and sum of what it has visited.
- `HandshakeTestProofs`, `TestInv`. Per thread: unless it is stale, what its queues hold is for the
  call it is in (`Channel`); its port is bound by that call, by its context or by a forgotten socket
  (`Socket`); unless it is stale, its last result is justified by a generation (`Told`); a program
  has negotiated all its past turns that did not begin stale (`Turn`). A step touches one thread
  and the sessions, whose generations only grow.
- `KtlsConfigProofs`, `UlpInv`. Attaching the ULP is a lock that is never released: the call whose
  `TCP_ULP` succeeded owns the socket until it returns, and nobody does after it.
- `EchoBenchProofs`, `BenchInv`. Of each connection: bytes sent are bytes echoed, in the server's
  buffer or in one of the two directions. `Counted`: what a client's counters are at each point,
  and that only the connection a server died in can end early with bytes missing.
- `SystemMetricsProofs`. `SampleInv`: after the first sample the stored counters are those of the last
  reading, also after updates that failed. `TransferInv`: each slot's rate is that of its first
  and last byte. `ExportInv`: what the report and the files read no longer changes.
- `CaptureSystemProofs`. `FilesInv` says what was read; that it is what the files say is an induction
  over their lines. `SystemInv` for `EventsCorrect`: a probe that runs is on a live socket, so what
  it outputs is a connection (`ProbeInv`); the loop stands within the batch it found, and a call
  for a key is made for the event it stands at (`LoopInv`); and the events that wait are counted
  (`Accounted`): an output adds one, a handled event removes one, and freeing a batch renumbers
  the rest, which is a bijection. Every step of the program is a step of `KeyProvider`
  or leaves it alone (`ProviderProjection`), so the program implements `KeyProvider`
  (`ProviderImplemented`) and inherits its theorems, among them `SystemOwnKey`, `SystemShutdown`.

Loops of the code are folds here, and the library's induction theorems cannot be
instantiated. The proofs avoid them: a set of indices for which a claim fails has a
least element (`Least`, from `NatLessThanWellFounded` and `WFMin`), and the recursion behind a fold is
shown to have a solution (`RecursionExists`), so that the fold is the last value of a sequence of
intermediate results, one per line or slot.

Only model-checked: liveness (`CallsReturn`, `ShutsDown`, `TestEnds`, `BenchEnds`,
`StopsAfterConnection`, `EventsHandled`, `StopsOnSignal`), which is out of the prover's reach, and
the three violations.

## 7. Observations without a run

- `perf_metrics_calculate_stats` starts its minimum at 999999 ms: if all samples were longer, the
  minimum would be wrong. `ReportExact` is checked with a sentinel above every duration.
- `main` returns 1 if the last poll was interrupted by the signal that ended the loop
  (`err` is then -EINTR).
- Bench: `tcp_client.c:143` marks a connection whose receive timed out as TIMEOUT,
  `bench_common.c:87` counts such connections apart and `main.c:197` prints
  "Timeout: %d", but `tcp_client.c:298` has overwritten the mark with FAILED: `timeout_connections`
  is always 0 and a time-out is counted as a failure. `Accounted` holds with or without that.
- Bench: an early end of stream counts as a success (`tcp_client.c:158`), possible when the server
  dies. Data larger than the kernel buffers on the way blocks both sides for ever; the client
  accepts up to 10 MB ("must be 1-10485760", `bench/src/main.c:131`).
- Bench: the echo server, idle, does not stop on a signal until the next connection, as `accept`
  is restarted after a handler set with `signal`. `echo_server.c:146` prints "Press Ctrl+C to stop",
  `bench/README.md:90` says "服务器会持续运行，直到按 Ctrl+C 停止", and `test_bench.sh:26` kills
  the idle server and then waits for it. `StopsAfterConnection` is about a busy one.
- A mapping line "127.0.0.1=127.0.0.1" ("# Format: pod_ip=node_ip",
  `docs/LAYER7_INTEGRATION_TEST_CN.md:70-72`) is one word to `sscanf(line, "%s %s", ...)`
  (`pod_mapping.c:41`) and is ignored without a message; the code's own comment says
  "格式：pod_name node_name" (`pod_mapping.c:33`). A file written as the document says yields an
  empty table.
- User API: a receive that fails with -1 in `tlshub_fetch_key` (`tlshub.c:436` tests `!ret`) returns
  status 0 with a key of zeros and leaves its request; the next fetch with that port id may take the
  late answer, the key of another 4-tuple, for its own. A failed `sendto` makes the call
  wait for ever. `tlshub_service_init` that returns -2 (`tlshub.c:260`) neither closes its socket nor
  frees its buffer, so the port id stays taken and every later call of the thread fails at bind;
  `docs/TLSHUB_API_CN.md:660` warns of leaks by repeated inits, but the other paths have none.
- User API: the time-out that `docs/TLSHUB_API_CN.md:668-696` recommends leaves `tlshub_handshake` by
  `longjmp`. The context's socket stays open, with a request under way or an answer unread, and the
  next handshake of the thread ends on the verdict of this one: a caller that follows the advice
  loses `TrueVerdict`. Such callers are not modelled; a call that returns -2 with its request under
  way has the same effect and is (`RecvNothing`).
- A LOG after the final message of a request (`LateLogs`) shifts every later fetch by one answer,
  as `tlshub_fetch_key` takes any message for its own (`tlshub_client.c:234`): a connection gets
  the key of another, and `OwnKey` fails. Whether the kernel module sends such a LOG is unknown.
- `key_provider_set_mode` only assigns `current_mode`; a cleanup after it releases the resources of
  the new mode and keeps those of the old one (`CleanShutdown` fails with `SwitchModes`), although
  `capture/docs/API.md:257` documents it as a switch at run time.
- No probe deletes an entry of `conn_track_map`: if a client socket closes before it has sent
  anything, an accepted connection on the same pointer is captured in its place
  (`OneCapturePerConnect` says how far this goes).
- A connection with the 4-tuple of an earlier one gets the earlier one's key while that lives.
- Events output between the attachment of the probes and `perf_buffer__new` are lost; their
  connections are marked as processed.
- `get_node_by_pod` has no caller: main prints the table and never looks anything up. A comment
  that is indented is read as a mapping of a pod "#".
- `configure_ktls` succeeds at most once per socket and cannot be repeated after a partial
  failure. An IV of 5 to 11 bytes loses all but its salt. The commented-out call in
  `handle_tcp_event` (`main.c:138`) would return without `perf_metrics_connection_end`.
- The CPU figure exceeds 100% when idle and iowait together decrease, as iowait may. It is that of
  the whole machine, and `avg_cpu_usage` is the last sample, while `docs/PERFORMANCE_METRICS_CN.md:27`
  speaks of the program's usage and of an average.
  One call of `perf_metrics_record_data_transfer` never yields a throughput. A wall clock that is
  set back delays the next sample.
- An event that finds its perf ring full is lost and its connection, marked as processed, is never
  offered again; `NotMissed` counts it as output.

## 8. Plan

Done: key provider, probes, event loop and metrics, user API and test programs, bench, KTLS, system
metrics, files, and the composition, with a theorem for each of their safety properties. Next:

1. What the probes promise (`AtMostOnce`, `OneCapturePerConnect`) as theorems of `SystemSpec`, as
   `ProviderImplemented` does for the provider. The probes' steps there are those of `BpfCapture`
   except while nothing is attached, where connections leave no entry: `NotMissed` then holds only
   of connections made while the probes are attached.
2. A bench larger than the buffers: for which sizes both sides block, as a theorem about states
   rather than as liveness.

## 9. Running

    tlc -workers 2 -config MCKeyProvider.cfg MCKeyProvider
    tlapm KeyProviderProofs.tla

Each run's module and configuration are in `PROJECT.json`. The longest runs take two (`metrics`,
`system`) and three minutes (`api`). `tlapm` takes from half a minute to a few minutes for each
proof module.
