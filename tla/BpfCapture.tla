----------------------------- MODULE BpfCapture -----------------------------
(***************************************************************************)
(* capture/src/capture.bpf.c: the kprobes that capture new TCP connections *)
(* and hand them to user space.                                            *)
(*                                                                         *)
(* A probe runs on one CPU without being preempted there, and the other    *)
(* CPUs run meanwhile, so kprobe_tcp_sendmsg is split where another CPU    *)
(* can change what it depends on: the lookup, the event, the update.  A    *)
(* connection is named by a number, which stands for its 4-tuple; a sock   *)
(* pointer names a connection only while the kernel keeps the socket.      *)
(***************************************************************************)
EXTENDS Integers, Sequences, FiniteSets

CONSTANTS Socks,       \* sock pointers the kernel allocates from
          CPUs,
          NoSock,      \* not a sock pointer
          MaxEntries,  \* max_entries of the hash maps (10240 in the source)
          RingSize,    \* events one CPU's perf ring can hold
          SharedSocks, \* sockets that several threads use at the same time
          MaxConns     \* bound: connections opened or accepted

ASSUME SockAssumption == NoSock \notin Socks /\ SharedSocks \subseteq Socks
ASSUME SizeAssumption == MaxEntries \in Nat /\ RingSize \in Nat /\ MaxConns \in Nat
ASSUME CpuAssumption == IsFiniteSet(CPUs)

VARIABLES sk,              \* what the kernel keeps under each sock pointer
          nconns,          \* connections so far
          conn_track_map,  \* state of each sock pointer; 0: no entry
          sock_info_map,   \* connection recorded for it; 0: no entry
          pc, ptr,         \* where each CPU's tcp_sendmsg probe stands, on which sock
          ring,            \* perf ring of each CPU: events not yet read
          events,          \* history: events output for each connection
          lost,            \* history: events that found the ring full
          entry, via       \* history: the connection that made each sock's entry in
                           \* conn_track_map, and the one whose entry a captured one used

vars == <<sk, nconns, conn_track_map, sock_info_map, pc, ptr, ring, events, lost, entry, via>>

Conns == 1 .. MaxConns

(* "open" has a 4-tuple; "connecting" is inside tcp_v4_connect, which sets *)
(* it; after a failed tcp_v4_connect the socket is "unconnected".  inet: a *)
(* socket of family AF_INET, not an AF_INET6 one with a mapped address.    *)
Kinds == {"free", "connecting", "open", "unconnected", "accepted"}
Sock(kind, conn, inet) == [kind |-> kind, conn |-> conn, inet |-> inet]
Free == Sock("free", 0, TRUE)

Init ==
  /\ sk = [s \in Socks |-> Free]
  /\ nconns = 0
  /\ conn_track_map = [s \in Socks |-> 0]
  /\ sock_info_map = [s \in Socks |-> 0]
  /\ pc = [c \in CPUs |-> "idle"]
  /\ ptr = [c \in CPUs |-> NoSock]
  /\ ring = [c \in CPUs |-> <<>>]
  /\ events = [n \in Conns |-> 0]
  /\ lost = [n \in Conns |-> 0]
  /\ entry = [s \in Socks |-> 0]
  /\ via = [n \in Conns |-> 0]

(* bpf_map_update_elem with BPF_ANY: a new key needs a free entry.  Its    *)
(* result is ignored everywhere.                                           *)
Entries(map) == {s \in Socks : map[s] # 0}
HasRoom(map, s) == map[s] # 0 \/ Cardinality(Entries(map)) < MaxEntries
UpdateElem(map, s, v) == IF HasRoom(map, s) THEN [map EXCEPT ![s] = v] ELSE map

(* A thread is in the tcp_sendmsg probe for s.                             *)
Sending(s) == \E c \in CPUs : ptr[c] = s
----------------------------------------------------------------------------
(* A thread enters the kernel's tcp_v4_connect with a fresh socket, or one *)
(* whose earlier attempt failed.                                           *)
Connect(s) ==
  /\ sk[s].kind \in {"free", "unconnected"}
  /\ s \in SharedSocks \/ ~Sending(s)
  /\ nconns < MaxConns
  /\ nconns' = nconns + 1
  /\ \E inet \in BOOLEAN :
       /\ sk[s].kind = "unconnected" => inet = sk[s].inet
       /\ sk' = [sk EXCEPT ![s] = Sock("connecting", nconns + 1, inet)]

(* Mutated form: the update does not replace an old entry (BPF_NOEXIST).   *)
kprobe_tcp_v4_connect_NoExist(s) ==
  /\ Connect(s)
  /\ conn_track_map' = IF conn_track_map[s] = 0
                         THEN UpdateElem(conn_track_map, s, 1) ELSE conn_track_map
  /\ entry' = IF conn_track_map'[s] = conn_track_map[s] THEN entry
               ELSE [entry EXCEPT ![s] = nconns + 1]
  /\ UNCHANGED <<sock_info_map, via, pc, ptr, ring, events, lost>>

kprobe_tcp_v4_connect(s) ==
  /\ Connect(s)
  /\ conn_track_map' = UpdateElem(conn_track_map, s, 1)
  /\ entry' = IF HasRoom(conn_track_map, s) THEN [entry EXCEPT ![s] = nconns + 1] ELSE entry
  /\ UNCHANGED <<sock_info_map, via, pc, ptr, ring, events, lost>>

(* kretprobe_tcp_v4_connect only logs, whether or not connect failed.      *)
kretprobe_tcp_v4_connect(s) ==
  /\ sk[s].kind = "connecting"
  /\ \E kind \in {"open", "unconnected"} : sk' = [sk EXCEPT ![s].kind = kind]
  /\ UNCHANGED <<nconns, conn_track_map, sock_info_map, entry, via, pc, ptr, ring, events, lost>>

(* The kernel accepts a connection, or frees a socket nobody uses.  No     *)
(* probe sees either.                                                      *)
Accept(s) ==
  /\ sk[s].kind = "free"
  /\ nconns < MaxConns
  /\ nconns' = nconns + 1
  /\ \E inet \in BOOLEAN : sk' = [sk EXCEPT ![s] = Sock("accepted", nconns + 1, inet)]
  /\ UNCHANGED <<conn_track_map, sock_info_map, entry, via, pc, ptr, ring, events, lost>>

Close(s) ==
  /\ sk[s].kind \notin {"free", "connecting"}
  /\ ~Sending(s)
  /\ sk' = [sk EXCEPT ![s] = Free]
  /\ UNCHANGED <<nconns, conn_track_map, sock_info_map, entry, via, pc, ptr, ring, events, lost>>
----------------------------------------------------------------------------
(* kprobe_tcp_sendmsg.  A send on a sock pointer without an entry, or not  *)
(* in state 1, returns at once and changes nothing.                        *)

LookupElem(c, s) ==
  /\ pc[c] = "idle"
  /\ sk[s].kind # "free"
  /\ s \in SharedSocks \/ (sk[s].kind # "connecting" /\ ~Sending(s))
  /\ conn_track_map[s] = 1
  /\ pc' = [pc EXCEPT ![c] = "new"]
  /\ ptr' = [ptr EXCEPT ![c] = s]
  /\ UNCHANGED <<sk, nconns, conn_track_map, sock_info_map, entry, via, ring, events, lost>>

(* The 4-tuple is read from the socket, recorded and output as an event.   *)
PerfEventOutput(c) ==
  LET s == ptr[c]
      conn == sk[s].conn
  IN
  /\ pc[c] = "new"
  /\ sk[s].inet
  /\ sock_info_map' = UpdateElem(sock_info_map, s, conn)
  /\ IF Len(ring[c]) < RingSize
       THEN /\ ring' = [ring EXCEPT ![c] = Append(@, conn)]
            /\ events' = [events EXCEPT ![conn] = @ + 1]
            /\ UNCHANGED lost
       ELSE /\ lost' = [lost EXCEPT ![conn] = @ + 1]
            /\ UNCHANGED <<ring, events>>
  /\ via' = [via EXCEPT ![conn] = entry[s]]
  /\ pc' = [pc EXCEPT ![c] = "output"]
  /\ UNCHANGED <<sk, nconns, conn_track_map, entry, ptr>>

(* Not IPv4: the probe returns and leaves the state at 1.                  *)
NotInet(c) ==
  /\ pc[c] = "new"
  /\ ~sk[ptr[c]].inet
  /\ pc' = [pc EXCEPT ![c] = "idle"]
  /\ ptr' = [ptr EXCEPT ![c] = NoSock]
  /\ UNCHANGED <<sk, nconns, conn_track_map, sock_info_map, entry, via, ring, events, lost>>

(* Mutated form: the state is left at 1.                                   *)
MarkProcessedNever(c) ==
  /\ pc[c] = "output"
  /\ pc' = [pc EXCEPT ![c] = "idle"]
  /\ ptr' = [ptr EXCEPT ![c] = NoSock]
  /\ UNCHANGED <<sk, nconns, conn_track_map, sock_info_map, entry, via, ring, events, lost>>

(* Mutated form: the state found in the map is stepped on to the next one  *)
(* instead of being set to 2.                                              *)
MarkProcessedNext(c) ==
  /\ pc[c] = "output"
  /\ conn_track_map' = UpdateElem(conn_track_map, ptr[c], conn_track_map[ptr[c]] + 1)
  /\ pc' = [pc EXCEPT ![c] = "idle"]
  /\ ptr' = [ptr EXCEPT ![c] = NoSock]
  /\ UNCHANGED <<sk, nconns, sock_info_map, entry, via, ring, events, lost>>

MarkProcessed(c) ==
  /\ pc[c] = "output"
  /\ conn_track_map' = UpdateElem(conn_track_map, ptr[c], 2)
  /\ pc' = [pc EXCEPT ![c] = "idle"]
  /\ ptr' = [ptr EXCEPT ![c] = NoSock]
  /\ UNCHANGED <<sk, nconns, sock_info_map, entry, via, ring, events, lost>>

(* perf_buffer__poll has had the first n events of a ring handled.         *)
Poll(c, n) ==
  /\ n \in 1 .. Len(ring[c])
  /\ ring' = [ring EXCEPT ![c] = SubSeq(@, n + 1, Len(@))]
  /\ UNCHANGED <<sk, nconns, conn_track_map, sock_info_map, entry, via, pc, ptr, events, lost>>
----------------------------------------------------------------------------
Next ==
  \/ \E s \in Socks : \/ kprobe_tcp_v4_connect(s)
                      \/ kretprobe_tcp_v4_connect(s)
                      \/ Accept(s)
                      \/ Close(s)
  \/ \E c \in CPUs : \/ \E s \in Socks : LookupElem(c, s)
                     \/ PerfEventOutput(c)
                     \/ NotInet(c)
                     \/ MarkProcessed(c)
                     \/ \E n \in 1 .. RingSize : Poll(c, n)

Spec == Init /\ [][Next]_vars
----------------------------------------------------------------------------
(* Every variable has its type; the map holds no state but 1 and 2, also    *)
(* when two CPUs mark one sock; a sock pointer is free exactly when it has  *)
(* no connection, and a CPU is on a sock exactly while its probe runs.      *)
TypeOK ==
  /\ sk \in [Socks -> [kind : Kinds, conn : 0 .. MaxConns, inet : BOOLEAN]]
  /\ \A s \in Socks : sk[s].conn = 0 <=> sk[s].kind = "free"
  /\ nconns \in 0 .. MaxConns
  /\ conn_track_map \in [Socks -> 0 .. 2]
  /\ sock_info_map \in [Socks -> 0 .. MaxConns]
  /\ pc \in [CPUs -> {"idle", "new", "output"}]
  /\ ptr \in [CPUs -> Socks \cup {NoSock}]
  /\ \A c \in CPUs : pc[c] = "idle" <=> ptr[c] = NoSock
  /\ ring \in [CPUs -> Seq(Conns)]
  /\ events \in [Conns -> Nat] /\ lost \in [Conns -> Nat]

Output(n) == events[n] + lost[n]

(* The state mark keeps kprobe_tcp_sendmsg from handling a connection       *)
(* twice.                                                                   *)
NeverTwice == \A n \in Conns : Output(n) <= 1

(* A connection whose socket one thread uses at a time is output at most    *)
(* once.  Threads that send on one socket at the same time may output it    *)
(* once per CPU, never more: the first one to finish stops all later ones.  *)
AtMostOnce ==
  /\ \A s \in Socks \ SharedSocks : sk[s].kind # "free" => Output(sk[s].conn) <= 1
  /\ \A n \in Conns : Output(n) <= Cardinality(CPUs)

(* A connected IPv4 client socket that one thread uses at a time is still   *)
(* waiting for its first send, or has been output, or found the map full.   *)
NotMissed ==
  \A s \in Socks \ SharedSocks :
    sk[s].kind = "open" /\ sk[s].inet =>
      \/ conn_track_map[s] = 1
      \/ Output(sk[s].conn) > 0
      \/ conn_track_map[s] = 0 /\ ~HasRoom(conn_track_map, s)

(* Every captured connection was captured through the entry that some       *)
(* tcp_v4_connect made, and no two of them through the same one.  Entries   *)
(* outlive their connection, so a sock pointer that is used again may have  *)
(* another connection captured, an accepted one too, but only in place of   *)
(* the one that was opened and sent nothing.                                *)
OneCapturePerConnect ==
  \A n \in Conns : Output(n) > 0 =>
    /\ via[n] \in 1 .. n
    /\ \A m \in Conns : Output(m) > 0 /\ via[m] = via[n] => m = n
============================================================================
