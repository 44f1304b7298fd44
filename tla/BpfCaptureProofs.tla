-------------------------- MODULE BpfCaptureProofs --------------------------
(***************************************************************************)
(* Proofs about BpfCapture, for any sockets, CPUs and map, ring and        *)
(* connection bounds, and whichever sockets are shared between threads.    *)
(*                                                                         *)
(* Two facts carry the argument.  A sock pointer in state 1 or 0 has an    *)
(* output connection only while the CPU that output it has not marked it   *)
(* yet, and a probe keeps its socket from being freed: so by the time the  *)
(* pointer names another connection without a new tcp_v4_connect, its      *)
(* state is 2 and no probe is left that saw it in state 1.                 *)
(***************************************************************************)
EXTENDS BpfCapture, FiniteSetTheorems, TLAPS

Running(s) == {c \in CPUs : ptr[c] = s}
AtNew(s) == {c \in CPUs : ptr[c] = s /\ pc[c] = "new"}
AtOutput(s) == {c \in CPUs : ptr[c] = s /\ pc[c] = "output"}

(* Connections are numbered in the order in which they are made, and a     *)
(* number is under one sock pointer at most.  The same holds for the       *)
(* entries of conn_track_map, which is never emptied.                      *)
NumberedAt(s) ==
  /\ sk[s].conn <= nconns /\ entry[s] <= nconns
  /\ conn_track_map[s] = 0 <=> entry[s] = 0
  /\ sk[s].kind # "free" => entry[s] <= sk[s].conn

Numbered ==
  /\ entry \in [Socks -> 0 .. MaxConns] /\ via \in [Conns -> 0 .. MaxConns]
  /\ \A s \in Socks : NumberedAt(s)
  /\ \A s, t \in Socks : sk[s].conn = sk[t].conn /\ sk[s].conn # 0 => s = t
  /\ \A s, t \in Socks : entry[s] = entry[t] /\ entry[s] # 0 => s = t
  /\ \A n \in Conns : Output(n) > 0 => n <= nconns

(* A probe that passed the lookup keeps its socket, and its entry is there *)
(* to stay.  An output connection whose entry does not say so yet is about *)
(* to be marked.                                                           *)
ProbingAt(s) ==
  /\ Running(s) # {} => sk[s].kind # "free" /\ conn_track_map[s] # 0
  /\ sk[s].kind # "free" /\ Output(sk[s].conn) > 0 => conn_track_map[s] = 2 \/ AtOutput(s) # {}

(* A socket that one thread uses at a time.                                *)
Full(s) == conn_track_map[s] = 0 /\ ~HasRoom(conn_track_map, s)
ExclusiveAt(s) ==
  /\ \A c, d \in Running(s) : c = d
  /\ AtNew(s) # {} => conn_track_map[s] = 1
  /\ AtOutput(s) # {} => Output(sk[s].conn) > 0
  /\ sk[s].kind # "free" => Output(sk[s].conn) <= 1
  /\ sk[s].kind \in {"connecting", "open"} =>
       conn_track_map[s] = 1 \/ Output(sk[s].conn) > 0 \/ Full(s)

(* An entry that has been used for one connection is not used for another: *)
(* either that connection is still under the sock pointer, or the entry is *)
(* in state 2 and no probe holds on to it.                                 *)
UsedOnce ==
  /\ \A n \in Conns : Output(n) > 0 => via[n] \in 1 .. n
  /\ \A n, m \in Conns : Output(n) > 0 /\ Output(m) > 0 /\ via[n] = via[m] => n = m
  /\ \A n \in Conns, s \in Socks : Output(n) > 0 /\ via[n] = entry[s] =>
       \/ sk[s].conn = n
       \/ conn_track_map[s] = 2 /\ Running(s) = {}

(* How often the connection under a sock pointer can still be output.      *)
BoundedAt(s) ==
  sk[s].kind # "free" =>
    IF conn_track_map[s] = 2
      THEN Output(sk[s].conn) + Cardinality(AtNew(s)) <= Cardinality(CPUs)
      ELSE Output(sk[s].conn) <= Cardinality(AtOutput(s))

TrackInv ==
  /\ TypeOK
  /\ Numbered
  /\ \A s \in Socks : ProbingAt(s)
  /\ \A s \in Socks \ SharedSocks : ExclusiveAt(s)
  /\ UsedOnce
  /\ \A s \in Socks : BoundedAt(s)
  /\ \A n \in Conns : Output(n) <= Cardinality(CPUs)
----------------------------------------------------------------------------
(* What the definitions above say of a step that leaves the probes alone.  *)
LEMMA SameProbes ==
  ASSUME UNCHANGED <<pc, ptr, events, lost>>
  PROVE  /\ \A s \in Socks : /\ Running(s)' = Running(s) /\ AtNew(s)' = AtNew(s)
                             /\ AtOutput(s)' = AtOutput(s)
         /\ \A n \in Conns : Output(n)' = Output(n)
BY DEF Running, AtNew, AtOutput, Output

LEMMA BasicFacts ==
  ASSUME TrackInv
  PROVE  /\ \A n \in Conns : Output(n) \in Nat
         /\ \A s \in Socks : sk[s].kind # "free" => sk[s].conn \in Conns
         /\ \A c \in CPUs : ptr[c] # NoSock => ptr[c] \in Socks /\ c \in Running(ptr[c])
         /\ \A s \in Socks : AtNew(s) \subseteq Running(s) /\ AtOutput(s) \subseteq Running(s)
         /\ \A s \in Socks : Sending(s) <=> Running(s) # {}
<1>. USE SizeAssumption DEF TrackInv, TypeOK, Conns
<1>1. \A n \in Conns : Output(n) \in Nat
  BY DEF Output
<1>2. \A s \in Socks : sk[s].kind # "free" => sk[s].conn \in Conns
  OBVIOUS
<1>3. \A c \in CPUs : ptr[c] # NoSock => ptr[c] \in Socks /\ c \in Running(ptr[c])
  BY DEF Running
<1>4. \A s \in Socks : AtNew(s) \subseteq Running(s) /\ AtOutput(s) \subseteq Running(s)
  BY DEF Running, AtNew, AtOutput
<1>5. \A s \in Socks : Sending(s) <=> Running(s) # {}
  BY DEF Sending, Running
<1>. QED BY <1>1, <1>2, <1>3, <1>4, <1>5

(* The CPUs that run a probe on one socket are no more than there are.     *)
LEMMA CpuCounts ==
  ASSUME NEW s \in Socks
  PROVE  /\ IsFiniteSet(AtNew(s)) /\ IsFiniteSet(AtOutput(s))
         /\ Cardinality(AtNew(s)) \in Nat /\ Cardinality(AtOutput(s)) \in Nat
         /\ Cardinality(CPUs) \in Nat
         /\ Cardinality(AtNew(s)) + Cardinality(AtOutput(s)) <= Cardinality(CPUs)
<1>1. AtNew(s) \in SUBSET CPUs /\ AtOutput(s) \in SUBSET CPUs /\ AtNew(s) \cap AtOutput(s) = {}
  BY DEF AtNew, AtOutput
<1>2. IsFiniteSet(AtNew(s)) /\ IsFiniteSet(AtOutput(s)) /\ IsFiniteSet(CPUs)
  BY <1>1, CpuAssumption, FS_Subset
<1>3. /\ Cardinality(AtNew(s)) \in Nat /\ Cardinality(AtOutput(s)) \in Nat
      /\ Cardinality(CPUs) \in Nat
  BY <1>2, FS_CardinalityType
<1>4. Cardinality(AtNew(s) \cup AtOutput(s)) = Cardinality(AtNew(s)) + Cardinality(AtOutput(s))
  <2>1. Cardinality(AtNew(s) \cup AtOutput(s))
          = Cardinality(AtNew(s)) + Cardinality(AtOutput(s)) - Cardinality(AtNew(s) \cap AtOutput(s))
    BY <1>2, FS_Union
  <2>. QED BY <1>1, <1>3, <2>1, FS_EmptySet
<1>5. Cardinality(AtNew(s) \cup AtOutput(s)) <= Cardinality(CPUs)
  <2>1. AtNew(s) \cup AtOutput(s) \in SUBSET CPUs
    BY <1>1
  <2>. QED BY <1>2, <2>1, FS_Subset
<1>. QED BY <1>2, <1>3, <1>4, <1>5

(* bpf_map_update_elem: no entry goes away, and a full map stays full.     *)
LEMMA UpdateFacts ==
  ASSUME NEW map \in [Socks -> 0 .. 2], NEW s \in Socks, NEW v \in 1 .. 2, NEW m,
         m = UpdateElem(map, s, v)
  PROVE  /\ m \in [Socks -> 0 .. 2]
         /\ HasRoom(map, s) => m[s] = v
         /\ ~HasRoom(map, s) => m = map /\ map[s] = 0
         /\ \A t \in Socks \ {s} : m[t] = map[t]
         /\ \A t \in Socks : map[t] = 0 /\ ~HasRoom(map, t) => m[t] = 0 /\ ~HasRoom(m, t)
<1>1. CASE ~HasRoom(map, s)
  BY <1>1 DEF UpdateElem, HasRoom
<1>2. CASE HasRoom(map, s)
  <2>1. m = [map EXCEPT ![s] = v]
    BY <1>2 DEF UpdateElem
  <2>2. m \in [Socks -> 0 .. 2] /\ m[s] = v /\ \A t \in Socks \ {s} : m[t] = map[t]
    BY <2>1
  <2>3. ASSUME NEW t \in Socks, map[t] = 0, ~HasRoom(map, t)
        PROVE  m[t] = 0 /\ ~HasRoom(m, t)
    <3>1. map[s] # 0 /\ t # s
      BY <1>2, <2>3 DEF HasRoom
    <3>2. Entries(m) = Entries(map)
      BY <2>2, <3>1 DEF Entries
    <3>. QED BY <2>2, <2>3, <3>1, <3>2 DEF HasRoom
  <2>. QED BY <1>2, <2>2, <2>3
<1>. QED BY <1>1, <1>2

(* A sock pointer that a step has nothing to do with.                      *)
LEMMA OtherSock ==
  ASSUME TrackInv, NEW t \in Socks, sk'[t] = sk[t],
         conn_track_map'[t] = conn_track_map[t], entry'[t] = entry[t],
         nconns \in Nat, nconns' \in Nat, nconns <= nconns',
         Running(t)' = Running(t), AtNew(t)' = AtNew(t), AtOutput(t)' = AtOutput(t),
         \A n \in Conns : n = sk[t].conn => Output(n)' = Output(n),
         Full(t) => Full(t)'
  PROVE  /\ NumberedAt(t)' /\ ProbingAt(t)' /\ BoundedAt(t)'
         /\ t \notin SharedSocks => ExclusiveAt(t)'
<1>0. PICK n : n = sk[t].conn
  OBVIOUS
<1>1. n \in Nat /\ entry[t] \in Nat /\ sk[t].conn \in Nat
  BY <1>0, SizeAssumption DEF TrackInv, TypeOK, Numbered
<1>2. NumberedAt(t)'
  BY <1>1 DEF TrackInv, Numbered, NumberedAt
<1>3. sk[t].kind # "free" => n \in Conns /\ Output(n)' = Output(n)
  BY <1>0, BasicFacts
<1>4. ProbingAt(t)'
  BY <1>0, <1>3 DEF TrackInv, ProbingAt
<1>5. AtOutput(t) # {} => sk[t].kind # "free"
  BY BasicFacts DEF TrackInv, ProbingAt
<1>6. ASSUME t \notin SharedSocks PROVE ExclusiveAt(t)'
  <2>1. ExclusiveAt(t)
    BY <1>6 DEF TrackInv
  <2>. QED BY <1>0, <1>3, <1>5, <2>1 DEF ExclusiveAt
<1>7. BoundedAt(t)'
  BY <1>0, <1>3 DEF TrackInv, BoundedAt
<1>. QED BY <1>2, <1>4, <1>6, <1>7

LEMMA InitTrack == Init => TrackInv
<1>. SUFFICES ASSUME Init PROVE TrackInv
  OBVIOUS
<1>. USE SizeAssumption, SockAssumption DEF Init, Free, Sock, Conns
<1>1. TypeOK
  BY DEF TypeOK, Kinds
<1>2. \A n \in Conns : Output(n) = 0
  BY DEF Output
<1>3. \A s \in Socks : /\ sk[s].kind = "free" /\ sk[s].conn = 0
                       /\ Running(s) = {} /\ AtNew(s) = {} /\ AtOutput(s) = {}
  BY DEF Running, AtNew, AtOutput
<1>4. Numbered
  BY <1>2, <1>3 DEF Numbered, NumberedAt
<1>5. UsedOnce /\ \A s \in Socks : ProbingAt(s) /\ ExclusiveAt(s)
  BY <1>2, <1>3 DEF ProbingAt, UsedOnce, ExclusiveAt
<1>6. \A n \in Conns : Output(n) <= Cardinality(CPUs)
  BY <1>2, CpuAssumption, FS_CardinalityType
<1>7. \A s \in Socks : BoundedAt(s)
  BY <1>3 DEF BoundedAt
<1>. QED BY <1>1, <1>4, <1>5, <1>6, <1>7 DEF TrackInv

(* tcp_v4_connect gives the sock pointer a new connection and, where there *)
(* is room, a new entry in state 1.                                        *)
LEMMA ConnectTrack ==
  ASSUME TrackInv, NEW s \in Socks, kprobe_tcp_v4_connect(s)
  PROVE  TrackInv'
<1>. USE SizeAssumption
<1>0. /\ UNCHANGED <<pc, ptr, ring, events, lost, via, sock_info_map>>
      /\ s \in SharedSocks \/ Running(s) = {}
  BY BasicFacts DEF kprobe_tcp_v4_connect, Connect
<1>1. PICK n : n = nconns + 1 /\ n \in Conns /\ nconns \in Nat /\ nconns' = n
  BY DEF kprobe_tcp_v4_connect, Connect, TrackInv, TypeOK, Conns
<1>2. PICK inet \in BOOLEAN : sk' = [sk EXCEPT ![s] = Sock("connecting", n, inet)]
  BY <1>1 DEF kprobe_tcp_v4_connect, Connect
<1>3. /\ sk' \in [Socks -> [kind : Kinds, conn : 0 .. MaxConns, inet : BOOLEAN]]
      /\ sk'[s].kind = "connecting" /\ sk'[s].conn = n
      /\ \A t \in Socks \ {s} : sk'[t] = sk[t]
  BY <1>1, <1>2 DEF TrackInv, TypeOK, Kinds, Sock, Conns
<1>4. /\ conn_track_map' = UpdateElem(conn_track_map, s, 1) /\ 1 \in 1 .. 2
      /\ conn_track_map \in [Socks -> 0 .. 2] /\ entry \in [Socks -> 0 .. MaxConns]
      /\ entry' = IF HasRoom(conn_track_map, s) THEN [entry EXCEPT ![s] = n] ELSE entry
  BY <1>1 DEF kprobe_tcp_v4_connect, TrackInv, TypeOK, Numbered
<1>5. /\ conn_track_map' \in [Socks -> 0 .. 2]
      /\ \A t \in Socks \ {s} : conn_track_map'[t] = conn_track_map[t]
      /\ \A t \in Socks : Full(t) => Full(t)'
      /\ HasRoom(conn_track_map, s) => conn_track_map'[s] = 1
      /\ ~HasRoom(conn_track_map, s) => conn_track_map'[s] = 0 /\ Full(s)' /\ Running(s) = {}
  <2>1. ~HasRoom(conn_track_map, s) => conn_track_map' = conn_track_map /\ conn_track_map[s] = 0
    BY <1>4, UpdateFacts
  <2>2. Running(s) # {} => conn_track_map[s] # 0
    BY DEF TrackInv, ProbingAt
  <2>. QED BY <1>4, <2>1, <2>2, UpdateFacts DEF Full
<1>6. /\ entry' \in [Socks -> 0 .. MaxConns]
      /\ \A t \in Socks \ {s} : entry'[t] = entry[t]
      /\ entry'[s] = IF HasRoom(conn_track_map, s) THEN n ELSE 0
  <2>1. ~HasRoom(conn_track_map, s) => entry[s] = 0
    BY DEF HasRoom, TrackInv, Numbered, NumberedAt
  <2>. QED BY <1>1, <1>4, <2>1 DEF Conns
<1>7. /\ \A t \in Socks : /\ Running(t)' = Running(t) /\ AtNew(t)' = AtNew(t)
                          /\ AtOutput(t)' = AtOutput(t)
      /\ \A m \in Conns : Output(m)' = Output(m)
  BY <1>0, SameProbes
<1>8. TypeOK'
  <2>1. n \in 0 .. MaxConns /\ n # 0
    BY <1>1 DEF Conns
  <2>2. \A t \in Socks : sk'[t].conn = 0 <=> sk'[t].kind = "free"
    BY <1>3, <2>1 DEF TrackInv, TypeOK
  <2>. QED BY <1>0, <1>1, <1>3, <1>5, <2>1, <2>2 DEF TrackInv, TypeOK
<1>9. /\ \A m \in Conns : Output(m) > 0 => m < n
      /\ \A t \in Socks : sk[t].conn < n /\ entry[t] < n /\ sk[t].conn \in Nat /\ entry[t] \in Nat
  BY <1>1 DEF TrackInv, Numbered, NumberedAt, TypeOK, Conns
<1>10. Output(n) = 0 /\ Output(n)' = 0
  BY <1>1, <1>7, <1>9, BasicFacts DEF Conns
<1>11. ASSUME NEW t \in Socks \ {s}
       PROVE  NumberedAt(t)' /\ ProbingAt(t)' /\ BoundedAt(t)' /\ (t \notin SharedSocks => ExclusiveAt(t)')
  BY <1>1, <1>3, <1>5, <1>6, <1>7, OtherSock DEF Conns
<1>12. NumberedAt(s)' /\ ProbingAt(s)' /\ (s \notin SharedSocks => ExclusiveAt(s)')
  <2>1. NumberedAt(s)'
    BY <1>1, <1>3, <1>5, <1>6 DEF NumberedAt, Conns
  <2>2. ProbingAt(s)'
    BY <1>3, <1>5, <1>7, <1>10 DEF ProbingAt
  <2>3. ASSUME s \notin SharedSocks PROVE ExclusiveAt(s)'
    <3>1. Running(s) = {} /\ AtNew(s) = {} /\ AtOutput(s) = {}
      BY <1>0, <2>3, BasicFacts
    <3>. QED BY <1>3, <1>5, <1>7, <1>10, <3>1 DEF ExclusiveAt
  <2>. QED BY <2>1, <2>2, <2>3
<1>13. Numbered'
  BY <1>0, <1>1, <1>3, <1>6, <1>7, <1>9, <1>11, <1>12 DEF TrackInv, Numbered
<1>14. UsedOnce'
  BY <1>0, <1>1, <1>3, <1>5, <1>6, <1>7, <1>9, BasicFacts DEF TrackInv, UsedOnce, Conns
<1>15. BoundedAt(s)'
  BY <1>1, <1>3, <1>5, <1>7, <1>10, CpuCounts DEF BoundedAt
<1>16. \A m \in Conns : Output(m)' <= Cardinality(CPUs)
  BY <1>7 DEF TrackInv
<1>. QED BY <1>8, <1>11, <1>12, <1>13, <1>14, <1>15, <1>16 DEF TrackInv

(* What the kernel does to a socket without telling a probe.               *)
LEMMA KernelTrack ==
  ASSUME TrackInv, NEW s \in Socks,
         kretprobe_tcp_v4_connect(s) \/ Accept(s) \/ Close(s)
  PROVE  TrackInv'
<1>. USE SizeAssumption
<1>0. UNCHANGED <<conn_track_map, sock_info_map, entry, via, pc, ptr, ring, events, lost>>
  BY DEF kretprobe_tcp_v4_connect, Accept, Close
<1>1. /\ nconns \in Nat /\ nconns' \in 0 .. MaxConns /\ nconns <= nconns'
      /\ sk' \in [Socks -> [kind : Kinds, conn : 0 .. MaxConns, inet : BOOLEAN]]
      /\ \A t \in Socks \ {s} : sk'[t] = sk[t]
      /\ \/ kretprobe_tcp_v4_connect(s) /\ sk[s].kind = "connecting" /\ nconns' = nconns
            /\ sk'[s].kind \in {"open", "unconnected"} /\ sk'[s].conn = sk[s].conn
         \/ Accept(s) /\ sk[s].kind = "free" /\ nconns' = nconns + 1
            /\ sk'[s].kind = "accepted" /\ sk'[s].conn = nconns + 1
         \/ Close(s) /\ sk[s].kind # "free" /\ nconns' = nconns
            /\ sk'[s].kind = "free" /\ sk'[s].conn = 0 /\ Running(s) = {}
  <2>0. /\ nconns \in 0 .. MaxConns
        /\ sk \in [Socks -> [kind : Kinds, conn : 0 .. MaxConns, inet : BOOLEAN]]
    BY DEF TrackInv, TypeOK
  <2>1. CASE kretprobe_tcp_v4_connect(s)
    <3>1. PICK k \in {"open", "unconnected"} : sk' = [sk EXCEPT ![s].kind = k]
      BY <2>1 DEF kretprobe_tcp_v4_connect
    <3>2. PICK r : r = [sk[s] EXCEPT !.kind = k]
      OBVIOUS
    <3>3. /\ r \in [kind : Kinds, conn : 0 .. MaxConns, inet : BOOLEAN]
          /\ r.kind = k /\ r.conn = sk[s].conn
      BY <2>0, <3>2 DEF Kinds
    <3>4. sk' = [sk EXCEPT ![s] = r]
      BY <2>0, <3>1, <3>2
    <3>5. sk[s].kind = "connecting" /\ nconns' = nconns
      BY <2>1 DEF kretprobe_tcp_v4_connect
    <3>. QED BY <2>0, <2>1, <3>3, <3>4, <3>5
  <2>2. CASE Accept(s)
    <3>1. PICK inet \in BOOLEAN : sk' = [sk EXCEPT ![s] = Sock("accepted", nconns + 1, inet)]
      BY <2>2 DEF Accept
    <3>2. nconns' = nconns + 1 /\ nconns + 1 \in 0 .. MaxConns /\ sk[s].kind = "free"
      BY <2>0, <2>2 DEF Accept
    <3>3. PICK r : r = Sock("accepted", nconns + 1, inet)
      OBVIOUS
    <3>4. /\ r \in [kind : Kinds, conn : 0 .. MaxConns, inet : BOOLEAN]
          /\ r.kind = "accepted" /\ r.conn = nconns + 1
      BY <3>2, <3>3 DEF Kinds, Sock
    <3>. QED BY <2>0, <2>2, <3>1, <3>2, <3>3, <3>4
  <2>3. CASE Close(s)
    BY <2>0, <2>3, BasicFacts DEF Close, Kinds, Sock, Free
  <2>. QED BY <2>1, <2>2, <2>3
<1>2. /\ \A t \in Socks : /\ Running(t)' = Running(t) /\ AtNew(t)' = AtNew(t)
                          /\ AtOutput(t)' = AtOutput(t) /\ (Full(t) => Full(t)')
      /\ \A m \in Conns : Output(m)' = Output(m)
  BY <1>0, SameProbes DEF Full
<1>3. TypeOK'
  <2>1. \A t \in Socks \ {s} : sk'[t].conn = 0 <=> sk'[t].kind = "free"
    BY <1>1 DEF TrackInv, TypeOK
  <2>2. sk'[s].conn = 0 <=> sk'[s].kind = "free"
    <3>1. sk[s].conn = 0 <=> sk[s].kind = "free"
      BY DEF TrackInv, TypeOK
    <3>. QED BY <1>1, <3>1
  <2>. QED BY <1>0, <1>1, <2>1, <2>2 DEF TrackInv, TypeOK
<1>4. ASSUME NEW t \in Socks \ {s}
      PROVE  NumberedAt(t)' /\ ProbingAt(t)' /\ BoundedAt(t)' /\ (t \notin SharedSocks => ExclusiveAt(t)')
  BY <1>0, <1>1, <1>2, OtherSock
<1>5. /\ \A m \in Conns : Output(m) > 0 => m <= nconns
      /\ \A t \in Socks : /\ sk[t].conn <= nconns /\ entry[t] <= nconns
                          /\ sk[t].conn \in Nat /\ entry[t] \in Nat
  BY DEF TrackInv, Numbered, NumberedAt, TypeOK
<1>6. NumberedAt(s) /\ ProbingAt(s) /\ (s \notin SharedSocks => ExclusiveAt(s))
  BY DEF TrackInv, Numbered
<1>7. NumberedAt(s)' /\ ProbingAt(s)' /\ (s \notin SharedSocks => ExclusiveAt(s)')
  <2>1. CASE kretprobe_tcp_v4_connect(s)
    <3>1. PICK n : n = sk[s].conn
      OBVIOUS
    <3>2. n \in Conns /\ Output(n)' = Output(n) /\ sk'[s].conn = n
      BY <1>1, <1>2, <2>1, <3>1, BasicFacts DEF kretprobe_tcp_v4_connect, Accept, Close
    <3>3. sk[s].kind = "connecting" /\ sk'[s].kind \in {"open", "unconnected"}
      BY <1>1, <2>1 DEF kretprobe_tcp_v4_connect, Accept, Close
    <3>. QED BY <1>0, <1>1, <1>2, <1>6, <3>1, <3>2, <3>3 DEF NumberedAt, ProbingAt, ExclusiveAt
  <2>2. CASE Accept(s)
    <3>1. sk[s].kind = "free" /\ sk'[s].kind = "accepted" /\ sk'[s].conn = nconns + 1
          /\ nconns' = nconns + 1
      BY <1>1, <2>2 DEF kretprobe_tcp_v4_connect, Accept, Close
    <3>2. Running(s) = {} /\ AtNew(s) = {} /\ AtOutput(s) = {}
      BY <1>6, <3>1, BasicFacts DEF ProbingAt
    <3>3. PICK n \in Conns : n = nconns + 1
      BY <1>1, <3>1 DEF Conns
    <3>4. Output(n)' = 0
      BY <1>1, <1>2, <1>5, <3>3, BasicFacts
    <3>. QED BY <1>0, <1>1, <1>2, <1>5, <1>6, <3>1, <3>2, <3>3, <3>4
             DEF NumberedAt, ProbingAt, ExclusiveAt
  <2>3. CASE Close(s)
    <3>1. sk'[s].kind = "free" /\ sk'[s].conn = 0 /\ Running(s) = {} /\ nconns' = nconns
      BY <1>1, <2>3 DEF kretprobe_tcp_v4_connect, Accept, Close
    <3>2. AtNew(s) = {} /\ AtOutput(s) = {}
      BY <3>1, BasicFacts
    <3>. QED BY <1>0, <1>1, <1>2, <1>6, <3>1, <3>2 DEF NumberedAt, ProbingAt, ExclusiveAt
  <2>. QED BY <2>1, <2>2, <2>3
<1>8. Numbered'
  <2>1. \A t, u \in Socks : sk'[t].conn = sk'[u].conn /\ sk'[t].conn # 0 => t = u
    BY <1>1, <1>5 DEF TrackInv, Numbered
  <2>2. \A m \in Conns : Output(m)' > 0 => m <= nconns'
    BY <1>1, <1>2, <1>5 DEF Conns
  <2>. QED BY <1>0, <1>4, <1>7, <2>1, <2>2 DEF TrackInv, Numbered
<1>9. UsedOnce'
  <2>1. ASSUME NEW n \in Conns, NEW t \in Socks, Output(n) > 0, via[n] = entry[t]
        PROVE  sk'[t].conn = n \/ (conn_track_map[t] = 2 /\ Running(t) = {})
    <3>1. CASE sk[t].conn # n
      BY <2>1, <3>1 DEF TrackInv, UsedOnce
    <3>2. CASE sk[t].conn = n /\ t # s
      BY <1>1, <3>2
    <3>3. CASE sk[t].conn = n /\ t = s
      <4>1. sk[s].kind # "free"
        BY <3>3 DEF TrackInv, TypeOK, Conns
      <4>2. CASE Close(s)
        <5>1. Running(s) = {} /\ AtOutput(s) = {}
          BY <1>1, <4>2, BasicFacts DEF kretprobe_tcp_v4_connect, Accept, Close
        <5>. QED BY <1>6, <2>1, <3>3, <4>1, <5>1 DEF ProbingAt
      <4>. QED BY <1>1, <3>3, <4>1, <4>2
    <3>. QED BY <3>1, <3>2, <3>3
  <2>. QED BY <1>0, <1>2, <2>1 DEF TrackInv, UsedOnce
<1>10. BoundedAt(s)'
  <2>1. CASE sk[s].kind # "free" /\ sk'[s].conn = sk[s].conn
    <3>1. PICK n \in Conns : n = sk[s].conn
      BY <2>1, BasicFacts
    <3>. QED BY <1>0, <1>2, <2>1, <3>1 DEF TrackInv, BoundedAt
  <2>2. CASE sk'[s].kind = "free"
    BY <2>2 DEF BoundedAt
  <2>3. CASE sk'[s].conn = nconns + 1 /\ nconns' = nconns + 1
    <3>1. PICK n \in Conns : n = nconns + 1
      BY <1>1, <2>3 DEF Conns
    <3>2. Output(n)' = 0
      BY <1>1, <1>2, <1>5, <3>1, BasicFacts
    <3>. QED BY <1>2, <2>3, <3>1, <3>2, CpuCounts DEF BoundedAt
  <2>. QED BY <1>1, <2>1, <2>2, <2>3
<1>11. \A m \in Conns : Output(m)' <= Cardinality(CPUs)
  BY <1>2 DEF TrackInv
<1>. QED BY <1>3, <1>4, <1>7, <1>8, <1>9, <1>10, <1>11 DEF TrackInv

(* One CPU's probe moves.                                                  *)
Moves(c) ==
  /\ pc' \in [CPUs -> {"idle", "new", "output"}] /\ ptr' \in [CPUs -> Socks \cup {NoSock}]
  /\ pc'[c] = "idle" <=> ptr'[c] = NoSock
  /\ \A d \in CPUs \ {c} : pc'[d] = pc[d] /\ ptr'[d] = ptr[d]

LEMMA ProbeMoves ==
  ASSUME TypeOK, NEW c \in CPUs, Moves(c), NEW t \in Socks
  PROVE  /\ Running(t)' = IF t = ptr'[c] THEN Running(t) \cup {c} ELSE Running(t) \ {c}
         /\ AtNew(t)' = IF t = ptr'[c] /\ pc'[c] = "new"
                          THEN AtNew(t) \cup {c} ELSE AtNew(t) \ {c}
         /\ AtOutput(t)' = IF t = ptr'[c] /\ pc'[c] = "output"
                             THEN AtOutput(t) \cup {c} ELSE AtOutput(t) \ {c}
BY DEF Moves, Running, AtNew, AtOutput

(* The lookup finds state 1, so what was output under this sock pointer    *)
(* under the same entry, if anything, is about to be marked.               *)
LEMMA LookupTrack ==
  ASSUME TrackInv, NEW c \in CPUs, NEW s \in Socks, LookupElem(c, s)
  PROVE  TrackInv'
<1>. USE SockAssumption
<1>0. UNCHANGED <<sk, nconns, conn_track_map, sock_info_map, entry, via, ring, events, lost>>
  BY DEF LookupElem
<1>1. /\ pc[c] = "idle" /\ sk[s].kind # "free" /\ conn_track_map[s] = 1
      /\ s \in SharedSocks \/ Running(s) = {}
  BY BasicFacts DEF LookupElem
<1>2. /\ pc' \in [CPUs -> {"idle", "new", "output"}] /\ ptr' \in [CPUs -> Socks \cup {NoSock}]
      /\ \A d \in CPUs : pc'[d] = "idle" <=> ptr'[d] = NoSock
      /\ Running(s)' = Running(s) \cup {c} /\ AtNew(s)' = AtNew(s) \cup {c}
      /\ AtOutput(s)' = AtOutput(s)
      /\ \A t \in Socks \ {s} : /\ Running(t)' = Running(t) /\ AtNew(t)' = AtNew(t)
                                /\ AtOutput(t)' = AtOutput(t)
  <2>1. \A t \in Socks : c \notin Running(t) /\ c \notin AtNew(t) /\ c \notin AtOutput(t)
    BY <1>1 DEF TrackInv, TypeOK, Running, AtNew, AtOutput
  <2>2. pc' = [pc EXCEPT ![c] = "new"] /\ ptr' = [ptr EXCEPT ![c] = s]
    BY DEF LookupElem
  <2>3. Moves(c) /\ TypeOK /\ pc'[c] = "new" /\ ptr'[c] = s
    BY <2>2 DEF TrackInv, TypeOK, Moves
  <2>4. /\ \A d \in CPUs : pc'[d] = "idle" <=> ptr'[d] = NoSock
        /\ \A t \in Socks :
             /\ Running(t)' = IF t = s THEN Running(t) \cup {c} ELSE Running(t) \ {c}
             /\ AtNew(t)' = IF t = s THEN AtNew(t) \cup {c} ELSE AtNew(t) \ {c}
             /\ AtOutput(t)' = AtOutput(t) \ {c}
    BY <2>3, ProbeMoves DEF Moves, TypeOK
  <2>5. \A t \in Socks : /\ Running(t) \ {c} = Running(t) /\ AtNew(t) \ {c} = AtNew(t)
                        /\ AtOutput(t) \ {c} = AtOutput(t)
    BY <2>1
  <2>. QED BY <2>3, <2>4, <2>5 DEF Moves
<1>3. /\ \A m \in Conns : Output(m)' = Output(m)
      /\ \A t \in Socks : Full(t) => Full(t)'
  BY <1>0 DEF Output, Full
<1>4. TypeOK'
  BY <1>0, <1>2 DEF TrackInv, TypeOK
<1>5. nconns \in Nat
  BY DEF TrackInv, TypeOK
<1>6. ASSUME NEW t \in Socks \ {s}
      PROVE  NumberedAt(t)' /\ ProbingAt(t)' /\ BoundedAt(t)' /\ (t \notin SharedSocks => ExclusiveAt(t)')
  BY <1>0, <1>2, <1>3, <1>5, OtherSock
<1>7. NumberedAt(s)' /\ ProbingAt(s)' /\ (s \notin SharedSocks => ExclusiveAt(s)')
  <2>1. NumberedAt(s) /\ ProbingAt(s) /\ (s \notin SharedSocks => ExclusiveAt(s))
    BY DEF TrackInv, Numbered
  <2>2. PICK n \in Conns : n = sk[s].conn /\ Output(n)' = Output(n)
    BY <1>1, <1>3, BasicFacts
  <2>. QED BY <1>0, <1>1, <1>2, <2>1, <2>2 DEF NumberedAt, ProbingAt, ExclusiveAt
<1>8. Numbered'
  BY <1>0, <1>3, <1>6, <1>7 DEF TrackInv, Numbered
<1>9. UsedOnce'
  BY <1>0, <1>1, <1>2, <1>3 DEF TrackInv, UsedOnce
<1>10. BoundedAt(s)'
  <2>1. PICK n \in Conns : n = sk[s].conn /\ Output(n)' = Output(n)
    BY <1>1, <1>3, BasicFacts
  <2>. QED BY <1>0, <1>1, <1>2, <2>1 DEF TrackInv, BoundedAt
<1>11. \A m \in Conns : Output(m)' <= Cardinality(CPUs)
  BY <1>3 DEF TrackInv
<1>. QED BY <1>4, <1>6, <1>7, <1>8, <1>9, <1>10, <1>11 DEF TrackInv

(* A probe lets go of its socket: it was not IPv4, or the entry is marked. *)
LEMMA ReleaseTrack ==
  ASSUME TrackInv, NEW c \in CPUs, NotInet(c) \/ MarkProcessed(c)
  PROVE  TrackInv'
<1>. USE SockAssumption
<1>0. /\ UNCHANGED <<sk, nconns, sock_info_map, entry, via, ring, events, lost>>
      /\ pc' = [pc EXCEPT ![c] = "idle"] /\ ptr' = [ptr EXCEPT ![c] = NoSock]
      /\ pc[c] \in {"new", "output"}
  BY DEF NotInet, MarkProcessed
<1>1. PICK s \in Socks : s = ptr[c] /\ c \in Running(s)
  BY <1>0, BasicFacts DEF TrackInv, TypeOK
<1>2. /\ sk[s].kind # "free" /\ conn_track_map[s] \in {1, 2}
      /\ conn_track_map \in [Socks -> 0 .. 2]
  BY <1>1 DEF TrackInv, TypeOK, ProbingAt
<1>3. /\ conn_track_map' \in [Socks -> 0 .. 2]
      /\ \A t \in Socks \ {s} : conn_track_map'[t] = conn_track_map[t]
      /\ \A t \in Socks : Full(t) => Full(t)'
      /\ \/ pc[c] = "new" /\ conn_track_map' = conn_track_map
         \/ pc[c] = "output" /\ conn_track_map'[s] = 2
  <2>1. CASE NotInet(c)
    BY <1>2, <2>1 DEF NotInet, Full
  <2>2. CASE MarkProcessed(c)
    <3>1. conn_track_map' = UpdateElem(conn_track_map, s, 2) /\ 2 \in 1 .. 2
      BY <1>1, <2>2 DEF MarkProcessed
    <3>2. HasRoom(conn_track_map, s) /\ pc[c] = "output"
      BY <1>2, <2>2 DEF HasRoom, MarkProcessed
    <3>. QED BY <1>2, <3>1, <3>2, UpdateFacts DEF Full
  <2>. QED BY <2>1, <2>2
<1>4. /\ pc' \in [CPUs -> {"idle", "new", "output"}] /\ ptr' \in [CPUs -> Socks \cup {NoSock}]
      /\ \A d \in CPUs : pc'[d] = "idle" <=> ptr'[d] = NoSock
      /\ Running(s)' = Running(s) \ {c} /\ AtNew(s)' = AtNew(s) \ {c}
      /\ AtOutput(s)' = AtOutput(s) \ {c}
      /\ pc[c] = "new" => c \notin AtOutput(s)
      /\ pc[c] = "output" => c \notin AtNew(s)
      /\ \A t \in Socks \ {s} : /\ Running(t)' = Running(t) /\ AtNew(t)' = AtNew(t)
                                /\ AtOutput(t)' = AtOutput(t)
  <2>1. \A t \in Socks \ {s} : c \notin Running(t) /\ c \notin AtNew(t) /\ c \notin AtOutput(t)
    BY <1>1 DEF Running, AtNew, AtOutput
  <2>2. /\ pc[c] = "new" => c \notin AtOutput(s)
        /\ pc[c] = "output" => c \notin AtNew(s)
    BY DEF AtOutput, AtNew
  <2>3. Moves(c) /\ TypeOK /\ pc'[c] = "idle" /\ ptr'[c] = NoSock
    BY <1>0 DEF TrackInv, TypeOK, Moves
  <2>4. /\ \A d \in CPUs : pc'[d] = "idle" <=> ptr'[d] = NoSock
        /\ \A t \in Socks : /\ Running(t)' = Running(t) \ {c} /\ AtNew(t)' = AtNew(t) \ {c}
                            /\ AtOutput(t)' = AtOutput(t) \ {c}
    BY <2>3, ProbeMoves DEF Moves, TypeOK
  <2>5. \A t \in Socks \ {s} : /\ Running(t) \ {c} = Running(t) /\ AtNew(t) \ {c} = AtNew(t)
                              /\ AtOutput(t) \ {c} = AtOutput(t)
    BY <2>1
  <2>. QED BY <2>2, <2>3, <2>4, <2>5 DEF Moves
<1>5. \A m \in Conns : Output(m)' = Output(m)
  BY <1>0 DEF Output
<1>6. TypeOK'
  BY <1>0, <1>3, <1>4 DEF TrackInv, TypeOK
<1>7. nconns \in Nat
  BY DEF TrackInv, TypeOK
<1>8. ASSUME NEW t \in Socks \ {s}
      PROVE  NumberedAt(t)' /\ ProbingAt(t)' /\ BoundedAt(t)' /\ (t \notin SharedSocks => ExclusiveAt(t)')
  BY <1>0, <1>3, <1>4, <1>5, <1>7, OtherSock
<1>9. NumberedAt(s)' /\ ProbingAt(s)' /\ (s \notin SharedSocks => ExclusiveAt(s)')
  <2>1. NumberedAt(s) /\ ProbingAt(s) /\ (s \notin SharedSocks => ExclusiveAt(s))
    BY DEF TrackInv, Numbered
  <2>2. PICK n \in Conns : n = sk[s].conn /\ Output(n)' = Output(n)
    BY <1>2, <1>5, BasicFacts
  <2>3. NumberedAt(s)' /\ ProbingAt(s)'
    BY <1>0, <1>2, <1>3, <1>4, <2>1, <2>2 DEF NumberedAt, ProbingAt
  <2>4. ASSUME s \notin SharedSocks PROVE ExclusiveAt(s)'
    <3>1. ExclusiveAt(s)
      BY <2>1, <2>4
    <3>2. AtNew(s)' = {}
      <4>1. \A d \in AtNew(s) : d = c
        BY <1>1, <3>1, BasicFacts DEF ExclusiveAt
      <4>. QED BY <1>4, <4>1
    <3>3. pc[c] = "output" => Output(n) > 0
      BY <1>1, <2>2, <3>1 DEF ExclusiveAt, AtOutput
    <3>. QED BY <1>0, <1>2, <1>3, <1>4, <2>2, <3>1, <3>2, <3>3 DEF ExclusiveAt
  <2>. QED BY <2>3, <2>4
<1>10. Numbered'
  BY <1>0, <1>5, <1>8, <1>9 DEF TrackInv, Numbered
<1>11. UsedOnce'
  <2>1. \A t \in Socks : conn_track_map[t] = 2 /\ Running(t) = {} =>
          conn_track_map'[t] = 2 /\ Running(t)' = {}
    BY <1>1, <1>3, <1>4
  <2>. QED BY <1>0, <1>5, <2>1 DEF TrackInv, UsedOnce
<1>12. BoundedAt(s)'
  <2>1. PICK n \in Conns : n = sk[s].conn /\ Output(n)' = Output(n)
    BY <1>2, <1>5, BasicFacts
  <2>2. BoundedAt(s) /\ Output(n) \in Nat
    BY BasicFacts DEF TrackInv
  <2>3. CASE pc[c] = "new"
    <3>1. AtOutput(s)' = AtOutput(s) /\ conn_track_map'[s] = conn_track_map[s]
      BY <1>3, <1>4, <2>3
    <3>2. Cardinality(AtNew(s)') <= Cardinality(AtNew(s)) /\ Cardinality(AtNew(s)') \in Nat
      <4>1. IsFiniteSet(AtNew(s)) /\ AtNew(s)' \in SUBSET AtNew(s)
        BY <1>4, CpuCounts
      <4>2. IsFiniteSet(AtNew(s)') /\ Cardinality(AtNew(s)') <= Cardinality(AtNew(s))
        BY <4>1, FS_Subset
      <4>. QED BY <4>2, FS_CardinalityType
    <3>. QED BY <1>0, <1>2, <2>1, <2>2, <3>1, <3>2, CpuCounts DEF BoundedAt
  <2>4. CASE pc[c] = "output"
    <3>1. AtNew(s)' = AtNew(s) /\ conn_track_map'[s] = 2
      BY <1>3, <1>4, <2>4
    <3>. QED BY <1>0, <1>2, <2>1, <2>2, <3>1, CpuCounts DEF BoundedAt
  <2>. QED BY <1>0, <2>3, <2>4
<1>13. \A m \in Conns : Output(m)' <= Cardinality(CPUs)
  BY <1>5 DEF TrackInv
<1>. QED BY <1>6, <1>8, <1>9, <1>10, <1>11, <1>12, <1>13 DEF TrackInv

(* What an event does to the sets and counters.                            *)
LEMMA OutputFacts ==
  ASSUME TrackInv, NEW c \in CPUs, PerfEventOutput(c), NEW s, s = ptr[c], NEW n, n = sk[s].conn
  PROVE  /\ s \in Socks /\ n \in Conns /\ c \in AtNew(s) /\ c \in Running(s)
         /\ sk[s].kind # "free" /\ conn_track_map[s] \in {1, 2}
         /\ entry[s] \in 1 .. n
         /\ UNCHANGED <<sk, nconns, conn_track_map, entry, ptr>>
         /\ via' = [via EXCEPT ![n] = entry[s]]
         /\ Output(n)' = Output(n) + 1
         /\ \A m \in Conns \ {n} : Output(m)' = Output(m)
         /\ \A t \in Socks : Running(t)' = Running(t)
         /\ AtNew(s)' = AtNew(s) \ {c} /\ AtOutput(s)' = AtOutput(s) \cup {c}
         /\ \A t \in Socks \ {s} : AtNew(t)' = AtNew(t) /\ AtOutput(t)' = AtOutput(t)
         /\ TypeOK'
<1>. USE SockAssumption, SizeAssumption
<1>0. /\ UNCHANGED <<sk, nconns, conn_track_map, entry, ptr>>
      /\ pc[c] = "new" /\ pc' = [pc EXCEPT ![c] = "output"]
      /\ via' = [via EXCEPT ![n] = entry[s]]
      /\ sock_info_map' = UpdateElem(sock_info_map, s, n)
  BY DEF PerfEventOutput
<1>1. s \in Socks /\ c \in Running(s) /\ c \in AtNew(s)
  BY <1>0, BasicFacts DEF TrackInv, TypeOK, Running, AtNew
<1>2. sk[s].kind # "free" /\ conn_track_map[s] \in {1, 2} /\ n \in Conns
  BY <1>1, BasicFacts DEF TrackInv, TypeOK, ProbingAt
<1>3. entry[s] \in 1 .. n
  BY <1>1, <1>2 DEF TrackInv, Numbered, NumberedAt, Conns
<1>4. /\ Output(n)' = Output(n) + 1
      /\ \A m \in Conns \ {n} : Output(m)' = Output(m)
      /\ events' \in [Conns -> Nat] /\ lost' \in [Conns -> Nat]
      /\ ring' \in [CPUs -> Seq(Conns)]
  <2>0. events \in [Conns -> Nat] /\ lost \in [Conns -> Nat] /\ ring \in [CPUs -> Seq(Conns)]
    BY DEF TrackInv, TypeOK
  <2>1. CASE Len(ring[c]) < RingSize
    <3>1. /\ ring' = [ring EXCEPT ![c] = Append(ring[c], n)]
          /\ events' = [events EXCEPT ![n] = events[n] + 1] /\ lost' = lost
      BY <1>0, <2>1 DEF PerfEventOutput
    <3>2. Append(ring[c], n) \in Seq(Conns)
      BY <1>2, <2>0
    <3>3. ring' \in [CPUs -> Seq(Conns)]
      BY <2>0, <3>1, <3>2
    <3>4. /\ events' \in [Conns -> Nat] /\ events'[n] = events[n] + 1
          /\ \A m \in Conns \ {n} : events'[m] = events[m]
      BY <1>2, <2>0, <3>1
    <3>5. \A m \in Conns : events[m] \in Nat /\ lost[m] \in Nat /\ lost'[m] = lost[m]
      BY <2>0, <3>1
    <3>6. Output(n)' = Output(n) + 1 /\ \A m \in Conns \ {n} : Output(m)' = Output(m)
      BY <1>2, <3>4, <3>5 DEF Output
    <3>. QED BY <2>0, <3>1, <3>3, <3>4, <3>6
  <2>2. CASE ~(Len(ring[c]) < RingSize)
    <3>1. ring' = ring /\ events' = events /\ lost' = [lost EXCEPT ![n] = lost[n] + 1]
      BY <1>0, <2>2 DEF PerfEventOutput
    <3>2. /\ lost' \in [Conns -> Nat] /\ lost'[n] = lost[n] + 1
          /\ \A m \in Conns \ {n} : lost'[m] = lost[m]
      BY <1>2, <2>0, <3>1
    <3>3. \A m \in Conns : events[m] \in Nat /\ lost[m] \in Nat /\ events'[m] = events[m]
      BY <2>0, <3>1
    <3>4. Output(n)' = Output(n) + 1 /\ \A m \in Conns \ {n} : Output(m)' = Output(m)
      BY <1>2, <3>2, <3>3 DEF Output
    <3>. QED BY <2>0, <3>1, <3>2, <3>4
  <2>. QED BY <2>1, <2>2
<1>5. /\ \A d \in CPUs : pc'[d] = "idle" <=> ptr'[d] = NoSock
      /\ pc' \in [CPUs -> {"idle", "new", "output"}]
      /\ \A t \in Socks : Running(t)' = Running(t)
      /\ AtNew(s)' = AtNew(s) \ {c} /\ AtOutput(s)' = AtOutput(s) \cup {c}
      /\ \A t \in Socks \ {s} : AtNew(t)' = AtNew(t) /\ AtOutput(t)' = AtOutput(t)
  <2>1. Moves(c) /\ TypeOK /\ pc'[c] = "output" /\ ptr'[c] = s
    BY <1>0, <1>1 DEF TrackInv, TypeOK, Moves
  <2>2. \A t \in Socks :
          /\ AtNew(t)' = AtNew(t) \ {c}
          /\ AtOutput(t)' = IF t = s THEN AtOutput(t) \cup {c} ELSE AtOutput(t) \ {c}
    BY <2>1, ProbeMoves
  <2>3. \A t \in Socks \ {s} : c \notin AtNew(t) /\ c \notin AtOutput(t)
    BY DEF AtNew, AtOutput
  <2>4. \A t \in Socks \ {s} : AtNew(t) \ {c} = AtNew(t) /\ AtOutput(t) \ {c} = AtOutput(t)
    BY <2>3
  <2>5. \A t \in Socks : Running(t)' = Running(t)
    BY <1>0 DEF Running
  <2>. QED BY <1>1, <2>1, <2>2, <2>4, <2>5 DEF Moves, TypeOK
<1>6. TypeOK'
  <2>1. sock_info_map' \in [Socks -> 0 .. MaxConns]
    BY <1>0, <1>2 DEF TrackInv, TypeOK, UpdateElem, Conns
  <2>. QED BY <1>0, <1>4, <1>5, <2>1 DEF TrackInv, TypeOK
<1>. QED BY <1>0, <1>1, <1>2, <1>3, <1>4, <1>5, <1>6

(* The event is output for the connection now under the sock pointer,      *)
(* through the entry the probe has looked up or a newer one.               *)
LEMMA OutputTrack ==
  ASSUME TrackInv, NEW c \in CPUs, PerfEventOutput(c)
  PROVE  TrackInv'
<1>. USE SizeAssumption
<1>0. PICK s, n : s = ptr[c] /\ n = sk[s].conn
  OBVIOUS
<1>1. /\ s \in Socks /\ n \in Conns /\ c \in AtNew(s) /\ c \in Running(s)
      /\ sk[s].kind # "free" /\ conn_track_map[s] \in {1, 2}
      /\ entry[s] \in 1 .. n
      /\ UNCHANGED <<sk, nconns, conn_track_map, entry, ptr>>
      /\ via' = [via EXCEPT ![n] = entry[s]]
      /\ Output(n)' = Output(n) + 1
      /\ \A m \in Conns \ {n} : Output(m)' = Output(m)
      /\ \A t \in Socks : Running(t)' = Running(t)
      /\ AtNew(s)' = AtNew(s) \ {c} /\ AtOutput(s)' = AtOutput(s) \cup {c}
      /\ \A t \in Socks \ {s} : AtNew(t)' = AtNew(t) /\ AtOutput(t)' = AtOutput(t)
      /\ TypeOK'
  BY <1>0, OutputFacts
<1>2. /\ \A t \in Socks \ {s} : sk[t].conn # n
      /\ \A t \in Socks : Full(t) => Full(t)'
      /\ nconns \in Nat /\ Output(n) \in Nat
      /\ via' \in [Conns -> 0 .. MaxConns] /\ via'[n] = entry[s]
      /\ \A m \in Conns \ {n} : via'[m] = via[m]
  <2>1. \A t \in Socks \ {s} : sk[t].conn # n
    BY <1>0, <1>1 DEF TrackInv, Numbered, Conns
  <2>2. via' \in [Conns -> 0 .. MaxConns] /\ via'[n] = entry[s]
        /\ \A m \in Conns \ {n} : via'[m] = via[m]
    BY <1>1 DEF TrackInv, Numbered
  <2>3. nconns \in Nat /\ Output(n) \in Nat
    <3>1. Output(n) \in Nat
      BY <1>1, BasicFacts
    <3>. QED BY <3>1 DEF TrackInv, TypeOK
  <2>4. \A t \in Socks : Full(t) => Full(t)'
    BY <1>1 DEF Full
  <2>. QED BY <2>1, <2>2, <2>3, <2>4
<1>3. ASSUME NEW t \in Socks \ {s}
      PROVE  NumberedAt(t)' /\ ProbingAt(t)' /\ BoundedAt(t)' /\ (t \notin SharedSocks => ExclusiveAt(t)')
  BY <1>1, <1>2, OtherSock
<1>4. NumberedAt(s)' /\ ProbingAt(s)' /\ (s \notin SharedSocks => ExclusiveAt(s)')
  <2>1. NumberedAt(s) /\ ProbingAt(s) /\ (s \notin SharedSocks => ExclusiveAt(s))
    BY <1>1 DEF TrackInv, Numbered
  <2>2. NumberedAt(s)' /\ ProbingAt(s)'
    BY <1>1, <2>1 DEF NumberedAt, ProbingAt
  <2>3. ASSUME s \notin SharedSocks PROVE ExclusiveAt(s)'
    <3>1. ExclusiveAt(s) /\ conn_track_map[s] = 1
      BY <1>1, <2>1, <2>3 DEF ExclusiveAt
    <3>2. AtOutput(s) = {}
      <4>1. \A d \in AtOutput(s) : d = c /\ pc[d] = "output"
        BY <1>1, <3>1, BasicFacts DEF ExclusiveAt, AtOutput
      <4>2. pc[c] = "new"
        BY <1>1 DEF AtNew
      <4>. QED BY <4>1, <4>2
    <3>3. Output(n) = 0
      BY <1>0, <1>1, <1>2, <2>1, <3>1, <3>2 DEF ProbingAt
    <3>. QED BY <1>0, <1>1, <1>2, <3>1, <3>3 DEF ExclusiveAt
  <2>. QED BY <2>2, <2>3
<1>5. Numbered'
  <2>1. \A m \in Conns : Output(m)' > 0 => m <= nconns
    BY <1>0, <1>1 DEF TrackInv, Numbered, NumberedAt
  <2>. QED BY <1>1, <1>2, <1>3, <1>4, <2>1 DEF TrackInv, Numbered
<1>6. UsedOnce'
  <2>1. \A m \in Conns \ {n} : Output(m) > 0 => via[m] # entry[s]
    BY <1>0, <1>1 DEF TrackInv, UsedOnce
  <2>2. \A t \in Socks : entry[t] = entry[s] => t = s
    BY <1>1 DEF TrackInv, Numbered
  <2>. QED BY <1>0, <1>1, <1>2, <2>1, <2>2 DEF TrackInv, UsedOnce
<1>7. BoundedAt(s)' /\ Output(n)' <= Cardinality(CPUs)
  <2>1. c \notin AtOutput(s) /\ BoundedAt(s)
    BY <1>1 DEF AtNew, AtOutput, TrackInv
  <2>2. Cardinality(AtNew(s)') = Cardinality(AtNew(s)) - 1
    BY <1>1, CpuCounts, FS_RemoveElement
  <2>3. Cardinality(AtOutput(s)') = Cardinality(AtOutput(s)) + 1
    BY <1>1, <2>1, CpuCounts, FS_AddElement
  <2>4. Cardinality(AtNew(s)) >= 1
    BY <1>1, CpuCounts, FS_EmptySet
  <2>. QED BY <1>0, <1>1, <1>2, <2>1, <2>2, <2>3, <2>4, CpuCounts DEF BoundedAt
<1>8. \A m \in Conns : Output(m)' <= Cardinality(CPUs)
  BY <1>1, <1>7 DEF TrackInv
<1>. QED BY <1>1, <1>3, <1>4, <1>5, <1>6, <1>7, <1>8 DEF TrackInv

(* Reading the rings changes nothing else.                                 *)
RingsOnly ==
  /\ ring' \in [CPUs -> Seq(Conns)]
  /\ UNCHANGED <<sk, nconns, conn_track_map, sock_info_map, entry, via, pc, ptr, events, lost>>

LEMMA RingsTrack ==
  ASSUME TrackInv, RingsOnly
  PROVE  TrackInv'
<1>1. /\ \A s \in Socks : /\ Running(s)' = Running(s) /\ AtNew(s)' = AtNew(s)
                          /\ AtOutput(s)' = AtOutput(s)
      /\ \A m \in Conns : Output(m)' = Output(m)
  BY SameProbes DEF RingsOnly
<1>2. nconns \in Nat /\ \A s \in Socks : Full(s) => Full(s)'
  BY SizeAssumption DEF TrackInv, TypeOK, Full, RingsOnly
<1>3. ASSUME NEW s \in Socks
      PROVE  NumberedAt(s)' /\ ProbingAt(s)' /\ BoundedAt(s)' /\ (s \notin SharedSocks => ExclusiveAt(s)')
  BY <1>1, <1>2, OtherSock DEF RingsOnly
<1>4. TypeOK'
  BY DEF TrackInv, TypeOK, RingsOnly
<1>5. Numbered'
  BY <1>1, <1>3 DEF TrackInv, Numbered, RingsOnly
<1>6. UsedOnce'
  BY <1>1 DEF TrackInv, UsedOnce, RingsOnly
<1>7. \A m \in Conns : Output(m)' <= Cardinality(CPUs)
  BY <1>1 DEF TrackInv
<1>. QED BY <1>3, <1>4, <1>5, <1>6, <1>7 DEF TrackInv

LEMMA PollTrack ==
  ASSUME TrackInv, NEW c \in CPUs, NEW n \in 1 .. RingSize, Poll(c, n)
  PROVE  TrackInv'
<1>1. /\ UNCHANGED <<sk, nconns, conn_track_map, sock_info_map, entry, via, pc, ptr, events, lost>>
      /\ n \in 1 .. Len(ring[c])
      /\ ring' = [ring EXCEPT ![c] = SubSeq(ring[c], n + 1, Len(ring[c]))]
  BY DEF Poll
<1>2. ring \in [CPUs -> Seq(Conns)]
  BY DEF TrackInv, TypeOK
<1>3. PICK q \in Seq(Conns) : q = ring[c]
  BY <1>2
<1>4. SubSeq(q, n + 1, Len(q)) \in Seq(Conns)
  BY <1>1, <1>3
<1>5. ring' \in [CPUs -> Seq(Conns)]
  BY <1>1, <1>2, <1>3, <1>4
<1>. QED BY <1>1, <1>5, RingsTrack DEF RingsOnly

(* TrackInv is an invariant.                                               *)
LEMMA TrackInvariant == Spec => []TrackInv
<1>1. TrackInv /\ UNCHANGED vars => TrackInv'
  <2>. SUFFICES ASSUME TrackInv, UNCHANGED vars PROVE TrackInv'
    OBVIOUS
  <2>1. ring' \in [CPUs -> Seq(Conns)]
    BY DEF vars, TrackInv, TypeOK
  <2>. QED BY <2>1, RingsTrack DEF RingsOnly, vars
<1>2. TrackInv /\ [Next]_vars => TrackInv'
  BY <1>1, ConnectTrack, KernelTrack, LookupTrack, ReleaseTrack, OutputTrack, PollTrack DEF Next
<1>. QED BY <1>2, InitTrack, PTL DEF Spec

(* Every variable keeps its type; a CPU is on a sock exactly while its     *)
(* probe runs, and a sock pointer without a connection is free.            *)
THEOREM TypeCorrect == Spec => []TypeOK
BY TrackInvariant, PTL DEF TrackInv

(* A connection whose socket one thread uses at a time is output at most   *)
(* once, and any other at most once per CPU, however many CPUs there are   *)
(* and however often sock pointers are used again.                         *)
THEOREM AtMostOnceCorrect == Spec => []AtMostOnce
<1>1. TrackInv => AtMostOnce
  BY DEF TrackInv, ExclusiveAt, AtMostOnce
<1>. QED BY <1>1, TrackInvariant, PTL

(* A connected IPv4 client socket that one thread uses at a time is        *)
(* waiting for its first send, has been output, or found the map full.     *)
THEOREM NotMissedCorrect == Spec => []NotMissed
<1>1. TrackInv => NotMissed
  BY DEF TrackInv, ExclusiveAt, Full, NotMissed
<1>. QED BY <1>1, TrackInvariant, PTL

(* Every captured connection was captured through the entry of some        *)
(* tcp_v4_connect that was not used for another one, shared socket or not. *)
THEOREM OneCaptureCorrect == Spec => []OneCapturePerConnect
<1>1. TrackInv => OneCapturePerConnect
  BY DEF TrackInv, UsedOnce, OneCapturePerConnect
<1>. QED BY <1>1, TrackInvariant, PTL
============================================================================
