------------------------ MODULE HandshakeTestProofs ------------------------
(***************************************************************************)
(* Proofs about HandshakeTest, and so about TlshubApi, for every number of *)
(* threads, programs, 4-tuples, keys and logs, and whichever threads run   *)
(* out of sockets and memory, lose requests and answers, or end.  A step   *)
(* of the user API, of the kernel module or of a program is about one      *)
(* thread, and what the other threads rely on can only be disturbed        *)
(* through the sessions, whose generations only grow.                      *)
(***************************************************************************)
EXTENDS HandshakeTest, TLAPS

USE DEF vars, callVars, socketVars, kernelVars, history, testVars, allVars

Requests == [op : {"INIT"}, tuple : {NoTuple}] \cup [op : {"START", "FETCH"}, tuple : Tuples]
Outs == [fn : {"none", "handshake", "fetch"}, tuple : Tuples \cup {NoTuple},
         since : Nat, status : {0, -1, -2, 1}, key : Keys]
Tries == [tuple : Tuples, stale : BOOLEAN]
Progs == {"none"} \cup Running \cup Ended

(* What TLSHub knows of a 4-tuple agrees with the number of its keys.      *)
Kernel ==
  /\ session \in [Tuples -> {"none", "live", "expired"}]
  /\ gen \in [Tuples -> 0 .. MaxGen]
  /\ \A u \in Tuples :
       /\ session[u] = "none" => gen[u] = 0
       /\ session[u] = "live" => gen[u] > 0
       /\ session[u] = "expired" => gen[u] < MaxGen

(* The per-thread variables are functions.                                 *)
Arrays ==
  /\ requests \in [Tids -> Seq(Requests)]
  /\ rx \in [Tids -> Seq(Message)]
  /\ out \in [Tids -> Outs]
  /\ fn \in [Tids -> {"none", "init", "handshake", "fetch"}]
  /\ req \in [Tids -> Tuples \cup {NoTuple}]
  /\ since \in [Tids -> Nat]
  /\ ctx \in [Tids -> {"none", "open", "ready"}]
  /\ bound \in [Tids -> BOOLEAN]
  /\ prog \in [Tids -> Progs]
  /\ tried \in [Tids -> Seq(Tries)]
  /\ left \subseteq Tids /\ stale \subseteq Tids /\ lost \subseteq Tids

(* r is what the function that t runs has asked TLSHub for, m what ends it. *)
Asks(t, r) ==
  \/ fn[t] = "init" /\ r.op = "INIT"
  \/ fn[t] = "handshake" /\ r.op = "START" /\ r.tuple = req[t]
  \/ fn[t] = "fetch" /\ r.op = "FETCH" /\ r.tuple = req[t]

OwnFresh(u, s, key) == key[1] = u /\ key[2] >= s /\ key[2] <= gen[u]

Ends(t, m) ==
  \/ fn[t] = "init" /\ m.type = "INIT_COMPLETE"
  \/ /\ fn[t] = "handshake"
     /\ m.type \in HandshakeOk \cup {"FAILED"}
     /\ m.type \in HandshakeOk => gen[req[t]] > 0
  \/ /\ fn[t] = "fetch"
     /\ m.type = "KEY"
     /\ m.status = 0 => OwnFresh(req[t], since[t], m.key)

(* The request is on its way or lost, or its answer is on its way, behind  *)
(* nothing but logs.                                                       *)
Waiting(t) ==
  /\ requests[t] = <<>> \/ (Len(requests[t]) = 1 /\ Asks(t, requests[t][1]))
  /\ \A i \in 1 .. Len(rx[t]) : rx[t][i].type = "LOG"
  /\ fn[t] = "fetch" => rx[t] = <<>>

Answered(t) ==
  /\ requests[t] = <<>>
  /\ Len(rx[t]) > 0 /\ Ends(t, rx[t][Len(rx[t])])
  /\ \A i \in 1 .. Len(rx[t]) : i < Len(rx[t]) => rx[t][i].type = "LOG"
  /\ fn[t] = "fetch" => Len(rx[t]) = 1

(* Unless a call on this port id has given up and left something.          *)
Channel(t) ==
  t \notin stale =>
    /\ fn[t] = "none" => rx[t] = <<>> /\ requests[t] = <<>>
    /\ fn[t] # "none" => Waiting(t) \/ Answered(t)

(* Who holds the port id of t.                                             *)
Socket(t) ==
  /\ ctx[t] # "none" => bound[t]
  /\ fn[t] = "none" /\ bound[t] => ctx[t] # "none" \/ t \in left
  /\ fn[t] # "none" => bound[t]
  /\ fn[t] = "handshake" => ctx[t] # "none"
  /\ fn[t] \in {"init", "fetch"} => ctx[t] = "none"
  /\ prog[t] \in Ended => fn[t] = "none" /\ ~bound[t]

(* What the thread asks for and what it was told.                          *)
Good(o) ==
  /\ o.fn = "fetch" /\ o.status = 0 /\ o.key # ZeroKey =>
       o.tuple \in Tuples /\ OwnFresh(o.tuple, o.since, o.key)
  /\ o.fn = "handshake" /\ o.status = 0 => o.tuple \in Tuples /\ gen[o.tuple] > 0

Told(t) ==
  /\ req[t] # NoTuple <=> fn[t] \in {"handshake", "fetch"}
  /\ req[t] # NoTuple => since[t] <= gen[req[t]]
  /\ t \notin stale => Good(out[t])

(* The handshakes of a program, but for the one under way and those that   *)
(* began stale, have succeeded.                                            *)
Negotiated(t, n) == \A i \in 1 .. n : tried[t][i].stale \/ gen[tried[t][i].tuple] > 0

Turn(t) ==
  /\ prog[t] = "turn" => fn[t] = "none" /\ Negotiated(t, Len(tried[t]))
  /\ prog[t] = "called" =>
       /\ Len(tried[t]) > 0 /\ Negotiated(t, Len(tried[t]) - 1)
       /\ \/ /\ fn[t] = "handshake" /\ req[t] = tried[t][Len(tried[t])].tuple
             /\ t \in stale => tried[t][Len(tried[t])].stale
          \/ /\ fn[t] = "none" /\ out[t].fn = "handshake"
             /\ out[t].status = 0 => /\ out[t].tuple = tried[t][Len(tried[t])].tuple
                                     /\ t \in stale => tried[t][Len(tried[t])].stale
  /\ prog[t] = "passed" => Len(tried[t]) = Turns /\ Negotiated(t, Len(tried[t]))

ThreadInv(t) == Channel(t) /\ Socket(t) /\ Told(t) /\ Turn(t)

TestInv == Kernel /\ Arrays /\ \A t \in Tids : ThreadInv(t)
----------------------------------------------------------------------------
(* Sequences.                                                              *)
LEMMA AppendFacts ==
  ASSUME NEW S, NEW q \in Seq(S), NEW e \in S
  PROVE  /\ Append(q, e) \in Seq(S)
         /\ Len(q) \in Nat /\ Len(Append(q, e)) = Len(q) + 1
         /\ \A i \in 1 .. Len(q) : Append(q, e)[i] = q[i]
         /\ Append(q, e)[Len(q) + 1] = e
OBVIOUS

LEMMA TailFacts ==
  ASSUME NEW S, NEW q \in Seq(S), q # <<>>
  PROVE  /\ Head(q) \in S /\ Tail(q) \in Seq(S)
         /\ Len(q) \in Nat /\ Len(q) > 0
         /\ Head(q) = q[1]
         /\ Len(Tail(q)) = Len(q) - 1
         /\ \A i \in 1 .. Len(q) - 1 : Tail(q)[i] = q[i + 1]
OBVIOUS

LEMMA EmptyFacts ==
  ASSUME NEW S, NEW q \in Seq(S)
  PROVE  Len(q) \in Nat /\ (q = <<>> <=> Len(q) = 0)
OBVIOUS

LEMMA SeqSubset ==
  ASSUME NEW S, NEW T, S \subseteq T, NEW q \in Seq(S)
  PROVE  q \in Seq(T)
<1>1. Len(q) \in Nat /\ q \in [1 .. Len(q) -> T]
  OBVIOUS
<1>. QED BY <1>1

LEMMA MessageTypes ==
  /\ \A type \in HandshakeOk \cup {"FAILED", "LOG", "INIT_COMPLETE"} : Text(type) \in Message
  /\ \A s \in {0, -1, -2}, key \in Keys : KeyBack(s, key) \in Message
  /\ ZeroKey \in Keys
<1>1. ZeroKey \in Keys
  BY DEF ZeroKey, Keys
<1>2. \A type \in HandshakeOk \cup {"FAILED", "LOG", "INIT_COMPLETE"} : Text(type) \in Message
  BY <1>1 DEF Text, Message
<1>3. \A s \in {0, -1, -2}, key \in Keys : KeyBack(s, key) \in Message
  BY DEF KeyBack, Message
<1>. QED BY <1>1, <1>2, <1>3
----------------------------------------------------------------------------
(* A step that is about thread t leaves the other threads alone.           *)
SameCall(s) ==
  /\ out'[s] = out[s]
  /\ fn'[s] = fn[s] /\ req'[s] = req[s] /\ since'[s] = since[s]
  /\ ctx'[s] = ctx[s] /\ bound'[s] = bound[s]
  /\ prog'[s] = prog[s] /\ tried'[s] = tried[s]
  /\ s \in left => s \in left'
  /\ s \in stale' <=> s \in stale

SameAt(s) == SameCall(s) /\ requests'[s] = requests[s] /\ rx'[s] = rx[s]

KernelStep == Kernel' /\ \A u \in Tuples : gen[u] <= gen'[u]

(* What a thread asks for, was told and has tried stays as good as it was. *)
LEMMA OtherCall ==
  ASSUME TestInv, KernelStep, NEW s \in Tids, SameCall(s)
  PROVE  Socket(s)' /\ Told(s)' /\ Turn(s)'
<1>0. /\ ThreadInv(s) /\ gen \in [Tuples -> 0 .. MaxGen] /\ gen' \in [Tuples -> 0 .. MaxGen]
      /\ \A u \in Tuples : gen[u] <= gen'[u]
      /\ MaxGen \in Nat
  BY ApiAssumption DEF TestInv, KernelStep, Kernel
<1>1. req[s] \in Tuples \cup {NoTuple} /\ since[s] \in Nat /\ out[s] \in Outs /\ tried[s] \in Seq(Tries)
  BY DEF TestInv, Arrays
<1>2. \A u \in Tuples : gen[u] \in Nat /\ gen'[u] \in Nat /\ gen[u] <= gen'[u]
  BY <1>0
<1>3. ASSUME NEW u \in Tuples, NEW b \in Nat, NEW key \in Keys, OwnFresh(u, b, key)
      PROVE  OwnFresh(u, b, key)'
  BY <1>2, <1>3 DEF OwnFresh, Keys
<1>4. Socket(s)'
  BY <1>0 DEF ThreadInv, Socket, SameCall
<1>5. Told(s)'
  <2>1. (req[s] # NoTuple <=> fn[s] \in {"handshake", "fetch"})'
    BY <1>0 DEF ThreadInv, Told, SameCall
  <2>2. (req[s] # NoTuple => since[s] <= gen[req[s]])'
    BY <1>0, <1>1, <1>2 DEF ThreadInv, Told, SameCall
  <2>3. PICK o \in Outs : o = out[s] /\ o = out'[s]
    BY <1>1 DEF SameCall
  <2>4. s \notin stale => Good(o)
    BY <1>0, <2>3 DEF ThreadInv, Told
  <2>5. ASSUME Good(o) PROVE Good(o)'
    <3>1. o.since \in Nat /\ o.key \in Keys
      BY DEF Outs
    <3>2. o.fn = "fetch" /\ o.status = 0 /\ o.key # ZeroKey => OwnFresh(o.tuple, o.since, o.key)'
      BY <1>3, <2>5, <3>1 DEF Good
    <3>3. o.fn = "handshake" /\ o.status = 0 => gen'[o.tuple] > 0
      BY <1>2, <2>5 DEF Good
    <3>. QED BY <2>5, <3>2, <3>3 DEF Good
  <2>6. (s \notin stale => Good(out[s]))'
    BY <2>3, <2>4, <2>5 DEF SameCall, Good, OwnFresh
  <2>. QED BY <2>1, <2>2, <2>6 DEF Told
<1>6. Turn(s)'
  <2>1. ASSUME NEW n \in Int, n <= Len(tried[s]), Negotiated(s, n) PROVE Negotiated(s, n)'
    <3>1. \A i \in 1 .. n : tried[s][i] \in Tries
      BY <1>1, <2>1
    <3>2. \A i \in 1 .. n : tried[s][i].tuple \in Tuples
      BY <3>1 DEF Tries
    <3>. QED BY <1>2, <2>1, <3>2 DEF Negotiated, SameCall
  <2>2. PICK n \in Nat : n = Len(tried[s])
    BY <1>1
  <2>3. Negotiated(s, n) => Negotiated(s, n)'
    BY <2>1, <2>2
  <2>4. Negotiated(s, n - 1) => Negotiated(s, n - 1)'
    BY <2>1, <2>2
  <2>5. Len(tried'[s]) = n
    BY <2>2 DEF SameCall
  <2>. QED BY <1>0, <2>2, <2>3, <2>4, <2>5 DEF ThreadInv, Turn, SameCall, Negotiated
<1>. QED BY <1>4, <1>5, <1>6

(* The calls under way, the answers and the programs of the threads that a *)
(* step does not touch stay as good as they were.                          *)
LEMMA OtherThread ==
  ASSUME TestInv, KernelStep, NEW s \in Tids, SameAt(s)
  PROVE  ThreadInv(s)'
<1>0. /\ ThreadInv(s) /\ gen \in [Tuples -> 0 .. MaxGen] /\ gen' \in [Tuples -> 0 .. MaxGen]
      /\ \A u \in Tuples : gen[u] <= gen'[u]
      /\ MaxGen \in Nat
  BY ApiAssumption DEF TestInv, KernelStep, Kernel
<1>1. req[s] \in Tuples \cup {NoTuple} /\ since[s] \in Nat /\ out[s] \in Outs /\ tried[s] \in Seq(Tries)
  BY DEF TestInv, Arrays
<1>2. \A u \in Tuples : gen[u] \in Nat /\ gen'[u] \in Nat /\ gen[u] <= gen'[u]
  BY <1>0
<1>3. ASSUME NEW u \in Tuples, NEW b \in Nat, NEW key \in Keys, OwnFresh(u, b, key)
      PROVE  OwnFresh(u, b, key)'
  BY <1>2, <1>3 DEF OwnFresh, Keys
<1>4. Channel(s)'
  <2>1. CASE fn[s] = "none" \/ s \in stale
    BY <1>0, <2>1 DEF ThreadInv, Channel, SameAt, SameCall
  <2>2. CASE Waiting(s) /\ fn[s] # "none"
    <3>1. Waiting(s)'
      BY <2>2 DEF SameAt, SameCall, Waiting, Asks
    <3>. QED BY <2>2, <3>1 DEF Channel, SameAt, SameCall
  <2>3. CASE Answered(s) /\ fn[s] # "none"
    <3>1. PICK m : m = rx[s][Len(rx[s])]
      OBVIOUS
    <3>2. m \in Message
      <4>1. rx[s] \in Seq(Message)
        BY DEF TestInv, Arrays
      <4>. QED BY <2>3, <3>1, <4>1 DEF Answered
    <3>3. Ends(s, m)
      BY <2>3, <3>1 DEF Answered
    <3>4. Ends(s, m)'
      <4>1. CASE fn[s] = "init"
        BY <3>3, <4>1 DEF Ends, SameAt, SameCall
      <4>2. CASE fn[s] = "handshake"
        <5>1. req[s] \in Tuples
          BY <1>0, <1>1, <4>2 DEF ThreadInv, Told
        <5>2. gen[req[s]] > 0 => gen'[req[s]] > 0
          BY <1>2, <5>1
        <5>. QED BY <3>3, <4>2, <5>2 DEF Ends, SameAt, SameCall
      <4>3. CASE fn[s] = "fetch"
        <5>1. req[s] \in Tuples
          BY <1>0, <1>1, <4>3 DEF ThreadInv, Told
        <5>2. m.key \in Keys
          BY <3>2 DEF Message
        <5>3. PICK u \in Tuples, b \in Nat : u = req[s] /\ b = since[s]
          BY <1>1, <5>1
        <5>4. m.status = 0 => OwnFresh(u, b, m.key)'
          BY <1>3, <3>3, <4>3, <5>2, <5>3 DEF Ends
        <5>. QED BY <3>3, <4>3, <5>3, <5>4 DEF Ends, SameAt, SameCall, OwnFresh
      <4>. QED BY <3>3, <4>1, <4>2, <4>3 DEF Ends
    <3>5. Ends(s, rx[s][Len(rx[s])])'
      BY <3>1, <3>4 DEF SameAt, SameCall, Ends, OwnFresh
    <3>. QED BY <2>3, <3>5 DEF Answered, Channel, SameAt, SameCall
  <2>. QED BY <1>0, <2>1, <2>2, <2>3 DEF ThreadInv, Channel
<1>5. Socket(s)' /\ Told(s)' /\ Turn(s)'
  BY OtherCall DEF SameAt
<1>. QED BY <1>4, <1>5 DEF ThreadInv

LEMMA OneThread ==
  ASSUME TestInv, KernelStep, Arrays', NEW t \in Tids, ThreadInv(t)',
         \A s \in Tids \ {t} : SameAt(s)
  PROVE  TestInv'
<1>1. ASSUME NEW s \in Tids PROVE ThreadInv(s)'
  BY OtherThread
<1>. QED BY <1>1 DEF TestInv, KernelStep
----------------------------------------------------------------------------
(* Calls of the API.                                                       *)
LEMMA SameKernel ==
  ASSUME TestInv, UNCHANGED <<session, gen>>
  PROVE  KernelStep
BY ApiAssumption DEF TestInv, Kernel, KernelStep

(* What sendto does, whether or not it fails: a call that does not begin   *)
(* on left-overs begins on empty queues.                                   *)
Sends(t, r) ==
  /\ requests' = [requests EXCEPT ![t] = Append(@, r)] \/ UNCHANGED requests
  /\ t \notin stale' => requests[t] = <<>> /\ rx[t] = <<>>
  /\ stale' \subseteq Tids /\ lost' \subseteq Tids
  /\ \A s \in Tids \ {t} : s \in stale' <=> s \in stale
  /\ UNCHANGED <<session, gen, left>>

LEMMA SendFacts ==
  ASSUME TestInv, NEW t \in Tids, NEW op, NEW u, Send(t, op, u), fn[t] = "none",
         NEW r \in Requests, r = [op |-> op, tuple |-> u]
  PROVE  Sends(t, r)
<1>0. ThreadInv(t) /\ stale \subseteq Tids /\ lost \subseteq Tids
  BY DEF TestInv, Arrays
<1>1. requests' = [requests EXCEPT ![t] = Append(@, r)] \/ UNCHANGED requests
  BY DEF Send
<1>2. lost' \subseteq Tids /\ UNCHANGED <<session, gen, left>>
  BY <1>0 DEF Send
<1>3. stale' = IF requests[t] = <<>> /\ rx[t] = <<>> THEN stale \ {t} ELSE stale
  BY DEF Send
<1>4. t \notin stale' => requests[t] = <<>> /\ rx[t] = <<>>
  BY <1>0, <1>3 DEF ThreadInv, Channel
<1>. QED BY <1>0, <1>1, <1>2, <1>3, <1>4 DEF Sends

LEMMA SendTypes ==
  ASSUME TestInv, NEW t \in Tids, NEW r \in Requests, Sends(t, r)
  PROVE  /\ requests' \in [Tids -> Seq(Requests)]
         /\ \A s \in Tids \ {t} : requests'[s] = requests[s]
<1>1. requests \in [Tids -> Seq(Requests)]
  BY DEF TestInv, Arrays
<1>2. Append(requests[t], r) \in Seq(Requests)
  BY <1>1, AppendFacts
<1>. QED BY <1>1, <1>2 DEF Sends

(* A call that begins on empty queues waits.                               *)
LEMMA CallWaits ==
  ASSUME TestInv, NEW t \in Tids, NEW r \in Requests, Sends(t, r), t \notin stale',
         rx'[t] = rx[t], Asks(t, r)'
  PROVE  Waiting(t)'
<1>1. requests \in [Tids -> Seq(Requests)] /\ requests[t] = <<>> /\ rx'[t] = <<>>
  BY DEF TestInv, Arrays, Sends
<1>2. CASE UNCHANGED requests
  BY <1>1, <1>2 DEF Waiting
<1>3. CASE requests' = [requests EXCEPT ![t] = Append(@, r)]
  <2>1. requests'[t] = Append(requests[t], r)
    BY <1>1, <1>3
  <2>2. Len(requests'[t]) = 1 /\ requests'[t][1] = r
    BY <1>1, <2>1, AppendFacts, EmptyFacts
  <2>3. Asks(t, requests[t][1])'
    BY <2>2 DEF Asks
  <2>. QED BY <1>1, <2>2, <2>3 DEF Waiting
<1>. QED BY <1>2, <1>3 DEF Sends

LEMMA NoKeyFacts ==
  /\ NoResult \in Outs /\ Good(NoResult)
  /\ \A f \in {"handshake", "fetch"}, x \in {0, -1, -2, 1} :
       /\ NoKey(f, x) \in Outs
       /\ NoKey(f, x).fn = f /\ NoKey(f, x).status = x /\ NoKey(f, x).key = ZeroKey
       /\ f = "fetch" \/ x # 0 => Good(NoKey(f, x))
<1>1. ZeroKey \in Keys
  BY MessageTypes
<1>2. \A f \in {"none", "handshake", "fetch"}, x \in {0, -1, -2, 1} : NoKey(f, x) \in Outs
  BY <1>1 DEF NoKey, Result, Outs
<1>3. \A f \in {"none", "handshake", "fetch"}, x \in {0, -1, -2, 1} :
        NoKey(f, x).fn = f /\ NoKey(f, x).status = x /\ NoKey(f, x).key = ZeroKey
  BY DEF NoKey, Result
<1>4. \A f \in {"none", "handshake", "fetch"}, x \in {0, -1, -2, 1} :
        f # "handshake" \/ x # 0 => Good(NoKey(f, x))
  BY <1>3 DEF Good
<1>. QED BY <1>2, <1>3, <1>4 DEF NoResult

LEMMA InitCall ==
  ASSUME TestInv, NEW t \in Tids, tlshub_service_init(t), prog[t] = "none", UNCHANGED testVars
  PROVE  TestInv'
<1>0. ThreadInv(t) /\ Arrays
  BY DEF TestInv
<1>1. PICK r \in Requests : r = [op |-> "INIT", tuple |-> NoTuple]
  BY DEF Requests
<1>2. /\ fn[t] = "none" /\ ~bound[t] /\ ctx[t] = "none"
      /\ fn' = [fn EXCEPT ![t] = "init"] /\ req' = [req EXCEPT ![t] = NoTuple]
      /\ since' = [since EXCEPT ![t] = 0]
      /\ bound' = [bound EXCEPT ![t] = TRUE]
      /\ out' = [out EXCEPT ![t] = NoResult]
      /\ UNCHANGED <<ctx, rx>>
  BY <1>0
  DEF tlshub_service_init, OpenSocket, Call, SetOut, ThreadInv, Socket
<1>3. Sends(t, r)
  BY <1>1, <1>2, SendFacts DEF tlshub_service_init
<1>4. Arrays'
  BY <1>0, <1>2, <1>3, SendTypes, NoKeyFacts DEF Arrays, Sends
<1>5. ASSUME NEW s \in Tids \ {t} PROVE SameAt(s)
  BY <1>0, <1>2, <1>3, SendTypes DEF SameAt, SameCall, Arrays, Sends
<1>6. ThreadInv(t)'
  <2>1. /\ fn'[t] = "init" /\ req'[t] = NoTuple /\ bound'[t] = TRUE /\ ctx'[t] = "none"
        /\ rx'[t] = rx[t] /\ out'[t] = NoResult
        /\ prog'[t] = "none"
    BY <1>0, <1>2 DEF Arrays
  <2>2. Asks(t, r)'
    BY <1>1, <2>1 DEF Asks
  <2>3. t \notin stale' => Waiting(t)'
    BY <1>3, <2>1, <2>2, CallWaits
  <2>4. Told(t)'
    BY <2>1, NoKeyFacts DEF Told, Good, NoResult, NoKey, Result
  <2>. QED BY <2>1, <2>3, <2>4 DEF ThreadInv, Channel, Socket, Turn, Ended
<1>. QED BY <1>3, <1>4, <1>5, <1>6, SameKernel, OneThread DEF Sends

LEMMA FetchCall ==
  ASSUME TestInv, NEW t \in Tids, NEW u \in Tuples, tlshub_fetch_key(t, u),
         prog[t] = "none", UNCHANGED testVars
  PROVE  TestInv'
<1>0. ThreadInv(t) /\ Arrays /\ u # NoTuple /\ gen[u] \in Nat /\ fn[t] = "none" /\ UNCHANGED <<ctx, rx>>
  BY ApiAssumption DEF TestInv, Kernel, tlshub_fetch_key
<1>1. CASE OpenSocket(t) /\ Send(t, "FETCH", u) /\ Call(t, "fetch", u) /\ SetOut(t, NoResult)
  <2>1. PICK r \in Requests : r = [op |-> "FETCH", tuple |-> u]
    BY DEF Requests
  <2>2. /\ ~bound[t] /\ ctx[t] = "none"
        /\ fn' = [fn EXCEPT ![t] = "fetch"] /\ req' = [req EXCEPT ![t] = u]
        /\ since' = [since EXCEPT ![t] = gen[u]]
        /\ bound' = [bound EXCEPT ![t] = TRUE]
        /\ out' = [out EXCEPT ![t] = NoResult]
    BY <1>0, <1>1 DEF OpenSocket, Call, SetOut, ThreadInv, Socket
  <2>3. Sends(t, r)
    BY <1>0, <1>1, <2>1, SendFacts
  <2>4. Arrays'
    BY <1>0, <2>2, <2>3, SendTypes, NoKeyFacts DEF Arrays, Sends
  <2>5. ASSUME NEW s \in Tids \ {t} PROVE SameAt(s)
    BY <1>0, <2>2, <2>3, SendTypes DEF SameAt, SameCall, Arrays, Sends
  <2>6. ThreadInv(t)'
    <3>1. /\ fn'[t] = "fetch" /\ req'[t] = u /\ since'[t] = gen'[u]
          /\ bound'[t] = TRUE /\ ctx'[t] = "none"
          /\ rx'[t] = rx[t] /\ out'[t] = NoResult
          /\ prog'[t] = "none"
      BY <1>0, <2>2, <2>3 DEF Arrays, Sends
    <3>2. Asks(t, r)'
      BY <2>1, <3>1 DEF Asks
    <3>3. t \notin stale' => Waiting(t)'
      BY <2>3, <3>1, <3>2, CallWaits
    <3>4. gen'[u] \in Nat
      BY <1>0, <2>3 DEF Sends
    <3>5. Told(t)'
      BY <1>0, <3>1, <3>4 DEF Told, Good, NoResult, NoKey, Result
    <3>. QED BY <3>1, <3>3, <3>5 DEF ThreadInv, Channel, Socket, Turn, Ended
  <2>. QED BY <2>3, <2>4, <2>5, <2>6, SameKernel, OneThread DEF Sends
<1>2. CASE /\ SetOut(t, NoKey("fetch", 0))
           /\ UNCHANGED <<callVars, bound, kernelVars, history>>
  <2>1. PICK o \in Outs : o = NoKey("fetch", 0) /\ o.fn = "fetch" /\ o.key = ZeroKey
    BY NoKeyFacts
  <2>2. out' = [out EXCEPT ![t] = o]
    BY <1>2, <2>1 DEF SetOut
  <2>3. Arrays'
    BY <1>0, <1>2, <2>2 DEF Arrays
  <2>4. ASSUME NEW s \in Tids \ {t} PROVE SameAt(s)
    BY <1>0, <1>2, <2>2 DEF SameAt, SameCall, Arrays
  <2>5. out'[t] = o
    BY <1>0, <2>2 DEF Arrays
  <2>6. Told(t)'
    BY <1>0, <1>2, <2>1, <2>5 DEF ThreadInv, Told, Good
  <2>7. Channel(t)' /\ Socket(t)' /\ Turn(t)'
    BY <1>0, <1>2 DEF ThreadInv, Channel, Socket, Turn, Ended
  <2>. QED BY <1>2, <2>3, <2>4, <2>6, <2>7, SameKernel, OneThread DEF ThreadInv
<1>. QED BY <1>1, <1>2 DEF tlshub_fetch_key

(* A call of tlshub_handshake by a thread, or by a program's turn.         *)
TurnStarts(t, u) ==
  /\ prog[t] = "turn"
  /\ prog' = [prog EXCEPT ![t] = "called"]
  /\ tried' = [tried EXCEPT ![t] = Append(@, [tuple |-> u, stale |-> t \in stale'])]

LEMMA HandshakeCall ==
  ASSUME TestInv, NEW t \in Tids, NEW u \in Tuples, tlshub_handshake(t, u),
         (prog[t] = "none" /\ UNCHANGED testVars) \/ TurnStarts(t, u)
  PROVE  TestInv'
<1>0. ThreadInv(t) /\ Arrays /\ u # NoTuple /\ gen[u] \in Nat /\ fn[t] = "none" /\ UNCHANGED rx
  BY ApiAssumption DEF TestInv, Kernel, tlshub_handshake
<1>1. PICK e \in Tries : e = [tuple |-> u, stale |-> t \in stale'] /\ e.tuple = u /\ (t \in stale' => e.stale)
  <2>1. PICK b \in BOOLEAN : b = (t \in stale')
    <3>1. CASE t \in stale'
      <4>1. TRUE = (t \in stale')
        BY <3>1
      <4>. QED BY <4>1, Zenon
    <3>2. CASE t \notin stale'
      <4>1. FALSE = (t \in stale')
        BY <3>2
      <4>. QED BY <4>1, Zenon
    <3>. QED BY <3>1, <3>2, Zenon
  <2>2. [tuple |-> u, stale |-> b] \in Tries
    BY DEF Tries
  <2>3. [tuple |-> u, stale |-> b].tuple = u /\ [tuple |-> u, stale |-> b].stale = b
    OBVIOUS
  <2>. QED BY <2>1, <2>2, <2>3, Zenon
<1>2. /\ prog' \in [Tids -> Progs] /\ tried' \in [Tids -> Seq(Tries)]
      /\ \A s \in Tids \ {t} : prog'[s] = prog[s] /\ tried'[s] = tried[s]
      /\ prog'[t] \in {"none", "called"}
      /\ prog'[t] = "called" => prog[t] = "turn" /\ tried'[t] = Append(tried[t], e)
  <2>1. Append(tried[t], e) \in Seq(Tries)
    BY <1>0, AppendFacts DEF Arrays
  <2>2. CASE prog[t] = "none" /\ UNCHANGED testVars
    BY <1>0, <2>2 DEF Arrays
  <2>3. CASE TurnStarts(t, u)
    <3>1. tried' = [tried EXCEPT ![t] = Append(@, e)] /\ prog' = [prog EXCEPT ![t] = "called"] /\ prog[t] = "turn"
      BY <1>1, <2>3 DEF TurnStarts
    <3>. QED BY <1>0, <2>1, <3>1 DEF Arrays, Progs, Running
  <2>. QED BY <2>2, <2>3
<1>3. ASSUME UNCHANGED gen,
             \/ fn'[t] = "handshake" /\ req'[t] = u
             \/ fn'[t] = "none" /\ out'[t].fn = "handshake" /\ out'[t].status # 0
      PROVE  Turn(t)'
  <2>1. CASE prog'[t] = "none"
    BY <2>1 DEF Turn
  <2>2. CASE prog'[t] = "called"
    <3>1. tried[t] \in Seq(Tries) /\ tried'[t] = Append(tried[t], e)
      BY <1>0, <1>2, <2>2 DEF Arrays
    <3>2. /\ Len(tried'[t]) = Len(tried[t]) + 1 /\ Len(tried[t]) \in Nat
          /\ \A i \in 1 .. Len(tried[t]) : tried'[t][i] = tried[t][i]
          /\ tried'[t][Len(tried[t]) + 1] = e
      BY <3>1, AppendFacts
    <3>3. Negotiated(t, Len(tried[t]))
      BY <1>0, <1>2, <2>2 DEF ThreadInv, Turn
    <3>4. Negotiated(t, Len(tried[t]) - 1)'
      BY <1>3, <3>2, <3>3 DEF Negotiated
    <3>5. tried'[t][Len(tried'[t])] = e
      BY <3>2
    <3>. QED BY <1>1, <1>3, <2>2, <3>2, <3>4, <3>5 DEF Turn
  <2>. QED BY <1>2, <2>1, <2>2
<1>4. CASE PrepareContext(t) /\ Send(t, "START", u) /\ Call(t, "handshake", u) /\ SetOut(t, NoResult)
  <2>1. PICK r \in Requests : r = [op |-> "START", tuple |-> u]
    BY DEF Requests
  <2>2. /\ fn' = [fn EXCEPT ![t] = "handshake"] /\ req' = [req EXCEPT ![t] = u]
        /\ since' = [since EXCEPT ![t] = 0]
        /\ ctx' = [ctx EXCEPT ![t] = "ready"]
        /\ out' = [out EXCEPT ![t] = NoResult]
    BY <1>4 DEF PrepareContext, Call, SetOut
  <2>3. bound' = [bound EXCEPT ![t] = TRUE]
    <3>1. CASE ctx[t] = "none"
      BY <1>4, <3>1 DEF PrepareContext, OpenSocket
    <3>2. CASE ctx[t] # "none"
      BY <1>0, <1>4, <3>2 DEF PrepareContext, ThreadInv, Socket, Arrays
    <3>. QED BY <3>1, <3>2
  <2>4. Sends(t, r)
    BY <1>0, <1>4, <2>1, SendFacts
  <2>5. Arrays'
    BY <1>0, <1>2, <2>2, <2>3, <2>4, SendTypes, NoKeyFacts DEF Arrays, Sends
  <2>6. ASSUME NEW s \in Tids \ {t} PROVE SameAt(s)
    BY <1>0, <1>2, <2>2, <2>3, <2>4, SendTypes DEF SameAt, SameCall, Arrays, Sends
  <2>7. ThreadInv(t)'
    <3>1. /\ fn'[t] = "handshake" /\ req'[t] = u /\ since'[t] = 0
          /\ bound'[t] = TRUE /\ ctx'[t] = "ready"
          /\ rx'[t] = rx[t] /\ out'[t] = NoResult
      BY <1>0, <2>2, <2>3 DEF Arrays
    <3>2. Asks(t, r)'
      BY <2>1, <3>1 DEF Asks
    <3>3. t \notin stale' => Waiting(t)'
      BY <2>4, <3>1, <3>2, CallWaits
    <3>4. gen'[u] \in Nat /\ UNCHANGED gen
      BY <1>0, <2>4 DEF Sends
    <3>5. Told(t)'
      BY <1>0, <3>1, <3>4 DEF Told, Good, NoResult, NoKey, Result
    <3>6. Turn(t)'
      BY <1>3, <3>1, <3>4
    <3>. QED BY <1>2, <3>1, <3>3, <3>5, <3>6 DEF ThreadInv, Channel, Socket, Ended
  <2>. QED BY <2>4, <2>5, <2>6, <2>7, SameKernel, OneThread DEF Sends
<1>5. CASE /\ PrepareFails(t) /\ SetOut(t, NoKey("handshake", -1))
           /\ UNCHANGED <<callVars, kernelVars, history>>
  <2>1. PICK o \in Outs : o = NoKey("handshake", -1) /\ o.fn = "handshake" /\ o.status = -1
    BY NoKeyFacts
  <2>2. out' = [out EXCEPT ![t] = o]
    BY <1>5, <2>1 DEF SetOut
  <2>3. /\ bound' \in [Tids -> BOOLEAN] /\ ctx' \in [Tids -> {"none", "open", "ready"}]
        /\ \A s \in Tids \ {t} : bound'[s] = bound[s] /\ ctx'[s] = ctx[s]
        /\ ctx'[t] # "none" => bound'[t]
        /\ ctx'[t] = "none" => bound'[t] = bound[t] /\ ctx[t] = "none"
    <3>1. CASE UNCHANGED <<ctx, bound>>
      BY <1>0, <3>1 DEF Arrays, ThreadInv, Socket
    <3>2. CASE /\ IF ctx[t] = "none" THEN OpenSocket(t) ELSE UNCHANGED bound
               /\ ctx' = [ctx EXCEPT ![t] = "open"]
      <4>1. CASE ctx[t] = "none"
        BY <1>0, <3>2, <4>1 DEF Arrays, OpenSocket
      <4>2. CASE ctx[t] # "none"
        BY <1>0, <3>2, <4>2 DEF Arrays, ThreadInv, Socket
      <4>. QED BY <4>1, <4>2
    <3>. QED BY <1>5, <3>1, <3>2 DEF PrepareFails
  <2>4. Arrays'
    BY <1>0, <1>2, <1>5, <2>2, <2>3 DEF Arrays
  <2>5. ASSUME NEW s \in Tids \ {t} PROVE SameAt(s)
    BY <1>0, <1>2, <1>5, <2>2, <2>3 DEF SameAt, SameCall, Arrays
  <2>6. out'[t] = o
    BY <1>0, <2>2 DEF Arrays
  <2>7. Told(t)'
    BY <1>0, <1>5, <2>1, <2>6 DEF ThreadInv, Told, Good
  <2>8. Turn(t)'
    BY <1>0, <1>3, <1>5, <2>1, <2>6
  <2>9. Channel(t)' /\ Socket(t)'
    BY <1>0, <1>2, <1>5, <2>3 DEF ThreadInv, Channel, Socket, Ended
  <2>. QED BY <1>5, <2>4, <2>5, <2>7, <2>8, <2>9, SameKernel, OneThread DEF ThreadInv
<1>. QED BY <1>4, <1>5 DEF tlshub_handshake
----------------------------------------------------------------------------
(* Messages that arrive at a thread.                                       *)

(* The call under way reads a log: the rest of its queue is as before.     *)
LEMMA LogRead ==
  ASSUME TestInv, NEW t \in Tids, fn[t] # "none", fn[t] # "fetch", rx[t] # <<>>,
         ~Ends(t, Head(rx[t])),
         rx' = [rx EXCEPT ![t] = Tail(@)],
         UNCHANGED <<callVars, ctx, bound, kernelVars, out, history, testVars>>
  PROVE  TestInv'
<1>0. ThreadInv(t) /\ Arrays
  BY DEF TestInv
<1>1. PICK q \in Seq(Message) : q = rx[t]
  BY <1>0 DEF Arrays
<1>2. /\ Tail(q) \in Seq(Message) /\ Len(q) \in Nat /\ Len(q) > 0
      /\ Head(q) = q[1] /\ Len(Tail(q)) = Len(q) - 1
      /\ \A i \in 1 .. Len(q) - 1 : Tail(q)[i] = q[i + 1]
  BY <1>1, TailFacts
<1>3. rx'[t] = Tail(q)
  BY <1>0, <1>1 DEF Arrays
<1>4. Arrays'
  BY <1>0, <1>1, <1>2 DEF Arrays
<1>5. ASSUME NEW s \in Tids \ {t} PROVE SameAt(s)
  BY <1>0 DEF SameAt, SameCall, Arrays
<1>6. ASSUME t \notin stale PROVE Waiting(t)' \/ Answered(t)'
  <2>1. CASE Waiting(t)
    BY <1>1, <1>2, <1>3, <2>1 DEF Waiting, Asks
  <2>2. CASE Answered(t)
    <3>1. Len(q) # 1
      BY <1>1, <1>2, <2>2 DEF Answered
    <3>2. Len(Tail(q)) > 0 /\ Tail(q)[Len(Tail(q))] = q[Len(q)]
      BY <1>2, <3>1
    <3>3. PICK m : m = q[Len(q)] /\ m = rx'[t][Len(rx'[t])]
      BY <1>3, <3>2
    <3>4. Ends(t, m)
      BY <1>1, <2>2, <3>3 DEF Answered
    <3>5. Ends(t, rx[t][Len(rx[t])])'
      BY <3>3, <3>4 DEF Ends, OwnFresh
    <3>6. \A i \in 1 .. Len(Tail(q)) : i < Len(Tail(q)) => Tail(q)[i].type = "LOG"
      BY <1>1, <1>2, <2>2 DEF Answered
    <3>. QED BY <1>3, <2>2, <3>2, <3>5, <3>6 DEF Answered
  <2>. QED BY <1>0, <1>6, <2>1, <2>2 DEF ThreadInv, Channel
<1>7. Socket(t)' /\ Told(t)' /\ Turn(t)'
  <2>1. SameCall(t)
    BY DEF SameCall
  <2>. QED BY <2>1, SameKernel, OtherCall
<1>. QED BY <1>4, <1>5, <1>6, <1>7, SameKernel, OneThread DEF ThreadInv, Channel

(* The call under way reads the message that ends it: nothing is left.     *)
LEMMA LastRead ==
  ASSUME TestInv, NEW t \in Tids, fn[t] # "none", t \notin stale, rx[t] # <<>>,
         Head(rx[t]).type # "LOG" \/ fn[t] = "fetch"
  PROVE  requests[t] = <<>> /\ Ends(t, Head(rx[t])) /\ Tail(rx[t]) = <<>>
<1>0. ThreadInv(t)
  BY DEF TestInv
<1>1. PICK q \in Seq(Message) : q = rx[t]
  BY DEF TestInv, Arrays
<1>2. /\ Tail(q) \in Seq(Message) /\ Len(q) \in Nat /\ Len(q) > 0
      /\ Head(q) = q[1] /\ Len(Tail(q)) = Len(q) - 1
  BY <1>1, TailFacts
<1>3. Answered(t)
  BY <1>0, <1>1, <1>2 DEF ThreadInv, Channel, Waiting
<1>4. Len(q) = 1
  <2>1. fn[t] = "fetch" => Len(q) = 1
    BY <1>1, <1>3 DEF Answered
  <2>2. 1 \in 1 .. Len(q) /\ (1 < Len(q) => q[1].type = "LOG")
    BY <1>1, <1>2, <1>3 DEF Answered
  <2>3. q[1].type # "LOG" \/ fn[t] = "fetch"
    BY <1>1, <1>2
  <2>4. ~(1 < Len(q)) \/ fn[t] = "fetch"
    BY <2>2, <2>3
  <2>. QED BY <1>2, <2>1, <2>4
<1>5. Tail(q) = <<>>
  <2>1. PICK r \in Seq(Message) : r = Tail(q)
    BY <1>2
  <2>2. Len(r) = 0
    BY <1>2, <1>4, <2>1
  <2>. QED BY <2>1, <2>2, EmptyFacts
<1>. QED BY <1>1, <1>2, <1>3, <1>4, <1>5 DEF Answered

(* What the end of a call leaves.                                          *)
LEMMA CallEnds ==
  ASSUME TestInv, NEW t \in Tids, Return(t), fn[t] # "none",
         rx' \in [Tids -> Seq(Message)], \A s \in Tids \ {t} : rx'[s] = rx[s],
         bound' \in [Tids -> BOOLEAN], \A s \in Tids \ {t} : bound'[s] = bound[s],
         ctx[t] # "none" => bound'[t],
         bound'[t] => ctx[t] # "none" \/ t \in left',
         NEW o \in Outs, out' = [out EXCEPT ![t] = o],
         left' \subseteq Tids, \A s \in Tids \ {t} : s \in left => s \in left',
         stale' \subseteq Tids, \A s \in Tids \ {t} : s \in stale' <=> s \in stale,
         t \notin stale' => requests[t] = <<>> /\ rx'[t] = <<>> /\ Good(o),
         fn[t] = "handshake" =>
           /\ o.fn = "handshake"
           /\ o.status = 0 => o.tuple = req[t] /\ (t \in stale' => t \in stale),
         UNCHANGED <<ctx, kernelVars, testVars>>
  PROVE  TestInv'
<1>0. ThreadInv(t) /\ Arrays
  BY DEF TestInv
<1>1. /\ fn' = [fn EXCEPT ![t] = "none"] /\ req' = [req EXCEPT ![t] = NoTuple]
      /\ since' = [since EXCEPT ![t] = 0] /\ lost' = lost \ {t}
  BY DEF Return, Call
<1>2. Arrays'
  BY <1>0, <1>1 DEF Arrays
<1>3. ASSUME NEW s \in Tids \ {t} PROVE SameAt(s)
  BY <1>0, <1>1 DEF SameAt, SameCall, Arrays
<1>4. fn'[t] = "none" /\ req'[t] = NoTuple /\ out'[t] = o /\ requests'[t] = requests[t]
  BY <1>0, <1>1 DEF Arrays
<1>5. Told(t)'
  BY <1>4 DEF Told, Good, OwnFresh
<1>6. Turn(t)'
  BY <1>0, <1>4 DEF ThreadInv, Turn, Negotiated, Socket, Ended
<1>7. Socket(t)'
  BY <1>0, <1>4 DEF ThreadInv, Socket
<1>8. Channel(t)'
  BY <1>4 DEF Channel
<1>. QED BY <1>2, <1>3, <1>5, <1>6, <1>7, <1>8, SameKernel, OneThread DEF ThreadInv

(* A socket is closed.                                                     *)
LEMMA Closes ==
  ASSUME Arrays, NEW t \in Tids, CloseSocket(t)
  PROVE  /\ rx' \in [Tids -> Seq(Message)] /\ rx'[t] = <<>>
         /\ bound' \in [Tids -> BOOLEAN] /\ ~bound'[t]
         /\ \A s \in Tids \ {t} : rx'[s] = rx[s] /\ bound'[s] = bound[s]
<1>1. <<>> \in Seq(Message)
  OBVIOUS
<1>. QED BY <1>1 DEF Arrays, CloseSocket

LEMMA InitReceives ==
  ASSUME TestInv, NEW t \in Tids, InitRecv(t), UNCHANGED testVars
  PROVE  TestInv'
<1>0. ThreadInv(t) /\ Arrays /\ fn[t] = "init" /\ rx[t] # <<>>
  BY DEF TestInv, InitRecv
<1>1. CASE Head(rx[t]).type = "INIT_COMPLETE"
  <2>1. t \notin stale => requests[t] = <<>>
    BY <1>0, <1>1, LastRead
  <2>2. CloseSocket(t) /\ Return(t) /\ UNCHANGED <<ctx, kernelVars, out, left, stale>>
    BY <1>1 DEF InitRecv
  <2>3. PICK o \in Outs : o = out[t]
    BY <1>0 DEF Arrays
  <2>4. ctx[t] = "none" /\ stale \subseteq Tids /\ left \subseteq Tids
    BY <1>0 DEF ThreadInv, Socket, Arrays
  <2>5. t \notin stale => Good(o)
    BY <1>0, <2>3 DEF ThreadInv, Told
  <2>6. out' = [out EXCEPT ![t] = o]
    BY <1>0, <2>2, <2>3 DEF Arrays
  <2>. QED BY <1>0, <2>1, <2>2, <2>4, <2>5, <2>6, Closes, CallEnds
<1>2. CASE Head(rx[t]).type # "INIT_COMPLETE"
  <2>1. ~Ends(t, Head(rx[t]))
    BY <1>0, <1>2 DEF Ends
  <2>2. rx' = [rx EXCEPT ![t] = Tail(@)] /\ UNCHANGED <<callVars, ctx, bound, kernelVars, out, history>>
    BY <1>2 DEF InitRecv, Recv
  <2>. QED BY <1>0, <2>1, <2>2, LogRead
<1>. QED BY <1>1, <1>2

LEMMA HandshakeReceives ==
  ASSUME TestInv, NEW t \in Tids, HandshakeRecv(t), UNCHANGED testVars
  PROVE  TestInv'
<1>0. /\ ThreadInv(t) /\ Arrays /\ fn[t] = "handshake" /\ rx[t] # <<>>
      /\ rx' = [rx EXCEPT ![t] = Tail(@)] /\ UNCHANGED <<ctx, bound, kernelVars, left, stale>>
  BY DEF TestInv, HandshakeRecv, HandshakeLoop, Recv
<1>1. req[t] \in Tuples /\ ctx[t] # "none" /\ bound[t]
  BY <1>0 DEF ThreadInv, Told, Socket, Arrays
<1>2. CASE Head(rx[t]).type \in HandshakeOk \cup {"FAILED"}
  <2>1. t \notin stale => requests[t] = <<>> /\ Ends(t, Head(rx[t])) /\ Tail(rx[t]) = <<>>
    BY <1>0, <1>2, LastRead DEF HandshakeOk
  <2>2. PICK o : o = IF Head(rx[t]).type \in HandshakeOk THEN Result("handshake", req[t], 0, 0, ZeroKey)
                     ELSE NoKey("handshake", -1)
    OBVIOUS
  <2>3. Return(t) /\ out' = [out EXCEPT ![t] = o]
    BY <1>2, <2>2 DEF HandshakeRecv, HandshakeLoop, SetOut
  <2>4. /\ o \in Outs /\ o.fn = "handshake"
        /\ o.status = 0 => Head(rx[t]).type \in HandshakeOk /\ o.tuple = req[t]
    <3>1. CASE Head(rx[t]).type \in HandshakeOk
      BY <1>1, <2>2, <3>1, MessageTypes DEF Result, Outs
    <3>2. CASE Head(rx[t]).type \notin HandshakeOk
      BY <2>2, <3>2, NoKeyFacts
    <3>. QED BY <3>1, <3>2
  <2>5. t \notin stale => Good(o)
    BY <1>0, <1>1, <2>1, <2>4 DEF Good, Ends
  <2>6. /\ rx' \in [Tids -> Seq(Message)] /\ \A s \in Tids \ {t} : rx'[s] = rx[s]
        /\ t \notin stale => rx'[t] = <<>>
    <3>1. Tail(rx[t]) \in Seq(Message)
      BY <1>0, TailFacts DEF Arrays
    <3>. QED BY <1>0, <2>1, <3>1 DEF Arrays
  <2>7. /\ bound' \in [Tids -> BOOLEAN] /\ bound'[t] /\ \A s \in Tids \ {t} : bound'[s] = bound[s]
        /\ stale' \subseteq Tids /\ left' \subseteq Tids
    BY <1>0, <1>1 DEF Arrays
  <2>. QED BY <1>0, <1>1, <2>1, <2>3, <2>4, <2>5, <2>6, <2>7, CallEnds
<1>3. CASE Head(rx[t]).type \notin HandshakeOk \cup {"FAILED"}
  <2>1. ~Ends(t, Head(rx[t]))
    BY <1>0, <1>3 DEF Ends
  <2>2. UNCHANGED <<out, callVars, lost>>
    BY <1>3 DEF HandshakeRecv, HandshakeLoop
  <2>. QED BY <1>0, <2>1, <2>2, LogRead
<1>. QED BY <1>2, <1>3

LEMMA FetchReceives ==
  ASSUME TestInv, NEW t \in Tids, FetchRecv(t), UNCHANGED testVars
  PROVE  TestInv'
<1>0. /\ ThreadInv(t) /\ Arrays /\ fn[t] = "fetch" /\ rx[t] # <<>>
      /\ CloseSocket(t) /\ Return(t) /\ UNCHANGED <<ctx, kernelVars, left, stale>>
  BY DEF TestInv, FetchRecv, FetchOut
<1>1. req[t] \in Tuples /\ since[t] \in Nat /\ ctx[t] = "none" /\ stale \subseteq Tids /\ left \subseteq Tids
  BY <1>0 DEF ThreadInv, Told, Socket, Arrays
<1>2. t \notin stale => requests[t] = <<>> /\ Ends(t, Head(rx[t]))
  BY <1>0, LastRead
<1>3. PICK m \in Message : m = Head(rx[t])
  BY <1>0, TailFacts DEF Arrays
<1>4. PICK o : o = IF m.key = ZeroKey THEN NoKey("fetch", m.status)
                   ELSE Result("fetch", req[t], since[t], m.status, m.key)
  OBVIOUS
<1>5. out' = [out EXCEPT ![t] = o]
  BY <1>3, <1>4 DEF FetchRecv, FetchOut, SetOut
<1>6. m.status \in {0, -1, -2, 1} /\ m.key \in Keys
  BY <1>3 DEF Message
<1>7. /\ o \in Outs /\ o.fn = "fetch"
      /\ o.key # ZeroKey => /\ o.tuple = req[t] /\ o.since = since[t]
                            /\ o.status = m.status /\ o.key = m.key
  <2>1. CASE m.key = ZeroKey
    BY <1>4, <1>6, <2>1, NoKeyFacts
  <2>2. CASE m.key # ZeroKey
    BY <1>1, <1>4, <1>6, <2>2 DEF Result, Outs
  <2>. QED BY <2>1, <2>2
<1>8. t \notin stale => Good(o)
  BY <1>0, <1>1, <1>2, <1>3, <1>7 DEF Ends, Good
<1>. QED BY <1>0, <1>1, <1>2, <1>5, <1>7, <1>8, Closes, CallEnds

(* A call that ends without its answer.                                    *)
LEMMA GivesUp ==
  ASSUME TestInv, NEW t \in Tids, ReceiveFails(t), UNCHANGED testVars
  PROVE  TestInv'
<1>0. ThreadInv(t) /\ Arrays /\ Return(t) /\ GiveUp(t) /\ fn[t] # "none" /\ UNCHANGED <<ctx, kernelVars>>
  BY DEF TestInv, ReceiveFails, RecvNothing, FetchUnread
<1>1. /\ stale' = stale \cup {t} /\ stale' \subseteq Tids /\ t \in stale'
      /\ \A s \in Tids \ {t} : s \in stale' <=> s \in stale
  BY <1>0 DEF GiveUp, Arrays
<1>2. CASE RecvNothing(t)
  <2>1. /\ UNCHANGED <<rx, bound>> /\ rx \in [Tids -> Seq(Message)] /\ bound \in [Tids -> BOOLEAN]
        /\ left' \subseteq Tids /\ (\A s \in Tids \ {t} : s \in left => s \in left')
        /\ ctx[t] # "none" => bound[t]
        /\ ctx[t] # "none" \/ t \in left'
    BY <1>0, <1>2 DEF RecvNothing, Arrays, ThreadInv, Socket
  <2>2. CASE fn[t] = "init"
    <3>1. PICK o \in Outs : o = out[t] /\ out' = [out EXCEPT ![t] = o]
      BY <1>0, <1>2, <2>2 DEF RecvNothing, Arrays
    <3>. QED BY <1>0, <1>1, <2>1, <2>2, <3>1, CallEnds
  <2>3. CASE fn[t] = "handshake"
    <3>1. PICK o \in Outs : /\ o.fn = "handshake" /\ o.status # 0
                            /\ out' = [out EXCEPT ![t] = o]
      BY <1>2, <2>3, NoKeyFacts DEF RecvNothing, SetOut
    <3>. QED BY <1>0, <1>1, <2>1, <2>3, <3>1, CallEnds
  <2>. QED BY <1>2, <2>2, <2>3 DEF RecvNothing
<1>3. CASE FetchUnread(t)
  <2>1. PICK o \in Outs : out' = [out EXCEPT ![t] = o]
    BY <1>3, NoKeyFacts DEF FetchUnread, SetOut
  <2>2. /\ fn[t] = "fetch" /\ CloseSocket(t) /\ UNCHANGED left /\ ctx[t] = "none" /\ left \subseteq Tids
    BY <1>0, <1>3 DEF FetchUnread, ThreadInv, Socket, Arrays
  <2>. QED BY <1>0, <1>1, <2>1, <2>2, Closes, CallEnds
<1>. QED BY <1>2, <1>3 DEF ReceiveFails
----------------------------------------------------------------------------
(* The kernel module.                                                      *)

(* A request is taken from a thread that waits for its answer, or from a   *)
(* port id where it was left over.                                         *)
LEMMA Served ==
  ASSUME TestInv, NEW t \in Tids, requests[t] # <<>>
  PROVE  /\ Head(requests[t]) \in Requests /\ Tail(requests[t]) \in Seq(Requests)
         /\ t \notin stale =>
              /\ fn[t] # "none" /\ bound[t] /\ Waiting(t)
              /\ Tail(requests[t]) = <<>> /\ Asks(t, Head(requests[t]))
<1>0. ThreadInv(t)
  BY DEF TestInv
<1>1. PICK q \in Seq(Requests) : q = requests[t]
  BY DEF TestInv, Arrays
<1>2. /\ Head(q) \in Requests /\ Tail(q) \in Seq(Requests) /\ Head(q) = q[1]
      /\ Len(Tail(q)) = Len(q) - 1
  BY <1>1, TailFacts
<1>3. ASSUME t \notin stale
      PROVE  fn[t] # "none" /\ bound[t] /\ Waiting(t) /\ Tail(q) = <<>> /\ Asks(t, q[1])
  <2>1. fn[t] # "none" /\ Waiting(t)
    BY <1>0, <1>3 DEF ThreadInv, Channel, Answered
  <2>2. bound[t]
    BY <1>0, <2>1 DEF ThreadInv, Socket
  <2>3. Len(q) = 1 /\ Asks(t, q[1])
    BY <1>1, <2>1 DEF Waiting
  <2>4. Tail(q) = <<>>
    <3>1. PICK r \in Seq(Requests) : r = Tail(q)
      BY <1>2
    <3>2. Len(r) = 0
      BY <1>2, <2>3, <3>1
    <3>. QED BY <3>1, <3>2, EmptyFacts
  <2>. QED BY <2>1, <2>2, <2>3, <2>4
<1>. QED BY <1>1, <1>2, <1>3

LEMMA Answers ==
  ASSUME TestInv, KernelStep, NEW t \in Tids, NEW m \in Message, requests[t] # <<>>,
         Answer(t, m), UNCHANGED testVars, t \notin stale => Ends(t, m)'
  PROVE  TestInv'
<1>0. ThreadInv(t) /\ Arrays
  BY DEF TestInv
<1>1. /\ requests' = [requests EXCEPT ![t] = Tail(@)]
      /\ rx' = [rx EXCEPT ![t] = Append(@, m)] \/ UNCHANGED rx
      /\ UNCHANGED <<callVars, ctx, bound, out, left, stale>>
  BY DEF Answer, Deliver
<1>2. lost' \subseteq Tids
  BY <1>0 DEF Answer, Deliver, Arrays
<1>3. PICK q \in Seq(Message) : q = rx[t]
  BY <1>0 DEF Arrays
<1>4. /\ Append(q, m) \in Seq(Message) /\ Len(q) \in Nat /\ Len(Append(q, m)) = Len(q) + 1
      /\ \A i \in 1 .. Len(q) : Append(q, m)[i] = q[i]
      /\ Append(q, m)[Len(q) + 1] = m
  BY AppendFacts
<1>5. Arrays'
  BY <1>0, <1>1, <1>2, <1>3, <1>4, Served DEF Arrays
<1>6. ASSUME NEW s \in Tids \ {t} PROVE SameAt(s)
  BY <1>0, <1>1 DEF SameAt, SameCall, Arrays
<1>7. requests'[t] = Tail(requests[t])
  BY <1>0, <1>1 DEF Arrays
<1>8. ASSUME t \notin stale PROVE Channel(t)'
  <2>1. fn[t] # "none" /\ Waiting(t) /\ requests'[t] = <<>>
    BY <1>7, <1>8, Served
  <2>2. CASE UNCHANGED rx
    <3>1. Waiting(t)'
      BY <1>1, <2>1, <2>2 DEF Waiting
    <3>. QED BY <1>1, <2>1, <3>1 DEF Channel
  <2>3. CASE rx' = [rx EXCEPT ![t] = Append(@, m)]
    <3>1. rx'[t] = Append(q, m)
      BY <1>0, <1>3, <2>3 DEF Arrays
    <3>2. Len(rx'[t]) > 0 /\ rx'[t][Len(rx'[t])] = m
      BY <1>4, <3>1
    <3>3. Ends(t, rx[t][Len(rx[t])])'
      BY <1>8, <3>2 DEF Ends, OwnFresh
    <3>4. \A i \in 1 .. Len(rx'[t]) : i < Len(rx'[t]) => rx'[t][i].type = "LOG"
      BY <1>3, <1>4, <2>1, <3>1 DEF Waiting
    <3>5. fn'[t] = "fetch" => Len(rx'[t]) = 1
      <4>1. fn[t] = "fetch" => Len(q) = 0
        BY <1>3, <2>1, EmptyFacts DEF Waiting
      <4>. QED BY <1>1, <1>4, <3>1, <4>1
    <3>6. Answered(t)'
      BY <2>1, <3>2, <3>3, <3>4, <3>5 DEF Answered
    <3>. QED BY <1>1, <2>1, <3>6 DEF Channel
  <2>. QED BY <1>1, <2>2, <2>3
<1>9. Channel(t)'
  BY <1>1, <1>8 DEF Channel
<1>10. Socket(t)' /\ Told(t)' /\ Turn(t)'
  <2>1. SameCall(t)
    BY <1>1 DEF SameCall
  <2>. QED BY <2>1, OtherCall
<1>. QED BY <1>5, <1>6, <1>9, <1>10, OneThread DEF ThreadInv

LEMMA ServeSteps ==
  ASSUME TestInv, NEW t \in Tids, Serve(t), UNCHANGED testVars
  PROVE  TestInv'
<1>0. ThreadInv(t) /\ Kernel /\ MaxGen \in Nat
  BY ApiAssumption DEF TestInv
<1>1. CASE ServeInit(t)
  <2>1. requests[t] # <<>> /\ Head(requests[t]).op = "INIT" /\ UNCHANGED <<session, gen, callVars>>
    BY <1>1 DEF ServeInit, Serving, Answer
  <2>2. t \notin stale => fn[t] = "init"
    BY <2>1, Served DEF Asks
  <2>3. PICK m \in Message : m = Text("INIT_COMPLETE")
    BY MessageTypes
  <2>4. t \notin stale => Ends(t, m)'
    BY <2>1, <2>2, <2>3 DEF Ends, Text
  <2>. QED BY <1>1, <2>1, <2>3, <2>4, SameKernel, Answers DEF ServeInit
<1>2. CASE ServeFetch(t)
  <2>1. requests[t] # <<>> /\ Head(requests[t]).op = "FETCH" /\ UNCHANGED <<session, gen, callVars>>
    BY <1>2 DEF ServeFetch, Serving, Answer
  <2>2. PICK u \in Tuples : u = Asked(t)
    BY <2>1, Served DEF Requests, Asked
  <2>3. t \notin stale => fn[t] = "fetch" /\ u = req[t]
    BY <2>1, <2>2, Served DEF Asks, Asked
  <2>4. gen[u] \in Nat /\ <<u, gen[u]>> \in Keys
    BY <1>0 DEF Kernel, Keys
  <2>5. PICK m \in Message : m = FetchReply(u)
    BY <2>4, MessageTypes DEF FetchReply
  <2>6. m.type = "KEY" /\ (m.status = 0 => m.key = <<u, gen[u]>>)
    BY <2>5 DEF FetchReply, KeyBack
  <2>7. t \notin stale => since[t] \in Nat /\ since[t] <= gen[u]
    BY <1>0, <2>3, ApiAssumption DEF ThreadInv, Told, TestInv, Arrays
  <2>8. t \notin stale => Ends(t, m)'
    BY <2>1, <2>3, <2>4, <2>6, <2>7 DEF Ends, OwnFresh
  <2>. QED BY <1>2, <2>1, <2>2, <2>5, <2>8, SameKernel, Answers DEF ServeFetch
<1>3. CASE AlreadyConnected(t) \/ HandshakeFails(t)
  <2>1. requests[t] # <<>> /\ Head(requests[t]).op = "START" /\ UNCHANGED <<session, gen, callVars>>
    BY <1>3 DEF AlreadyConnected, HandshakeFails, Serving, Answer
  <2>2. PICK u \in Tuples : u = Asked(t)
    BY <2>1, Served DEF Requests, Asked
  <2>3. t \notin stale => fn[t] = "handshake" /\ u = req[t]
    BY <2>1, <2>2, Served DEF Asks, Asked
  <2>4. PICK type \in {"ALREADY_CONNECTED", "FAILED"} :
          Answer(t, Text(type)) /\ (type = "ALREADY_CONNECTED" => session[u] = "live")
    BY <1>3, <2>2 DEF AlreadyConnected, HandshakeFails
  <2>5. PICK m \in Message : m = Text(type)
    BY MessageTypes DEF HandshakeOk
  <2>6. t \notin stale => Ends(t, m)'
    BY <1>0, <2>1, <2>3, <2>4, <2>5 DEF Ends, Text, Kernel, HandshakeOk
  <2>. QED BY <2>1, <2>4, <2>5, <2>6, SameKernel, Answers
<1>4. CASE HandshakeSucceeds(t)
  <2>1. requests[t] # <<>> /\ Head(requests[t]).op = "START" /\ UNCHANGED callVars
    BY <1>4 DEF HandshakeSucceeds, Serving, Answer
  <2>2. PICK u \in Tuples : u = Asked(t)
    BY <2>1, Served DEF Requests, Asked
  <2>3. t \notin stale => fn[t] = "handshake" /\ u = req[t]
    BY <2>1, <2>2, Served DEF Asks, Asked
  <2>4. /\ session[u] # "live" /\ session' = [session EXCEPT ![u] = "live"]
        /\ gen' = [gen EXCEPT ![u] = @ + 1]
        /\ Answer(t, Text(IF gen[u] = 0 THEN "SUCCESS_FIRST" ELSE "SUCCESS"))
    BY <1>4, <2>2 DEF HandshakeSucceeds
  <2>5. gen[u] \in 0 .. MaxGen /\ gen[u] < MaxGen
    BY <1>0, <2>4, ApiAssumption DEF Kernel
  <2>6. KernelStep
    BY <1>0, <2>4, <2>5 DEF Kernel, KernelStep
  <2>7. PICK m \in Message : m = Text(IF gen[u] = 0 THEN "SUCCESS_FIRST" ELSE "SUCCESS")
    BY MessageTypes DEF HandshakeOk
  <2>8. gen'[u] > 0 /\ m.type \in HandshakeOk
    BY <1>0, <2>4, <2>5, <2>7 DEF Kernel, Text, HandshakeOk
  <2>9. t \notin stale => Ends(t, m)'
    BY <2>1, <2>3, <2>8 DEF Ends
  <2>. QED BY <2>1, <2>4, <2>6, <2>7, <2>9, Answers
<1>. QED BY <1>1, <1>2, <1>3, <1>4 DEF Serve

LEMMA LogStep ==
  ASSUME TestInv, NEW t \in Tids, EmitLog(t), UNCHANGED testVars
  PROVE  TestInv'
<1>0. ThreadInv(t) /\ Arrays
  BY DEF TestInv
<1>1. /\ requests[t] # <<>> /\ Head(requests[t]).op # "FETCH" /\ bound[t]
      /\ UNCHANGED <<callVars, ctx, bound, kernelVars, out, history>>
  BY DEF EmitLog, Serving
<1>2. t \notin stale => fn[t] # "none" /\ fn[t] # "fetch" /\ Waiting(t)
  BY <1>1, Served DEF Asks
<1>3. PICK m \in Message : m = Text("LOG")
  BY MessageTypes
<1>4. rx' = [rx EXCEPT ![t] = Append(@, m)]
  BY <1>3 DEF EmitLog
<1>5. PICK q \in Seq(Message) : q = rx[t]
  BY <1>0 DEF Arrays
<1>6. /\ Append(q, m) \in Seq(Message) /\ Len(q) \in Nat /\ Len(Append(q, m)) = Len(q) + 1
      /\ \A i \in 1 .. Len(q) : Append(q, m)[i] = q[i]
      /\ Append(q, m)[Len(q) + 1] = m
  BY AppendFacts
<1>7. Arrays' /\ rx'[t] = Append(q, m)
  BY <1>0, <1>1, <1>4, <1>5, <1>6 DEF Arrays
<1>8. ASSUME NEW s \in Tids \ {t} PROVE SameAt(s)
  BY <1>0, <1>1, <1>4 DEF SameAt, SameCall, Arrays
<1>9. Channel(t)'
  <2>. SUFFICES ASSUME t \notin stale' PROVE Channel(t)'
    BY DEF Channel
  <2>0. t \notin stale
    BY <1>1
  <2>1. \A i \in 1 .. Len(q) : q[i].type = "LOG"
    BY <1>2, <1>5, <2>0 DEF Waiting
  <2>2. m.type = "LOG"
    BY <1>3 DEF Text
  <2>3. \A i \in 1 .. Len(rx'[t]) : rx'[t][i].type = "LOG"
    BY <1>6, <1>7, <2>1, <2>2
  <2>4. Waiting(t)'
    BY <1>1, <1>2, <2>0, <2>3 DEF Waiting, Asks
  <2>. QED BY <1>1, <1>2, <2>0, <2>4 DEF Channel
<1>10. Socket(t)' /\ Told(t)' /\ Turn(t)'
  <2>1. SameCall(t)
    BY <1>1 DEF SameCall
  <2>. QED BY <1>1, <2>1, SameKernel, OtherCall
<1>. QED BY <1>1, <1>7, <1>8, <1>9, <1>10, SameKernel, OneThread DEF ThreadInv

LEMMA ExpireStep ==
  ASSUME TestInv, NEW u \in Tuples, Expire(u), UNCHANGED testVars
  PROVE  TestInv'
<1>1. UNCHANGED <<callVars, socketVars, requests, gen, out, history, testVars>>
  BY DEF Expire
<1>2. KernelStep
  BY ApiAssumption DEF TestInv, Kernel, KernelStep, Expire
<1>3. ASSUME NEW s \in Tids PROVE ThreadInv(s)'
  BY <1>1, <1>2, OtherThread DEF SameAt, SameCall
<1>. QED BY <1>1, <1>2, <1>3 DEF TestInv, KernelStep, Arrays
----------------------------------------------------------------------------
(* Threads and programs that end.                                          *)

LEMMA ThreadEnds ==
  ASSUME TestInv, NEW t \in Tids, ThreadExit(t), prog[t] = "none", UNCHANGED testVars
  PROVE  TestInv'
<1>0. ThreadInv(t) /\ Arrays
  BY DEF TestInv
<1>1. /\ fn[t] = "none" /\ ctx' = [ctx EXCEPT ![t] = "none"] /\ left' = left \cup {t}
      /\ UNCHANGED <<callVars, bound, rx, kernelVars, out, stale, lost>>
  BY DEF ThreadExit
<1>2. Arrays'
  BY <1>0, <1>1 DEF Arrays
<1>3. ASSUME NEW s \in Tids \ {t} PROVE SameAt(s)
  BY <1>0, <1>1 DEF SameAt, SameCall, Arrays
<1>4. Channel(t)' /\ Told(t)' /\ Turn(t)'
  BY <1>0, <1>1 DEF ThreadInv, Channel, Told, Good, Turn, OwnFresh, Waiting, Answered
<1>5. Socket(t)'
  BY <1>0, <1>1 DEF Arrays, Socket, Ended
<1>. QED BY <1>1, <1>2, <1>3, <1>4, <1>5, SameKernel, OneThread DEF ThreadInv

LEMMA ProcessEnds ==
  ASSUME TestInv, NEW t \in Tids, NEW how \in Ended, Exit(t, how),
         how = "passed" => prog[t] = "turn" /\ Len(tried[t]) = Turns
  PROVE  TestInv'
<1>0. ThreadInv(t) /\ Arrays
  BY DEF TestInv
<1>1. /\ fn' = [fn EXCEPT ![t] = "none"] /\ req' = [req EXCEPT ![t] = NoTuple]
      /\ since' = [since EXCEPT ![t] = 0] /\ lost' = lost \ {t}
      /\ CloseSocket(t) /\ ctx' = [ctx EXCEPT ![t] = "none"]
      /\ prog' = [prog EXCEPT ![t] = how]
      /\ out' = [out EXCEPT ![t] = NoResult] /\ left' = left \ {t}
      /\ UNCHANGED <<kernelVars, tried>>
  BY DEF Exit, Return, Call, SetOut
<1>2. /\ stale' \subseteq Tids /\ \A s \in Tids \ {t} : s \in stale' <=> s \in stale
      /\ t \notin stale' => t \notin stale /\ fn[t] = "none"
  BY <1>0 DEF Exit, GiveUp, Arrays
<1>3. Arrays'
  BY <1>0, <1>1, <1>2, Closes, NoKeyFacts DEF Arrays, Progs
<1>4. ASSUME NEW s \in Tids \ {t} PROVE SameAt(s)
  BY <1>0, <1>1, <1>2, Closes DEF SameAt, SameCall, Arrays
<1>5. /\ fn'[t] = "none" /\ req'[t] = NoTuple /\ ~bound'[t] /\ rx'[t] = <<>> /\ ctx'[t] = "none"
      /\ prog'[t] = how /\ out'[t] = NoResult
  BY <1>0, <1>1, Closes DEF Arrays
<1>6. Told(t)'
  BY <1>5 DEF Told, Good, NoResult, NoKey, Result
<1>7. Turn(t)'
  BY <1>0, <1>1, <1>5 DEF ThreadInv, Turn, Negotiated, Ended
<1>8. Channel(t)' /\ Socket(t)'
  BY <1>0, <1>1, <1>2, <1>5 DEF ThreadInv, Channel, Socket
<1>. QED BY <1>1, <1>3, <1>4, <1>6, <1>7, <1>8, SameKernel, OneThread DEF ThreadInv

LEMMA ProcessStarts ==
  ASSUME TestInv, NEW t \in Tids, NewProcess(t)
  PROVE  TestInv'
<1>0. ThreadInv(t) /\ Arrays
  BY DEF TestInv
<1>1. PICK new \in {"none", "turn"} : prog' = [prog EXCEPT ![t] = new]
  BY DEF NewProcess
<1>2. tried' = [tried EXCEPT ![t] = <<>>] /\ UNCHANGED vars /\ prog[t] \in Ended
  BY DEF NewProcess
<1>3. <<>> \in Seq(Tries) /\ Len(<<>>) = 0
  OBVIOUS
<1>4. Arrays'
  BY <1>0, <1>1, <1>2, <1>3 DEF Arrays, Progs, Running
<1>5. ASSUME NEW s \in Tids \ {t} PROVE SameAt(s)
  BY <1>0, <1>1, <1>2 DEF SameAt, SameCall, Arrays
<1>6. prog'[t] = new /\ tried'[t] = <<>> /\ fn[t] = "none"
  BY <1>0, <1>1, <1>2 DEF Arrays, ThreadInv, Socket
<1>7. Channel(t)' /\ Told(t)'
  BY <1>0, <1>2, <1>6 DEF ThreadInv, Channel, Told, Good, OwnFresh
<1>8. Socket(t)'
  BY <1>0, <1>2, <1>6 DEF ThreadInv, Socket, Ended
<1>9. Turn(t)'
  BY <1>2, <1>3, <1>6 DEF Turn, Negotiated
<1>. QED BY <1>2, <1>4, <1>5, <1>7, <1>8, <1>9, SameKernel, OneThread DEF ThreadInv

(* A turn that succeeded.                                                  *)
LEMMA TurnEnds ==
  ASSUME TestInv, NEW t \in Tids, prog[t] = "called", fn[t] = "none", out[t].status = 0,
         prog' = [prog EXCEPT ![t] = "turn"], UNCHANGED <<vars, tried>>
  PROVE  TestInv'
<1>0. ThreadInv(t) /\ Arrays
  BY DEF TestInv
<1>1. Arrays' /\ prog'[t] = "turn"
  BY <1>0 DEF Arrays, Progs, Running
<1>2. ASSUME NEW s \in Tids \ {t} PROVE SameAt(s)
  BY <1>0 DEF SameAt, SameCall, Arrays
<1>3. Channel(t)' /\ Socket(t)' /\ Told(t)'
  BY <1>0, <1>1 DEF ThreadInv, Channel, Socket, Told, Good, OwnFresh, Ended
<1>4. Turn(t)'
  <2>1. PICK n \in Nat : n = Len(tried[t])
    BY <1>0 DEF Arrays
  <2>2. /\ n > 0 /\ Negotiated(t, n - 1)
        /\ out[t].fn = "handshake" /\ out[t].tuple = tried[t][n].tuple
        /\ t \in stale => tried[t][n].stale
    BY <1>0, <2>1 DEF ThreadInv, Turn
  <2>3. tried[t][n].stale \/ gen[tried[t][n].tuple] > 0
    BY <1>0, <2>2 DEF ThreadInv, Told, Good
  <2>4. Negotiated(t, n)
    BY <2>2, <2>3 DEF Negotiated
  <2>. QED BY <1>1, <2>1, <2>4 DEF Turn, Negotiated
<1>. QED BY <1>1, <1>2, <1>3, <1>4, SameKernel, OneThread DEF ThreadInv

LEMMA ProgramSteps ==
  ASSUME TestInv, NEW t \in Tids,
         ProgramStep(t) \/ timeout_handler(t) \/ ProcessExit(t) \/ NewProcess(t)
  PROVE  TestInv'
<1>1. CASE StartTurn(t)
  <2>1. PICK u \in Tuples :
          /\ Handshake(t, u)
          /\ tried' = [tried EXCEPT ![t] = Append(@, [tuple |-> u, stale |-> t \in stale'])]
    BY <1>1 DEF StartTurn
  <2>2. tlshub_handshake(t, u) /\ TurnStarts(t, u)
    BY <1>1, <2>1 DEF StartTurn, Handshake, hypertls_handshake, TurnStarts
  <2>. QED BY <2>2, HandshakeCall
<1>2. CASE EndTurn(t)
  <2>1. prog[t] = "called" /\ fn[t] = "none"
    BY <1>2 DEF EndTurn
  <2>2. CASE out[t].status = 0
    BY <1>2, <2>1, <2>2, TurnEnds DEF EndTurn
  <2>3. CASE out[t].status # 0
    BY <1>2, <2>1, <2>3, ProcessEnds DEF EndTurn, Ended
  <2>. QED BY <2>2, <2>3
<1>3. CASE Finish(t)
  BY <1>3, ProcessEnds DEF Finish, Ended
<1>4. CASE timeout_handler(t)
  BY <1>4, ProcessEnds DEF timeout_handler, Ended
<1>5. CASE ProcessExit(t)
  BY <1>5, ProcessEnds DEF ProcessExit, Ended
<1>6. CASE NewProcess(t)
  BY <1>6, ProcessStarts
<1>. QED BY <1>1, <1>2, <1>3, <1>4, <1>5, <1>6 DEF ProgramStep
----------------------------------------------------------------------------
LEMMA TestInitially == TestInit => TestInv
<1>. SUFFICES ASSUME TestInit PROVE TestInv
  OBVIOUS
<1>. USE DEF TestInit, Init
<1>1. NoResult \in Outs
  BY NoKeyFacts
<1>2. Kernel
  BY ApiAssumption DEF Kernel
<1>3. <<>> \in Seq(Requests) /\ <<>> \in Seq(Message) /\ <<>> \in Seq(Tries) /\ Len(<<>>) = 0
  OBVIOUS
<1>4. Arrays
  BY <1>1, <1>3 DEF Arrays, Progs, Running
<1>5. ASSUME NEW t \in Tids PROVE ThreadInv(t)
  <2>1. /\ fn[t] = "none" /\ req[t] = NoTuple /\ ctx[t] = "none" /\ bound[t] = FALSE
        /\ rx[t] = <<>> /\ requests[t] = <<>> /\ out[t] = NoResult /\ tried[t] = <<>>
        /\ prog[t] \in {"none", "turn"}
    OBVIOUS
  <2>2. Turn(t)
    BY <1>3, <2>1 DEF Turn, Negotiated
  <2>. QED BY <2>1, <2>2 DEF ThreadInv, Channel, Socket, Told, Good, Ended, NoResult, NoKey, Result
<1>. QED BY <1>2, <1>4, <1>5 DEF TestInv

LEMMA TestInvariant == TestSpec => []TestInv
<1>1. TestInv /\ [TestNext]_allVars => TestInv'
  <2>. SUFFICES ASSUME TestInv, [TestNext]_allVars PROVE TestInv'
    OBVIOUS
  <2>1. ASSUME NEW t \in Tids, ThreadStep(t), UNCHANGED testVars PROVE TestInv'
    <3>1. prog[t] = "none"
      BY <2>1 DEF ThreadStep
    <3>2. CASE tlshub_service_init(t)
      BY <2>1, <3>1, <3>2, InitCall
    <3>3. ASSUME NEW u \in Tuples, tlshub_handshake(t, u) PROVE TestInv'
      BY <2>1, <3>1, <3>3, HandshakeCall
    <3>4. ASSUME NEW u \in Tuples, tlshub_fetch_key(t, u) PROVE TestInv'
      BY <2>1, <3>1, <3>4, FetchCall
    <3>5. CASE ThreadExit(t)
      BY <2>1, <3>1, <3>5, ThreadEnds
    <3>. QED BY <2>1, <3>2, <3>3, <3>4, <3>5
             DEF ThreadStep, CallApi, hypertls_service_init, hypertls_handshake, hypertls_fetch_key
  <2>2. ASSUME NEW t \in Tids, Receive(t), UNCHANGED testVars PROVE TestInv'
    BY <2>2, InitReceives, HandshakeReceives, FetchReceives DEF Receive
  <2>3. CASE UNCHANGED allVars
    <3>1. KernelStep
      BY <2>3, SameKernel
    <3>2. ASSUME NEW s \in Tids PROVE ThreadInv(s)'
      BY <2>3, <3>1, OtherThread DEF SameAt, SameCall
    <3>. QED BY <2>3, <3>1, <3>2 DEF TestInv, KernelStep, Arrays
  <2>. QED BY <2>1, <2>2, <2>3, GivesUp, ServeSteps, LogStep, ExpireStep, ProgramSteps DEF TestNext
<1>. QED BY <1>1, TestInitially, PTL DEF TestSpec

(* TypeOK holds in every reachable state: in particular a 4-tuple is        *)
(* recorded exactly while a call runs, and a context's socket is open.      *)
THEOREM TypeCorrect == TestSpec => []TypeOK
<1>1. TestInv => TypeOK
  <2>. SUFFICES ASSUME TestInv PROVE TypeOK
    OBVIOUS
  <2>1. requests \in [Tids -> Seq([op : {"INIT", "START", "FETCH"}, tuple : Tuples \cup {NoTuple}])]
    <3>1. Requests \subseteq [op : {"INIT", "START", "FETCH"}, tuple : Tuples \cup {NoTuple}]
      BY DEF Requests
    <3>2. requests \in [Tids -> Seq(Requests)]
      BY DEF TestInv, Arrays
    <3>3. ASSUME NEW t \in Tids
          PROVE  requests[t] \in Seq([op : {"INIT", "START", "FETCH"}, tuple : Tuples \cup {NoTuple}])
      BY <3>1, <3>2, SeqSubset
    <3>. QED BY <3>2, <3>3
  <2>. QED BY <2>1 DEF TestInv, Kernel, Arrays, Outs, ThreadInv, Told, Socket, TypeOK
<1>. QED BY <1>1, TestInvariant, PTL

(* Whatever the other threads and the test programs do, whichever requests *)
(* and answers are lost, whichever receive fails and whenever a process    *)
(* ends, a key that tlshub_fetch_key returns belongs to its 4-tuple and is *)
(* not older than that 4-tuple's key was when the call began, unless the   *)
(* call began on a port id where a call that gave up had left something.   *)
THEOREM OwnKeyCorrect == TestSpec => []OwnKey
<1>1. TestInv => OwnKey
  BY DEF TestInv, ThreadInv, Told, Good, OwnFresh, OwnKey
<1>. QED BY <1>1, TestInvariant, PTL

(* Under the same failures, and with the same exception, tlshub_handshake  *)
(* returns 0 only for a 4-tuple with a negotiated key.                     *)
THEOREM TrueVerdictCorrect == TestSpec => []TrueVerdict
<1>1. TestInv => TrueVerdict
  BY DEF TestInv, ThreadInv, Told, Good, TrueVerdict
<1>. QED BY <1>1, TestInvariant, PTL

(* Between two calls of a thread nothing is queued for its port id, unless *)
(* its last call, or one of a process that ended, gave up; and the port id *)
(* is held by nobody but a context, or by a socket forgotten by a thread   *)
(* that ended or by a tlshub_service_init that returned -2.                *)
THEOREM InSyncCorrect == TestSpec => []InSync
<1>1. TestInv => InSync
  BY DEF TestInv, ThreadInv, Channel, Socket, InSync
<1>. QED BY <1>1, TestInvariant, PTL

(* A program passes only when each of its handshakes that did not begin on *)
(* left-overs has left a key.                                              *)
THEOREM PassCorrect == TestSpec => []PassMeansNegotiated
<1>1. TestInv => PassMeansNegotiated
  <2>. SUFFICES ASSUME TestInv, NEW t \in Tids, prog[t] = "passed"
                PROVE  /\ Len(tried[t]) = Turns
                       /\ \A i \in DOMAIN tried[t] : tried[t][i].stale \/ gen[tried[t][i].tuple] > 0
    BY DEF PassMeansNegotiated
  <2>1. DOMAIN tried[t] = 1 .. Len(tried[t])
    BY DEF TestInv, Arrays
  <2>. QED BY <2>1 DEF TestInv, ThreadInv, Turn, Negotiated
<1>. QED BY <1>1, TestInvariant, PTL
============================================================================
