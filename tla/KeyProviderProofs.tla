------------------------- MODULE KeyProviderProofs -------------------------
(***************************************************************************)
(* Proofs about KeyProvider, for every set of 4-tuples and every bound.    *)
(***************************************************************************)
EXTENDS KeyProvider, TLAPS

USE DEF vars, serviceVars, clientVars, providerVars

(* What TLSHub knows of a 4-tuple agrees with the number of its keys.      *)
Sessions ==
  \A t \in Tuples :
    /\ session[t] = "none" => gen[t] = 0
    /\ session[t] = "live" => gen[t] > 0
    /\ session[t] = "expired" => gen[t] < MaxGen

(* An initialisation that waits, or has succeeded, has its socket.         *)
Starting ==
  call = "init" => /\ fn \in {"none", "init"}
                   /\ fn = "init" \/ ret = "ok" => netlink_sock

TypeInv == TypeOK /\ Sessions /\ Starting

(* Queue operations stay within the type of the queue.                     *)
LEMMA QueueTypes ==
  ASSUME NEW S, NEW q \in Seq(S)
  PROVE  /\ \A e \in S : Append(q, e) \in Seq(S)
         /\ q # <<>> => Head(q) \in S /\ Tail(q) \in Seq(S)
OBVIOUS

(* The messages TLSHub sends are messages.                                 *)
LEMMA MessageTypes ==
  /\ \A type \in MsgTypes : Text(type) \in Message
  /\ \A s \in {0, -1, -2, 1}, k \in Keys : KeyBack(s, k) \in Message
  /\ ZeroKey \in Keys /\ LocalKey \in Keys
<1>1. ZeroKey \in Keys /\ LocalKey \in Keys
  BY DEF ZeroKey, LocalKey, Keys
<1>2. \A type \in MsgTypes : Text(type) \in Message
  BY <1>1 DEF Text, Message
<1>3. \A s \in {0, -1, -2, 1}, k \in Keys : KeyBack(s, k) \in Message
  BY DEF KeyBack, Message, MsgTypes
<1>. QED BY <1>1, <1>2, <1>3

LEMMA DeliverTypes ==
  ASSUME TypeInv, NEW m \in Message, Deliver(m)
  PROVE  rx' \in Seq(Message) /\ overrun' \in BOOLEAN
<1>0. rx \in Seq(Message) /\ overrun \in BOOLEAN
  BY DEF TypeInv, TypeOK
<1>1. CASE Len(rx) < RcvBuf
  BY <1>0, <1>1, QueueTypes DEF Deliver
<1>2. CASE ~(Len(rx) < RcvBuf)
  BY <1>0, <1>2 DEF Deliver
<1>. QED BY <1>0, <1>1, <1>2

LEMMA InitTypes == Init => TypeInv
<1>. SUFFICES ASSUME Init PROVE TypeInv
  OBVIOUS
<1>. USE BoundAssumption DEF Init, ServiceInit, ClientInit
<1>1. inbox \in Seq(Request) /\ rx \in Seq(Message)
  OBVIOUS
<1>2. ZeroKey \in Keys
  BY MessageTypes
<1>3. out \in [ret : {"ok", "fail"}, tuple : Tuples \cup {NoTuple}, since : Nat, key : Keys]
  BY <1>2 DEF Answer
<1>4. gen \in [Tuples -> 0 .. MaxGen] /\ session \in [Tuples -> {"none", "live", "expired"}]
  OBVIOUS
<1>5. TypeOK
  BY <1>1, <1>2, <1>3, <1>4 DEF TypeOK, Functions, Calls, InGetKey
<1>6. Sessions /\ Starting
  BY DEF Sessions, Starting
<1>. QED BY <1>5, <1>6 DEF TypeInv

LEMMA ServiceTypes ==
  ASSUME TypeInv, ServiceNext /\ UNCHANGED <<clientVars, providerVars>>
  PROVE  TypeInv'
<1>. USE DEF TypeInv
<1>0. \A q : inbox # <<>> => Head(inbox) \in Request /\ Tail(inbox) \in Seq(Request)
  BY QueueTypes DEF TypeOK
<1>1. CASE ServeInit
  <2>1. rx' \in Seq(Message) /\ overrun' \in BOOLEAN
    BY <1>1, MessageTypes, DeliverTypes DEF ServeInit, MsgTypes
  <2>2. inbox' \in Seq(Request)
    BY <1>0, <1>1 DEF ServeInit, Serving
  <2>. QED BY <1>1, <2>1, <2>2 DEF ServeInit, TypeOK, Sessions, Starting
<1>2. CASE ServeFetch
  <2>1. Head(inbox).tuple \in Tuples /\ inbox' \in Seq(Request)
    BY <1>0, <1>2 DEF ServeFetch, Serving, Request
  <2>2. FetchReply(Head(inbox).tuple) \in Message
    <3>1. <<Head(inbox).tuple, gen[Head(inbox).tuple]>> \in Keys
      BY <2>1, BoundAssumption DEF TypeOK, Keys
    <3>. QED BY <3>1, MessageTypes DEF FetchReply
  <2>3. rx' \in Seq(Message) /\ overrun' \in BOOLEAN
    BY <1>2, <2>2, DeliverTypes DEF ServeFetch
  <2>. QED BY <1>2, <2>1, <2>3 DEF ServeFetch, TypeOK, Sessions, Starting
<1>3. CASE HandshakeSucceeds
  <2>. DEFINE t == Head(inbox).tuple
  <2>1. t \in Tuples /\ inbox' \in Seq(Request)
    BY <1>0, <1>3 DEF HandshakeSucceeds, Serving, Request
  <2>2. rx' \in Seq(Message) /\ overrun' \in BOOLEAN
    <3>1. \E type \in MsgTypes : Deliver(Text(type))
      BY <1>3 DEF HandshakeSucceeds, MsgTypes, HandshakeOk
    <3>. QED BY <3>1, MessageTypes, DeliverTypes
  <2>3. /\ gen' \in [Tuples -> 0 .. MaxGen]
        /\ session' \in [Tuples -> {"none", "live", "expired"}]
        /\ Sessions'
    <3>1. CASE session[t] = "live"
      BY <1>3, <3>1 DEF HandshakeSucceeds, TypeOK, Sessions, Starting
    <3>2. CASE session[t] # "live"
      <4>1. gen[t] \in 0 .. MaxGen /\ gen[t] < MaxGen
        BY <2>1, <3>2, BoundAssumption DEF TypeOK, Sessions, Starting
      <4>2. /\ session' = [session EXCEPT ![t] = "live"]
            /\ gen' = [gen EXCEPT ![t] = @ + 1]
        BY <1>3, <3>2 DEF HandshakeSucceeds
      <4>. HIDE DEF t
      <4>. QED BY <2>1, <4>1, <4>2, BoundAssumption DEF TypeOK, Sessions, Starting
    <3>. QED BY <3>1, <3>2
  <2>. QED BY <1>3, <2>1, <2>2, <2>3 DEF HandshakeSucceeds, TypeOK, Starting
<1>4. CASE HandshakeFails
  <2>1. rx' \in Seq(Message) /\ overrun' \in BOOLEAN
    BY <1>4, MessageTypes, DeliverTypes DEF HandshakeFails, MsgTypes
  <2>2. inbox' \in Seq(Request)
    BY <1>0, <1>4 DEF HandshakeFails, Serving
  <2>. QED BY <1>4, <2>1, <2>2 DEF HandshakeFails, TypeOK, Sessions, Starting
<1>5. CASE EmitLog
  <2>1. rx' \in Seq(Message) /\ overrun' \in BOOLEAN
    BY <1>5, MessageTypes, DeliverTypes DEF EmitLog, MsgTypes
  <2>. QED BY <1>5, <2>1 DEF EmitLog, TypeOK, Sessions, Starting
<1>6. CASE \E t \in Tuples : Expire(t)
  BY <1>6 DEF Expire, TypeOK, Sessions, Starting
<1>. QED BY <1>1, <1>2, <1>3, <1>4, <1>5, <1>6 DEF ServiceNext, Serve

LEMMA ClientTypes ==
  ASSUME TypeInv, ClientNext /\ UNCHANGED providerVars
  PROVE  TypeInv'
<1>. USE DEF TypeInv
<1>0. rx # <<>> => Head(rx) \in Message /\ Tail(rx) \in Seq(Message)
  BY QueueTypes DEF TypeOK
<1>1. CASE InitRecv
  <2>1. rx' \in Seq(Message) /\ overrun' \in BOOLEAN
    BY <1>0, <1>1 DEF InitRecv, Recv, RecvError, CanRecvMessage, TypeOK
  <2>2. fn' \in Functions /\ ret' \in {"ok", "fail"}
    BY <1>1 DEF InitRecv, Returns, Functions, TypeOK
  <2>3. Starting' /\ netlink_sock' = netlink_sock
    BY <1>1 DEF InitRecv, Returns, Starting
  <2>. QED
    BY <1>1, <2>1, <2>2, <2>3 DEF InitRecv, Recv, RecvError, TypeOK, Sessions
<1>2. CASE FetchRecv
  <2>1. key_info' \in Keys
    BY <1>0, <1>2, MessageTypes
    DEF FetchRecv, Recv, CanRecvMessage, TypeOK, Message
  <2>2. rx' \in Seq(Message) /\ overrun' \in BOOLEAN
    BY <1>0, <1>2 DEF FetchRecv, Recv, RecvError, CanRecvMessage, TypeOK
  <2>3. fn' \in Functions /\ ret' \in {"ok", "fail"}
    BY <1>2 DEF FetchRecv, Returns, Functions
  <2>. QED
    BY <1>2, <2>1, <2>2, <2>3 DEF FetchRecv, Recv, RecvError, TypeOK, Sessions, Starting
<1>3. CASE HandshakeRecv
  <2>1. rx' \in Seq(Message) /\ overrun' \in BOOLEAN
    BY <1>0, <1>3 DEF HandshakeRecv, HandshakeLoop, Recv, RecvError, CanRecvMessage, TypeOK
  <2>2. fn' \in Functions /\ ret' \in {"ok", "fail"}
    BY <1>3 DEF HandshakeRecv, HandshakeLoop, Returns, Functions, TypeOK
  <2>. QED
    BY <1>3, <2>1, <2>2 DEF HandshakeRecv, HandshakeLoop, Recv, RecvError, TypeOK, Sessions, Starting
<1>. QED BY <1>1, <1>2, <1>3 DEF ClientNext

(* The part of a call up to its first recvfrom.                            *)
LEMMA SendtoTypes ==
  ASSUME TypeInv, NEW op, NEW t, [op |-> op, tuple |-> t] \in Request, Sendto(op, t)
  PROVE  inbox' \in Seq(Request)
<1>1. inbox \in Seq(Request)
  BY DEF TypeInv, TypeOK
<1>2. Append(inbox, [op |-> op, tuple |-> t]) \in Seq(Request)
  BY <1>1, QueueTypes
<1>. QED BY <1>1, <1>2 DEF Sendto

LEMMA FetchCallTypes ==
  ASSUME TypeInv, NEW t \in Tuples, tlshub_fetch_key(t)
  PROVE  inbox' \in Seq(Request) /\ fn' \in Functions /\ ret' \in {"ok", "fail"}
<1>1. [op |-> "FETCH", tuple |-> t] \in Request
  BY DEF Request
<1>2. Sendto("FETCH", t) => inbox' \in Seq(Request)
  BY <1>1, SendtoTypes
<1>. QED BY <1>2 DEF tlshub_fetch_key, Returns, Functions, TypeInv, TypeOK

LEMMA HandshakeCallTypes ==
  ASSUME TypeInv, NEW t \in Tuples, tlshub_handshake(t)
  PROVE  /\ inbox' \in Seq(Request) /\ fn' \in Functions
         /\ ret' \in {"ok", "fail"} /\ nlh' \in BOOLEAN
<1>1. [op |-> "START", tuple |-> t] \in Request
  BY DEF Request
<1>2. Sendto("START", t) => inbox' \in Seq(Request)
  BY <1>1, SendtoTypes
<1>. QED BY <1>2 DEF tlshub_handshake, Returns, Functions, TypeInv, TypeOK

LEMMA ProviderTypes ==
  ASSUME TypeInv, ProviderStep
  PROVE  TypeInv'
<1>. USE DEF TypeInv
<1>1. CASE InitReturns
  BY <1>1 DEF InitReturns, TypeOK, Sessions, Starting, Calls, InGetKey
<1>2. CASE StartHandshake
  <2>1. req \in Tuples
    BY <1>2 DEF StartHandshake, TypeOK, InGetKey
  <2>. QED BY <1>2, <2>1, HandshakeCallTypes
           DEF StartHandshake, tlshub_handshake, TypeOK, Sessions, Starting, Calls, InGetKey
<1>3. CASE FetchAgain
  <2>1. req \in Tuples
    BY <1>3 DEF FetchAgain, TypeOK, InGetKey
  <2>. QED BY <1>3, <2>1, FetchCallTypes
           DEF FetchAgain, tlshub_fetch_key, TypeOK, Sessions, Starting, Calls, InGetKey
<1>4. CASE GetKeyReturns
  <2>1. out' \in [ret : {"ok", "fail"}, tuple : Tuples \cup {NoTuple}, since : Nat, key : Keys]
    BY <1>4, MessageTypes DEF GetKeyReturns, Answer, TypeOK
  <2>. QED BY <1>4, <2>1 DEF GetKeyReturns, TypeOK, Sessions, Starting, Calls, InGetKey
<1>. QED BY <1>1, <1>2, <1>3, <1>4 DEF ProviderStep

LEMMA CallerTypes ==
  ASSUME TypeInv, CallerStep
  PROVE  TypeInv'
<1>. USE DEF TypeInv
<1>1. ASSUME NEW m \in Modes, key_provider_init(m) PROVE TypeInv'
  <2>0. m \in {"TLSHUB", "OPENSSL", "BORINGSSL"}
    BY ModeAssumption
  <2>1. CASE m = "TLSHUB"
    <3>1. [op |-> "INIT", tuple |-> NoTuple] \in Request
      BY DEF Request
    <3>2. Sendto("INIT", NoTuple) => inbox' \in Seq(Request)
      BY <3>1, SendtoTypes
    <3>. QED BY <1>1, <2>1, <3>2
             DEF key_provider_init, tlshub_client_init, Returns, Functions, TypeOK,
                 Sessions, Starting, Calls, InGetKey
  <2>2. CASE m # "TLSHUB"
    BY <1>1, <2>0, <2>2 DEF key_provider_init, TypeOK, Sessions, Starting
  <2>. QED BY <2>1, <2>2
<1>2. ASSUME NEW m \in Modes, key_provider_set_mode(m) PROVE TypeInv'
  BY <1>2, ModeAssumption DEF key_provider_set_mode, TypeOK, Sessions, Starting
<1>3. ASSUME NEW t \in Tuples, key_provider_get_key(t) PROVE TypeInv'
  <2>1. since' \in Nat
    BY <1>3, BoundAssumption DEF key_provider_get_key, TypeOK
  <2>. QED BY <1>3, <2>1, FetchCallTypes, TupleAssumption
           DEF key_provider_get_key, tlshub_fetch_key, TypeOK, Sessions, Starting, Calls, InGetKey
<1>4. CASE openssl_get_key
  <2>1. out' \in [ret : {"ok", "fail"}, tuple : Tuples \cup {NoTuple}, since : Nat, key : Keys]
    BY <1>4, MessageTypes DEF openssl_get_key, Answer
  <2>. QED BY <1>4, <2>1 DEF openssl_get_key, TypeOK, Sessions, Starting
<1>5. CASE key_provider_cleanup
  <2>0. <<>> \in Seq(Message)
    OBVIOUS
  <2>1. rx' \in Seq(Message)
    BY <1>5, <2>0 DEF key_provider_cleanup, tlshub_client_cleanup, TypeOK
  <2>. QED BY <1>5, <2>1 DEF key_provider_cleanup, tlshub_client_cleanup, TypeOK, Sessions, Starting
<1>. QED BY <1>1, <1>2, <1>3, <1>4, <1>5 DEF CallerStep

(* TypeOK holds in every reachable state, whatever faults are allowed.      *)
THEOREM TypeCorrect == Spec => []TypeOK
<1>1. Init => TypeInv
  BY InitTypes
<1>2. TypeInv /\ [Next]_vars => TypeInv'
  <2>1. CASE UNCHANGED vars
    BY <2>1 DEF TypeInv, TypeOK, Sessions, Starting
  <2>. QED BY <2>1, ServiceTypes, ClientTypes, ProviderTypes, CallerTypes DEF Next
<1>3. TypeInv => TypeOK
  BY DEF TypeInv
<1>. QED BY <1>1, <1>2, <1>3, PTL DEF Spec
----------------------------------------------------------------------------
(* Why no answer is taken for another one.  When TLSHub logs only before   *)
(* its final messages and the receive queue never overflows, the messages  *)
(* in the two queues at any moment belong to the function that waits.      *)

OwnFresh(k) == k[1] = req /\ k[2] > 0 /\ since <= k[2] /\ k[2] <= gen[req]

(* m is the message that ends the function under way.                      *)
Ends(m) ==
  \/ fn = "init" /\ m.type = "INIT_COMPLETE"
  \/ fn = "handshake" /\ m.type \in HandshakeOk \cup {"FAILED"}
  \/ fn = "fetch" /\ m.type = "KEY" /\ (m.status = 0 => OwnFresh(m.key))

(* r is the request the function under way has sent.                       *)
Asks(r) ==
  \/ fn = "init" /\ r.op = "INIT"
  \/ fn = "handshake" /\ r.op = "START" /\ r.tuple = req
  \/ fn = "fetch" /\ r.op = "FETCH" /\ r.tuple = req

Quiet == inbox = <<>> /\ rx = <<>>

Waiting ==
  /\ Len(inbox) = 1 /\ Asks(inbox[1])
  /\ Len(rx) <= MaxLogs
  /\ \A i \in 1 .. Len(rx) : rx[i].type = "LOG"
  /\ fn = "fetch" => rx = <<>>

Answered ==
  /\ inbox = <<>>
  /\ Len(rx) > 0 /\ Ends(rx[Len(rx)])
  /\ \A i \in 1 .. Len(rx) : i < Len(rx) => rx[i].type = "LOG"
  /\ fn = "fetch" => Len(rx) = 1

(* Quiet while a function waits: its sendto failed.                        *)
Channel ==
  /\ ~overrun
  /\ fn = "none" => Quiet
  /\ fn # "none" => Quiet \/ Waiting \/ Answered

(* The provider and the client agree on which function is running.         *)
Calling ==
  /\ call = "idle" => fn = "none"
  /\ call = "init" => fn \in {"none", "init"}
  /\ call \in {"fetch1", "fetch2"} => fn \in {"none", "fetch"}
  /\ call = "handshake" => fn \in {"none", "handshake"}

Links == Calling /\ (call \in InGetKey => since <= gen[req])

KeyReady ==
  call \in {"fetch1", "fetch2"} /\ fn = "none" /\ ret = "ok" => OwnFresh(key_info)

SyncInv == TypeInv /\ Channel /\ Links /\ KeyReady /\ OwnKey

LEMMA AppendFacts ==
  ASSUME NEW S, NEW q \in Seq(S), NEW e \in S
  PROVE  /\ Len(Append(q, e)) = Len(q) + 1
         /\ \A i \in 1 .. Len(q) : Append(q, e)[i] = q[i]
         /\ Append(q, e)[Len(q) + 1] = e
OBVIOUS

LEMMA TailFacts ==
  ASSUME NEW S, NEW q \in Seq(S), q # <<>>
  PROVE  /\ Len(q) \in Nat /\ Len(q) > 0
         /\ Head(q) = q[1]
         /\ Len(Tail(q)) = Len(q) - 1
         /\ \A i \in 1 .. Len(q) - 1 : Tail(q)[i] = q[i + 1]
OBVIOUS

LEMMA EmptyFacts ==
  ASSUME NEW S, NEW q \in Seq(S)
  PROVE  Len(q) \in Nat /\ (q = <<>> <=> Len(q) = 0)
OBVIOUS

(* A final message behind the queued logs completes the answer.            *)
LEMMA ReplyAnswers ==
  ASSUME TypeInv, Waiting, MaxLogs < RcvBuf, NEW m \in Message,
         Deliver(m), inbox' = Tail(inbox), fn' = fn, Ends(m)'
  PROVE  Answered' /\ UNCHANGED overrun
<1>1. rx \in Seq(Message) /\ inbox \in Seq(Request)
  BY DEF TypeInv, TypeOK
<1>2. Len(rx) \in Nat /\ Len(rx) < RcvBuf
  BY <1>1, EmptyFacts, BoundAssumption DEF Waiting
<1>3. rx' = Append(rx, m) /\ UNCHANGED overrun
  BY <1>2 DEF Deliver
<1>4. inbox' = <<>>
  <2>1. inbox # <<>> /\ Tail(inbox) \in Seq(Request)
    BY <1>1, EmptyFacts, QueueTypes DEF Waiting
  <2>. QED BY <1>1, <2>1, TailFacts, EmptyFacts DEF Waiting
<1>5. /\ Len(rx') = Len(rx) + 1
      /\ \A i \in 1 .. Len(rx) : rx'[i] = rx[i]
      /\ rx'[Len(rx) + 1] = m
  BY <1>1, <1>3, AppendFacts
<1>6. fn' = "fetch" => Len(rx') = 1
  BY <1>1, <1>5, EmptyFacts DEF Waiting
<1>7. Ends(rx[Len(rx)])'
  BY <1>2, <1>5 DEF Ends, OwnFresh
<1>8. \A i \in 1 .. Len(rx') : i < Len(rx') => rx'[i].type = "LOG"
  BY <1>2, <1>5 DEF Waiting
<1>. QED BY <1>2, <1>3, <1>4, <1>5, <1>6, <1>7, <1>8 DEF Answered

(* TLSHub serves a request only while its sender waits.                    *)
LEMMA ServedWaits ==
  ASSUME SyncInv, inbox # <<>>
  PROVE  fn # "none" /\ Waiting /\ Head(inbox) = inbox[1]
<1>1. inbox \in Seq(Request)
  BY DEF SyncInv, TypeInv, TypeOK
<1>. QED BY <1>1, TailFacts DEF SyncInv, Channel, Quiet, Answered

LEMMA ServiceSync ==
  ASSUME ~LateLogs, MaxLogs < RcvBuf, SyncInv,
         ServiceNext /\ UNCHANGED <<clientVars, providerVars>>
  PROVE  SyncInv'
<1>. USE DEF SyncInv
<1>0. TypeInv'
  BY ServiceTypes
<1>1. CASE ServeInit
  <2>1. fn = "init" /\ Waiting /\ fn' = fn
    BY <1>1, ServedWaits DEF ServeInit, Serving, Asks, Waiting
  <2>2. Ends(Text("INIT_COMPLETE"))'
    BY <2>1 DEF Ends, Text
  <2>3. Text("INIT_COMPLETE") \in Message
    BY MessageTypes DEF MsgTypes
  <2>4. Answered' /\ UNCHANGED overrun
    BY <1>1, <2>1, <2>2, <2>3, ReplyAnswers DEF ServeInit
  <2>5. Channel'
    BY <2>1, <2>4 DEF Channel
  <2>. QED BY <1>0, <1>1, <2>5 DEF ServeInit, Links, Calling, KeyReady, OwnFresh, OwnKey
<1>2. CASE ServeFetch
  <2>1. fn = "fetch" /\ Waiting /\ fn' = fn /\ Head(inbox).tuple = req
    BY <1>2, ServedWaits DEF ServeFetch, Serving, Asks, Waiting
  <2>2. req \in Tuples /\ since <= gen[req] /\ gen[req] \in Nat
    BY <2>1, BoundAssumption DEF Links, Calling, TypeInv, TypeOK, Calls, InGetKey
  <2>3. PICK m : m = FetchReply(req)
    OBVIOUS
  <2>4. m \in Message
    <3>1. <<req, gen[req]>> \in Keys
      BY <2>2 DEF Keys
    <3>. QED BY <2>3, <3>1, MessageTypes DEF FetchReply
  <2>5. m.type = "KEY" /\ (m.status = 0 => session[req] = "live" /\ m.key = <<req, gen[req]>>)
    BY <2>3 DEF FetchReply, KeyBack
  <2>6. Ends(m)'
    BY <1>2, <2>1, <2>2, <2>5 DEF Ends, OwnFresh, ServeFetch, Sessions, TypeInv
  <2>7. Answered' /\ UNCHANGED overrun
    BY <1>2, <2>1, <2>3, <2>4, <2>6, ReplyAnswers DEF ServeFetch
  <2>8. Channel'
    BY <2>1, <2>7 DEF Channel
  <2>. QED BY <1>0, <1>2, <2>8 DEF ServeFetch, Links, Calling, KeyReady, OwnFresh, OwnKey
<1>3. CASE HandshakeSucceeds
  <2>1. fn = "handshake" /\ Waiting /\ fn' = fn /\ Head(inbox).tuple = req
    BY <1>3, ServedWaits DEF HandshakeSucceeds, Serving, Asks, Waiting
  <2>2. req \in Tuples /\ call = "handshake"
    BY <2>1 DEF Links, Calling, TypeInv, TypeOK, Calls, InGetKey
  <2>3. PICK type \in HandshakeOk : Deliver(Text(type)) /\ inbox' = Tail(inbox)
    BY <1>3 DEF HandshakeSucceeds, HandshakeOk
  <2>4. Text(type) \in Message /\ Ends(Text(type))'
    BY <2>1, <2>3, MessageTypes DEF Ends, Text, MsgTypes
  <2>5. Answered' /\ UNCHANGED overrun
    BY <2>1, <2>3, <2>4, ReplyAnswers
  <2>6. Channel'
    BY <2>1, <2>5 DEF Channel
  <2>7. \A t \in Tuples : gen[t] \in Nat /\ gen'[t] \in Nat /\ gen'[t] >= gen[t]
    <3>1. gen \in [Tuples -> 0 .. MaxGen]
      BY DEF TypeInv, TypeOK
    <3>2. gen' = gen \/ gen' = [gen EXCEPT ![req] = @ + 1]
      BY <1>3, <2>1 DEF HandshakeSucceeds
    <3>. QED BY <2>2, <3>1, <3>2, BoundAssumption
  <2>8. Links' /\ KeyReady'
    BY <2>1, <2>2, <2>7 DEF Links, Calling, KeyReady, TypeInv, TypeOK
  <2>9. OwnKey'
    BY <2>7 DEF OwnKey, TypeInv, TypeOK, Keys
  <2>. QED BY <1>0, <2>6, <2>8, <2>9
<1>4. CASE HandshakeFails
  <2>1. fn = "handshake" /\ Waiting /\ fn' = fn
    BY <1>4, ServedWaits DEF HandshakeFails, Serving, Asks, Waiting
  <2>2. Text("FAILED") \in Message /\ Ends(Text("FAILED"))'
    BY <2>1, MessageTypes DEF Ends, Text, MsgTypes
  <2>3. Answered' /\ UNCHANGED overrun
    BY <1>4, <2>1, <2>2, ReplyAnswers DEF HandshakeFails
  <2>4. Channel'
    BY <2>1, <2>3 DEF Channel
  <2>. QED BY <1>0, <1>4, <2>4 DEF HandshakeFails, Links, Calling, KeyReady, OwnFresh, OwnKey
<1>5. CASE EmitLog
  <2>1. fn \in {"init", "handshake"} /\ Waiting /\ Len(rx) < MaxLogs /\ fn' = fn
    BY <1>5, ServedWaits DEF EmitLog, Serving, Asks, Waiting
  <2>2. rx \in Seq(Message) /\ Len(rx) \in Nat
    BY EmptyFacts DEF TypeInv, TypeOK
  <2>3. rx' = Append(rx, Text("LOG")) /\ UNCHANGED <<overrun, inbox>>
    BY <1>5, <2>1, <2>2, BoundAssumption DEF EmitLog, Deliver
  <2>4. Text("LOG") \in Message /\ Text("LOG").type = "LOG"
    BY MessageTypes DEF MsgTypes, Text
  <2>5. /\ Len(rx') = Len(rx) + 1
        /\ \A i \in 1 .. Len(rx) : rx'[i] = rx[i]
        /\ rx'[Len(rx) + 1] = Text("LOG")
    BY <2>2, <2>3, <2>4, AppendFacts
  <2>6. \A i \in 1 .. Len(rx') : rx'[i].type = "LOG"
    BY <2>1, <2>2, <2>4, <2>5 DEF Waiting
  <2>7. Asks(inbox[1])' /\ Len(inbox') = 1
    BY <1>5, <2>1 DEF EmitLog, Waiting, Asks
  <2>8. Waiting'
    BY <2>1, <2>2, <2>5, <2>6, <2>7, BoundAssumption DEF Waiting
  <2>9. Channel'
    BY <2>1, <2>3, <2>8 DEF Channel
  <2>. QED BY <1>0, <1>5, <2>9 DEF EmitLog, Links, Calling, KeyReady, OwnFresh, OwnKey
<1>6. CASE \E t \in Tuples : Expire(t)
  BY <1>0, <1>6 DEF Expire, Channel, Quiet, Waiting, Asks, Answered, Ends, Links, Calling,
                    KeyReady, OwnFresh, OwnKey
<1>. QED BY <1>1, <1>2, <1>3, <1>4, <1>5, <1>6 DEF ServiceNext, Serve

(* A wait consumes the first queued message: a log, or its own answer.     *)
LEMMA RecvTakes ==
  ASSUME SyncInv, fn # "none", Recv
  PROVE  \/ Ends(Head(rx)) /\ inbox' = <<>> /\ rx' = <<>>
         \/ /\ Head(rx).type = "LOG" /\ fn # "fetch"
            /\ fn' = fn /\ UNCHANGED <<req, since, gen>> =>
                 Quiet' \/ Waiting' \/ Answered'
<1>. USE DEF SyncInv
<1>1. rx \in Seq(Message) /\ rx # <<>> /\ rx' = Tail(rx) /\ UNCHANGED inbox
  BY DEF TypeInv, TypeOK, Recv, CanRecvMessage
<1>2. /\ Len(rx) \in Nat /\ Len(rx) > 0
      /\ Head(rx) = rx[1]
      /\ rx' \in Seq(Message) /\ Len(rx') = Len(rx) - 1
      /\ \A i \in 1 .. Len(rx) - 1 : rx'[i] = rx[i + 1]
  BY <1>1, TailFacts, QueueTypes
<1>3. CASE Waiting
  <2>1. Head(rx).type = "LOG" /\ fn # "fetch"
    BY <1>1, <1>2, <1>3 DEF Waiting
  <2>2. ASSUME fn' = fn, UNCHANGED <<req, since, gen>> PROVE Waiting'
    <3>1. Asks(inbox[1])' /\ Len(inbox') = 1
      BY <1>1, <1>3, <2>2 DEF Waiting, Asks
    <3>2. \A i \in 1 .. Len(rx') : rx'[i].type = "LOG"
      BY <1>2, <1>3 DEF Waiting
    <3>. QED BY <1>2, <1>3, <2>1, <2>2, <3>1, <3>2, BoundAssumption DEF Waiting
  <2>. QED BY <2>1, <2>2
<1>4. CASE Answered /\ Len(rx) = 1
  BY <1>1, <1>2, <1>4, EmptyFacts DEF Answered
<1>5. CASE Answered /\ Len(rx) # 1
  <2>1. Head(rx).type = "LOG" /\ fn # "fetch"
    BY <1>2, <1>5 DEF Answered
  <2>2. ASSUME fn' = fn, UNCHANGED <<req, since, gen>> PROVE Answered'
    <3>1. rx'[Len(rx')] = rx[Len(rx)] /\ Len(rx') > 0
      BY <1>2, <1>5
    <3>2. Ends(rx[Len(rx)])'
      BY <1>5, <2>2, <3>1 DEF Answered, Ends, OwnFresh
    <3>3. \A i \in 1 .. Len(rx') : i < Len(rx') => rx'[i].type = "LOG"
      BY <1>2, <1>5 DEF Answered
    <3>. QED BY <1>1, <1>5, <2>1, <2>2, <3>1, <3>2, <3>3 DEF Answered
  <2>. QED BY <2>1, <2>2
<1>. QED BY <1>1, <1>3, <1>4, <1>5 DEF Channel, Quiet

LEMMA ClientSync ==
  ASSUME SyncInv, ClientNext /\ UNCHANGED providerVars
  PROVE  SyncInv'
<1>. USE DEF SyncInv
<1>0. TypeInv' /\ ~overrun
  BY ClientTypes DEF Channel
<1>1. CASE InitRecv
  <2>1. Recv /\ fn = "init"
    BY <1>0, <1>1 DEF InitRecv, RecvError
  <2>2. Channel'
    <3>1. CASE Head(rx).type = "INIT_COMPLETE"
      <4>1. fn' = "none" /\ Quiet'
        BY <1>0, <1>1, <2>1, <3>1, RecvTakes DEF InitRecv, RecvError, Returns, Quiet
      <4>. QED BY <1>0, <2>1, <4>1 DEF Channel, Recv
    <3>2. CASE Head(rx).type # "INIT_COMPLETE"
      <4>1. fn' = fn /\ UNCHANGED <<req, since, gen>>
        BY <1>0, <1>1, <2>1, <3>2 DEF InitRecv, RecvError, Recv
      <4>2. Quiet' \/ Waiting' \/ Answered'
        BY <2>1, <3>2, <4>1, RecvTakes DEF Ends
      <4>. QED BY <1>0, <2>1, <4>1, <4>2 DEF Channel, Recv
    <3>. QED BY <3>1, <3>2
  <2>3. call = "init" /\ fn' \in {"none", "init"}
    BY <1>1, <2>1 DEF Links, Calling, TypeInv, TypeOK, Calls, InitRecv, Returns
  <2>. QED BY <1>0, <1>1, <2>1, <2>2, <2>3
           DEF InitRecv, Recv, Links, Calling, KeyReady, OwnFresh, OwnKey, InGetKey
<1>2. CASE FetchRecv
  <2>1. Recv /\ fn = "fetch"
    BY <1>0, <1>2 DEF FetchRecv, RecvError
  <2>2. Ends(Head(rx)) /\ Quiet'
    BY <2>1, RecvTakes DEF Quiet
  <2>3. fn' = "none" /\ UNCHANGED <<gen, overrun, req, since>>
    BY <1>2, <2>1 DEF FetchRecv, Returns, Recv
  <2>4. Channel'
    BY <1>0, <2>2, <2>3 DEF Channel
  <2>5. ret' = "ok" => key_info' = Head(rx).key /\ Head(rx).status = 0
    BY <1>0, <1>2 DEF FetchRecv, RecvError, Returns
  <2>6. KeyReady'
    BY <2>1, <2>2, <2>3, <2>5 DEF KeyReady, Ends, OwnFresh
  <2>. QED BY <1>0, <1>2, <2>3, <2>4, <2>6 DEF Links, Calling, OwnKey
<1>3. CASE HandshakeRecv
  <2>1. Recv /\ fn = "handshake"
    BY <1>0, <1>3 DEF HandshakeRecv, HandshakeLoop, RecvError
  <2>2. Channel'
    <3>1. CASE Ends(Head(rx)) /\ rx' = <<>> /\ inbox' = <<>>
      <4>1. fn' = "none"
        BY <1>0, <1>3, <2>1, <3>1
        DEF HandshakeRecv, HandshakeLoop, RecvError, Returns, Ends
      <4>. QED BY <1>0, <2>1, <3>1, <4>1 DEF Channel, Quiet, Recv
    <3>2. CASE ~(Ends(Head(rx)) /\ rx' = <<>> /\ inbox' = <<>>)
      <4>1. Head(rx).type = "LOG"
        BY <2>1, <3>2, RecvTakes
      <4>2. fn' = fn /\ UNCHANGED <<req, since, gen>>
        BY <1>0, <1>3, <2>1, <4>1
        DEF HandshakeRecv, HandshakeLoop, RecvError, HandshakeOk, Recv
      <4>3. Quiet' \/ Waiting' \/ Answered'
        BY <2>1, <3>2, <4>2, RecvTakes
      <4>. QED BY <1>0, <2>1, <4>2, <4>3 DEF Channel, Recv
    <3>. QED BY <3>1, <3>2
  <2>3. call = "handshake" /\ fn' \in {"none", "handshake"}
    BY <1>3, <2>1 DEF Links, Calling, TypeInv, TypeOK, Calls, HandshakeRecv, HandshakeLoop, Returns
  <2>. QED BY <1>0, <2>1, <2>2, <2>3 DEF Recv, Links, Calling, KeyReady, OwnKey
<1>. QED BY <1>1, <1>2, <1>3 DEF ClientNext

(* A request sent over quiet queues is the only one.                       *)
LEMMA SendtoWaits ==
  ASSUME SyncInv, Quiet, NEW op, NEW t, [op |-> op, tuple |-> t] \in Request,
         Sendto(op, t), UNCHANGED <<rx, overrun>>, Asks([op |-> op, tuple |-> t])'
  PROVE  Quiet' \/ Waiting'
<1>1. CASE inbox' = inbox
  BY <1>1 DEF Quiet
<1>2. CASE inbox' = Append(inbox, [op |-> op, tuple |-> t])
  <2>1. Len(inbox') = 1 /\ inbox'[1] = [op |-> op, tuple |-> t]
    BY <1>2 DEF Quiet
  <2>2. Asks(inbox[1])'
    BY <2>1 DEF Asks
  <2>3. rx' = <<>> /\ Len(rx') = 0
    BY DEF Quiet
  <2>. QED BY <2>1, <2>2, <2>3, BoundAssumption DEF Waiting
<1>. QED BY <1>1, <1>2 DEF Sendto

LEMMA FetchCallSync ==
  ASSUME SyncInv, NEW t \in Tuples, tlshub_fetch_key(t), req' = t
  PROVE  Channel' /\ fn' \in {"none", "fetch"} /\ (fn' = "none" => ret' = "fail")
<1>. USE DEF SyncInv
<1>1. Quiet /\ ~overrun /\ UNCHANGED <<rx, overrun>>
  BY DEF Channel, tlshub_fetch_key
<1>2. CASE Returns("fail") /\ UNCHANGED inbox
  BY <1>1, <1>2 DEF Channel, Quiet, Returns
<1>3. CASE Sendto("FETCH", t) /\ fn' = "fetch"
  <2>1. [op |-> "FETCH", tuple |-> t] \in Request
    BY DEF Request
  <2>2. Asks([op |-> "FETCH", tuple |-> t])'
    BY <1>3 DEF Asks
  <2>3. Quiet' \/ Waiting'
    BY <1>1, <1>3, <2>1, <2>2, SendtoWaits
  <2>. QED BY <1>1, <1>3, <2>3 DEF Channel
<1>. QED BY <1>2, <1>3 DEF tlshub_fetch_key

LEMMA ProviderSync ==
  ASSUME SyncInv, ProviderStep
  PROVE  SyncInv'
<1>. USE DEF SyncInv
<1>0. TypeInv'
  BY ProviderTypes
<1>1. CASE InitReturns
  BY <1>0, <1>1 DEF InitReturns, Channel, Quiet, Links, Calling, KeyReady, OwnKey, InGetKey
<1>2. CASE StartHandshake
  <2>1. Quiet /\ ~overrun /\ UNCHANGED <<rx, overrun>> /\ req \in Tuples /\ req' = req
    BY <1>2 DEF Channel, StartHandshake, tlshub_handshake, TypeInv, TypeOK, InGetKey
  <2>2. Channel' /\ fn' \in {"none", "handshake"}
    <3>1. CASE Returns("fail") /\ UNCHANGED inbox
      BY <2>1, <3>1 DEF Channel, Quiet, Returns
    <3>2. CASE Sendto("START", req) /\ fn' = "handshake"
      <4>1. [op |-> "START", tuple |-> req] \in Request
        BY <2>1 DEF Request
      <4>2. PICK t : t = req
        OBVIOUS
      <4>3. Asks([op |-> "START", tuple |-> t])'
        BY <2>1, <3>2, <4>2 DEF Asks
      <4>4. Quiet' \/ Waiting'
        BY <2>1, <3>2, <4>1, <4>2, <4>3, SendtoWaits
      <4>. QED BY <2>1, <3>2, <4>4 DEF Channel
    <3>. QED BY <1>2, <3>1, <3>2 DEF StartHandshake, tlshub_handshake
  <2>. QED BY <1>0, <1>2, <2>2
           DEF StartHandshake, tlshub_handshake, Links, Calling, KeyReady, OwnKey, InGetKey
<1>3. CASE FetchAgain
  <2>1. PICK t \in Tuples : t = req
    BY <1>3 DEF FetchAgain, TypeInv, TypeOK, InGetKey
  <2>2. Channel' /\ fn' \in {"none", "fetch"} /\ (fn' = "none" => ret' = "fail")
    BY <1>3, <2>1, FetchCallSync DEF FetchAgain
  <2>. QED BY <1>0, <1>3, <2>2
           DEF FetchAgain, tlshub_fetch_key, Links, Calling, KeyReady, OwnKey, InGetKey
<1>4. CASE GetKeyReturns
  <2>1. OwnKey'
    <3>1. out' = Answer(ret, req, since, IF ret = "ok" THEN key_info ELSE ZeroKey) /\ UNCHANGED gen
      BY <1>4 DEF GetKeyReturns
    <3>2. ret = "ok" => OwnFresh(key_info)
      BY <1>4 DEF GetKeyReturns, KeyReady
    <3>. QED BY <3>1, <3>2 DEF OwnKey, OwnFresh, Answer
  <2>2. Channel' /\ Links' /\ KeyReady'
    BY <1>4 DEF GetKeyReturns, Channel, Quiet, Links, Calling, KeyReady, InGetKey
  <2>. QED BY <1>0, <2>1, <2>2
<1>. QED BY <1>1, <1>2, <1>3, <1>4 DEF ProviderStep

LEMMA CallerSync ==
  ASSUME SyncInv, CallerStep
  PROVE  SyncInv'
<1>. USE DEF SyncInv
<1>0. TypeInv'
  BY CallerTypes
<1>1. ASSUME NEW m \in Modes, key_provider_init(m) PROVE SyncInv'
  <2>1. Quiet /\ ~overrun /\ fn = "none"
    BY <1>1 DEF key_provider_init, Links, Calling, Channel
  <2>2. CASE m = "TLSHUB"
    <3>1. UNCHANGED <<rx, overrun>> /\ tlshub_client_init
      BY <1>1, <2>2 DEF key_provider_init, tlshub_client_init
    <3>2. Channel' /\ fn' \in {"none", "init"}
      <4>1. CASE Returns("fail") /\ UNCHANGED inbox
        BY <2>1, <3>1, <4>1 DEF Channel, Quiet, Returns
      <4>2. CASE Sendto("INIT", NoTuple) /\ fn' = "init"
        <5>1. [op |-> "INIT", tuple |-> NoTuple] \in Request
          BY DEF Request
        <5>2. Asks([op |-> "INIT", tuple |-> NoTuple])'
          BY <4>2 DEF Asks
        <5>3. Quiet' \/ Waiting'
          BY <2>1, <3>1, <4>2, <5>1, <5>2, SendtoWaits
        <5>. QED BY <2>1, <3>1, <4>2, <5>3 DEF Channel
      <4>. QED BY <3>1, <4>1, <4>2 DEF tlshub_client_init
    <3>. QED BY <1>0, <1>1, <2>2, <3>1, <3>2
             DEF key_provider_init, tlshub_client_init, Links, Calling, KeyReady, OwnKey, InGetKey
  <2>3. CASE m # "TLSHUB"
    BY <1>0, <1>1, <2>1, <2>3
    DEF key_provider_init, Channel, Quiet, Links, Calling, KeyReady, OwnKey, InGetKey
  <2>. QED BY <2>2, <2>3
<1>2. ASSUME NEW m \in Modes, key_provider_set_mode(m) PROVE SyncInv'
  BY <1>0, <1>2 DEF key_provider_set_mode, Channel, Quiet, Links, Calling, KeyReady, OwnKey, InGetKey
<1>3. ASSUME NEW t \in Tuples, key_provider_get_key(t) PROVE SyncInv'
  <2>1. Channel' /\ fn' \in {"none", "fetch"} /\ (fn' = "none" => ret' = "fail")
    BY <1>3, FetchCallSync DEF key_provider_get_key
  <2>2. since' <= gen'[req']
    BY <1>3, BoundAssumption DEF key_provider_get_key, tlshub_fetch_key, TypeInv, TypeOK
  <2>. QED BY <1>0, <1>3, <2>1, <2>2
           DEF key_provider_get_key, tlshub_fetch_key, Links, Calling, KeyReady, OwnKey
<1>4. CASE openssl_get_key
  <2>1. OwnKey'
    BY <1>4 DEF openssl_get_key, Answer, OwnKey
  <2>. QED BY <1>0, <1>4, <2>1
           DEF openssl_get_key, Channel, Quiet, Links, Calling, KeyReady, InGetKey
<1>5. CASE key_provider_cleanup
  <2>1. Channel'
    BY <1>5 DEF key_provider_cleanup, tlshub_client_cleanup, Channel, Quiet, Links, Calling
  <2>. QED BY <1>0, <1>5, <2>1
           DEF key_provider_cleanup, tlshub_client_cleanup, Links, Calling, KeyReady, OwnKey, InGetKey
<1>. QED BY <1>1, <1>2, <1>3, <1>4, <1>5 DEF CallerStep

(* SyncInv is an invariant of a reliable TLSHub.                           *)
LEMMA SyncInvariant ==
  ASSUME ~LateLogs, MaxLogs < RcvBuf
  PROVE  Spec => []SyncInv
<1>1. Init => SyncInv
  <2>. SUFFICES ASSUME Init PROVE SyncInv
    OBVIOUS
  <2>1. TypeInv
    BY InitTypes
  <2>2. Channel /\ Links /\ KeyReady /\ OwnKey
    BY DEF Init, ServiceInit, ClientInit, Channel, Quiet, Links, Calling, KeyReady, OwnKey,
           InGetKey, Answer
  <2>. QED BY <2>1, <2>2 DEF SyncInv
<1>2. SyncInv /\ [Next]_vars => SyncInv'
  <2>1. SyncInv /\ UNCHANGED vars => SyncInv'
    BY DEF SyncInv, TypeInv, TypeOK, Sessions, Starting, Channel, Quiet, Waiting, Asks, Answered,
           Ends, OwnFresh, Links, Calling, KeyReady, OwnKey
  <2>. QED BY <2>1, ServiceSync, ClientSync, ProviderSync, CallerSync DEF Next
<1>. QED BY <1>1, <1>2, PTL DEF Spec

(* When TLSHub logs only before its final messages and the receive queue   *)
(* can hold the logs and one answer, key_provider_get_key never succeeds   *)
(* with a key that is not the requested 4-tuple's, for any number of       *)
(* 4-tuples, keys and logs and even if sendto fails or the mode is         *)
(* switched at run time.                                                   *)
THEOREM OwnKeyCorrect ==
  ASSUME ~LateLogs, MaxLogs < RcvBuf
  PROVE  Spec => []OwnKey
<1>1. SyncInv => OwnKey
  BY DEF SyncInv
<1>. QED BY <1>1, SyncInvariant, PTL

(* Under the same assumptions no request, message or error is left in the  *)
(* socket when a client function has returned.                             *)
THEOREM InSyncCorrect ==
  ASSUME ~LateLogs, MaxLogs < RcvBuf
  PROVE  Spec => []InSync
<1>1. SyncInv => InSync
  BY DEF SyncInv, Channel, Quiet, InSync
<1>. QED BY <1>1, SyncInvariant, PTL
----------------------------------------------------------------------------
(* Why no handshake ends on the verdict of another one, whatever is lost,  *)
(* late or refused: of the requests that are answered by a final message   *)
(* at most one is on its way, as a request or as its answer, and the       *)
(* function that sent it waits for it.                                     *)

Final(m) == m.type \in HandshakeOk \cup {"FAILED", "INIT_COMPLETE"}
Asked(i) == i \in 1 .. Len(inbox) /\ inbox[i].op # "FETCH"
Arrived(i) == i \in 1 .. Len(rx) /\ Final(rx[i])

(* The function under way returns when it receives m.                      *)
Awaits(m) ==
  \/ fn = "init" /\ m.type = "INIT_COMPLETE"
  \/ fn = "handshake" /\ m.type \in HandshakeOk \cup {"FAILED"}

Matched ==
  /\ \A i \in 1 .. Len(inbox) : Asked(i) => Asks(inbox[i])
  /\ \A j \in 1 .. Len(rx) : Arrived(j) => Awaits(rx[j])
  /\ \A i, j \in 1 .. Len(inbox) : Asked(i) /\ Asked(j) => i = j
  /\ \A i, j \in 1 .. Len(rx) : Arrived(i) /\ Arrived(j) => i = j
  /\ \A i \in 1 .. Len(inbox), j \in 1 .. Len(rx) : ~(Asked(i) /\ Arrived(j))

FinalInv == TypeInv /\ Calling /\ Matched

(* Nothing that a function other than tlshub_fetch_key must consume.       *)
NoneDue ==
  /\ \A i \in 1 .. Len(inbox) : inbox[i].op = "FETCH"
  /\ \A j \in 1 .. Len(rx) : ~Final(rx[j])

LEMMA NoneDueMatched == NoneDue => Matched
BY DEF NoneDue, Matched, Asked, Arrived

(* Only tlshub_client_init and tlshub_handshake have anything to consume.  *)
LEMMA NothingDue ==
  ASSUME FinalInv, fn \in {"none", "fetch"}
  PROVE  NoneDue
<1>1. \A i \in 1 .. Len(inbox) : inbox[i].op = "FETCH"
  BY DEF FinalInv, Matched, Asked, Asks
<1>2. \A j \in 1 .. Len(rx) : ~Final(rx[j])
  BY DEF FinalInv, Matched, Arrived, Awaits
<1>. QED BY <1>1, <1>2 DEF NoneDue

(* A step that adds no such request and no final message to the queues,    *)
(* and at most removes the first element of each, keeps Matched.           *)
LEMMA ShiftMatched ==
  ASSUME Matched, UNCHANGED <<fn, req>>, NEW di \in {0, 1}, NEW dr \in {0, 1},
         \A i \in 1 .. Len(inbox') : inbox'[i].op # "FETCH" =>
           i + di \in 1 .. Len(inbox) /\ inbox'[i] = inbox[i + di],
         \A j \in 1 .. Len(rx') : Final(rx'[j]) =>
           j + dr \in 1 .. Len(rx) /\ rx'[j] = rx[j + dr]
  PROVE  Matched'
<1>1. \A i \in 1 .. Len(inbox') : Asked(i)' => Asked(i + di) /\ inbox'[i] = inbox[i + di]
  BY DEF Asked
<1>2. \A j \in 1 .. Len(rx') : Arrived(j)' => Arrived(j + dr) /\ rx'[j] = rx[j + dr]
  BY DEF Arrived, Final
<1>3. ASSUME NEW i \in 1 .. Len(inbox'), Asked(i)' PROVE Asks(inbox[i])'
  <2>1. Asks(inbox[i + di]) /\ inbox'[i] = inbox[i + di]
    BY <1>1, <1>3 DEF Matched, Asked
  <2>. QED BY <2>1 DEF Asks
<1>4. ASSUME NEW j \in 1 .. Len(rx'), Arrived(j)' PROVE Awaits(rx[j])'
  <2>1. Awaits(rx[j + dr]) /\ rx'[j] = rx[j + dr]
    BY <1>2, <1>4 DEF Matched, Arrived
  <2>. QED BY <2>1 DEF Awaits
<1>5. ASSUME NEW i \in 1 .. Len(inbox'), NEW j \in 1 .. Len(inbox'), Asked(i)', Asked(j)'
      PROVE  i = j
  <2>1. Asked(i + di) /\ Asked(j + di)
    BY <1>1, <1>5
  <2>2. i + di = j + di
    BY <2>1 DEF Matched, Asked
  <2>. QED BY <2>2
<1>6. ASSUME NEW i \in 1 .. Len(rx'), NEW j \in 1 .. Len(rx'), Arrived(i)', Arrived(j)'
      PROVE  i = j
  <2>1. Arrived(i + dr) /\ Arrived(j + dr)
    BY <1>2, <1>6
  <2>2. i + dr = j + dr
    BY <2>1 DEF Matched, Arrived
  <2>. QED BY <2>2
<1>7. ASSUME NEW i \in 1 .. Len(inbox'), NEW j \in 1 .. Len(rx'), Asked(i)', Arrived(j)'
      PROVE  FALSE
  <2>1. Asked(i + di) /\ Arrived(j + dr)
    BY <1>1, <1>2, <1>7
  <2>. QED BY <2>1 DEF Matched, Asked, Arrived
<1>. QED BY <1>3, <1>4, <1>5, <1>6, <1>7 DEF Matched

(* The queues after Deliver and after the module took a request.           *)
LEMMA DeliverFinals ==
  ASSUME TypeInv, NEW m \in Message, Deliver(m)
  PROVE  \A j \in 1 .. Len(rx') :
           \/ j \in 1 .. Len(rx) /\ rx'[j] = rx[j]
           \/ j = Len(rx) + 1 /\ rx'[j] = m
<1>1. rx \in Seq(Message)
  BY DEF TypeInv, TypeOK
<1>2. CASE Len(rx) < RcvBuf
  <2>1. rx' = Append(rx, m)
    BY <1>2 DEF Deliver
  <2>2. Len(rx') = Len(rx) + 1 /\ Len(rx) \in Nat
    BY <1>1, <2>1, AppendFacts, EmptyFacts
  <2>. QED BY <1>1, <2>1, <2>2, AppendFacts
<1>3. CASE ~(Len(rx) < RcvBuf)
  BY <1>3 DEF Deliver
<1>. QED BY <1>2, <1>3

LEMMA TakenRequest ==
  ASSUME TypeInv, inbox # <<>>, inbox' = Tail(inbox)
  PROVE  /\ 1 \in 1 .. Len(inbox) /\ Head(inbox) = inbox[1]
         /\ \A i \in 1 .. Len(inbox') : i + 1 \in 1 .. Len(inbox) /\ inbox'[i] = inbox[i + 1]
<1>1. inbox \in Seq(Request)
  BY DEF TypeInv, TypeOK
<1>2. /\ Len(inbox) \in Nat /\ Len(inbox) > 0 /\ Head(inbox) = inbox[1]
      /\ Len(inbox') = Len(inbox) - 1
      /\ \A i \in 1 .. Len(inbox) - 1 : inbox'[i] = inbox[i + 1]
  BY <1>1, TailFacts
<1>. QED BY <1>2

LEMMA TakenMessage ==
  ASSUME TypeInv, rx # <<>>, rx' = Tail(rx)
  PROVE  /\ 1 \in 1 .. Len(rx) /\ Head(rx) = rx[1]
         /\ \A i \in 1 .. Len(rx') : i + 1 \in 1 .. Len(rx) /\ rx'[i] = rx[i + 1]
<1>1. rx \in Seq(Message)
  BY DEF TypeInv, TypeOK
<1>2. /\ Len(rx) \in Nat /\ Len(rx) > 0 /\ Head(rx) = rx[1]
      /\ Len(rx') = Len(rx) - 1
      /\ \A i \in 1 .. Len(rx) - 1 : rx'[i] = rx[i + 1]
  BY <1>1, TailFacts
<1>. QED BY <1>2

(* The module answers an INIT or START: its final message takes the place  *)
(* of the request, or the full queue drops it.                             *)
LEMMA FinalReply ==
  ASSUME FinalInv, inbox # <<>>, Head(inbox).op # "FETCH", inbox' = Tail(inbox),
         NEW m \in Message, Deliver(m), UNCHANGED <<fn, req>>, Awaits(m)
  PROVE  Matched'
<1>1. TypeInv
  BY DEF FinalInv
<1>2. Asked(1)
  BY <1>1, TakenRequest DEF Asked
<1>3. \A i \in 1 .. Len(inbox') : inbox'[i].op = "FETCH"
  <2>. SUFFICES ASSUME NEW i \in 1 .. Len(inbox'), inbox'[i].op # "FETCH" PROVE FALSE
    OBVIOUS
  <2>1. Asked(i + 1)
    BY <1>1, TakenRequest DEF Asked
  <2>2. i + 1 = 1
    BY <1>2, <2>1 DEF FinalInv, Matched, Asked
  <2>. QED BY <2>2
<1>4. \A j \in 1 .. Len(rx) : ~Final(rx[j])
  BY <1>2 DEF FinalInv, Matched, Asked, Arrived
<1>5. \A j \in 1 .. Len(rx') : Final(rx'[j]) => j = Len(rx) + 1 /\ rx'[j] = m
  BY <1>1, <1>4, DeliverFinals
<1>6. \A j \in 1 .. Len(rx') : Arrived(j)' => j = Len(rx) + 1 /\ rx'[j] = m
  BY <1>5 DEF Arrived, Final
<1>7. \A j \in 1 .. Len(rx') : Arrived(j)' => Awaits(rx[j])'
  BY <1>6 DEF Awaits
<1>. QED BY <1>3, <1>6, <1>7 DEF Matched, Asked

(* Any other message of the module changes nothing for the function that   *)
(* waits, whether or not a FETCH is taken from the inbox.                  *)
LEMMA OtherMessage ==
  ASSUME FinalInv, NEW m \in Message, ~Final(m), Deliver(m), UNCHANGED <<fn, req>>,
         \/ UNCHANGED inbox
         \/ inbox # <<>> /\ inbox' = Tail(inbox)
  PROVE  Matched'
<1>1. TypeInv
  BY DEF FinalInv
<1>2. \A j \in 1 .. Len(rx') : Final(rx'[j]) => j + 0 \in 1 .. Len(rx) /\ rx'[j] = rx[j + 0]
  BY <1>1, DeliverFinals
<1>3. CASE UNCHANGED inbox
  <2>1. \A i \in 1 .. Len(inbox') : i + 0 \in 1 .. Len(inbox) /\ inbox'[i] = inbox[i + 0]
    BY <1>3
  <2>. QED BY <1>2, <2>1, ShiftMatched DEF FinalInv
<1>4. CASE inbox # <<>> /\ inbox' = Tail(inbox)
  <2>1. \A i \in 1 .. Len(inbox') : i + 1 \in 1 .. Len(inbox) /\ inbox'[i] = inbox[i + 1]
    BY <1>1, <1>4, TakenRequest
  <2>. QED BY <1>2, <2>1, ShiftMatched DEF FinalInv
<1>. QED BY <1>3, <1>4

(* The function that sent the INIT or START about to be answered waits.    *)
LEMMA ServedAsks ==
  ASSUME FinalInv, inbox # <<>>, Head(inbox).op # "FETCH"
  PROVE  Asks(Head(inbox))
<1>1. inbox \in Seq(Request)
  BY DEF FinalInv, TypeInv, TypeOK
<1>2. Head(inbox) = inbox[1] /\ 1 \in 1 .. Len(inbox)
  BY <1>1, TailFacts
<1>. QED BY <1>2 DEF FinalInv, Matched, Asked

LEMMA ServiceFinals ==
  ASSUME FinalInv, ServiceNext /\ UNCHANGED <<clientVars, providerVars>>
  PROVE  FinalInv'
<1>0. TypeInv' /\ Calling'
  BY ServiceTypes DEF FinalInv, Calling
<1>1. CASE ServeInit
  <2>1. inbox # <<>> /\ Head(inbox).op = "INIT" /\ inbox' = Tail(inbox)
    BY <1>1 DEF ServeInit, Serving
  <2>2. fn = "init"
    BY <2>1, ServedAsks DEF Asks
  <2>3. Text("INIT_COMPLETE") \in Message /\ Awaits(Text("INIT_COMPLETE"))
    BY <2>2, MessageTypes DEF Awaits, Text, MsgTypes
  <2>. QED BY <1>0, <1>1, <2>1, <2>3, FinalReply DEF ServeInit, FinalInv
<1>2. CASE HandshakeSucceeds \/ HandshakeFails
  <2>1. inbox # <<>> /\ Head(inbox).op = "START" /\ inbox' = Tail(inbox)
    BY <1>2 DEF HandshakeSucceeds, HandshakeFails, Serving
  <2>2. fn = "handshake"
    BY <2>1, ServedAsks DEF Asks
  <2>3. PICK type \in HandshakeOk \cup {"FAILED"} : Deliver(Text(type))
    BY <1>2 DEF HandshakeSucceeds, HandshakeFails, HandshakeOk
  <2>4. Text(type) \in Message /\ Awaits(Text(type))
    BY <2>2, MessageTypes DEF Awaits, Text, MsgTypes
  <2>. QED BY <1>0, <2>1, <2>3, <2>4, FinalReply DEF FinalInv
<1>3. CASE ServeFetch
  <2>1. inbox # <<>> /\ Head(inbox).op = "FETCH" /\ inbox' = Tail(inbox)
    BY <1>3 DEF ServeFetch, Serving
  <2>2. PICK m : m = FetchReply(Head(inbox).tuple)
    OBVIOUS
  <2>3. m \in Message /\ ~Final(m)
    <3>1. Head(inbox).tuple \in Tuples
      BY <2>1, QueueTypes DEF FinalInv, TypeInv, TypeOK, Request
    <3>2. <<Head(inbox).tuple, gen[Head(inbox).tuple]>> \in Keys
      BY <3>1, BoundAssumption DEF FinalInv, TypeInv, TypeOK, Keys
    <3>3. m \in Message
      BY <2>2, <3>2, MessageTypes DEF FetchReply
    <3>4. m.type = "KEY"
      BY <2>2 DEF FetchReply, KeyBack
    <3>. QED BY <3>3, <3>4 DEF Final, HandshakeOk
  <2>. QED BY <1>0, <1>3, <2>1, <2>2, <2>3, OtherMessage DEF ServeFetch, FinalInv
<1>4. CASE EmitLog
  <2>1. Text("LOG") \in Message /\ ~Final(Text("LOG"))
    BY MessageTypes DEF MsgTypes, Final, Text, HandshakeOk
  <2>. QED BY <1>0, <1>4, <2>1, OtherMessage DEF EmitLog, FinalInv
<1>5. CASE \E t \in Tuples : Expire(t)
  BY <1>0, <1>5 DEF Expire, FinalInv, Matched, Asked, Arrived, Asks, Awaits, Final
<1>. QED BY <1>1, <1>2, <1>3, <1>4, <1>5 DEF ServiceNext, Serve

(* A function that is done or never waited for a final message leaves none. *)
LEMMA StillNoneDue ==
  ASSUME TypeInv, NoneDue, UNCHANGED inbox,
         UNCHANGED rx \/ (rx # <<>> /\ rx' = Tail(rx))
  PROVE  Matched'
<1>1. \A j \in 1 .. Len(rx') : ~Final(rx'[j])
  BY TakenMessage DEF NoneDue
<1>. QED BY <1>1, NoneDueMatched DEF NoneDue, Matched, Asked, Arrived, Final

(* A function that receives a message returns if and only if the message   *)
(* is final, or it is tlshub_fetch_key.                                    *)
LEMMA RecvMatched ==
  ASSUME FinalInv, fn \in {"init", "handshake"}, Recv, UNCHANGED req,
         IF Awaits(Head(rx)) THEN fn' = "none" ELSE fn' = fn
  PROVE  Matched'
<1>1. TypeInv /\ rx # <<>> /\ rx' = Tail(rx) /\ UNCHANGED inbox
  BY DEF Recv, CanRecvMessage, FinalInv
<1>2. /\ 1 \in 1 .. Len(rx) /\ Head(rx) = rx[1]
      /\ \A i \in 1 .. Len(rx') : i + 1 \in 1 .. Len(rx) /\ rx'[i] = rx[i + 1]
  BY <1>1, TakenMessage
<1>3. CASE Awaits(Head(rx))
  <2>1. Arrived(1)
    BY <1>2, <1>3 DEF Arrived, Awaits, Final
  <2>2. \A i \in 1 .. Len(inbox) : inbox[i].op = "FETCH"
    BY <2>1 DEF FinalInv, Matched, Asked, Arrived
  <2>3. \A j \in 1 .. Len(rx') : ~Final(rx'[j])
    <3>. SUFFICES ASSUME NEW j \in 1 .. Len(rx'), Final(rx'[j]) PROVE FALSE
      OBVIOUS
    <3>1. Arrived(j + 1)
      BY <1>2 DEF Arrived
    <3>2. j + 1 = 1
      BY <2>1, <3>1 DEF FinalInv, Matched, Arrived
    <3>. QED BY <3>2
  <2>. QED BY <1>1, <2>2, <2>3 DEF Matched, Asked, Arrived, Final
<1>4. CASE ~Awaits(Head(rx))
  <2>1. \A i \in 1 .. Len(inbox') : i + 0 \in 1 .. Len(inbox) /\ inbox'[i] = inbox[i + 0]
    BY <1>1
  <2>. QED BY <1>2, <1>4, <2>1, ShiftMatched DEF FinalInv
<1>. QED BY <1>3, <1>4

LEMMA ClientFinals ==
  ASSUME FinalInv, ClientNext /\ UNCHANGED providerVars
  PROVE  FinalInv'
<1>0. TypeInv' /\ Calling'
  <2>1. fn' = fn \/ fn' = "none"
    BY DEF ClientNext, InitRecv, FetchRecv, HandshakeRecv, HandshakeLoop, Returns
  <2>. QED BY <2>1, ClientTypes DEF FinalInv, Calling
<1>1. CASE RecvError /\ UNCHANGED fn
  BY <1>0, <1>1 DEF RecvError, FinalInv, Matched, Asked, Arrived, Asks, Awaits, Final
<1>2. CASE FetchRecv
  <2>1. TypeInv /\ NoneDue /\ UNCHANGED inbox
    BY <1>2, NothingDue DEF FetchRecv, FinalInv, Recv, RecvError
  <2>2. UNCHANGED rx \/ (rx # <<>> /\ rx' = Tail(rx))
    BY <1>2 DEF FetchRecv, Recv, RecvError, CanRecvMessage
  <2>. QED BY <1>0, <2>1, <2>2, StillNoneDue DEF FinalInv
<1>3. CASE InitRecv /\ Recv
  <2>1. IF Awaits(Head(rx)) THEN fn' = "none" ELSE fn' = fn
    <3>1. Awaits(Head(rx)) <=> Head(rx).type = "INIT_COMPLETE"
      BY <1>3 DEF InitRecv, Awaits
    <3>2. Recv => ~overrun
      BY DEF Recv, CanRecvMessage
    <3>. QED BY <1>3, <3>1, <3>2 DEF InitRecv, RecvError, Returns
  <2>. QED BY <1>0, <1>3, <2>1, RecvMatched DEF InitRecv, FinalInv
<1>4. CASE HandshakeRecv /\ Recv
  <2>1. IF Awaits(Head(rx)) THEN fn' = "none" ELSE fn' = fn
    <3>1. Awaits(Head(rx)) <=> Head(rx).type \in HandshakeOk \cup {"FAILED"}
      BY <1>4 DEF HandshakeRecv, HandshakeLoop, Awaits
    <3>2. Recv => ~overrun
      BY DEF Recv, CanRecvMessage
    <3>. QED BY <1>4, <3>1, <3>2 DEF HandshakeRecv, HandshakeLoop, RecvError, Returns
  <2>. QED BY <1>0, <1>4, <2>1, RecvMatched DEF HandshakeRecv, HandshakeLoop, FinalInv
<1>. QED BY <1>1, <1>2, <1>3, <1>4
         DEF ClientNext, InitRecv, HandshakeRecv, HandshakeLoop

(* An INIT or START is sent when nothing else is due.                      *)
LEMMA SendtoMatched ==
  ASSUME TypeInv, NoneDue, NEW op, NEW t, [op |-> op, tuple |-> t] \in Request,
         Sendto(op, t), UNCHANGED rx,
         op = "FETCH" \/ Asks([op |-> op, tuple |-> t])'
  PROVE  Matched'
<1>1. PICK r \in Request : r = [op |-> op, tuple |-> t]
  OBVIOUS
<1>2. \A j \in 1 .. Len(rx') : ~Final(rx'[j])
  BY DEF NoneDue
<1>3. CASE UNCHANGED inbox
  BY <1>2, <1>3 DEF NoneDue, Matched, Asked, Arrived, Final
<1>4. CASE inbox' = Append(inbox, r)
  <2>1. inbox \in Seq(Request)
    BY DEF TypeInv, TypeOK
  <2>2. /\ Len(inbox) \in Nat /\ Len(inbox') = Len(inbox) + 1
        /\ \A i \in 1 .. Len(inbox) : inbox'[i] = inbox[i]
        /\ inbox'[Len(inbox) + 1] = r
    BY <1>4, <2>1, AppendFacts, EmptyFacts
  <2>3. \A i \in 1 .. Len(inbox') : Asked(i)' => i = Len(inbox) + 1 /\ inbox'[i] = r /\ op # "FETCH"
    BY <1>1, <2>2 DEF NoneDue, Asked
  <2>4. ASSUME NEW i \in 1 .. Len(inbox'), Asked(i)' PROVE Asks(inbox[i])'
    BY <1>1, <2>3, <2>4 DEF Asks
  <2>. QED BY <1>2, <2>3, <2>4 DEF Matched, Arrived, Final
<1>. QED BY <1>1, <1>3, <1>4 DEF Sendto

LEMMA FetchCallFinals ==
  ASSUME FinalInv, NEW t \in Tuples, tlshub_fetch_key(t)
  PROVE  Matched' /\ fn' \in {"none", "fetch"}
<1>1. TypeInv /\ NoneDue
  BY NothingDue DEF tlshub_fetch_key, FinalInv
<1>2. CASE Returns("fail") /\ UNCHANGED inbox
  <2>1. UNCHANGED rx
    BY DEF tlshub_fetch_key
  <2>. QED BY <1>1, <1>2, <2>1, StillNoneDue DEF Returns
<1>3. CASE Sendto("FETCH", t) /\ fn' = "fetch"
  <2>1. [op |-> "FETCH", tuple |-> t] \in Request /\ UNCHANGED rx
    BY DEF Request, tlshub_fetch_key
  <2>. QED BY <1>1, <1>3, <2>1, SendtoMatched
<1>. QED BY <1>2, <1>3 DEF tlshub_fetch_key

LEMMA ProviderFinals ==
  ASSUME FinalInv, ProviderStep
  PROVE  FinalInv'
<1>0. TypeInv'
  BY ProviderTypes DEF FinalInv
<1>1. CASE InitReturns \/ GetKeyReturns
  <2>1. TypeInv /\ NoneDue /\ UNCHANGED <<inbox, rx, fn>> /\ fn = "none" /\ call' = "idle"
    BY <1>1, NothingDue DEF InitReturns, GetKeyReturns, FinalInv
  <2>. QED BY <1>0, <2>1, StillNoneDue DEF FinalInv, Calling
<1>2. CASE StartHandshake
  <2>1. /\ TypeInv /\ NoneDue /\ UNCHANGED rx /\ call' = "handshake"
        /\ req' = req /\ req \in Tuples
    BY <1>2, NothingDue DEF StartHandshake, tlshub_handshake, FinalInv, TypeInv, TypeOK, InGetKey
  <2>2. CASE Returns("fail") /\ UNCHANGED inbox
    BY <1>0, <2>1, <2>2, StillNoneDue DEF Returns, FinalInv, Calling
  <2>3. CASE Sendto("START", req) /\ fn' = "handshake"
    <3>1. PICK t \in Tuples : t = req
      BY <2>1
    <3>2. [op |-> "START", tuple |-> t] \in Request
      BY DEF Request
    <3>3. Asks([op |-> "START", tuple |-> t])'
      BY <2>1, <2>3, <3>1 DEF Asks
    <3>4. Matched'
      BY <2>1, <2>3, <3>1, <3>2, <3>3, SendtoMatched
    <3>. QED BY <1>0, <2>1, <2>3, <3>4 DEF FinalInv, Calling
  <2>. QED BY <1>2, <2>2, <2>3 DEF StartHandshake, tlshub_handshake
<1>3. CASE FetchAgain
  <2>1. PICK t \in Tuples : t = req
    BY <1>3 DEF FetchAgain, FinalInv, TypeInv, TypeOK, InGetKey
  <2>2. Matched' /\ fn' \in {"none", "fetch"} /\ call' = "fetch2"
    BY <1>3, <2>1, FetchCallFinals DEF FetchAgain
  <2>. QED BY <1>0, <2>2 DEF FinalInv, Calling
<1>. QED BY <1>1, <1>2, <1>3 DEF ProviderStep

LEMMA CallerFinals ==
  ASSUME FinalInv, CallerStep
  PROVE  FinalInv'
<1>0. TypeInv'
  BY CallerTypes DEF FinalInv
<1>. SUFFICES Matched' /\ Calling'
  BY <1>0 DEF FinalInv
<1>1. call = "idle" /\ fn = "none" /\ NoneDue /\ TypeInv
  <2>1. call = "idle"
    BY DEF CallerStep, key_provider_init, key_provider_set_mode, key_provider_get_key,
           openssl_get_key, key_provider_cleanup
  <2>. QED BY <2>1, NothingDue DEF FinalInv, Calling
<1>2. ASSUME NEW m \in Modes, key_provider_init(m), m = "TLSHUB" PROVE Matched' /\ Calling'
  <2>1. UNCHANGED rx /\ call' = "init" /\ tlshub_client_init
    BY <1>2 DEF key_provider_init, tlshub_client_init
  <2>2. CASE Returns("fail") /\ UNCHANGED inbox
    BY <1>1, <2>1, <2>2, StillNoneDue DEF Returns, Calling
  <2>3. CASE Sendto("INIT", NoTuple) /\ fn' = "init"
    <3>1. [op |-> "INIT", tuple |-> NoTuple] \in Request
      BY DEF Request
    <3>2. Asks([op |-> "INIT", tuple |-> NoTuple])'
      BY <2>3 DEF Asks
    <3>. QED BY <1>1, <2>1, <2>3, <3>1, <3>2, SendtoMatched DEF Calling
  <2>. QED BY <2>1, <2>2, <2>3 DEF tlshub_client_init
<1>3. ASSUME NEW t \in Tuples, key_provider_get_key(t) PROVE Matched' /\ Calling'
  <2>1. Matched' /\ fn' \in {"none", "fetch"} /\ call' = "fetch1"
    BY <1>3, FetchCallFinals DEF key_provider_get_key
  <2>. QED BY <2>1 DEF Calling
<1>4. CASE key_provider_cleanup
  <2>1. UNCHANGED <<inbox, fn, call>> /\ (UNCHANGED rx \/ rx' = <<>>)
    BY <1>4 DEF key_provider_cleanup, tlshub_client_cleanup
  <2>2. \A j \in 1 .. Len(rx') : ~Final(rx'[j])
    BY <1>1, <2>1 DEF NoneDue
  <2>. QED BY <1>1, <2>1, <2>2 DEF NoneDue, Matched, Asked, Arrived, Final, Calling
<1>5. CASE UNCHANGED <<inbox, rx, fn, call>>
  BY <1>1, <1>5, StillNoneDue DEF Calling
<1>6. ASSUME NEW m \in Modes, key_provider_init(m), m # "TLSHUB"
      PROVE  UNCHANGED <<inbox, rx, fn, call>>
  BY <1>6 DEF key_provider_init
<1>7. ASSUME NEW m \in Modes, key_provider_set_mode(m)
      PROVE  UNCHANGED <<inbox, rx, fn, call>>
  BY <1>7 DEF key_provider_set_mode
<1>8. openssl_get_key => UNCHANGED <<inbox, rx, fn, call>>
  BY DEF openssl_get_key
<1>. QED BY <1>2, <1>3, <1>4, <1>5, <1>6, <1>7, <1>8 DEF CallerStep

(* FinalInv is an invariant whatever faults are allowed.                   *)
LEMMA FinalsInitially ==
  ASSUME Init
  PROVE  FinalInv
<1>1. TypeInv
  BY InitTypes
<1>2. Calling /\ NoneDue
  BY DEF Init, ServiceInit, ClientInit, Calling, NoneDue
<1>. QED BY <1>1, <1>2, NoneDueMatched DEF FinalInv

LEMMA FinalSteps ==
  ASSUME FinalInv, [Next]_vars
  PROVE  FinalInv'
<1>1. UNCHANGED vars => FinalInv'
  BY DEF FinalInv, TypeInv, TypeOK, Sessions, Starting, Calling, Matched, Asked, Arrived, Asks,
         Awaits, Final
<1>. QED BY <1>1, ServiceFinals, ClientFinals, ProviderFinals, CallerFinals DEF Next

LEMMA FinalInvariant == Spec => []FinalInv
BY FinalsInitially, FinalSteps, PTL DEF Spec

(* Whatever is lost, late or refused, the final message of an INIT or      *)
(* START is consumed by the call that sent the request.                    *)
THEOREM FinalsMatchedCorrect == Spec => []FinalsMatched
<1>1. FinalInv => FinalsMatched
  <2>. SUFFICES ASSUME FinalInv PROVE FinalsMatched
    OBVIOUS
  <2>0. inbox \in Seq(Request) /\ rx \in Seq(Message)
    BY DEF FinalInv, TypeInv, TypeOK
  <2>1. DOMAIN inbox = 1 .. Len(inbox) /\ DOMAIN rx = 1 .. Len(rx)
    BY <2>0
  <2>. DEFINE asked == {i \in DOMAIN inbox : inbox[i].op # "FETCH"}
              queued == {i \in DOMAIN rx : Final(rx[i])}
  <2>2. /\ \A i : i \in asked <=> Asked(i)
        /\ \A j : j \in queued <=> Arrived(j)
    BY <2>1 DEF Asked, Arrived
  <2>. HIDE DEF asked, queued
  <2>3. fn \in {"none", "fetch"} => asked = {} /\ queued = {}
    BY <2>2, NothingDue DEF NoneDue, Asked, Arrived
  <2>4. ASSUME NEW i \in asked
        PROVE  queued = {} /\ asked = {i} /\ inbox[i].tuple = req
    <3>1. queued = {} /\ asked = {i}
      BY <2>2 DEF FinalInv, Matched, Asked, Arrived
    <3>2. Asks(inbox[i]) /\ inbox[i] \in Request /\ inbox[i].op # "FETCH"
      BY <2>0, <2>2 DEF FinalInv, Matched, Asked
    <3>3. CASE fn = "init"
      <4>1. inbox[i].tuple = NoTuple
        BY <3>2, <3>3 DEF Asks, Request
      <4>2. req = NoTuple
        BY <3>3 DEF FinalInv, Calling, TypeInv, TypeOK, InGetKey
      <4>. QED BY <3>1, <4>1, <4>2
    <3>4. CASE fn # "init"
      BY <3>1, <3>2, <3>4 DEF Asks
    <3>. QED BY <3>3, <3>4
  <2>5. \A i, j \in queued : i = j
    BY <2>2 DEF FinalInv, Matched, Arrived
  <2>. QED BY <2>3, <2>4, <2>5 DEF FinalsMatched, asked, queued, Final
<1>. QED BY <1>1, FinalInvariant, PTL

(* A new key is negotiated only by the handshake that a get_key call waits  *)
(* for, and for its 4-tuple: the step form of NegotiatesOnlyOnRequest.      *)
LEMMA GenSteps ==
  ASSUME FinalInv, [Next]_vars
  PROVE  \/ UNCHANGED gen
         \/ /\ gen' = [gen EXCEPT ![req] = @ + 1]
            /\ call = "handshake" /\ fn = "handshake"
            /\ UNCHANGED <<req, since, out>>
<1>1. CASE HandshakeSucceeds /\ UNCHANGED <<clientVars, providerVars>>
  <2>1. fn = "handshake" /\ Head(inbox).tuple = req
    BY <1>1, ServedAsks DEF HandshakeSucceeds, Serving, Asks
  <2>2. call = "handshake"
    BY <2>1 DEF FinalInv, Calling, TypeInv, TypeOK, Calls
  <2>. QED BY <1>1, <2>1, <2>2 DEF HandshakeSucceeds
<1>2. CASE ServiceNext /\ ~HandshakeSucceeds
  BY <1>2 DEF ServiceNext, Serve, ServeInit, ServeFetch, HandshakeFails, EmitLog, Expire
<1>3. CASE ClientNext \/ ProviderStep \/ CallerStep \/ UNCHANGED vars
  BY <1>3 DEF ClientNext, InitRecv, FetchRecv, HandshakeRecv, HandshakeLoop, Recv,
              RecvError, ProviderStep, InitReturns, StartHandshake, FetchAgain,
              GetKeyReturns, CallerStep, key_provider_init, key_provider_set_mode,
              key_provider_get_key, openssl_get_key, key_provider_cleanup,
              tlshub_client_init, tlshub_client_cleanup, tlshub_fetch_key,
              tlshub_handshake
<1>. QED BY <1>1, <1>2, <1>3 DEF Next

(* Whatever is lost, late or refused, TLSHub negotiates a key only while   *)
(* key_provider_get_key waits for the handshake of that 4-tuple.           *)
THEOREM NegotiationCorrect == Spec => NegotiatesOnlyOnRequest
<1>1. FinalInv /\ [Next]_vars =>
        [\A t \in Tuples : gen'[t] # gen[t] => call = "handshake" /\ fn = "handshake" /\ req = t]_vars
  <2>. SUFFICES ASSUME FinalInv, [Next]_vars, NEW t \in Tuples, gen'[t] # gen[t]
                PROVE  call = "handshake" /\ fn = "handshake" /\ req = t
    OBVIOUS
  <2>1. gen \in [Tuples -> 0 .. MaxGen]
    BY DEF FinalInv, TypeInv, TypeOK
  <2>. QED BY <2>1, GenSteps
<1>. QED BY <1>1, FinalInvariant, PTL DEF Spec, NegotiatesOnlyOnRequest

(* With a reliable TLSHub, KeyProvider implements KeyRequest: every step   *)
(* of the provider, the client and the service is a step of the promise or *)
(* leaves the request, its answer and the current keys alone.              *)
THEOREM PromiseKept ==
  ASSUME ~LateLogs, MaxLogs < RcvBuf
  PROVE  Spec => KeepsPromise
<1>1. Init => Promise!Init
  BY DEF Init, ServiceInit, Answer, ZeroKey, Promise!Init, Promise!NoAnswer, Promise!Local
<1>2. SyncInv /\ FinalInv /\ [Next]_vars => [Promise!Next]_(Promise!vars)
  <2>. SUFFICES ASSUME SyncInv, FinalInv, [Next]_vars
                PROVE  Promise!Next \/ UNCHANGED <<gen, req, since, out>>
    BY DEF Promise!vars
  <2>1. CASE gen' # gen
    <3>1. call = "handshake" => req # NoTuple
      BY DEF SyncInv, TypeInv, TypeOK, InGetKey
    <3>. QED BY <2>1, <3>1, GenSteps DEF Promise!Next, Promise!Negotiate
  <2>2. CASE GetKeyReturns
    <3>1. req # NoTuple
      BY <2>2 DEF GetKeyReturns, SyncInv, TypeInv, TypeOK, InGetKey
    <3>2. CASE ret = "ok"
      <4>1. OwnFresh(key_info)
        BY <2>2, <3>2 DEF GetKeyReturns, SyncInv, KeyReady
      <4>2. /\ key_info = <<req, key_info[2]>>
            /\ key_info[2] \in since .. gen[req] /\ key_info[2] > 0
        BY <3>1, <4>1, BoundAssumption DEF OwnFresh, SyncInv, TypeInv, TypeOK, Keys
      <4>3. Promise!Close([ret |-> "ok", tuple |-> req, since |-> since,
                           key |-> <<req, key_info[2]>>])
        BY <2>2, <3>1, <3>2, <4>2 DEF GetKeyReturns, Answer, Promise!Close
      <4>. QED BY <3>1, <4>2, <4>3 DEF Promise!Grant, Promise!Next
    <3>3. CASE ret # "ok"
      <4>1. ret = "fail"
        BY <3>3 DEF SyncInv, TypeInv, TypeOK
      <4>. QED BY <2>2, <3>1, <4>1
               DEF GetKeyReturns, Answer, ZeroKey, Promise!Close, Promise!Refuse, Promise!Next
    <3>. QED BY <3>2, <3>3
  <2>3. ASSUME NEW t \in Tuples, key_provider_get_key(t)
        PROVE  Promise!Next
    <3>1. req = NoTuple
      BY <2>3 DEF key_provider_get_key, SyncInv, TypeInv, TypeOK, InGetKey
    <3>. QED BY <2>3, <3>1
             DEF key_provider_get_key, tlshub_fetch_key, Promise!Ask, Promise!Next
  <2>4. CASE openssl_get_key
    <3>1. req = NoTuple
      BY <2>4 DEF openssl_get_key, SyncInv, TypeInv, TypeOK, InGetKey
    <3>2. out' \in {Promise!NoAnswer, Promise!Local("ok", LocalKey)}
      BY <2>4 DEF openssl_get_key, Answer, ZeroKey, Promise!NoAnswer, Promise!Local
    <3>. QED BY <2>4, <3>1, <3>2
             DEF openssl_get_key, Promise!AnswerLocally, Promise!Next
  <2>5. CASE gen' = gen /\ ServiceNext /\ UNCHANGED <<clientVars, providerVars>>
    BY <2>5
  <2>6. CASE ClientNext /\ UNCHANGED providerVars
    BY <2>6 DEF ClientNext, InitRecv, FetchRecv, HandshakeRecv, HandshakeLoop, Recv, RecvError
  <2>7. CASE InitReturns \/ StartHandshake \/ FetchAgain
    BY <2>7 DEF InitReturns, StartHandshake, FetchAgain, tlshub_handshake, tlshub_fetch_key
  <2>8. CASE key_provider_cleanup
    BY <2>8 DEF key_provider_cleanup, tlshub_client_cleanup
  <2>9. ASSUME NEW m \in Modes, key_provider_init(m) \/ key_provider_set_mode(m)
        PROVE  UNCHANGED <<gen, req, since, out>>
    BY <2>9 DEF key_provider_init, key_provider_set_mode, tlshub_client_init
  <2>10. CASE UNCHANGED vars
    BY <2>10
  <2>. QED BY <2>1, <2>2, <2>3, <2>4, <2>5, <2>6, <2>7, <2>8, <2>9, <2>10
           DEF Next, CallerStep, ProviderStep
<1>. QED BY <1>1, <1>2, SyncInvariant, FinalInvariant, PTL DEF Spec, KeepsPromise, Promise!Spec
----------------------------------------------------------------------------
(* What the provider holds is what its mode uses; without mode switches    *)
(* the mode is the one it was initialised in.                              *)
Held ==
  /\ phase \in {"closed", "up", "failed"}
  /\ netlink_sock <=> bound
  /\ bound => current_mode = "TLSHUB"
  /\ ssl_ctx => current_mode # "TLSHUB"
  /\ phase = "closed" /\ call = "idle" => ~bound /\ ~ssl_ctx
  /\ call = "init" => phase = "closed" /\ current_mode = "TLSHUB"
  /\ call \in InGetKey => phase = "up"

(* Unless the mode is switched at run time, key_provider_cleanup releases  *)
(* the socket and the SSL context, whatever TLSHub does and whichever call *)
(* fails.                                                                  *)
THEOREM ShutdownCorrect ==
  ASSUME ~SwitchModes
  PROVE  Spec => []CleanShutdown
<1>. USE DEF Held, InGetKey
<1>1. Init => Held
  BY DEF Init, ServiceInit, ClientInit
<1>2. Held /\ [Next]_vars => Held'
  <2>. SUFFICES ASSUME Held, [Next]_vars PROVE Held'
    OBVIOUS
  <2>1. CASE ServiceNext /\ UNCHANGED <<clientVars, providerVars>>
    BY <2>1 DEF ServiceNext, Serve, ServeInit, ServeFetch, HandshakeSucceeds,
                HandshakeFails, EmitLog, Expire
  <2>2. CASE ClientNext /\ UNCHANGED providerVars
    BY <2>2 DEF ClientNext, InitRecv, FetchRecv, HandshakeRecv, HandshakeLoop, Recv, RecvError
  <2>3. CASE ProviderStep
    BY <2>3 DEF ProviderStep, InitReturns, StartHandshake, FetchAgain, GetKeyReturns,
                tlshub_handshake, tlshub_fetch_key
  <2>4. ASSUME NEW m \in Modes, key_provider_init(m) PROVE Held'
    <3>1. CASE m = "TLSHUB"
      BY <2>4, <3>1 DEF key_provider_init, tlshub_client_init
    <3>2. CASE m # "TLSHUB"
      BY <2>4, <3>2 DEF key_provider_init
    <3>. QED BY <3>1, <3>2
  <2>5. ASSUME NEW t \in Tuples, key_provider_get_key(t) PROVE Held'
    BY <2>5 DEF key_provider_get_key, tlshub_fetch_key
  <2>6. CASE openssl_get_key
    BY <2>6 DEF openssl_get_key
  <2>7. CASE key_provider_cleanup
    <3>1. CASE current_mode = "TLSHUB"
      BY <2>7, <3>1 DEF key_provider_cleanup, tlshub_client_cleanup
    <3>2. CASE current_mode # "TLSHUB"
      BY <2>7, <3>2 DEF key_provider_cleanup
    <3>. QED BY <3>1, <3>2
  <2>8. CASE UNCHANGED vars
    BY <2>8
  <2>. QED BY <2>1, <2>2, <2>3, <2>4, <2>5, <2>6, <2>7, <2>8
           DEF Next, CallerStep, key_provider_set_mode
<1>3. Held => CleanShutdown
  BY DEF CleanShutdown
<1>. QED BY <1>1, <1>2, <1>3, PTL DEF Spec
============================================================================
