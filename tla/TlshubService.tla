--------------------------- MODULE TlshubService ---------------------------
(***************************************************************************)
(* The TLSHub kernel module and the netlink socket that connects one       *)
(* client thread to it.  The kernel module is not part of this repository: *)
(* it is modelled from the way capture/src/tlshub_client.c talks to it.    *)
(*                                                                         *)
(*  - a request is one of INIT, START, FETCH and carries the 4-tuple;      *)
(*  - INIT and START are answered by one final message, which any number   *)
(*    of LOG messages may precede; FETCH is answered by one key message;   *)
(*  - an answer carries neither a sequence number nor the 4-tuple;         *)
(*  - the socket's receive queue holds RcvBuf messages.  A message that    *)
(*    finds it full is dropped and the next recvfrom reports an error.     *)
(***************************************************************************)
EXTENDS Integers, Sequences

CONSTANTS Tuples,     \* the 4-tuples of the captured connections
          NoTuple,    \* not a 4-tuple: the owner of an all-zero key
          MaxGen,     \* bound: keys negotiated per 4-tuple
          MaxLogs,    \* bound: LOG messages are sent while fewer are queued
          MaxPending, \* bound: requests the kernel module has not answered
          RcvBuf,     \* messages the receive queue of the socket can hold
          LateLogs,   \* may a LOG be sent when no START or INIT is running?
          SendFails   \* may sendto return -1?

ASSUME TupleAssumption == NoTuple \notin Tuples
ASSUME BoundAssumption == /\ MaxGen \in Nat \ {0}
                          /\ MaxLogs \in Nat
                          /\ MaxPending \in Nat \ {0}
                          /\ RcvBuf \in Nat \ {0}
ASSUME SwitchAssumption == LateLogs \in BOOLEAN /\ SendFails \in BOOLEAN

VARIABLES inbox,    \* requests the kernel module has not answered yet
          rx,       \* the receive queue of the client's socket
          overrun,  \* a message was dropped and recvfrom has not said so yet
          bound,    \* is the thread's port id held by an open socket?
          session,  \* what TLSHub knows of each 4-tuple
          gen       \* how many keys have been negotiated for each 4-tuple

serviceVars == <<inbox, rx, overrun, bound, session, gen>>
----------------------------------------------------------------------------
Request == [op : {"INIT"}, tuple : {NoTuple}]
             \cup [op : {"START", "FETCH"}, tuple : Tuples]

(* A key is named by its owner and its generation.                         *)
Keys == (Tuples \cup {NoTuple}) \X Nat
ZeroKey == <<NoTuple, 0>>

(* struct key_back: status 0 is a key, -1 no key, -2 an expired key.  The  *)
(* body of any other message is text, whose first bytes read as an int are *)
(* not 0: status 1.                                                        *)
HandshakeOk == {"SUCCESS_FIRST", "SUCCESS", "ALREADY_CONNECTED"}
MsgTypes == HandshakeOk \cup {"FAILED", "LOG", "INIT_COMPLETE", "KEY"}
Message == [type : MsgTypes, status : {0, -1, -2, 1}, key : Keys]

Text(type) == [type |-> type, status |-> 1, key |-> ZeroKey]
KeyBack(status, key) == [type |-> "KEY", status |-> status, key |-> key]

ServiceInit ==
  /\ inbox = <<>>
  /\ rx = <<>>
  /\ overrun = FALSE
  /\ bound = FALSE
  /\ session = [t \in Tuples |-> "none"]
  /\ gen = [t \in Tuples |-> 0]
----------------------------------------------------------------------------
(* The netlink socket.                                                     *)

Deliver(m) ==
  IF Len(rx) < RcvBuf
    THEN rx' = Append(rx, m) /\ UNCHANGED overrun
    ELSE overrun' = TRUE /\ UNCHANGED rx

(* sendto: the request reaches the kernel module, or -1 and it does not.   *)
Sendto(op, t) ==
  \/ /\ Len(inbox) < MaxPending
     /\ inbox' = Append(inbox, [op |-> op, tuple |-> t])
  \/ SendFails /\ UNCHANGED inbox

(* recvfrom: the pending error is reported before any queued message.      *)
CanRecvMessage == ~overrun /\ rx # <<>>
----------------------------------------------------------------------------
(* The kernel module.                                                      *)

Serving(op) == inbox # <<>> /\ Head(inbox).op = op

ServeInit ==
  /\ Serving("INIT")
  /\ inbox' = Tail(inbox)
  /\ Deliver(Text("INIT_COMPLETE"))
  /\ UNCHANGED <<bound, session, gen>>

FetchReply(t) ==
  IF session[t] = "live" THEN KeyBack(0, <<t, gen[t]>>)
  ELSE KeyBack(IF session[t] = "none" THEN -1 ELSE -2, ZeroKey)

ServeFetch ==
  /\ Serving("FETCH")
  /\ inbox' = Tail(inbox)
  /\ Deliver(FetchReply(Head(inbox).tuple))
  /\ UNCHANGED <<bound, session, gen>>

(* A handshake negotiates a new key unless the 4-tuple already has one.    *)
HandshakeSucceeds ==
  LET t == Head(inbox).tuple IN
  /\ Serving("START")
  /\ inbox' = Tail(inbox)
  /\ IF session[t] = "live"
       THEN /\ Deliver(Text("ALREADY_CONNECTED"))
            /\ UNCHANGED <<session, gen>>
       ELSE /\ Deliver(Text(IF gen[t] = 0 THEN "SUCCESS_FIRST" ELSE "SUCCESS"))
            /\ session' = [session EXCEPT ![t] = "live"]
            /\ gen' = [gen EXCEPT ![t] = @ + 1]
  /\ UNCHANGED bound

HandshakeFails ==
  /\ Serving("START")
  /\ session[Head(inbox).tuple] # "live"
  /\ inbox' = Tail(inbox)
  /\ Deliver(Text("FAILED"))
  /\ UNCHANGED <<bound, session, gen>>

EmitLog ==
  /\ bound
  /\ Serving("INIT") \/ Serving("START") \/ LateLogs
  /\ Len(rx) < MaxLogs
  /\ Deliver(Text("LOG"))
  /\ UNCHANGED <<inbox, bound, session, gen>>

(* The master key of a 4-tuple expires; MaxGen bounds how often.           *)
Expire(t) ==
  /\ session[t] = "live"
  /\ gen[t] < MaxGen
  /\ session' = [session EXCEPT ![t] = "expired"]
  /\ UNCHANGED <<inbox, rx, overrun, bound, gen>>

Serve == ServeInit \/ ServeFetch \/ HandshakeSucceeds \/ HandshakeFails
ServiceNext == Serve \/ EmitLog \/ \E t \in Tuples : Expire(t)
============================================================================
