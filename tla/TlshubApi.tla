----------------------------- MODULE TlshubApi -----------------------------
(***************************************************************************)
(* tlshub-api/tlshub.c (and hypertls.c, the same code under another name): *)
(* the user API of TLSHub, called by several threads.                      *)
(*                                                                         *)
(* Every netlink socket is bound to the id of the calling thread, which    *)
(* only one open socket can have.  tlshub_service_init and                 *)
(* tlshub_fetch_key open a socket for each call and close it;              *)
(* tlshub_handshake opens one per thread and keeps it in a thread-local    *)
(* context, which is lost, its socket still open, when the thread ends.    *)
(* Thread ids are used again.                                              *)
(*                                                                         *)
(* The code tests sendto and recvfrom with !ret, so it acts on a return of *)
(* 0 and not on -1: a request that was not sent is waited for, and a fetch *)
(* that received nothing returns the zeroed key.                           *)
(*                                                                         *)
(* The kernel module is external, as in TlshubService, and serves the      *)
(* threads' requests in any order.                                         *)
(***************************************************************************)
EXTENDS Integers, Sequences

CONSTANTS Tids,      \* thread ids
          Tuples, NoTuple,
          Expiring,  \* 4-tuples whose keys may expire
          MaxGen,    \* bound: keys negotiated per 4-tuple
          MaxLogs,   \* bound: LOG messages queued on a socket
          MaxLeft,   \* bound: requests and messages that a call may leave
          Exhausted, \* thread ids whose socket and malloc may fail
          Faulty     \* port ids whose sendto and recvfrom may fail, or receive queue overrun

ASSUME ApiAssumption == /\ NoTuple \notin Tuples
                        /\ MaxGen \in Nat \ {0} /\ MaxLogs \in Nat /\ MaxLeft \in Nat
                        /\ Expiring \subseteq Tuples
                        /\ Exhausted \subseteq Tids /\ Faulty \subseteq Tids

VARIABLES fn,       \* the function each thread is blocked in, or "none"
          req,      \* the 4-tuple it was called for
          since,    \* history: generation of the key when a fetch was called
          ctx,      \* g_netlink_ctx: no socket, "open", or "ready" with a buffer too
          bound,    \* is the port id held by an open socket?
          rx,       \* receive queue of that socket
          requests, \* requests of that port the kernel module has not answered
          session, gen,  \* as in TlshubService
          out,      \* what the thread's last handshake or fetch returned
          left,     \* history: port ids held by a socket nobody can close
          stale,    \* history: port ids whose last call, or the one before it,
                    \* gave up and left something
          lost      \* history: port ids whose waiting call lost its request or an answer

callVars == <<fn, req, since>>
socketVars == <<ctx, bound, rx>>
kernelVars == <<requests, session, gen>>
history == <<left, stale, lost>>
vars == <<callVars, socketVars, kernelVars, out, history>>

ZeroKey == <<NoTuple, 0>>
Keys == (Tuples \cup {NoTuple}) \X Nat
HandshakeOk == {"SUCCESS_FIRST", "SUCCESS", "ALREADY_CONNECTED"}
Message == [type : HandshakeOk \cup {"FAILED", "LOG", "INIT_COMPLETE", "KEY"},
            status : {0, -1, -2, 1}, key : Keys]
Text(type) == [type |-> type, status |-> 1, key |-> ZeroKey]
Result(f, u, s, status, key) ==
  [fn |-> f, tuple |-> u, since |-> s, status |-> status, key |-> key]
NoKey(f, status) == Result(f, NoTuple, 0, status, ZeroKey)
NoResult == NoKey("none", -1)
KeyBack(status, key) == [type |-> "KEY", status |-> status, key |-> key]

Init ==
  /\ fn = [t \in Tids |-> "none"]
  /\ req = [t \in Tids |-> NoTuple]
  /\ since = [t \in Tids |-> 0]
  /\ ctx = [t \in Tids |-> "none"]
  /\ bound = [t \in Tids |-> FALSE]
  /\ rx = [t \in Tids |-> <<>>]
  /\ requests = [t \in Tids |-> <<>>]
  /\ session = [u \in Tuples |-> "none"]
  /\ gen = [u \in Tuples |-> 0]
  /\ out = [t \in Tids |-> NoResult]
  /\ left = {} /\ stale = {} /\ lost = {}
----------------------------------------------------------------------------
Call(t, f, u) ==
  /\ fn' = [fn EXCEPT ![t] = f]
  /\ req' = [req EXCEPT ![t] = u]
  /\ since' = [since EXCEPT ![t] = IF f = "fetch" THEN gen[u] ELSE 0]

Return(t) ==
  /\ Call(t, "none", NoTuple)
  /\ lost' = lost \ {t}

SetOut(t, result) == out' = [out EXCEPT ![t] = result]

(* A call ends without its answer, which may still come.                   *)
GiveUp(t) ==
  \/ /\ fn[t] = "none"
     /\ UNCHANGED stale
  \/ /\ fn[t] # "none" /\ Len(requests[t]) + Len(rx[t]) <= MaxLeft
     /\ stale' = stale \cup {t}

(* Mutated form: the 4-tuple is not filled in and the request carries what  *)
(* the stack held.                                                         *)
SendUnfilled(t, op, u) ==
  /\ Len(requests[t]) <= MaxLeft
  /\ \E v \in Tuples : requests' = [requests EXCEPT ![t] = Append(@, [op |-> op, tuple |-> v])]
  /\ stale' = IF requests[t] = <<>> /\ rx[t] = <<>> THEN stale \ {t} ELSE stale
  /\ lost' = lost \ {t}
  /\ UNCHANGED <<session, gen, left>>

(* sendto may return -1, which goes unnoticed.  A call that finds nothing  *)
(* left on its port id does not suffer from an earlier one.                *)
Send(t, op, u) ==
  /\ Len(requests[t]) <= MaxLeft
  /\ \/ /\ requests' = [requests EXCEPT ![t] = Append(@, [op |-> op, tuple |-> u])]
        /\ lost' = lost \ {t}
     \/ /\ t \in Faulty
        /\ lost' = lost \cup {t}
        /\ UNCHANGED requests
  /\ stale' = IF requests[t] = <<>> /\ rx[t] = <<>> THEN stale \ {t} ELSE stale
  /\ UNCHANGED <<session, gen, left>>

OpenSocket(t) == ~bound[t] /\ bound' = [bound EXCEPT ![t] = TRUE]
CloseSocket(t) ==
  /\ bound' = [bound EXCEPT ![t] = FALSE]
  /\ rx' = [rx EXCEPT ![t] = <<>>]

Recv(t) == rx[t] # <<>> /\ rx' = [rx EXCEPT ![t] = Tail(@)]
----------------------------------------------------------------------------
(* tlshub_service_init.  When its socket cannot be opened or bound it      *)
(* returns -1 and nothing has changed.  (Without memory for the buffer it  *)
(* ends the process: malloc_netlink_pkthdr clears what malloc returned     *)
(* before anyone looks at it.)                                             *)
tlshub_service_init(t) ==
  /\ fn[t] = "none"
  /\ OpenSocket(t)
  /\ Send(t, "INIT", NoTuple)
  /\ Call(t, "init", NoTuple)
  /\ SetOut(t, NoResult)
  /\ UNCHANGED <<ctx, rx>>

(* A recvfrom that returns -1 changes nothing: the buffer was cleared, its *)
(* message type is none of the switch's, and the loop goes on.             *)
InitRecv(t) ==
  /\ fn[t] = "init"
  /\ rx[t] # <<>>
  /\ IF Head(rx[t]).type = "INIT_COMPLETE"
       THEN CloseSocket(t) /\ Return(t)
       ELSE Recv(t) /\ UNCHANGED <<callVars, bound, lost>>
  /\ UNCHANGED <<ctx, kernelVars, out, left, stale>>
----------------------------------------------------------------------------
(* Mutated form: the new socket is not bound.                              *)
PrepareContextNoBind(t) ==
  /\ ctx' = [ctx EXCEPT ![t] = "ready"]
  /\ UNCHANGED bound

(* netlink_ctx_init and netlink_ctx_alloc_msg on the thread's context: use *)
(* what is there, or make it.                                              *)
PrepareContext(t) ==
  /\ IF ctx[t] = "none" THEN OpenSocket(t) ELSE UNCHANGED bound
  /\ ctx' = [ctx EXCEPT ![t] = "ready"]

(* No socket, or a socket without a buffer.                                *)
PrepareFails(t) ==
  \/ /\ ctx[t] = "none"
     /\ bound[t] \/ t \in Exhausted
     /\ UNCHANGED <<ctx, bound>>
  \/ /\ t \in Exhausted /\ ctx[t] # "ready"
     /\ IF ctx[t] = "none" THEN OpenSocket(t) ELSE UNCHANGED bound
     /\ ctx' = [ctx EXCEPT ![t] = "open"]

tlshub_handshake(t, u) ==
  /\ fn[t] = "none"
  /\ \/ /\ PrepareContext(t) /\ Send(t, "START", u) /\ Call(t, "handshake", u)
        /\ SetOut(t, NoResult)
     \/ /\ PrepareFails(t)
        /\ SetOut(t, NoKey("handshake", -1))
        /\ UNCHANGED <<callVars, kernelVars, history>>
  /\ UNCHANGED rx

HandshakeLoop(t, okTypes) ==
  LET m == Head(rx[t]) IN
  /\ fn[t] = "handshake"
  /\ Recv(t)
  /\ IF m.type \in okTypes \cup {"FAILED"}
       THEN /\ SetOut(t, IF m.type \in okTypes THEN Result("handshake", req[t], 0, 0, ZeroKey)
                        ELSE NoKey("handshake", -1))
            /\ Return(t)
       ELSE UNCHANGED <<out, callVars, lost>>
  /\ UNCHANGED <<ctx, bound, kernelVars, left, stale>>

(* Mutated form: a LOG ends the wait.                                      *)
HandshakeRecvLogEnds(t) == HandshakeLoop(t, HandshakeOk \cup {"LOG"})

(* Mutated form: ALREADY_CONNECTED is not taken for an answer.             *)
HandshakeRecvNoAlready(t) == HandshakeLoop(t, {"SUCCESS_FIRST", "SUCCESS"})

(* As in InitRecv, a recvfrom that returns -1 is one more turn of the loop. *)
HandshakeRecv(t) == HandshakeLoop(t, HandshakeOk)

(* The receive loops end with -2 when recvfrom returns 0.  A handshake     *)
(* keeps its context; tlshub_service_init forgets its open socket.         *)
RecvNothing(t) ==
  /\ t \in Faulty
  /\ \/ /\ fn[t] = "init"
        /\ left' = left \cup {t}
        /\ UNCHANGED out
     \/ /\ fn[t] = "handshake"
        /\ SetOut(t, NoKey("handshake", -2))
        /\ UNCHANGED left
  /\ GiveUp(t)
  /\ Return(t)
  /\ UNCHANGED <<socketVars, kernelVars>>
----------------------------------------------------------------------------
(* tlshub_fetch_key.  Without a socket or a buffer it returns the zeroed   *)
(* key_back, whose status is 0.                                            *)
tlshub_fetch_key(t, u) ==
  /\ fn[t] = "none"
  /\ \/ /\ OpenSocket(t) /\ Send(t, "FETCH", u) /\ Call(t, "fetch", u)
        /\ SetOut(t, NoResult)
     \/ /\ bound[t] \/ t \in Exhausted
        /\ SetOut(t, NoKey("fetch", 0))
        /\ UNCHANGED <<callVars, bound, kernelVars, history>>
  /\ UNCHANGED <<ctx, rx>>

FetchOut(t) ==
  LET m == Head(rx[t]) IN
  /\ rx[t] # <<>>
  /\ SetOut(t, IF m.key = ZeroKey THEN NoKey("fetch", m.status)
               ELSE Result("fetch", req[t], since[t], m.status, m.key))

(* Mutated form: the socket stays open.                                    *)
FetchRecvNoClose(t) ==
  /\ fn[t] = "fetch"
  /\ FetchOut(t)
  /\ Recv(t)
  /\ Return(t)
  /\ UNCHANGED <<ctx, bound, kernelVars, left, stale>>

(* One message, whatever it is.                                            *)
FetchRecv(t) ==
  /\ fn[t] = "fetch"
  /\ FetchOut(t)
  /\ CloseSocket(t)
  /\ Return(t)
  /\ UNCHANGED <<ctx, kernelVars, left, stale>>

(* recvfrom returns -1, interrupted or because the queue was overrun: the  *)
(* cleared buffer is returned as a key.                                    *)
FetchUnread(t) ==
  /\ t \in Faulty /\ fn[t] = "fetch"
  /\ SetOut(t, NoKey("fetch", 0))
  /\ CloseSocket(t)
  /\ GiveUp(t)
  /\ Return(t)
  /\ UNCHANGED <<ctx, kernelVars, left>>
----------------------------------------------------------------------------
(* A thread ends; the next one with its id starts with a fresh context.    *)
ThreadExit(t) ==
  /\ fn[t] = "none"
  /\ ctx[t] # "none"
  /\ ctx' = [ctx EXCEPT ![t] = "none"]
  /\ left' = left \cup {t}
  /\ UNCHANGED <<callVars, bound, rx, kernelVars, out, stale, lost>>
----------------------------------------------------------------------------
(* The kernel module.                                                      *)

(* A message to a port id that no open socket has is dropped, and so is one *)
(* that finds the receive queue full.                                      *)
Deliver(t, m) ==
  \/ /\ rx' = IF bound[t] THEN [rx EXCEPT ![t] = Append(@, m)] ELSE rx
     /\ UNCHANGED lost
  \/ /\ t \in Faulty
     /\ lost' = IF fn[t] = "none" THEN lost ELSE lost \cup {t}
     /\ UNCHANGED rx
Serving(t, op) == requests[t] # <<>> /\ Head(requests[t]).op = op
Asked(t) == Head(requests[t]).tuple
Answer(t, m) ==
  /\ requests' = [requests EXCEPT ![t] = Tail(@)]
  /\ Deliver(t, m)
  /\ UNCHANGED <<callVars, ctx, bound, out, left, stale>>

ServeInit(t) ==
  /\ Serving(t, "INIT")
  /\ Answer(t, Text("INIT_COMPLETE"))
  /\ UNCHANGED <<session, gen>>

FetchReply(u) ==
  IF session[u] = "live" THEN KeyBack(0, <<u, gen[u]>>)
  ELSE KeyBack(IF session[u] = "none" THEN -1 ELSE -2, ZeroKey)

ServeFetch(t) ==
  /\ Serving(t, "FETCH")
  /\ Answer(t, FetchReply(Asked(t)))
  /\ UNCHANGED <<session, gen>>

AlreadyConnected(t) ==
  /\ Serving(t, "START") /\ session[Asked(t)] = "live"
  /\ Answer(t, Text("ALREADY_CONNECTED"))
  /\ UNCHANGED <<session, gen>>

HandshakeSucceeds(t) ==
  LET u == Asked(t) IN
  /\ Serving(t, "START") /\ session[u] # "live"
  /\ Answer(t, Text(IF gen[u] = 0 THEN "SUCCESS_FIRST" ELSE "SUCCESS"))
  /\ session' = [session EXCEPT ![u] = "live"]
  /\ gen' = [gen EXCEPT ![u] = @ + 1]

HandshakeFails(t) ==
  /\ Serving(t, "START") /\ session[Asked(t)] # "live"
  /\ Answer(t, Text("FAILED"))
  /\ UNCHANGED <<session, gen>>

EmitLog(t) ==
  /\ Serving(t, "INIT") \/ Serving(t, "START")
  /\ bound[t] /\ Len(rx[t]) < MaxLogs
  /\ rx' = [rx EXCEPT ![t] = Append(@, Text("LOG"))]
  /\ UNCHANGED <<callVars, ctx, bound, kernelVars, out, history>>

Expire(u) ==
  /\ u \in Expiring
  /\ session[u] = "live" /\ gen[u] < MaxGen
  /\ session' = [session EXCEPT ![u] = "expired"]
  /\ UNCHANGED <<callVars, socketVars, requests, gen, out, history>>
----------------------------------------------------------------------------
Serve(t) ==
  \/ ServeInit(t) \/ ServeFetch(t) \/ AlreadyConnected(t)
  \/ HandshakeSucceeds(t) \/ HandshakeFails(t)

Receive(t) == InitRecv(t) \/ HandshakeRecv(t) \/ FetchRecv(t)

ReceiveFails(t) == RecvNothing(t) \/ FetchUnread(t)

CallApi(t) ==
  \/ tlshub_service_init(t)
  \/ \E u \in Tuples : tlshub_handshake(t, u) \/ tlshub_fetch_key(t, u)

Next ==
  \/ \E t \in Tids :
       CallApi(t) \/ Receive(t) \/ ReceiveFails(t) \/ ThreadExit(t) \/ Serve(t) \/ EmitLog(t)
  \/ \E u \in Tuples : Expire(u)

Spec == Init /\ [][Next]_vars
----------------------------------------------------------------------------
(* Every variable has its type; a 4-tuple is recorded for a thread exactly  *)
(* while its handshake or fetch runs, and a context's socket is open.       *)
TypeOK ==
  /\ requests \in [Tids -> Seq([op : {"INIT", "START", "FETCH"}, tuple : Tuples \cup {NoTuple}])]
  /\ rx \in [Tids -> Seq(Message)]
  /\ out \in [Tids -> [fn : {"none", "handshake", "fetch"}, tuple : Tuples \cup {NoTuple},
                        since : Nat, status : {0, -1, -2, 1}, key : Keys]]
  /\ fn \in [Tids -> {"none", "init", "handshake", "fetch"}]
  /\ req \in [Tids -> Tuples \cup {NoTuple}]
  /\ \A t \in Tids : req[t] # NoTuple <=> fn[t] \in {"handshake", "fetch"}
  /\ since \in [Tids -> Nat]
  /\ ctx \in [Tids -> {"none", "open", "ready"}]
  /\ bound \in [Tids -> BOOLEAN]
  /\ \A t \in Tids : ctx[t] # "none" => bound[t]
  /\ session \in [Tuples -> {"none", "live", "expired"}]
  /\ gen \in [Tuples -> 0 .. MaxGen]
  /\ left \subseteq Tids /\ stale \subseteq Tids /\ lost \subseteq Tids

(* Whatever the other threads do and whichever requests and answers get     *)
(* lost, a key that tlshub_fetch_key returns belongs to the 4-tuple asked   *)
(* for and is not older than its key was when the call began -- unless the  *)
(* call began on a port id where a call that had given up left something:   *)
(* no message says which request it answers.                                *)
OwnKey ==
  \A t \in Tids \ stale : out[t].fn = "fetch" /\ out[t].status = 0 /\ out[t].key # ZeroKey =>
    /\ out[t].key[1] = out[t].tuple
    /\ out[t].key[2] >= out[t].since
    /\ out[t].key[2] <= gen[out[t].tuple]

(* tlshub_handshake returns 0 only if TLSHub has negotiated a key for the   *)
(* 4-tuple, by this thread's request or another's; the exception is that of *)
(* OwnKey.                                                                  *)
TrueVerdict ==
  \A t \in Tids \ stale : out[t].fn = "handshake" /\ out[t].status = 0 => gen[out[t].tuple] > 0

(* A status of 0 says that there is a key.                                  *)
ZeroMeansKey ==
  \A t \in Tids : out[t].fn = "fetch" /\ out[t].status = 0 => out[t].key # ZeroKey
============================================================================
