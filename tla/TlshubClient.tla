---------------------------- MODULE TlshubClient ----------------------------
(***************************************************************************)
(* capture/src/tlshub_client.c: the client side of the netlink protocol.   *)
(*                                                                         *)
(* Each of tlshub_client_init, tlshub_fetch_key and tlshub_handshake sends *)
(* one request and then blocks in recvfrom; the model has an action for    *)
(* the part up to the first recvfrom and one for each recvfrom with the    *)
(* code up to the next one.  The functions share one socket and are called *)
(* one at a time.                                                          *)
(*                                                                         *)
(* Netlink does not return 0 from sendto or recvfrom, so the branches      *)
(* "if (!ret)" of the source are not taken here; they return like other    *)
(* failures.  (TlshubApi, where they do more, has them.)  An error is -1:  *)
(* after a failed sendto the code goes on to recvfrom, and a failed        *)
(* recvfrom leaves the zeroed u_info to be interpreted.                    *)
(***************************************************************************)
EXTENDS TlshubService

VARIABLES netlink_sock,  \* is the static netlink_sock >= 0?
          nlh,           \* has tlshub_handshake allocated its static buffer?
          fn,            \* the function blocked in recvfrom, or "none"
          ret,           \* what the last function to finish returned
          key_info       \* the caller's key buffer

clientVars == <<netlink_sock, nlh, fn, ret, key_info>>

Functions == {"none", "init", "fetch", "handshake"}

ClientInit ==
  /\ netlink_sock = FALSE
  /\ nlh = FALSE
  /\ fn = "none"
  /\ ret = "fail"
  /\ key_info = ZeroKey

Returns(r) == fn' = "none" /\ ret' = r

(* recvfrom returns the first queued message.                              *)
Recv ==
  /\ CanRecvMessage
  /\ rx' = Tail(rx)
  /\ UNCHANGED <<inbox, overrun, bound, session, gen>>

(* recvfrom returns -1 and fills in nothing.                               *)
RecvError ==
  /\ overrun
  /\ overrun' = FALSE
  /\ UNCHANGED <<inbox, rx, bound, session, gen>>
----------------------------------------------------------------------------
(* tlshub_client_init.  socket, bind and malloc may fail; bind does fail   *)
(* when an open socket of this thread has the port id.  Every failure      *)
(* leaves netlink_sock at -1, whatever socket it named before.             *)

tlshub_client_init ==
  /\ fn = "none"
  /\ \/ /\ Returns("fail")
        /\ netlink_sock' = FALSE
        /\ UNCHANGED serviceVars
     \/ /\ ~bound
        /\ bound' = TRUE
        /\ netlink_sock' = TRUE
        /\ Sendto("INIT", NoTuple)
        /\ fn' = "init"
        /\ UNCHANGED <<rx, overrun, session, gen, ret>>
  /\ UNCHANGED <<nlh, key_info>>

InitRecv ==
  /\ fn = "init"
  /\ \/ RecvError /\ UNCHANGED <<fn, ret>>
     \/ LET m == Head(rx) IN
          /\ Recv
          /\ IF m.type = "INIT_COMPLETE" THEN Returns("ok")
                                         ELSE UNCHANGED <<fn, ret>>
  /\ UNCHANGED <<netlink_sock, nlh, key_info>>

(* Mutated form: the static variable is reset, the socket stays open.      *)
tlshub_client_cleanup_NoClose ==
  /\ netlink_sock' = FALSE
  /\ UNCHANGED <<serviceVars, nlh, fn, ret, key_info>>

(* Closing the socket drops what its queue holds.                          *)
tlshub_client_cleanup ==
  /\ IF netlink_sock
       THEN /\ netlink_sock' = FALSE
            /\ bound' = FALSE
            /\ rx' = <<>>
            /\ overrun' = FALSE
       ELSE UNCHANGED <<netlink_sock, bound, rx, overrun>>
  /\ UNCHANGED <<inbox, session, gen, nlh, fn, ret, key_info>>
----------------------------------------------------------------------------
(* tlshub_fetch_key: one request, one recvfrom, whatever it brings.        *)

tlshub_fetch_key(t) ==
  /\ fn = "none"
  /\ \/ Returns("fail") /\ UNCHANGED inbox       \* no socket, or malloc fails
     \/ netlink_sock /\ Sendto("FETCH", t) /\ fn' = "fetch" /\ UNCHANGED ret
  /\ UNCHANGED <<rx, overrun, bound, session, gen, netlink_sock, nlh, key_info>>

(* Mutated form: the status is not looked at.                              *)
FetchRecvNoStatus ==
  /\ fn = "fetch"
  /\ Recv
  /\ Returns("ok")
  /\ key_info' = Head(rx).key
  /\ UNCHANGED <<netlink_sock, nlh>>

(* The status of the zeroed buffer a failed recvfrom leaves is 0.          *)
FetchRecv ==
  /\ fn = "fetch"
  /\ \/ /\ RecvError
        /\ Returns("ok")
        /\ key_info' = ZeroKey
     \/ LET m == Head(rx) IN
          /\ Recv
          /\ IF m.status = 0
               THEN Returns("ok") /\ key_info' = m.key
               ELSE Returns("fail") /\ UNCHANGED key_info
  /\ UNCHANGED <<netlink_sock, nlh>>
----------------------------------------------------------------------------
(* tlshub_handshake: loops over recvfrom until a final message.  The       *)
(* request buffer is allocated once and kept.                              *)

tlshub_handshake(t) ==
  /\ fn = "none"
  /\ \/ /\ ~netlink_sock \/ ~nlh                 \* no socket, or malloc fails
        /\ Returns("fail")
        /\ UNCHANGED <<inbox, nlh>>
     \/ /\ netlink_sock
        /\ nlh' = TRUE
        /\ Sendto("START", t)
        /\ fn' = "handshake"
        /\ UNCHANGED ret
  /\ UNCHANGED <<rx, overrun, bound, session, gen, netlink_sock, key_info>>

(* One turn of the receive loop, which ends on the types in okTypes and on *)
(* FAILED.  A failed recvfrom leaves msg_type 0, which the loop skips.     *)
HandshakeLoop(okTypes) ==
  /\ fn = "handshake"
  /\ \/ RecvError /\ UNCHANGED <<fn, ret>>
     \/ LET m == Head(rx) IN
          /\ Recv
          /\ \/ m.type \in okTypes /\ Returns("ok")
             \/ m.type = "FAILED" /\ Returns("fail")
             \/ m.type \notin okTypes \cup {"FAILED"} /\ UNCHANGED <<fn, ret>>
  /\ UNCHANGED <<netlink_sock, nlh, key_info>>

(* Mutated form: a LOG ends the wait.                                      *)
HandshakeRecvLogEnds == HandshakeLoop(HandshakeOk \cup {"LOG"})

(* Mutated form: ALREADY_CONNECTED is not taken for an answer.             *)
HandshakeRecvNoAlready == HandshakeLoop({"SUCCESS_FIRST", "SUCCESS"})

HandshakeRecv == HandshakeLoop(HandshakeOk)

ClientNext == InitRecv \/ FetchRecv \/ HandshakeRecv
============================================================================
