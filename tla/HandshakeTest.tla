--------------------------- MODULE HandshakeTest ---------------------------
(***************************************************************************)
(* tlshub-api/tlshub_handshake.c and hypertls_handshake.c: programs that   *)
(* negotiate three times and give up after 30 seconds, run beside threads  *)
(* of other processes that use the API of TlshubApi.                       *)
(*                                                                         *)
(* hypertls.c is tlshub.c under other names: the two differ only in those, *)
(* in a message and in a test of malloc's result that neither needs.  A    *)
(* thread uses one of the two.                                             *)
(*                                                                         *)
(* A process may end while a call waits: by its alarm, by the exit(-1) of  *)
(* a call, or killed.  The answer may come later, and a new process may    *)
(* have been given the thread id.                                          *)
(***************************************************************************)
EXTENDS TlshubApi

CONSTANTS Hypertls, \* thread ids of processes built with hypertls.c
          Programs, \* thread ids that a test program may have
          Turns     \* handshakes of one program (3)

ASSUME ProgramAssumption == Hypertls \subseteq Tids /\ Programs \subseteq Tids /\ Turns \in Nat

VARIABLES prog,  \* where a test program stands or how it ended; "none": another thread
          tried  \* its handshakes: the 4-tuple, and history: did it begin stale?

testVars == <<prog, tried>>
allVars == <<vars, testVars>>

Running == {"turn", "called"}
Ended == {"passed", "failed", "timedout"}

TestInit ==
  /\ Init
  /\ prog \in [Tids -> {"none", "turn"}]
  /\ \A t \in Tids : prog[t] = "turn" => t \in Programs
  /\ tried = [t \in Tids |-> <<>>]
----------------------------------------------------------------------------
hypertls_service_init(t) == t \in Hypertls /\ tlshub_service_init(t)
hypertls_handshake(t, u) == t \in Hypertls /\ tlshub_handshake(t, u)
hypertls_fetch_key(t, u) == t \in Hypertls /\ tlshub_fetch_key(t, u)

Handshake(t, u) ==
  \/ hypertls_handshake(t, u)
  \/ t \notin Hypertls /\ tlshub_handshake(t, u)

(* The other threads.                                                      *)
ThreadStep(t) ==
  /\ prog[t] = "none"
  /\ \/ t \notin Hypertls /\ CallApi(t)
     \/ hypertls_service_init(t)
     \/ \E u \in Tuples : hypertls_handshake(t, u) \/ hypertls_fetch_key(t, u)
     \/ ThreadExit(t)
----------------------------------------------------------------------------
(* The process ends: the kernel closes its sockets, and what the kernel    *)
(* module was asked for stays asked for.                                   *)
Exit(t, how) ==
  /\ prog' = [prog EXCEPT ![t] = how]
  /\ GiveUp(t)
  /\ Return(t)
  /\ CloseSocket(t)
  /\ ctx' = [ctx EXCEPT ![t] = "none"]
  /\ left' = left \ {t}
  /\ SetOut(t, NoResult)
  /\ UNCHANGED <<kernelVars, tried>>

(* exit(-1): sendto, or the recvfrom of a fetch, returns 0.  Another thread *)
(* of the process may be the one that calls it.                            *)
ProcessExit(t) ==
  /\ t \in Faulty
  /\ \/ prog[t] = "none" /\ bound[t]
     \/ prog[t] = "called" /\ fn[t] # "none"
  /\ Exit(t, "failed")

NewProcess(t) ==
  /\ prog[t] \in Ended
  /\ \/ prog' = [prog EXCEPT ![t] = "none"]
     \/ t \in Programs /\ prog' = [prog EXCEPT ![t] = "turn"]
  /\ tried' = [tried EXCEPT ![t] = <<>>]
  /\ UNCHANGED vars

(* One turn of main's loop: a handshake on ports picked at random.         *)
StartTurn(t) ==
  /\ prog[t] = "turn" /\ Len(tried[t]) < Turns
  /\ \E u \in Tuples :
       /\ Handshake(t, u)
       /\ tried' = [tried EXCEPT ![t] = Append(@, [tuple |-> u, stale |-> t \in stale'])]
  /\ prog' = [prog EXCEPT ![t] = "called"]

(* Mutated form: the result is printed and otherwise ignored.              *)
EndTurnAnyway(t) ==
  /\ prog[t] = "called" /\ fn[t] = "none"
  /\ prog' = [prog EXCEPT ![t] = "turn"]
  /\ UNCHANGED <<vars, tried>>

(* Mutated form: a handshake that failed is tried again.                   *)
EndTurnRetries(t) ==
  /\ prog[t] = "called" /\ fn[t] = "none"
  /\ prog' = [prog EXCEPT ![t] = "turn"]
  /\ tried' = IF out[t].status = 0 THEN tried
              ELSE [tried EXCEPT ![t] = SubSeq(@, 1, Len(@) - 1)]
  /\ UNCHANGED vars

EndTurn(t) ==
  /\ prog[t] = "called" /\ fn[t] = "none"
  /\ IF out[t].status = 0
       THEN prog' = [prog EXCEPT ![t] = "turn"] /\ UNCHANGED <<vars, tried>>
       ELSE Exit(t, "failed")

Finish(t) ==
  /\ prog[t] = "turn" /\ Len(tried[t]) = Turns
  /\ Exit(t, "passed")

(* SIGALRM: the process ends wherever it is.                               *)
timeout_handler(t) ==
  /\ prog[t] \in Running
  /\ Exit(t, "timedout")

ProgramStep(t) == StartTurn(t) \/ EndTurn(t) \/ Finish(t)
----------------------------------------------------------------------------
TestNext ==
  \/ \E t \in Tids : ProgramStep(t) \/ timeout_handler(t) \/ ProcessExit(t) \/ NewProcess(t)
  \/ \E t \in Tids :
       /\ ThreadStep(t) \/ Receive(t) \/ ReceiveFails(t) \/ Serve(t) \/ EmitLog(t)
       /\ UNCHANGED testVars
  \/ \E u \in Tuples : Expire(u) /\ UNCHANGED testVars

TestSpec == TestInit /\ [][TestNext]_allVars

(* The kernel module answers what it was asked, a thread that can receive a *)
(* message does, and a program goes on; nobody has to call anything, no     *)
(* call has to fail, and no alarm has to ring.                              *)
TestFairSpec ==
  /\ TestSpec
  /\ \A t \in Tids :
       /\ WF_allVars(Serve(t) /\ UNCHANGED testVars)
       /\ WF_allVars(Receive(t) /\ UNCHANGED testVars)
  /\ \A t \in Programs : WF_allVars(ProgramStep(t))
----------------------------------------------------------------------------
(* Between two calls of a thread whose last call had its answer, the port   *)
(* id has no unread message and no unanswered request, so neither its kept  *)
(* socket nor the next one bound to that id starts with another call's      *)
(* answer.  A call that gave up, or whose process ended in it, is the       *)
(* exception, until a call of that id begins with nothing left.  And a      *)
(* socket stays open between calls only for the thread's context, or        *)
(* forgotten on one of two paths: the thread has ended, or                  *)
(* tlshub_service_init has returned -2.                                     *)
InSync ==
  \A t \in Tids : fn[t] = "none" =>
    /\ t \notin stale => rx[t] = <<>> /\ requests[t] = <<>>
    /\ bound[t] => ctx[t] # "none" \/ t \in left

(* A program ends with success only after all its handshakes, each of which *)
(* has left a negotiated key, if no earlier process with this id had given  *)
(* it something to misread; one that found a failure or an alarm has not    *)
(* passed.                                                                  *)
PassMeansNegotiated ==
  \A t \in Tids : prog[t] = "passed" =>
    /\ Len(tried[t]) = Turns
    /\ \A i \in DOMAIN tried[t] : tried[t][i].stale \/ gen[tried[t][i].tuple] > 0

(* Every program ends by itself, without its alarm, unless a request or an  *)
(* answer of its got lost: no verdict of a handshake keeps it in its loop,  *)
(* and no left-over message makes it miss its answer.                       *)
TestEnds == \A t \in Programs : prog[t] \in Running ~> prog[t] \in Ended \/ t \in lost

(* Every call returns, whichever thread the kernel module serves first and  *)
(* whatever earlier calls have left, unless its request or an answer got    *)
(* lost.                                                                    *)
CallsReturn == \A t \in Tids : fn[t] # "none" ~> fn[t] = "none" \/ t \in lost
============================================================================
