----------------------------- MODULE KeyRequest -----------------------------
(***************************************************************************)
(* What a key provider promises its caller: one request at a time, and the *)
(* answer to a request for a 4-tuple is either a refusal or a key that was *)
(* the current key of that very 4-tuple at some moment of the request.     *)
(***************************************************************************)
EXTENDS Integers

CONSTANTS Tuples, NoTuple, LocalKey

VARIABLES gen,      \* generation of the current key of each 4-tuple, 0: none
          pending,  \* the 4-tuple asked for, or NoTuple
          since,    \* generation of its key when it was asked for
          answer    \* the last answer: [ret, tuple, since, key]

vars == <<gen, pending, since, answer>>

Local(r, k) == [ret |-> r, tuple |-> NoTuple, since |-> 0, key |-> k]
NoAnswer == Local("fail", <<NoTuple, 0>>)

Init ==
  /\ gen = [t \in Tuples |-> 0]
  /\ pending = NoTuple
  /\ since = 0
  /\ answer = NoAnswer

Ask(t) ==
  /\ pending = NoTuple
  /\ pending' = t
  /\ since' = gen[t]
  /\ UNCHANGED <<gen, answer>>

(* A new key is only negotiated for the 4-tuple that is asked for.         *)
Negotiate ==
  /\ pending # NoTuple
  /\ gen' = [gen EXCEPT ![pending] = @ + 1]
  /\ UNCHANGED <<pending, since, answer>>

Close(a) ==
  /\ pending # NoTuple
  /\ pending' = NoTuple
  /\ since' = 0
  /\ answer' = a
  /\ UNCHANGED gen

Grant ==
  /\ pending # NoTuple
  /\ \E g \in since .. gen[pending] :
       /\ g > 0
       /\ Close([ret |-> "ok", tuple |-> pending, since |-> since,
                 key |-> <<pending, g>>])

Refuse == Close([ret |-> "fail", tuple |-> pending, since |-> since,
                 key |-> <<NoTuple, 0>>])

(* A local provider answers at once and does not know the 4-tuple.         *)
AnswerLocally ==
  /\ pending = NoTuple
  /\ answer' \in {NoAnswer, Local("ok", LocalKey)}
  /\ UNCHANGED <<gen, pending, since>>

Next == (\E t \in Tuples : Ask(t)) \/ Negotiate \/ Grant \/ Refuse \/ AnswerLocally

Spec == Init /\ [][Next]_vars
============================================================================
