----------------------------- MODULE KeyProvider -----------------------------
(***************************************************************************)
(* capture/src/key_provider.c on top of TlshubClient: the provider is      *)
(* initialised in one of three modes, asked for keys one connection at a   *)
(* time, and cleaned up.  The caller follows main.c: keys are asked for    *)
(* after a successful initialisation, and cleanup runs after a failed      *)
(* initialisation too.  key_provider_set_mode is called at run time where  *)
(* SwitchModes allows it.                                                  *)
(***************************************************************************)
EXTENDS TlshubClient

CONSTANTS Modes,       \* the modes the caller may choose
          SwitchModes  \* does the caller use key_provider_set_mode?

ASSUME ModeAssumption == /\ Modes \subseteq {"TLSHUB", "OPENSSL", "BORINGSSL"}
                         /\ Modes # {}
                         /\ SwitchModes \in BOOLEAN

VARIABLES current_mode,
          ssl_ctx,   \* is the static ssl_ctx not NULL?
          phase,     \* "closed", "up" or "failed": what the caller knows
          call,      \* where a call into the provider stands
          req,       \* the 4-tuple of the key_provider_get_key under way
          since,     \* history: generation of its key when the call began
          out        \* what the last key_provider_get_key returned

providerVars == <<current_mode, ssl_ctx, phase, call, req, since, out>>
vars == <<serviceVars, clientVars, providerVars>>

Calls == {"idle", "init", "fetch1", "handshake", "fetch2"}
InGetKey == {"fetch1", "handshake", "fetch2"}

(* SSL_export_keying_material's key is not the key of a 4-tuple.           *)
LocalKey == <<NoTuple, 1>>
Answer(r, t, s, k) == [ret |-> r, tuple |-> t, since |-> s, key |-> k]

Init ==
  /\ ServiceInit
  /\ ClientInit
  /\ current_mode = "TLSHUB"
  /\ ssl_ctx = FALSE
  /\ phase = "closed"
  /\ call = "idle"
  /\ req = NoTuple
  /\ since = 0
  /\ out = Answer("fail", NoTuple, 0, ZeroKey)
----------------------------------------------------------------------------
(* key_provider_init                                                       *)

key_provider_init(mode) ==
  /\ phase = "closed" /\ call = "idle"
  /\ current_mode' = mode
  /\ IF mode = "TLSHUB"
       THEN /\ tlshub_client_init
            /\ call' = "init"
            /\ UNCHANGED <<ssl_ctx, phase>>
       ELSE /\ ssl_ctx' \in BOOLEAN                     \* SSL_CTX_new
            /\ phase' = IF ssl_ctx' THEN "up" ELSE "failed"
            /\ UNCHANGED <<serviceVars, clientVars, call>>
  /\ UNCHANGED <<req, since, out>>

(* Mutated form: the return value of tlshub_client_init is not looked at.  *)
InitReturnsUnchecked ==
  /\ call = "init" /\ fn = "none"
  /\ call' = "idle"
  /\ phase' = "up"
  /\ UNCHANGED <<serviceVars, clientVars, current_mode, ssl_ctx, req, since, out>>

InitReturns ==
  /\ call = "init" /\ fn = "none"
  /\ call' = "idle"
  /\ phase' = IF ret = "ok" THEN "up" ELSE "failed"
  /\ UNCHANGED <<serviceVars, clientVars, current_mode, ssl_ctx, req, since, out>>

(* key_provider_cleanup releases what current_mode uses.                   *)
key_provider_cleanup ==
  /\ phase \in {"up", "failed"} /\ call = "idle"
  /\ phase' = "closed"
  /\ IF current_mode = "TLSHUB"
       THEN tlshub_client_cleanup /\ UNCHANGED ssl_ctx
       ELSE ssl_ctx' = FALSE /\ UNCHANGED <<serviceVars, clientVars>>
  /\ UNCHANGED <<current_mode, call, req, since, out>>

key_provider_set_mode(mode) ==
  /\ SwitchModes /\ phase = "up" /\ call = "idle"
  /\ current_mode' = mode
  /\ UNCHANGED <<serviceVars, clientVars, ssl_ctx, phase, call, req, since, out>>
----------------------------------------------------------------------------
(* key_provider_get_key.  TLSHub mode: fetch, and if that fails a          *)
(* handshake and a second fetch.                                           *)

key_provider_get_key(t) ==
  /\ phase = "up" /\ call = "idle"
  /\ current_mode = "TLSHUB"
  /\ tlshub_fetch_key(t)
  /\ call' = "fetch1"
  /\ req' = t
  /\ since' = gen[t]
  /\ UNCHANGED <<current_mode, ssl_ctx, phase, out>>

StartHandshake ==
  /\ call = "fetch1" /\ fn = "none" /\ ret = "fail"
  /\ tlshub_handshake(req)
  /\ call' = "handshake"
  /\ UNCHANGED <<current_mode, ssl_ctx, phase, req, since, out>>

FetchAgain ==
  /\ call = "handshake" /\ fn = "none" /\ ret = "ok"
  /\ tlshub_fetch_key(req)
  /\ call' = "fetch2"
  /\ UNCHANGED <<current_mode, ssl_ctx, phase, req, since, out>>

GetKeyReturns ==
  /\ fn = "none"
  /\ \/ call = "fetch1" /\ ret = "ok"
     \/ call = "handshake" /\ ret = "fail"
     \/ call = "fetch2"
  /\ out' = Answer(ret, req, since, IF ret = "ok" THEN key_info ELSE ZeroKey)
  /\ call' = "idle"
  /\ req' = NoTuple
  /\ since' = 0
  /\ UNCHANGED <<serviceVars, clientVars, current_mode, ssl_ctx, phase>>

(* openssl_get_key, which boringssl_get_key calls too: without a context,  *)
(* or when SSL_new or the export fails, there is no key.                   *)
openssl_get_key ==
  /\ phase = "up" /\ call = "idle"
  /\ current_mode \in {"OPENSSL", "BORINGSSL"}
  /\ \/ out' = Answer("fail", NoTuple, 0, ZeroKey)
     \/ ssl_ctx /\ out' = Answer("ok", NoTuple, 0, LocalKey)
  /\ UNCHANGED <<serviceVars, clientVars, current_mode, ssl_ctx, phase, call, req, since>>
----------------------------------------------------------------------------
ProviderStep == InitReturns \/ StartHandshake \/ FetchAgain \/ GetKeyReturns

CallerStep ==
  \/ \E m \in Modes : key_provider_init(m) \/ key_provider_set_mode(m)
  \/ \E t \in Tuples : key_provider_get_key(t)
  \/ openssl_get_key
  \/ key_provider_cleanup

Next ==
  \/ CallerStep
  \/ ProviderStep
  \/ ClientNext /\ UNCHANGED providerVars
  \/ ServiceNext /\ UNCHANGED <<clientVars, providerVars>>

(* The kernel module answers, a recvfrom with something to return returns, *)
(* and the calling thread runs.  The caller need not call.                 *)
Fairness ==
  /\ WF_vars(Serve /\ UNCHANGED <<clientVars, providerVars>>)
  /\ WF_vars(ClientNext /\ UNCHANGED providerVars)
  /\ WF_vars(ProviderStep)

Spec == Init /\ [][Next]_vars
FairSpec == Spec /\ Fairness
----------------------------------------------------------------------------
(* Every variable of the service, the client and the provider has its type, *)
(* no key beyond MaxGen is negotiated, a 4-tuple is recorded as under       *)
(* request exactly while key_provider_get_key runs, and key_provider_init   *)
(* has succeeded only if there is a socket or an SSL context to get keys    *)
(* from, also after the mode is switched.                                   *)
TypeOK ==
  /\ inbox \in Seq(Request)
  /\ rx \in Seq(Message)
  /\ overrun \in BOOLEAN /\ bound \in BOOLEAN
  /\ session \in [Tuples -> {"none", "live", "expired"}]
  /\ gen \in [Tuples -> 0 .. MaxGen]
  /\ netlink_sock \in BOOLEAN /\ nlh \in BOOLEAN
  /\ fn \in Functions /\ ret \in {"ok", "fail"}
  /\ key_info \in Keys
  /\ current_mode \in {"TLSHUB", "OPENSSL", "BORINGSSL"}
  /\ ssl_ctx \in BOOLEAN
  /\ phase \in {"closed", "up", "failed"}
  /\ phase = "up" => netlink_sock \/ ssl_ctx
  /\ call \in Calls
  /\ req \in Tuples \cup {NoTuple}
  /\ (req # NoTuple) <=> (call \in InGetKey)
  /\ since \in Nat
  /\ out \in [ret : {"ok", "fail"}, tuple : Tuples \cup {NoTuple},
              since : Nat, key : Keys]

(* key_provider_get_key in TLSHub mode never succeeds with anything but a   *)
(* key of the 4-tuple it was asked for, negotiated by TLSHub and not older  *)
(* than the key that 4-tuple had when the call began.                       *)
OwnKey ==
  (out.ret = "ok" /\ out.tuple # NoTuple) =>
     /\ out.key[1] = out.tuple
     /\ out.key[2] > 0
     /\ out.key[2] >= out.since
     /\ out.key[2] <= gen[out.tuple]

(* Between two calls of the client functions no request is unanswered and   *)
(* no message or error is left in the socket: since answers carry no        *)
(* sequence number, a leftover would be taken for the next answer.          *)
InSync == fn = "none" => inbox = <<>> /\ rx = <<>> /\ ~overrun

(* Whatever is lost, late or refused: the final message of an INIT or START *)
(* is consumed by the call that sent the request.  None is under way or     *)
(* queued while another function runs, so no handshake ends on the verdict  *)
(* of another one.                                                          *)
FinalsMatched ==
  LET Final(m) == m.type \in HandshakeOk \cup {"FAILED", "INIT_COMPLETE"}
      asked  == {i \in DOMAIN inbox : inbox[i].op # "FETCH"}
      queued == {i \in DOMAIN rx : Final(rx[i])}
  IN  /\ fn \in {"none", "fetch"} /\ netlink_sock => asked = {} /\ queued = {}
      /\ \A i \in asked : queued = {} /\ asked = {i} /\ inbox[i].tuple = req
      /\ \A i, j \in queued : i = j

(* Once key_provider_cleanup has returned, the netlink socket (with the     *)
(* thread's port id) and the SSL context are released.                      *)
CleanShutdown == phase = "closed" /\ call = "idle" => ~bound /\ ~netlink_sock /\ ~ssl_ctx

(* TLSHub negotiates a new key only while key_provider_get_key waits for    *)
(* the handshake of that 4-tuple.                                           *)
NegotiatesOnlyOnRequest ==
  [][\A t \in Tuples : gen'[t] # gen[t] => call = "handshake" /\ fn = "handshake" /\ req = t]_vars

(* Every call of key_provider_get_key and key_provider_init returns.        *)
CallsReturn == call # "idle" ~> call = "idle"

(* The provider keeps the promise of KeyRequest.                            *)
Promise == INSTANCE KeyRequest WITH pending <- req, answer <- out
KeepsPromise == Promise!Spec
============================================================================
