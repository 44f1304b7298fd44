----------------------------- MODULE KtlsConfig -----------------------------
(***************************************************************************)
(* capture/src/ktls_config.c: handing the key of a connection to the       *)
(* kernel's TLS layer.                                                     *)
(*                                                                         *)
(* Threads call configure_ktls, enable_ktls_tx and enable_ktls_rx on       *)
(* sockets they hold open, with any key and as often as they like.  Each   *)
(* setsockopt is a step of its own.  The kernel's side is modelled from    *)
(* the three options the code sets: an option that was set cannot be set   *)
(* again, the keys need the "tls" ULP, the ULP needs an established        *)
(* connection, and every call may fail (no module, no memory).             *)
(***************************************************************************)
EXTENDS Integers, Sequences

CONSTANTS Threads, Socks,
          Materials, \* struct tls_key_info: records [key, iv], iv a sequence of iv_len bytes
          SaltSize,  \* TLS_CIPHER_AES_GCM_128_SALT_SIZE (4)
          IvSize     \* TLS_CIPHER_AES_GCM_128_IV_SIZE (8)

ASSUME SizeAssumption == SaltSize \in Nat \ {0} /\ IvSize \in Nat \ {0}
ASSUME MaterialAssumption == \A k \in Materials : k.iv \in Seq(Nat)

VARIABLES established, \* is the TCP connection established?
          ulp,         \* is the "tls" ULP attached?
          tx, rx,      \* crypto_info of each direction, or None
          pc,          \* the setsockopt each thread is about to call
          arg,         \* the call it is in: [fn, sock, k]
          done,        \* history: configure_ktls calls that returned 0
          gaveUp       \* history: sockets on which it failed with the ULP attached

sockVars == <<established, ulp, tx, rx>>
vars == <<sockVars, pc, arg, done, gaveUp>>

None == <<>>
NoCall == [fn |-> "none"]
Functions == {"configure_ktls", "enable_ktls_tx", "enable_ktls_rx"}

Init ==
  /\ established = [s \in Socks |-> TRUE]
  /\ ulp = [s \in Socks |-> FALSE]
  /\ tx = [s \in Socks |-> None] /\ rx = [s \in Socks |-> None]
  /\ pc = [p \in Threads |-> "idle"]
  /\ arg = [p \in Threads |-> NoCall]
  /\ done = {} /\ gaveUp = {}
----------------------------------------------------------------------------
Zeros(n) == [i \in 1 .. n |-> 0]

(* Mutated form: a short IV is copied whole, past the salt.               *)
CryptoInfoWholeIv(k) ==
  IF Len(k.iv) >= SaltSize + IvSize
    THEN [key |-> k.key, salt |-> SubSeq(k.iv, 1, SaltSize),
          iv |-> SubSeq(k.iv, SaltSize + 1, SaltSize + IvSize)]
    ELSE [key |-> k.key, salt |-> k.iv, iv |-> Zeros(IvSize)]

(* struct tls12_crypto_info_aes_gcm_128.  A short IV gives at most a salt; *)
(* the rest of the structure is zeroed.                                    *)
CryptoInfo(k) ==
  IF Len(k.iv) >= SaltSize + IvSize
    THEN [key |-> k.key, salt |-> SubSeq(k.iv, 1, SaltSize),
          iv |-> SubSeq(k.iv, SaltSize + 1, SaltSize + IvSize)]
    ELSE [key |-> k.key, salt |-> SubSeq(k.iv \o Zeros(SaltSize), 1, SaltSize),
          iv |-> Zeros(IvSize)]

Call(p, f, s, k) ==
  /\ pc[p] = "idle"
  /\ pc' = [pc EXCEPT ![p] = IF f = "enable_ktls_rx" THEN "TLS_RX" ELSE "TCP_ULP"]
  /\ arg' = [arg EXCEPT ![p] = [fn |-> f, sock |-> s, k |-> k]]
  /\ UNCHANGED <<sockVars, done, gaveUp>>

(* The call returns; configure_ktls passes a failure of either half on.    *)
Return(p, ok) ==
  /\ pc' = [pc EXCEPT ![p] = "idle"]
  /\ arg' = [arg EXCEPT ![p] = NoCall]
  /\ done' = IF ok /\ arg[p].fn = "configure_ktls"
               THEN done \cup {[sock |-> arg[p].sock, k |-> arg[p].k]} ELSE done
  /\ gaveUp' = IF ~ok /\ arg[p].fn = "configure_ktls" /\ pc[p] # "TCP_ULP"
               THEN gaveUp \cup {arg[p].sock} ELSE gaveUp

Goto(p, next) ==
  /\ pc' = [pc EXCEPT ![p] = next]
  /\ UNCHANGED <<arg, done, gaveUp>>

(* A setsockopt that returns -1 changes nothing and ends the call.         *)
Fail(p) ==
  /\ pc[p] # "idle"
  /\ Return(p, FALSE)
  /\ UNCHANGED sockVars

(* Mutated form: an ULP that is attached already is good enough.           *)
SetUlpTolerant(p) ==
  LET s == arg[p].sock IN
  /\ pc[p] = "TCP_ULP"
  /\ established[s]
  /\ ulp' = [ulp EXCEPT ![s] = TRUE]
  /\ Goto(p, "TLS_TX")
  /\ UNCHANGED <<established, tx, rx>>

SetUlp(p) ==
  LET s == arg[p].sock IN
  /\ pc[p] = "TCP_ULP"
  /\ established[s] /\ ~ulp[s]
  /\ ulp' = [ulp EXCEPT ![s] = TRUE]
  /\ Goto(p, "TLS_TX")
  /\ UNCHANGED <<established, tx, rx>>

(* Mutated form: configure_ktls is content with one direction.             *)
SetTxEnough(p) ==
  LET s == arg[p].sock IN
  /\ pc[p] = "TLS_TX"
  /\ ulp[s] /\ tx[s] = None
  /\ tx' = [tx EXCEPT ![s] = CryptoInfo(arg[p].k)]
  /\ Return(p, TRUE)
  /\ UNCHANGED <<established, ulp, rx>>

SetTx(p) ==
  LET s == arg[p].sock IN
  /\ pc[p] = "TLS_TX"
  /\ ulp[s] /\ tx[s] = None
  /\ tx' = [tx EXCEPT ![s] = CryptoInfo(arg[p].k)]
  /\ IF arg[p].fn = "configure_ktls" THEN Goto(p, "TLS_RX") ELSE Return(p, TRUE)
  /\ UNCHANGED <<established, ulp, rx>>

SetRx(p) ==
  LET s == arg[p].sock IN
  /\ pc[p] = "TLS_RX"
  /\ ulp[s] /\ rx[s] = None
  /\ rx' = [rx EXCEPT ![s] = CryptoInfo(arg[p].k)]
  /\ Return(p, TRUE)
  /\ UNCHANGED <<established, ulp, tx>>

(* The peer closes its side of the connection.                             *)
PeerCloses(s) ==
  /\ established[s]
  /\ established' = [established EXCEPT ![s] = FALSE]
  /\ UNCHANGED <<ulp, tx, rx, pc, arg, done, gaveUp>>
----------------------------------------------------------------------------
Next ==
  \/ \E p \in Threads :
       \/ \E f \in Functions, s \in Socks, k \in Materials : Call(p, f, s, k)
       \/ SetUlp(p) \/ SetTx(p) \/ SetRx(p) \/ Fail(p)
  \/ \E s \in Socks : PeerCloses(s)

Spec == Init /\ [][Next]_vars
----------------------------------------------------------------------------
Infos == [key : {k.key : k \in Materials}, salt : [1 .. SaltSize -> Nat], iv : [1 .. IvSize -> Nat]]

(* Every variable has its type, the crypto_info given to the kernel is      *)
(* filled exactly, and no direction is encrypted without the ULP.           *)
TypeOK ==
  /\ established \in [Socks -> BOOLEAN] /\ ulp \in [Socks -> BOOLEAN]
  /\ tx \in [Socks -> Infos \cup {None}] /\ rx \in [Socks -> Infos \cup {None}]
  /\ \A s \in Socks : tx[s] # None \/ rx[s] # None => ulp[s]
  /\ pc \in [Threads -> {"idle", "TCP_ULP", "TLS_TX", "TLS_RX"}]
  /\ \A p \in Threads :
       arg[p] \in {NoCall} \cup [fn : Functions, sock : Socks, k : Materials]
  /\ done \subseteq [sock : Socks, k : Materials]
  /\ gaveUp \subseteq Socks

(* A socket for which configure_ktls has returned 0 encrypts both           *)
(* directions with the key of that very call, and with its whole nonce if   *)
(* the material has one: what other threads set on the socket between the   *)
(* three setsockopts, before or after, cannot mix two keys.                 *)
Configured ==
  \A d \in done :
    /\ tx[d.sock] # None /\ tx[d.sock] = rx[d.sock]
    /\ tx[d.sock].key = d.k.key
    /\ Len(d.k.iv) >= SaltSize + IvSize =>
         tx[d.sock].salt \o tx[d.sock].iv = SubSeq(d.k.iv, 1, SaltSize + IvSize)

(* configure_ktls has one attempt per socket: once it has failed with the   *)
(* ULP attached it never succeeds there, and it never succeeds twice.  A    *)
(* caller cannot recover a half-configured socket by calling it again.      *)
OneAttempt ==
  /\ \A d \in done : d.sock \notin gaveUp
  /\ \A d, e \in done : d.sock = e.sock => d = e
============================================================================
