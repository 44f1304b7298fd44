-------------------------- MODULE KtlsConfigProofs --------------------------
(***************************************************************************)
(* Proofs about KtlsConfig, for any number of threads and sockets, any key *)
(* material and any sizes of salt and IV.  The argument is that attaching  *)
(* the ULP is a lock that is never released: the call whose TCP_ULP        *)
(* succeeded owns the socket until it returns, and nobody does after it.   *)
(***************************************************************************)
EXTENDS KtlsConfig, TLAPS

Requests == [fn : Functions, sock : Socks, k : Materials]

(* p's call attached the ULP and has options left to set.                  *)
Owner(p) == pc[p] = "TLS_TX" \/ (pc[p] = "TLS_RX" /\ arg[p].fn = "configure_ktls")

(* A thread is in a call exactly while it has a setsockopt to make, and    *)
(* enable_ktls_rx makes one only.                                          *)
InCall ==
  /\ arg \in [Threads -> {NoCall} \cup Requests]
  /\ \A p \in Threads :
       /\ pc[p] # "idle" => arg[p] \in Requests
       /\ pc[p] \in {"TCP_ULP", "TLS_TX"} => arg[p].fn # "enable_ktls_rx"

(* What an owner has set so far; no other call set anything for sending.   *)
Owned ==
  \A p \in Threads : Owner(p) =>
    LET s == arg[p].sock IN
    /\ ulp[s]
    /\ pc[p] = "TLS_TX" => tx[s] = None
    /\ pc[p] = "TLS_RX" => tx[s] = CryptoInfo(arg[p].k)
    /\ \A q \in Threads : Owner(q) /\ arg[q].sock = s => q = p

(* A socket that configure_ktls is through with has no owner any more.     *)
Left(s) == ulp[s] /\ \A p \in Threads : Owner(p) => arg[p].sock # s

Finished ==
  /\ \A d \in done : /\ Left(d.sock) /\ d.sock \notin gaveUp
                     /\ tx[d.sock] = CryptoInfo(d.k) /\ rx[d.sock] = CryptoInfo(d.k)
  /\ \A s \in gaveUp : Left(s)
  /\ \A d, e \in done : d.sock = e.sock => d = e

UlpInv == TypeOK /\ InCall /\ Owned /\ Finished

(* A part of a sequence is a function on as many indices as it is long.    *)
LEMMA Slices ==
  ASSUME NEW q \in Seq(Nat), NEW m \in Nat \ {0}, NEW n \in 0 .. Len(q), m <= n
  PROVE  SubSeq(q, m, n) \in [1 .. n - m + 1 -> Nat]
<1>. DEFINE r == SubSeq(q, m, n)
<1>1. r \in Seq(Nat) /\ Len(r) = n - m + 1
  OBVIOUS
<1>. HIDE DEF r
<1>2. r \in [1 .. n - m + 1 -> Nat]
  BY <1>1
<1>. QED BY <1>2 DEF r

(* The structure handed to the kernel is filled exactly, and holds the     *)
(* whole nonce of material that has one.                                   *)
LEMMA CryptoInfoFilled ==
  ASSUME NEW k \in Materials
  PROVE  /\ CryptoInfo(k) \in Infos
         /\ CryptoInfo(k) # None
         /\ CryptoInfo(k).key = k.key
         /\ Len(k.iv) >= SaltSize + IvSize =>
              CryptoInfo(k).salt \o CryptoInfo(k).iv = SubSeq(k.iv, 1, SaltSize + IvSize)
<1>. USE SizeAssumption
<1>1. k.iv \in Seq(Nat)
  BY MaterialAssumption
<1>2. Zeros(IvSize) \in [1 .. IvSize -> Nat] /\ Zeros(SaltSize) \in Seq(Nat)
      /\ Len(Zeros(SaltSize)) = SaltSize
  BY DEF Zeros
<1>3. CASE Len(k.iv) >= SaltSize + IvSize
  <2>. DEFINE salt == SubSeq(k.iv, 1, SaltSize)
              iv == SubSeq(k.iv, SaltSize + 1, SaltSize + IvSize)
  <2>1. CryptoInfo(k) = [key |-> k.key, salt |-> salt, iv |-> iv]
    BY <1>3 DEF CryptoInfo
  <2>2. salt \in [1 .. SaltSize -> Nat] /\ iv \in [1 .. IvSize -> Nat]
    <3>0. SaltSize \in 0 .. Len(k.iv) /\ 1 \in Nat \ {0} /\ 1 <= SaltSize
      BY <1>1, <1>3
    <3>1. salt \in [1 .. SaltSize - 1 + 1 -> Nat]
      BY <1>1, <3>0, Slices
    <3>2. iv \in [1 .. (SaltSize + IvSize) - (SaltSize + 1) + 1 -> Nat]
      BY <1>1, <1>3, Slices
    <3>3. SaltSize - 1 + 1 = SaltSize /\ (SaltSize + IvSize) - (SaltSize + 1) + 1 = IvSize
      OBVIOUS
    <3>. HIDE DEF salt, iv
    <3>. QED BY <3>1, <3>2, <3>3
  <2>3. salt \o iv = SubSeq(k.iv, 1, SaltSize + IvSize)
    BY <1>1, <1>3
  <2>. HIDE DEF salt, iv
  <2>4. CryptoInfo(k) \in Infos
    BY <2>1, <2>2 DEF Infos
  <2>. QED BY <2>1, <2>3, <2>4 DEF None
<1>4. CASE ~(Len(k.iv) >= SaltSize + IvSize)
  <2>. DEFINE salt == SubSeq(k.iv \o Zeros(SaltSize), 1, SaltSize)
  <2>1. CryptoInfo(k) = [key |-> k.key, salt |-> salt, iv |-> Zeros(IvSize)]
    BY <1>4 DEF CryptoInfo
  <2>2. salt \in [1 .. SaltSize -> Nat]
    <3>. DEFINE padded == k.iv \o Zeros(SaltSize)
    <3>1. padded \in Seq(Nat) /\ Len(padded) >= SaltSize
      BY <1>1, <1>2
    <3>. HIDE DEF padded
    <3>2. SubSeq(padded, 1, SaltSize) \in [1 .. SaltSize - 1 + 1 -> Nat]
      BY <3>1, Slices
    <3>3. SaltSize - 1 + 1 = SaltSize
      OBVIOUS
    <3>. QED BY <3>2, <3>3 DEF padded
  <2>. HIDE DEF salt
  <2>4. CryptoInfo(k) \in Infos
    BY <1>2, <2>1, <2>2 DEF Infos
  <2>. QED BY <1>4, <2>1, <2>4 DEF None
<1>. QED BY <1>3, <1>4

LEMMA InitUlp == Init => UlpInv
<1>. SUFFICES ASSUME Init PROVE UlpInv
  OBVIOUS
<1>. USE DEF Init
<1>1. TypeOK
  BY DEF TypeOK
<1>2. InCall
  BY DEF InCall
<1>3. Owned /\ Finished
  BY DEF Owned, Owner, Finished
<1>. QED BY <1>1, <1>2, <1>3 DEF UlpInv

(* A call begins: its thread owns nothing yet.                             *)
LEMMA CallUlp ==
  ASSUME UlpInv, NEW p \in Threads, NEW f \in Functions, NEW s \in Socks,
         NEW k \in Materials, Call(p, f, s, k)
  PROVE  UlpInv'
<1>. USE DEF UlpInv, Call, sockVars
<1>. DEFINE r == [fn |-> f, sock |-> s, k |-> k]
<1>1. r \in Requests /\ r.fn = f
  BY DEF Requests
<1>. HIDE DEF r
<1>2. arg' = [arg EXCEPT ![p] = r] /\ arg' \in [Threads -> {NoCall} \cup Requests]
  BY <1>1 DEF InCall, r
<1>3. /\ pc' \in [Threads -> {"idle", "TCP_ULP", "TLS_TX", "TLS_RX"}]
      /\ pc'[p] = IF f = "enable_ktls_rx" THEN "TLS_RX" ELSE "TCP_ULP"
      /\ \A q \in Threads \ {p} : pc'[q] = pc[q] /\ arg'[q] = arg[q]
      /\ arg'[p] = r
  BY <1>2 DEF TypeOK, InCall
<1>4. InCall'
  BY <1>1, <1>2, <1>3 DEF InCall
<1>5. TypeOK'
  BY <1>2, <1>3 DEF TypeOK, Requests
<1>6. ~Owner(p) /\ ~Owner(p)' /\ \A q \in Threads \ {p} : Owner(q)' = Owner(q)
  BY <1>1, <1>3 DEF Owner
<1>7. Owned'
  BY <1>3, <1>6 DEF Owned
<1>8. Finished'
  BY <1>3, <1>6 DEF Finished, Left
<1>. QED BY <1>4, <1>5, <1>7, <1>8

(* The types of what Return and Goto leave behind.                         *)
LEMMA StepTypes ==
  ASSUME UlpInv, NEW p \in Threads, pc[p] # "idle",
         \/ \E ok \in BOOLEAN : Return(p, ok)
         \/ Goto(p, "TLS_TX") /\ pc[p] = "TCP_ULP"
         \/ Goto(p, "TLS_RX") /\ pc[p] = "TLS_TX"
  PROVE  /\ InCall'
         /\ pc' \in [Threads -> {"idle", "TCP_ULP", "TLS_TX", "TLS_RX"}]
         /\ \A q \in Threads \ {p} : pc'[q] = pc[q] /\ arg'[q] = arg[q] /\ Owner(q)' = Owner(q)
         /\ arg[p] \in Requests
         /\ done' \subseteq [sock : Socks, k : Materials]
         /\ gaveUp' \subseteq Socks
         /\ \A q \in Threads : arg'[q] \in {NoCall} \cup Requests
<1>. USE DEF UlpInv
<1>1. arg[p] \in Requests /\ arg[p].sock \in Socks /\ arg[p].k \in Materials
  BY DEF InCall, Requests
<1>2. CASE \E ok \in BOOLEAN : Return(p, ok)
  <2>1. /\ pc' = [pc EXCEPT ![p] = "idle"]
        /\ arg' = [arg EXCEPT ![p] = NoCall]
    BY <1>2 DEF Return
  <2>2. /\ pc' \in [Threads -> {"idle", "TCP_ULP", "TLS_TX", "TLS_RX"}]
        /\ arg' \in [Threads -> {NoCall} \cup Requests]
        /\ \A q \in Threads \ {p} : pc'[q] = pc[q] /\ arg'[q] = arg[q]
        /\ pc'[p] = "idle"
    BY <2>1 DEF TypeOK, InCall
  <2>3. done' \subseteq [sock : Socks, k : Materials] /\ gaveUp' \subseteq Socks
    BY <1>1, <1>2 DEF Return, TypeOK
  <2>. QED BY <1>1, <2>2, <2>3 DEF InCall, Owner
<1>3. CASE Goto(p, "TLS_TX") /\ pc[p] = "TCP_ULP"
  BY <1>1, <1>3 DEF Goto, InCall, Owner, TypeOK
<1>4. CASE Goto(p, "TLS_RX") /\ pc[p] = "TLS_TX"
  BY <1>1, <1>4 DEF Goto, InCall, Owner, TypeOK
<1>. QED BY <1>2, <1>3, <1>4

(* A call fails: if it was configure_ktls's own and the ULP is attached,   *)
(* the socket is left without an owner.                                    *)
LEMMA FailUlp ==
  ASSUME UlpInv, NEW p \in Threads, Fail(p)
  PROVE  UlpInv'
<1>. USE DEF UlpInv, Fail, sockVars
<1>1. Return(p, FALSE) /\ pc[p] # "idle" /\ FALSE \in BOOLEAN
  OBVIOUS
<1>2. /\ InCall'
      /\ \A q \in Threads \ {p} : pc'[q] = pc[q] /\ arg'[q] = arg[q] /\ Owner(q)' = Owner(q)
      /\ arg[p] \in Requests
  BY <1>1, StepTypes
<1>3. TypeOK'
  BY <1>1, StepTypes DEF TypeOK, Requests
<1>4. ~Owner(p)' /\ done' = done
  BY <1>1 DEF Return, Owner, TypeOK
<1>5. Owned'
  BY <1>2, <1>4 DEF Owned
<1>6. Finished'
  <2>1. \A s \in Socks : Left(s) => Left(s)'
    BY <1>2, <1>4 DEF Left
  <2>2. CASE gaveUp' = gaveUp
    BY <1>4, <2>1, <2>2 DEF Finished, TypeOK
  <2>3. CASE gaveUp' # gaveUp
    <3>0. PICK s : s = arg[p].sock
      OBVIOUS
    <3>1. gaveUp' = gaveUp \cup {s} /\ arg[p].fn = "configure_ktls" /\ pc[p] # "TCP_ULP"
      BY <1>1, <2>3, <3>0 DEF Return
    <3>2. Owner(p)
      BY <1>1, <3>1 DEF Owner, TypeOK
    <3>3. Left(s)' /\ \A d \in done : d.sock # s
      BY <1>2, <1>4, <3>0, <3>2 DEF Owned, Left, Finished
    <3>. QED BY <1>4, <2>1, <3>1, <3>3 DEF Finished, TypeOK
  <2>. QED BY <2>2, <2>3
<1>. QED BY <1>2, <1>3, <1>5, <1>6

(* The ULP is attached: it was not before, so nobody owned the socket.     *)
LEMMA SetUlpUlp ==
  ASSUME UlpInv, NEW p \in Threads, SetUlp(p)
  PROVE  UlpInv'
<1>. USE DEF UlpInv, SetUlp
<1>. DEFINE s == arg[p].sock
<1>1. Goto(p, "TLS_TX") /\ pc[p] = "TCP_ULP" /\ pc[p] # "idle"
  OBVIOUS
<1>2. /\ InCall'
      /\ \A q \in Threads \ {p} : pc'[q] = pc[q] /\ arg'[q] = arg[q] /\ Owner(q)' = Owner(q)
      /\ arg[p] \in Requests
  BY <1>1, StepTypes
<1>3. s \in Socks /\ ~ulp[s] /\ ulp' = [ulp EXCEPT ![s] = TRUE]
  BY <1>2 DEF Requests
<1>4. TypeOK'
  <2>1. ulp' \in [Socks -> BOOLEAN] /\ \A r \in Socks : ulp[r] => ulp'[r]
    BY <1>3 DEF TypeOK
  <2>. QED BY <1>1, <2>1, StepTypes DEF TypeOK, Requests
<1>5. /\ arg' = arg /\ done' = done /\ gaveUp' = gaveUp /\ tx' = tx /\ rx' = rx
      /\ pc'[p] = "TLS_TX" /\ ulp'[s] /\ tx[s] = None
      /\ \A r \in Socks : ulp[r] => ulp'[r]
  BY <1>1, <1>3 DEF Goto, TypeOK
<1>6. \A q \in Threads : Owner(q) => arg[q].sock # s
  BY <1>3 DEF Owned
<1>7. \A q \in Threads : Owner(q) => arg[q].sock \in Socks
  BY DEF Owner, InCall, Requests
<1>. HIDE DEF s
<1>8. Owned'
  BY <1>2, <1>5, <1>6, <1>7 DEF Owned, s
<1>9. Finished'
  <2>1. \A r \in Socks : Left(r) => Left(r)'
    BY <1>2, <1>3, <1>5 DEF Left, s
  <2>. QED BY <1>5, <2>1 DEF Finished, TypeOK
<1>. QED BY <1>2, <1>4, <1>8, <1>9

(* The key for sending is set by the owner, so it was not set before.      *)
LEMMA SetTxUlp ==
  ASSUME UlpInv, NEW p \in Threads, SetTx(p)
  PROVE  UlpInv'
<1>. USE DEF UlpInv, SetTx
<1>0. PICK s, k : s = arg[p].sock /\ k = arg[p].k
  OBVIOUS
<1>1. /\ pc[p] = "TLS_TX" /\ pc[p] # "idle" /\ Owner(p) /\ TRUE \in BOOLEAN
      /\ Goto(p, "TLS_RX") \/ Return(p, TRUE)
  BY DEF Owner
<1>2. /\ InCall'
      /\ pc' \in [Threads -> {"idle", "TCP_ULP", "TLS_TX", "TLS_RX"}]
      /\ \A q \in Threads \ {p} : pc'[q] = pc[q] /\ arg'[q] = arg[q] /\ Owner(q)' = Owner(q)
      /\ arg[p] \in Requests
      /\ \A q \in Threads : arg'[q] \in {NoCall} \cup Requests
  BY <1>1, StepTypes
<1>3. s \in Socks /\ k \in Materials /\ ulp[s] /\ tx' = [tx EXCEPT ![s] = CryptoInfo(k)]
  BY <1>0, <1>2 DEF Requests
<1>4. done' = done /\ gaveUp' = gaveUp
  BY <1>1 DEF Goto, Return
<1>5. CryptoInfo(k) \in Infos
  BY <1>3, CryptoInfoFilled
<1>6. /\ tx' \in [Socks -> Infos \cup {None}] /\ tx'[s] = CryptoInfo(k)
      /\ \A r \in Socks \ {s} : tx'[r] = tx[r]
  <2>1. tx \in [Socks -> Infos \cup {None}]
    BY DEF TypeOK
  <2>. HIDE DEF UlpInv, SetTx
  <2>. QED BY <1>3, <1>5, <2>1
<1>7. TypeOK'
  BY <1>2, <1>3, <1>4, <1>6 DEF TypeOK, Requests
<1>8. \A q \in Threads \ {p} : Owner(q) => arg[q].sock # s /\ arg[q].sock \in Socks
  BY <1>0, <1>1 DEF Owned, Owner, InCall, Requests
<1>9. Owner(p)' => pc'[p] = "TLS_RX" /\ arg'[p] = arg[p]
  BY <1>1, <1>2 DEF Goto, Return, Owner, TypeOK
<1>10. Owned'
  BY <1>0, <1>1, <1>2, <1>3, <1>6, <1>8, <1>9 DEF Owned
<1>11. Finished'
  <2>1. \A r \in Socks : Left(r) => Left(r)' /\ r # s
    BY <1>0, <1>1, <1>2, <1>9 DEF Left
  <2>. QED BY <1>4, <1>6, <2>1 DEF Finished, TypeOK
<1>. QED BY <1>2, <1>7, <1>10, <1>11

(* The key for receiving is set, by enable_ktls_rx on any socket or by the *)
(* owner, whose configure_ktls then returns 0.                             *)
LEMMA SetRxUlp ==
  ASSUME UlpInv, NEW p \in Threads, SetRx(p)
  PROVE  UlpInv'
<1>. USE DEF UlpInv, SetRx
<1>0. PICK s, k : s = arg[p].sock /\ k = arg[p].k
  OBVIOUS
<1>1. pc[p] = "TLS_RX" /\ pc[p] # "idle" /\ TRUE \in BOOLEAN /\ Return(p, TRUE)
  OBVIOUS
<1>2. /\ InCall'
      /\ pc' \in [Threads -> {"idle", "TCP_ULP", "TLS_TX", "TLS_RX"}]
      /\ \A q \in Threads \ {p} : pc'[q] = pc[q] /\ arg'[q] = arg[q] /\ Owner(q)' = Owner(q)
      /\ arg[p] \in Requests
      /\ done' \subseteq [sock : Socks, k : Materials]
      /\ \A q \in Threads : arg'[q] \in {NoCall} \cup Requests
  BY <1>1, StepTypes
<1>3. /\ s \in Socks /\ k \in Materials /\ ulp[s] /\ rx[s] = None
      /\ rx' = [rx EXCEPT ![s] = CryptoInfo(k)]
  BY <1>0, <1>2 DEF Requests
<1>4. CryptoInfo(k) \in Infos /\ \A m \in Materials : CryptoInfo(m) # None
  BY <1>3, CryptoInfoFilled
<1>5. gaveUp' = gaveUp /\ ~Owner(p)'
  BY <1>1 DEF Return, Owner, TypeOK
<1>6. /\ rx' \in [Socks -> Infos \cup {None}] /\ rx'[s] = CryptoInfo(k)
      /\ \A r \in Socks \ {s} : rx'[r] = rx[r]
  BY <1>3, <1>4 DEF TypeOK
<1>7. TypeOK'
  BY <1>2, <1>3, <1>5, <1>6 DEF TypeOK, Requests
<1>8. Owned'
  BY <1>2, <1>5 DEF Owned
<1>9. Finished'
  <2>1. \A r \in Socks : Left(r) => Left(r)'
    BY <1>2, <1>5 DEF Left
  <2>2. \A d \in done : d.sock \in Socks /\ d.k \in Materials /\ d.sock # s
    BY <1>3, <1>4 DEF Finished, TypeOK
  <2>3. CASE arg[p].fn # "configure_ktls"
    <3>1. done' = done
      BY <1>1, <2>3 DEF Return
    <3>. QED BY <1>5, <1>6, <2>1, <2>2, <3>1 DEF Finished, TypeOK
  <2>4. CASE arg[p].fn = "configure_ktls"
    <3>1. done' = done \cup {[sock |-> s, k |-> k]}
      BY <1>0, <1>1, <2>4 DEF Return
    <3>2. Owner(p)
      BY <1>1, <2>4 DEF Owner
    <3>3. Left(s)' /\ s \notin gaveUp /\ tx[s] = CryptoInfo(k)
      BY <1>0, <1>1, <1>2, <1>5, <3>2 DEF Owned, Left, Finished
    <3>. QED BY <1>5, <1>6, <2>1, <2>2, <3>1, <3>3 DEF Finished, TypeOK
  <2>. QED BY <2>3, <2>4
<1>. QED BY <1>2, <1>7, <1>8, <1>9

(* UlpInv is an invariant.                                                 *)
LEMMA UlpInvariant == Spec => []UlpInv
<1>1. UlpInv /\ [Next]_vars => UlpInv'
  <2>. SUFFICES ASSUME UlpInv, [Next]_vars PROVE UlpInv'
    OBVIOUS
  <2>1. ASSUME NEW s \in Socks, PeerCloses(s) PROVE UlpInv'
    BY <2>1 DEF PeerCloses, UlpInv, TypeOK, InCall, Owned, Owner, Finished, Left
  <2>2. CASE UNCHANGED vars
    BY <2>2 DEF vars, sockVars, UlpInv, TypeOK, InCall, Owned, Owner, Finished, Left
  <2>. QED BY <2>1, <2>2, CallUlp, FailUlp, SetUlpUlp, SetTxUlp, SetRxUlp DEF Next
<1>. QED BY <1>1, InitUlp, PTL DEF Spec

(* Every crypto_info handed to the kernel is filled exactly, whatever the  *)
(* length of the IV, and no direction is encrypted without the ULP.        *)
THEOREM TypeCorrect == Spec => []TypeOK
BY UlpInvariant, PTL DEF UlpInv

(* However many threads call configure_ktls, enable_ktls_tx and            *)
(* enable_ktls_rx on a socket, in whatever order their setsockopts run: a  *)
(* socket for which configure_ktls returned 0 has the key of that call in  *)
(* both directions, and its nonce.                                         *)
THEOREM ConfiguredCorrect == Spec => []Configured
<1>1. UlpInv => Configured
  <2>. SUFFICES ASSUME UlpInv, NEW d \in done
                PROVE  /\ tx[d.sock] # None /\ tx[d.sock] = rx[d.sock]
                       /\ tx[d.sock].key = d.k.key
                       /\ Len(d.k.iv) >= SaltSize + IvSize =>
                            tx[d.sock].salt \o tx[d.sock].iv = SubSeq(d.k.iv, 1, SaltSize + IvSize)
    BY DEF Configured
  <2>1. tx[d.sock] = CryptoInfo(d.k) /\ rx[d.sock] = CryptoInfo(d.k) /\ d.k \in Materials
    BY DEF UlpInv, Finished, TypeOK
  <2>. QED BY <2>1, CryptoInfoFilled
<1>. QED BY <1>1, UlpInvariant, PTL

(* configure_ktls succeeds at most once on a socket, and never after it    *)
(* has failed there with the ULP attached.                                 *)
THEOREM OneAttemptCorrect == Spec => []OneAttempt
<1>1. UlpInv => OneAttempt
  BY DEF UlpInv, Finished, OneAttempt
<1>. QED BY <1>1, UlpInvariant, PTL
============================================================================
