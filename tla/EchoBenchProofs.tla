-------------------------- MODULE EchoBenchProofs --------------------------
(***************************************************************************)
(* Proofs about EchoBench, for every number of clients and connections,    *)
(* every size of the data, of the server's buffer and of the windows.      *)
(***************************************************************************)
EXTENDS EchoBench, TLAPS

USE DEF vars, clientVars, serverVars

Links == [up : 0 .. Window, down : 0 .. Window,
          client : {"open", "fin", "closed"}, server : {"open", "fin", "rst"}]

(* A connection that its client has made.                                  *)
Made(n) == n[2] < k[n[1]] \/ (n[2] = k[n[1]] /\ cpc[n[1]] # "connect")

(* What the server works on or will work on has been made, so the next     *)
(* connection of a client starts with nothing in the server's buffer.      *)
Known ==
  /\ spc \in {"recv", "send"} => Made(cur)
  /\ \A i \in 1 .. Len(backlog) : Made(backlog[i])

(* The bytes of connection n that are not with the client.                 *)
Away(n) == link[n].up + (IF cur = n THEN got ELSE 0) + link[n].down

Active(c) == cpc[c] \in {"send", "recv", "close"}

(* The server does not end a connection whose client still uses it, unless *)
(* it dies; bytes are then lost, but none is ever added.                   *)
Transfer(c) ==
  /\ Active(c) =>
       /\ link[Conn(c)].client = "open"
       /\ Away(Conn(c)) + received[c] <= sent[c]
       /\ link[Conn(c)].server = "open" => Away(Conn(c)) + received[c] = sent[c]
       /\ spc # "killed" => link[Conn(c)].server # "fin"
  /\ cpc[c] \in {"recv", "close", "drain"} => sent[c] = DataSize
  /\ cpc[c] \in {"close", "drain"} /\ spc # "killed" => received[c] = DataSize
  /\ cpc[c] = "connect" => sent[c] = 0 /\ received[c] = 0

Using == {"send", "recv", "close", "drain"}

(* A client that has a connection has lost no byte of its earlier ones,    *)
(* even if the server is dead: a dead server is not connected to again.    *)
Counted(c) ==
  /\ metrics[c].total = IF cpc[c] = "done" THEN TotalConns ELSE k[c] - 1
  /\ metrics[c].total = metrics[c].successful + metrics[c].failed + metrics[c].timeout
  /\ metrics[c].bytes_sent = metrics[c].successful * DataSize
  /\ metrics[c].bytes_received <= metrics[c].bytes_sent
  /\ metrics[c].bytes_sent <= metrics[c].bytes_received + DataSize
  /\ spc # "killed" \/ cpc[c] \in Using => metrics[c].bytes_received = metrics[c].bytes_sent

BenchInv == TypeOK /\ Known /\ \A c \in Clients : Transfer(c) /\ Counted(c)
----------------------------------------------------------------------------
LEMMA SomeFacts ==
  ASSUME NEW a \in Int, NEW b \in Int, NEW n \in Some(a, b)
  PROVE  n \in Int /\ 1 <= n /\ n <= a /\ n <= b
<1>1. \E x \in {a, b} : \A y \in {a, b} : x <= y
  <2>1. CASE a <= b
    BY <2>1
  <2>2. CASE b <= a
    BY <2>2
  <2>. QED BY <2>1, <2>2
<1>2. PICK x \in Int : x = Min({a, b}) /\ x <= a /\ x <= b
  BY <1>1 DEF Min
<1>. QED BY <1>2 DEF Some

LEMMA LinkTypes ==
  /\ Dead \in Links /\ Fresh \in Links
  /\ \A l \in Links : ClientCloses(l) \in Links
  /\ \A l \in Links, how \in {"fin", "rst"} : ServerCloses(l, how) \in Links
<1>1. Dead \in Links /\ Fresh \in Links
  BY BenchAssumption DEF Dead, Fresh, Links
<1>2. ASSUME NEW l \in Links PROVE ClientCloses(l) \in Links
  <2>1. 0 \in 0 .. Window
    BY BenchAssumption
  <2>2. [l EXCEPT !.client = "closed", !.down = 0] \in Links
    BY <2>1 DEF Links
  <2>. QED BY <1>1, <2>2 DEF ClientCloses
<1>3. ASSUME NEW l \in Links, NEW how \in {"fin", "rst"} PROVE ServerCloses(l, how) \in Links
  <2>1. 0 \in 0 .. Window
    BY BenchAssumption
  <2>2. [l EXCEPT !.server = how, !.up = 0] \in Links
    BY <2>1 DEF Links
  <2>. QED BY <1>1, <2>2 DEF ServerCloses
<1>. QED BY <1>1, <1>2, <1>3

(* Types of a link's fields.                                               *)
LEMMA LinkFields ==
  ASSUME NEW l \in Links
  PROVE  /\ l.up \in Nat /\ l.up <= Window /\ l.down \in Nat /\ l.down <= Window
         /\ l.client \in {"open", "fin", "closed"} /\ l.server \in {"open", "fin", "rst"}
BY BenchAssumption DEF Links

LEMMA ConnFacts ==
  ASSUME TypeOK
  PROVE  /\ \A n \in Conns : n # <<>> /\ n = <<n[1], n[2]>> /\ n[1] \in Clients /\ n[2] \in 1 .. TotalConns
         /\ \A c \in Clients : Conn(c) \in Conns /\ Conn(c)[1] = c /\ Conn(c)[2] = k[c]
         /\ link \in [Conns -> Links]
BY DEF TypeOK, Conns, Conn, Links
----------------------------------------------------------------------------
(* Steps of the server.                                                    *)

(* What the server may do to a connection that its client uses.            *)
Kept(n) ==
  /\ link'[n].client = "open"
  /\ Away(n)' <= Away(n)
  /\ link'[n].server = "open" => link[n].server = "open" /\ Away(n)' = Away(n)
  /\ spc' # "killed" /\ link'[n].server = "fin" => link[n].server = "fin"

LEMMA AwayNat ==
  ASSUME TypeOK, NEW n \in Conns
  PROVE  Away(n) \in Nat
<1>1. link[n] \in Links /\ got \in Nat
  BY ConnFacts, BenchAssumption DEF TypeOK
<1>. QED BY <1>1, LinkFields DEF Away

LEMMA ServerKeeps ==
  ASSUME BenchInv, TypeOK', Known', UNCHANGED clientVars,
         spc = "killed" => spc' = "killed",
         \A n \in Conns : link[n].client = "open" => Kept(n)
  PROVE  BenchInv'
<1>1. ASSUME NEW c \in Clients PROVE Transfer(c)' /\ Counted(c)'
  <2>1. PICK n \in Conns : n = Conn(c) /\ n = <<c, k[c]>>
    BY ConnFacts DEF BenchInv, Conn
  <2>2. n = <<c, k'[c]>>
    BY <2>1
  <2>3. Transfer(c) /\ Counted(c)
    BY DEF BenchInv
  <2>4. Counted(c)'
    BY <2>3 DEF Counted
  <2>5. ASSUME Active(c)
        PROVE  /\ link'[n].client = "open"
               /\ Away(n)' + received[c] <= sent[c]
               /\ link'[n].server = "open" => Away(n)' + received[c] = sent[c]
               /\ spc' # "killed" => link'[n].server # "fin"
    <3>1. /\ link[n].client = "open" /\ Away(n) + received[c] <= sent[c]
          /\ link[n].server = "open" => Away(n) + received[c] = sent[c]
          /\ spc # "killed" => link[n].server # "fin"
      BY <2>1, <2>3, <2>5 DEF Transfer
    <3>2. Kept(n)
      BY <3>1
    <3>3. Away(n) \in Nat /\ Away(n)' \in Nat /\ received[c] \in Nat /\ sent[c] \in Nat
      <4>1. Away(n) \in Nat
        BY AwayNat DEF BenchInv
      <4>2. Away(n)' \in Nat
        <5>1. link'[n] \in Links /\ got' \in Nat
          BY BenchAssumption DEF TypeOK, Links
        <5>. QED BY <5>1, LinkFields DEF Away
      <4>. QED BY <4>1, <4>2, BenchAssumption DEF BenchInv, TypeOK
    <3>. QED BY <3>1, <3>2, <3>3 DEF Kept
  <2>6. Transfer(c)'
    <3>1. Active(c)' <=> Active(c)
      BY DEF Active
    <3>2. Conn(c)' = n
      BY <2>2 DEF Conn
    <3>3. Away(Conn(c))' = Away(n)'
      BY <3>2 DEF Away
    <3>. QED BY <2>3, <2>5, <3>1, <3>2, <3>3 DEF Transfer
  <2>. QED BY <2>4, <2>6
<1>. QED BY <1>1 DEF BenchInv

LEMMA AcceptStep ==
  ASSUME BenchInv, Accept
  PROVE  BenchInv'
<1>0. /\ TypeOK /\ spc = "accept" /\ backlog # <<>> /\ cur' = Head(backlog)
      /\ backlog' = Tail(backlog) /\ spc' = "recv"
      /\ UNCHANGED <<clientVars, link, got, keep_running>>
  BY DEF Accept, BenchInv
<1>1. got = 0 /\ backlog \in Seq(Conns) /\ cur = <<>>
  BY <1>0, BenchAssumption DEF TypeOK
<1>2. /\ Head(backlog) \in Conns /\ Tail(backlog) \in Seq(Conns)
      /\ Head(backlog) = backlog[1] /\ Len(backlog) > 0 /\ Len(backlog) \in Nat
      /\ Len(Tail(backlog)) = Len(backlog) - 1
      /\ \A i \in 1 .. Len(backlog) - 1 : Tail(backlog)[i] = backlog[i + 1]
  BY <1>0, <1>1
<1>3. TypeOK'
  BY <1>0, <1>1, <1>2 DEF TypeOK, Gone
<1>4. Known'
  <2>1. \A i \in 1 .. Len(backlog) : Made(backlog[i])
    BY DEF BenchInv, Known
  <2>2. Made(cur)'
    BY <1>0, <1>2, <2>1 DEF Made
  <2>3. \A i \in 1 .. Len(backlog') : Made(backlog[i])'
    BY <1>0, <1>2, <2>1 DEF Made
  <2>. QED BY <2>2, <2>3 DEF Known
<1>5. ASSUME NEW n \in Conns, link[n].client = "open" PROVE Kept(n)
  <2>1. Away(n)' = Away(n) /\ Away(n) \in Nat
    BY <1>0, <1>1, AwayNat DEF Away
  <2>. QED BY <1>0, <1>5, <2>1 DEF Kept
<1>. QED BY <1>0, <1>3, <1>4, <1>5, ServerKeeps

(* The server goes away with the connections l.                            *)
LEMMA LeaveStep ==
  ASSUME BenchInv, NEW l \in [Conns -> Links], NEW how \in Gone, Leave(l, how),
         UNCHANGED <<clientVars, keep_running>>, spc \notin Gone,
         \A n \in Conns : link[n].client = "open" =>
           /\ l[n].client = "open"
           /\ l[n].up + l[n].down <= Away(n)
           /\ l[n].server = "open" => link[n].server = "open" /\ l[n].up + l[n].down = Away(n)
           /\ how # "killed" /\ l[n].server = "fin" => link[n].server = "fin"
  PROVE  BenchInv'
<1>0. /\ TypeOK /\ spc' = how /\ backlog' = <<>> /\ cur' = <<>> /\ got' = 0
      /\ link' = [n \in Conns |-> IF n \in Range(backlog) THEN ServerCloses(l[n], "rst") ELSE l[n]]
  BY DEF Leave, BenchInv
<1>1. link' \in [Conns -> Links]
  BY <1>0, LinkTypes
<1>2. TypeOK'
  <2>1. <<>> \in Seq(Conns)
    OBVIOUS
  <2>. QED BY <1>0, <1>1, <2>1, BenchAssumption DEF TypeOK, Links, Gone
<1>3. Known'
  BY <1>0 DEF Known, Gone
<1>4. ASSUME NEW n \in Conns, link[n].client = "open" PROVE Kept(n)
  <2>1. /\ l[n] \in Links /\ l[n].client = "open"
        /\ l[n].up + l[n].down <= Away(n)
        /\ l[n].server = "open" => link[n].server = "open" /\ l[n].up + l[n].down = Away(n)
        /\ how # "killed" /\ l[n].server = "fin" => link[n].server = "fin"
    BY <1>4
  <2>2. PICK m \in Links : m = l[n]
    BY <2>1
  <2>3. Away(n)' = link'[n].up + link'[n].down
    <3>1. link'[n] \in Links /\ n # <<>>
      BY <1>0, <1>1, ConnFacts
    <3>2. link'[n].up \in Nat /\ link'[n].down \in Nat
      BY <3>1, LinkFields
    <3>. QED BY <1>0, <3>1, <3>2 DEF Away
  <2>4. CASE n \in Range(backlog)
    <3>1. link'[n] = ServerCloses(m, "rst")
      BY <1>0, <2>2, <2>4
    <3>2. link'[n] = [m EXCEPT !.server = "rst", !.up = 0]
      BY <2>1, <2>2, <3>1 DEF ServerCloses
    <3>3. link'[n].client = m.client /\ link'[n].server = "rst" /\ link'[n].up = 0
          /\ link'[n].down = m.down
      BY <3>2 DEF Links
    <3>4. 0 + m.down <= m.up + m.down
      BY LinkFields
    <3>. QED BY <2>1, <2>2, <2>3, <3>3, <3>4, AwayNat, LinkFields, <1>0 DEF Kept
  <2>5. CASE n \notin Range(backlog)
    BY <1>0, <2>1, <2>3, <2>5 DEF Kept
  <2>. QED BY <2>4, <2>5
<1>. QED BY <1>0, <1>2, <1>3, <1>4, ServerKeeps DEF Gone

(* The server returns to its loop from a connection that its client has    *)
(* ended.                                                                  *)
LEMMA NextClientStep ==
  ASSUME BenchInv, spc \in {"recv", "send"}, link[cur].client # "open", NextClient
  PROVE  BenchInv'
<1>0. TypeOK /\ cur \in Conns /\ link \in [Conns -> Links]
  BY ConnFacts DEF BenchInv, TypeOK
<1>1. PICK l : l = [link EXCEPT ![cur] = ServerCloses(@, "fin")]
  OBVIOUS
<1>2. l \in [Conns -> Links]
  BY <1>0, <1>1, LinkTypes
<1>3. ASSUME NEW n \in Conns, link[n].client = "open"
      PROVE  n # cur /\ l[n] = link[n] /\ Away(n) = l[n].up + l[n].down /\ Away(n) \in Nat
  <2>1. n # cur /\ l[n] = link[n]
    BY <1>0, <1>1, <1>3
  <2>2. link[n].up \in Nat /\ link[n].down \in Nat
    BY <1>0, LinkFields
  <2>. QED BY <2>1, <2>2 DEF Away
<1>4. CASE keep_running
  <2>1. /\ spc' = "accept" /\ link' = l /\ cur' = <<>> /\ got' = 0 /\ UNCHANGED backlog
        /\ UNCHANGED <<clientVars, keep_running>>
    BY <1>1, <1>4 DEF NextClient
  <2>2. TypeOK'
    BY <1>0, <1>2, <2>1, BenchAssumption DEF TypeOK, Links, Gone
  <2>3. Known'
    BY <2>1 DEF BenchInv, Known, Made
  <2>4. ASSUME NEW n \in Conns, link[n].client = "open" PROVE Kept(n)
    <3>1. n # <<>> /\ link'[n] = link[n] /\ link[n] \in Links
      BY <1>0, <1>3, <2>1, <2>4, ConnFacts
    <3>2. Away(n)' = Away(n) /\ Away(n) \in Nat
      BY <1>3, <2>1, <2>4, <3>1, LinkFields DEF Away
    <3>. QED BY <2>4, <3>1, <3>2 DEF Kept
  <2>. QED BY <2>1, <2>2, <2>3, <2>4, ServerKeeps
<1>5. CASE ~keep_running
  <2>1. Leave(l, "stopped") /\ UNCHANGED <<clientVars, keep_running>>
    BY <1>1, <1>5 DEF NextClient
  <2>. QED BY <1>2, <1>3, <2>1, LeaveStep DEF Gone
<1>. QED BY <1>4, <1>5

LEMMA EchoRecvStep ==
  ASSUME BenchInv, EchoRecv
  PROVE  BenchInv'
<1>0. /\ TypeOK /\ cur \in Conns /\ link \in [Conns -> Links] /\ spc = "recv" /\ got = 0
      /\ link[cur] \in Links
  BY ConnFacts, BenchAssumption DEF BenchInv, TypeOK, EchoRecv
<1>1. ASSUME NEW b \in Some(BufferSize, link[cur].up),
             link' = [link EXCEPT ![cur].up = @ - b], got' = ToEcho(b), spc' = "send",
             UNCHANGED <<clientVars, backlog, cur, keep_running>>
      PROVE  BenchInv'
  <2>1. b \in Int /\ 1 <= b /\ b <= BufferSize /\ b <= link[cur].up /\ got' = b
    BY <1>0, <1>1, SomeFacts, LinkFields, BenchAssumption DEF ToEcho
  <2>2. link[cur].up - b \in 0 .. Window
    BY <1>0, <2>1, LinkFields, BenchAssumption
  <2>3. [link[cur] EXCEPT !.up = @ - b] \in Links
    BY <1>0, <2>2 DEF Links
  <2>4. link' \in [Conns -> Links]
    BY <1>0, <1>1, <2>3
  <2>5. TypeOK'
    BY <1>0, <1>1, <2>1, <2>4, BenchAssumption DEF TypeOK, Links, Gone
  <2>6. Known'
    BY <1>0, <1>1 DEF BenchInv, Known, Made
  <2>7. ASSUME NEW n \in Conns, link[n].client = "open" PROVE Kept(n)
    <3>1. CASE n = cur
      <4>1. /\ link'[n].up = link[n].up - b /\ link'[n].down = link[n].down
            /\ link'[n].client = link[n].client /\ link'[n].server = link[n].server
        BY <1>0, <1>1, <3>1 DEF Links
      <4>2. link[n].up \in Nat /\ link[n].down \in Nat
        BY <1>0, <3>1, LinkFields
      <4>3. Away(n)' = Away(n) /\ Away(n) \in Nat
        BY <1>0, <1>1, <2>1, <3>1, <4>1, <4>2 DEF Away
      <4>. QED BY <2>7, <4>1, <4>3 DEF Kept
    <3>2. CASE n # cur
      <4>1. link'[n] = link[n]
        BY <1>0, <1>1, <3>2
      <4>2. Away(n)' = Away(n) /\ Away(n) \in Nat
        BY <1>0, <1>1, <3>2, <4>1, AwayNat DEF Away
      <4>. QED BY <2>7, <4>1, <4>2 DEF Kept
    <3>. QED BY <3>1, <3>2
  <2>. QED BY <1>0, <1>1, <2>5, <2>6, <2>7, ServerKeeps
<1>2. CASE EchoEnds /\ NextClient
  <2>1. link[cur].client # "open"
    BY <1>2 DEF EchoEnds
  <2>. QED BY <1>0, <1>2, <2>1, NextClientStep
<1>. QED BY <1>0, <1>1, <1>2 DEF EchoRecv

LEMMA EchoSendStep ==
  ASSUME BenchInv, EchoSend
  PROVE  BenchInv'
<1>0. /\ TypeOK /\ cur \in Conns /\ link \in [Conns -> Links] /\ spc = "send"
      /\ got \in Nat /\ got > 0 /\ got <= BufferSize /\ link[cur] \in Links
  <2>1. TypeOK /\ spc = "send"
    BY DEF BenchInv, EchoSend
  <2>2. cur \in Conns /\ link \in [Conns -> Links]
    BY <2>1, ConnFacts DEF TypeOK
  <2>3. got \in Nat /\ got > 0 /\ got <= BufferSize
    BY <2>1, BenchAssumption DEF TypeOK
  <2>. QED BY <2>1, <2>2, <2>3
<1>1. ASSUME NEW b \in Int, 1 <= b, b <= got, Echoed(b), link' \in [Conns -> Links],
             \A n \in Conns \ {cur} : link'[n] = link[n],
             link[cur].client = "open" => Kept(cur)
      PROVE  BenchInv'
  <2>1. /\ got' = got - b /\ spc' = (IF got = b THEN "recv" ELSE "send")
        /\ UNCHANGED <<clientVars, backlog, cur, keep_running>>
    BY <1>1 DEF Echoed
  <2>2. TypeOK'
    BY <1>0, <1>1, <2>1, BenchAssumption DEF TypeOK, Links, Gone
  <2>3. Known'
    BY <1>0, <2>1 DEF BenchInv, Known, Made
  <2>4. ASSUME NEW n \in Conns, link[n].client = "open", n # cur PROVE Kept(n)
    <3>1. link'[n] = link[n]
      BY <1>1, <2>4
    <3>2. Away(n)' = Away(n) /\ Away(n) \in Nat
      BY <1>0, <2>1, <2>4, <3>1, AwayNat DEF Away
    <3>. QED BY <2>4, <3>1, <3>2 DEF Kept
  <2>5. ASSUME NEW n \in Conns, link[n].client = "open" PROVE Kept(n)
    <3>1. CASE n = cur
      BY <1>1, <2>1, <2>5, <3>1 DEF Kept, Away
    <3>. QED BY <2>4, <2>5, <3>1
  <2>. QED BY <1>0, <2>1, <2>2, <2>3, <2>5, ServerKeeps
<1>2. ASSUME NEW b \in Some(got, Window - link[cur].down),
             link' = [link EXCEPT ![cur].down = @ + b], Echoed(b)
      PROVE  BenchInv'
  <2>1. b \in Int /\ 1 <= b /\ b <= got /\ b <= Window - link[cur].down
    BY <1>0, SomeFacts, LinkFields, BenchAssumption
  <2>2. link[cur].down + b \in 0 .. Window
    BY <1>0, <2>1, LinkFields, BenchAssumption
  <2>3. [link[cur] EXCEPT !.down = @ + b] \in Links
    BY <1>0, <2>2 DEF Links
  <2>4. link' \in [Conns -> Links] /\ \A n \in Conns \ {cur} : link'[n] = link[n]
    BY <1>0, <1>2, <2>3
  <2>5. /\ link'[cur].down = link[cur].down + b /\ link'[cur].up = link[cur].up
        /\ link'[cur].client = link[cur].client /\ link'[cur].server = link[cur].server
    BY <1>0, <1>2 DEF Links
  <2>6. PICK n \in Conns : n = cur /\ n = cur'
    BY <1>0, <1>2 DEF Echoed
  <2>7. Away(n)' = Away(n) /\ Away(n) \in Nat
    <3>1. got' = got - b
      BY <1>2 DEF Echoed
    <3>2. link[n].up \in Nat /\ link[n].down \in Nat
      BY <1>0, <2>6, LinkFields
    <3>. QED BY <1>0, <2>1, <2>5, <2>6, <3>1, <3>2 DEF Away
  <2>8. link[n].client = "open" => Kept(n)
    BY <2>5, <2>6, <2>7 DEF Kept
  <2>9. link[cur].client = "open" => Kept(cur)
    BY <2>6, <2>8 DEF Kept, Away
  <2>. QED BY <1>1, <1>2, <2>1, <2>4, <2>9
<1>3. ASSUME link[cur].client = "closed", NEW b \in 1 .. got, Echoed(b), UNCHANGED link
      PROVE  BenchInv'
  BY <1>0, <1>1, <1>3
<1>4. ASSUME link[cur].client = "closed", NextClient PROVE BenchInv'
  BY <1>0, <1>4, NextClientStep
<1>5. ASSUME link[cur].client = "closed", Leave([link EXCEPT ![cur] = Dead], "killed"),
             UNCHANGED <<clientVars, keep_running>>
      PROVE  BenchInv'
  <2>1. PICK l : l = [link EXCEPT ![cur] = Dead]
    OBVIOUS
  <2>2. l \in [Conns -> Links]
    BY <1>0, <2>1, LinkTypes
  <2>3. ASSUME NEW n \in Conns, link[n].client = "open"
        PROVE  l[n] = link[n] /\ Away(n) = l[n].up + l[n].down /\ Away(n) \in Nat
    <3>1. n # cur /\ l[n] = link[n]
      BY <1>0, <1>5, <2>1, <2>3
    <3>2. link[n].up \in Nat /\ link[n].down \in Nat
      BY <1>0, LinkFields
    <3>. QED BY <3>1, <3>2 DEF Away
  <2>4. Leave(l, "killed") /\ spc \notin Gone /\ "killed" \in Gone
    BY <1>0, <1>5, <2>1 DEF Gone
  <2>5. ASSUME NEW n \in Conns, link[n].client = "open"
        PROVE  /\ l[n].client = "open"
               /\ l[n].up + l[n].down <= Away(n)
               /\ l[n].server = "open" => link[n].server = "open" /\ l[n].up + l[n].down = Away(n)
    BY <2>3, <2>5
  <2>. QED BY <1>5, <2>2, <2>4, <2>5, LeaveStep
<1>. QED BY <1>0, <1>2, <1>3, <1>4, <1>5 DEF EchoSend

LEMMA ServerEnds ==
  ASSUME BenchInv, AcceptFails \/ ServerDies
  PROVE  BenchInv'
<1>0. TypeOK /\ link \in [Conns -> Links] /\ spc \notin Gone /\ UNCHANGED <<clientVars, keep_running>>
  BY ConnFacts DEF BenchInv, AcceptFails, ServerDies, Gone
<1>1. CASE cur = <<>> /\ \E how \in Gone : Leave(link, how)
  <2>1. ASSUME NEW n \in Conns
        PROVE  Away(n) = link[n].up + link[n].down /\ Away(n) \in Nat
    <3>1. link[n].up \in Nat /\ link[n].down \in Nat /\ n # <<>>
      BY <1>0, LinkFields, ConnFacts
    <3>. QED BY <1>1, <3>1 DEF Away
  <2>. QED BY <1>0, <1>1, <2>1, LeaveStep
<1>2. ASSUME NEW how \in {"fin", "rst"}, cur # <<>>,
             Leave([link EXCEPT ![cur] = ServerCloses(@, how)], "killed")
      PROVE  BenchInv'
  <2>1. cur \in Conns
    BY <1>0, <1>2 DEF TypeOK
  <2>2. PICK l : l = [link EXCEPT ![cur] = ServerCloses(@, how)]
    OBVIOUS
  <2>3. l \in [Conns -> Links]
    BY <1>0, <2>1, <2>2, LinkTypes
  <2>4. ASSUME NEW n \in Conns, link[n].client = "open"
        PROVE  /\ l[n].client = "open"
               /\ l[n].up + l[n].down <= Away(n)
               /\ l[n].server = "open" => link[n].server = "open" /\ l[n].up + l[n].down = Away(n)
    <3>1. PICK m \in Links : m = link[n]
      BY <1>0
    <3>2. m.up \in Nat /\ m.down \in Nat /\ got \in Nat
      BY <1>0, LinkFields, BenchAssumption DEF TypeOK
    <3>3. CASE n = cur
      <4>1. l[n] = [m EXCEPT !.server = how, !.up = 0]
        BY <1>0, <2>2, <2>4, <3>1, <3>3 DEF ServerCloses
      <4>2. l[n].client = m.client /\ l[n].server = how /\ l[n].up = 0 /\ l[n].down = m.down
        BY <4>1 DEF Links
      <4>. QED BY <2>4, <3>1, <3>2, <3>3, <4>2 DEF Away
    <3>4. CASE n # cur
      <4>1. l[n] = m
        BY <1>0, <2>2, <3>1, <3>4
      <4>. QED BY <2>4, <3>1, <3>2, <3>4, <4>1 DEF Away
    <3>. QED BY <3>3, <3>4
  <2>. QED BY <1>0, <1>2, <2>2, <2>3, <2>4, LeaveStep DEF Gone
<1>3. CASE AcceptFails
  BY <1>0, <1>1, <1>3 DEF AcceptFails, TypeOK, Gone
<1>4. CASE ServerDies
  BY <1>0, <1>1, <1>2, <1>4 DEF ServerDies, Gone
<1>. QED BY <1>3, <1>4

LEMMA SignalStep ==
  ASSUME BenchInv, sigint_handler
  PROVE  BenchInv'
<1>1. UNCHANGED <<clientVars, link, backlog, spc, cur, got>> /\ keep_running' \in BOOLEAN
  BY DEF sigint_handler
<1>2. TypeOK' /\ Known'
  BY <1>1 DEF BenchInv, TypeOK, Known, Made
<1>3. ASSUME NEW n \in Conns, link[n].client = "open" PROVE Kept(n)
  <2>1. Away(n)' = Away(n) /\ Away(n) \in Nat
    BY <1>1, AwayNat DEF Away, BenchInv
  <2>. QED BY <1>1, <1>3, <2>1 DEF Kept
<1>. QED BY <1>1, <1>2, <1>3, ServerKeeps
----------------------------------------------------------------------------
(* Steps of a client.                                                      *)

Same(d) ==
  /\ cpc'[d] = cpc[d] /\ k'[d] = k[d] /\ sent'[d] = sent[d]
  /\ received'[d] = received[d] /\ metrics'[d] = metrics[d]

LEMMA ClientKeeps ==
  ASSUME BenchInv, TypeOK', Known', NEW c \in Clients, UNCHANGED <<spc, cur, got>>,
         \A d \in Clients \ {c} : Same(d),
         \A n \in Conns : n # <<c, k[c]>> => link'[n] = link[n],
         Transfer(c)', Counted(c)'
  PROVE  BenchInv'
<1>1. ASSUME NEW d \in Clients \ {c} PROVE Transfer(d)' /\ Counted(d)'
  <2>1. PICK n \in Conns : n = Conn(d) /\ n = <<d, k[d]>>
    BY ConnFacts DEF BenchInv, Conn
  <2>2. n = Conn(d)' /\ link'[n] = link[n]
    BY <2>1 DEF Conn, Same
  <2>3. Transfer(d) /\ Counted(d) /\ Same(d)
    BY DEF BenchInv
  <2>4. Away(Conn(d))' = Away(Conn(d))
    BY <2>1, <2>2 DEF Away
  <2>5. Transfer(d)'
    BY <2>1, <2>2, <2>3, <2>4 DEF Transfer, Active, Same
  <2>. QED BY <2>3, <2>5 DEF Counted, Same
<1>. QED BY <1>1 DEF BenchInv

(* A connection that was made stays made.                                  *)
LEMMA MadeStays ==
  ASSUME TypeOK, TypeOK', NEW n \in Conns, Made(n),
         \A d \in Clients : \/ k[d] < k'[d]
                            \/ k'[d] = k[d] /\ (cpc[d] # "connect" => cpc'[d] # "connect")
  PROVE  Made(n)'
<1>1. n[1] \in Clients /\ n[2] \in Nat
  BY ConnFacts, BenchAssumption
<1>2. PICK d \in Clients : d = n[1]
  BY <1>1
<1>3. k[d] \in Nat /\ k'[d] \in Nat
  <2>1. k \in [Clients -> 1 .. TotalConns] /\ k' \in [Clients -> 1 .. TotalConns]
    BY DEF TypeOK
  <2>. QED BY <2>1, BenchAssumption
<1>4. n[2] < k[d] \/ (n[2] = k[d] /\ cpc[d] # "connect")
  BY <1>2 DEF Made
<1>5. n[2] < k'[d] \/ (n[2] = k'[d] /\ cpc'[d] # "connect")
  BY <1>1, <1>3, <1>4
<1>. QED BY <1>2, <1>5 DEF Made

LEMMA KnownStays ==
  ASSUME BenchInv, TypeOK', UNCHANGED <<spc, cur, backlog>>,
         \A d \in Clients : \/ k[d] < k'[d]
                            \/ k'[d] = k[d] /\ (cpc[d] # "connect" => cpc'[d] # "connect")
  PROVE  Known'
<1>0. TypeOK /\ Known /\ backlog \in Seq(Conns)
  BY DEF BenchInv, TypeOK
<1>1. spc' \in {"recv", "send"} => Made(cur)'
  <2>. SUFFICES ASSUME spc \in {"recv", "send"} PROVE Made(cur)'
    OBVIOUS
  <2>1. PICK n \in Conns : n = cur /\ n = cur'
    BY <1>0 DEF TypeOK
  <2>2. Made(n)'
    BY <1>0, <2>1, MadeStays DEF Known
  <2>. QED BY <2>1, <2>2 DEF Made
<1>2. ASSUME NEW i \in 1 .. Len(backlog) PROVE Made(backlog[i])'
  <2>1. PICK n \in Conns : n = backlog[i] /\ n = backlog'[i]
    BY <1>0
  <2>2. Made(n)'
    BY <1>0, <2>1, MadeStays DEF Known
  <2>. QED BY <2>1, <2>2 DEF Made
<1>. QED BY <1>1, <1>2 DEF Known

(* u is m with one more connection in it.                                  *)
Counter == {"total", "successful", "failed", "timeout", "bytes_sent", "bytes_received"}

Updated(u, m, state, s, r) ==
  /\ u \in [DOMAIN NoMetrics -> Nat]
  /\ m.total \in Nat /\ m.successful \in Nat /\ m.failed \in Nat /\ m.timeout \in Nat
  /\ m.bytes_sent \in Nat /\ m.bytes_received \in Nat
  /\ u.total = m.total + 1 /\ u.timeout = m.timeout
  /\ state = "CLOSED" =>
       /\ u.successful = m.successful + 1 /\ u.failed = m.failed
       /\ u.bytes_sent = m.bytes_sent + s /\ u.bytes_received = m.bytes_received + r
  /\ state = "FAILED" =>
       /\ u.successful = m.successful /\ u.failed = m.failed + 1
       /\ u.bytes_sent = m.bytes_sent /\ u.bytes_received = m.bytes_received

LEMMA UpdateFacts ==
  ASSUME NEW m \in [DOMAIN NoMetrics -> Nat], NEW s \in Nat, NEW r \in Nat,
         NEW state \in {"CLOSED", "FAILED"}
  PROVE  Updated(update_metrics(m, state, s, r), m, state, s, r)
<1>0. PICK u : u = update_metrics(m, state, s, r)
  OBVIOUS
<1>1. DOMAIN NoMetrics = Counter
  BY DEF NoMetrics, Counter
<1>2. m \in [Counter -> Nat]
  BY <1>1
<1>3. /\ m.total \in Nat /\ m.successful \in Nat /\ m.failed \in Nat /\ m.timeout \in Nat
      /\ m.bytes_sent \in Nat /\ m.bytes_received \in Nat
  BY <1>2 DEF Counter
<1>4. /\ u.total = m.total + 1 /\ u.timeout = m.timeout
      /\ state = "CLOSED" =>
           /\ u.successful = m.successful + 1 /\ u.failed = m.failed
           /\ u.bytes_sent = m.bytes_sent + s /\ u.bytes_received = m.bytes_received + r
      /\ state = "FAILED" =>
           /\ u.successful = m.successful /\ u.failed = m.failed + 1
           /\ u.bytes_sent = m.bytes_sent /\ u.bytes_received = m.bytes_received
  <2>1. CASE state = "CLOSED"
    <3>1. u = [m EXCEPT !.total = @ + 1, !.successful = @ + 1, !.bytes_sent = @ + s,
                        !.bytes_received = @ + r, !.failed = @, !.timeout = @]
      BY <1>0, <2>1 DEF update_metrics
    <3>. QED BY <1>2, <2>1, <3>1 DEF Counter
  <2>2. CASE state = "FAILED"
    <3>1. u = [m EXCEPT !.total = @ + 1, !.successful = @, !.bytes_sent = @,
                        !.bytes_received = @, !.failed = @ + 1, !.timeout = @]
      BY <1>0, <2>2 DEF update_metrics
    <3>. QED BY <1>2, <2>2, <3>1 DEF Counter
  <2>. QED BY <2>1, <2>2
<1>5. u = [x \in Counter |-> u[x]]
  BY <1>0, <1>2 DEF update_metrics
<1>6. \A x \in Counter : u[x] \in Nat
  BY <1>3, <1>4 DEF Counter
<1>7. u \in [DOMAIN NoMetrics -> Nat]
  <2>1. u \in [Counter -> Nat]
    BY <1>5, <1>6
  <2>. QED BY <1>1, <2>1
<1>. QED BY <1>0, <1>3, <1>4, <1>7 DEF Updated

LEMMA OneMore ==
  ASSUME NEW n \in Nat, NEW x \in Nat
  PROVE  (n + 1) * x = n * x + x /\ n * x \in Nat
OBVIOUS

(* A connection ends and is counted.                                       *)
LEMMA ConnectionEnds ==
  ASSUME BenchInv, NEW c \in Clients, NEW state \in {"CLOSED", "FAILED", "TIMEOUT"},
         EndConnection(c, state), UNCHANGED serverVars,
         cpc[c] \notin {"done", "killed"}, state = "CLOSED" => cpc[c] = "drain",
         link' \in [Conns -> Links], \A n \in Conns : n # <<c, k[c]>> => link'[n] = link[n]
  PROVE  BenchInv'
<1>0. TypeOK /\ Transfer(c) /\ Counted(c)
  BY DEF BenchInv
<1>1. PICK recorded \in {"CLOSED", "FAILED"} :
        /\ recorded = "CLOSED" <=> state = "CLOSED"
        /\ metrics' = [metrics EXCEPT ![c] = update_metrics(@, recorded, sent[c], received[c])]
        /\ cpc' = [cpc EXCEPT ![c] = IF k[c] = TotalConns THEN "done" ELSE "connect"]
        /\ k' = [k EXCEPT ![c] = IF @ = TotalConns THEN @ ELSE @ + 1]
        /\ sent' = [sent EXCEPT ![c] = 0] /\ received' = [received EXCEPT ![c] = 0]
  BY DEF EndConnection
<1>2. PICK m \in [DOMAIN NoMetrics -> Nat] : m = metrics[c]
  BY <1>0 DEF TypeOK
<1>3. PICK u : u = update_metrics(m, recorded, sent[c], received[c])
  OBVIOUS
<1>4. sent[c] \in Nat /\ received[c] \in Nat /\ k[c] \in 1 .. TotalConns
  BY <1>0, BenchAssumption DEF TypeOK
<1>5. Updated(u, m, recorded, sent[c], received[c])
  BY <1>1, <1>2, <1>3, <1>4, UpdateFacts
<1>6. /\ metrics'[c] = u /\ sent'[c] = 0 /\ received'[c] = 0
      /\ cpc'[c] = (IF k[c] = TotalConns THEN "done" ELSE "connect")
      /\ k'[c] = (IF k[c] = TotalConns THEN k[c] ELSE k[c] + 1)
  BY <1>0, <1>1, <1>2, <1>3 DEF TypeOK
<1>7. TypeOK'
  <2>1. metrics' \in [Clients -> [DOMAIN NoMetrics -> Nat]]
    BY <1>0, <1>1, <1>2, <1>3, <1>5 DEF TypeOK, Updated
  <2>2. /\ cpc' \in [Clients -> {"connect", "send", "recv", "close", "drain", "done", "killed"}]
        /\ k' \in [Clients -> 1 .. TotalConns]
        /\ sent' \in [Clients -> 0 .. DataSize] /\ received' \in [Clients -> 0 .. DataSize]
    BY <1>0, <1>1, <1>4, BenchAssumption DEF TypeOK
  <2>. QED BY <1>0, <2>1, <2>2 DEF TypeOK, Links
<1>8. \A d \in Clients \ {c} : Same(d)
  BY <1>0, <1>1 DEF TypeOK, Same
<1>9. Known'
  <2>1. k[c] < k'[c] \/ (k'[c] = k[c] /\ cpc'[c] # "connect")
    BY <1>4, <1>6, BenchAssumption
  <2>. QED BY <1>7, <1>8, <2>1, KnownStays DEF Same
<1>10. Transfer(c)'
  BY <1>6 DEF Transfer, Active
<1>11. Counted(c)'
  <2>1. /\ m.total = k[c] - 1 /\ m.total = m.successful + m.failed + m.timeout
        /\ m.bytes_sent = m.successful * DataSize
        /\ m.bytes_received <= m.bytes_sent /\ m.bytes_sent <= m.bytes_received + DataSize
        /\ spc # "killed" \/ cpc[c] \in Using => m.bytes_received = m.bytes_sent
    BY <1>0, <1>2 DEF Counted
  <2>0. cpc'[c] \notin Using
    BY <1>6 DEF Using
  <2>2. u.total = IF cpc'[c] = "done" THEN TotalConns ELSE k'[c] - 1
    BY <1>4, <1>5, <1>6, <2>1, BenchAssumption DEF Updated
  <2>3. u.total = u.successful + u.failed + u.timeout
    BY <1>5, <2>1 DEF Updated
  <2>4. CASE recorded = "CLOSED"
    <3>1. /\ sent[c] = DataSize /\ (spc # "killed" => received[c] = DataSize)
          /\ received[c] <= DataSize /\ m.bytes_received = m.bytes_sent
      BY <1>0, <1>1, <2>1, <2>4 DEF Transfer, Using, TypeOK
    <3>2. u.bytes_sent = u.successful * DataSize
      BY <1>5, <2>1, <2>4, <3>1, OneMore, BenchAssumption DEF Updated
    <3>3. spc' # "killed" => u.bytes_received = u.bytes_sent
      BY <1>5, <2>1, <2>4, <3>1 DEF Updated
    <3>4. u.bytes_received <= u.bytes_sent /\ u.bytes_sent <= u.bytes_received + DataSize
      BY <1>4, <1>5, <2>4, <3>1, BenchAssumption DEF Updated
    <3>. QED BY <1>6, <2>0, <2>2, <2>3, <3>2, <3>3, <3>4 DEF Counted
  <2>5. CASE recorded = "FAILED"
    BY <1>5, <1>6, <2>0, <2>1, <2>2, <2>3, <2>5 DEF Counted, Updated
  <2>. QED BY <2>4, <2>5
<1>. QED BY <1>7, <1>8, <1>9, <1>10, <1>11, ClientKeeps

LEMMA CloseEnds ==
  ASSUME BenchInv, NEW c \in Clients, NEW state \in {"CLOSED", "FAILED", "TIMEOUT"},
         CloseAndEnd(c, state), cpc[c] \notin {"done", "killed"}, state = "CLOSED" => cpc[c] = "drain"
  PROVE  BenchInv'
<1>0. TypeOK /\ link \in [Conns -> Links] /\ Conn(c) \in Conns
  BY ConnFacts DEF BenchInv
<1>1. link' = [link EXCEPT ![Conn(c)] = ClientCloses(@)] /\ EndConnection(c, state) /\ UNCHANGED serverVars
  BY DEF CloseAndEnd
<1>2. link' \in [Conns -> Links]
  BY <1>0, <1>1, LinkTypes
<1>3. \A n \in Conns : n # <<c, k[c]>> => link'[n] = link[n]
  BY <1>0, <1>1 DEF Conn
<1>. QED BY <1>1, <1>2, <1>3, ConnectionEnds

(* A client goes on with its connection.                                   *)
Phases == {"send", "recv", "close", "drain", "killed"}

(* What Transfer asks of a client in this phase that has sent s, received  *)
(* r, and whose connection is l with held bytes in the server's buffer.    *)
Fits(phase, s, r, l, held) ==
  /\ phase \in {"send", "recv", "close"} =>
       /\ l.client = "open"
       /\ l.up + held + l.down + r <= s
       /\ l.server = "open" => l.up + held + l.down + r = s
       /\ spc # "killed" => l.server # "fin"
  /\ phase \in {"recv", "close", "drain"} => s = DataSize
  /\ phase \in {"close", "drain"} /\ spc # "killed" => r = DataSize

LEMMA PhaseStep ==
  ASSUME BenchInv, NEW c \in Clients, UNCHANGED <<k, metrics, serverVars>>,
         NEW phase \in Phases, cpc[c] \in Using, cpc' = [cpc EXCEPT ![c] = phase],
         NEW s \in 0 .. DataSize, sent' = [sent EXCEPT ![c] = s],
         NEW r \in 0 .. DataSize, received' = [received EXCEPT ![c] = r],
         NEW l \in Links, link' = [link EXCEPT ![Conn(c)] = l],
         NEW held \in Nat, held = (IF cur = Conn(c) THEN got ELSE 0),
         Fits(phase, s, r, l, held)
  PROVE  BenchInv'
<1>0. TypeOK /\ link \in [Conns -> Links] /\ Conn(c) \in Conns /\ Counted(c)
  BY ConnFacts DEF BenchInv
<1>1. cpc'[c] = phase /\ sent'[c] = s /\ received'[c] = r /\ Conn(c)' = Conn(c)
  BY <1>0 DEF TypeOK, Conn
<1>2. link' \in [Conns -> Links] /\ link'[Conn(c)] = l
  BY <1>0
<1>3. TypeOK'
  <2>1. /\ cpc' \in [Clients -> {"connect", "send", "recv", "close", "drain", "done", "killed"}]
        /\ sent' \in [Clients -> 0 .. DataSize] /\ received' \in [Clients -> 0 .. DataSize]
    BY <1>0 DEF TypeOK, Phases
  <2>. QED BY <1>0, <1>2, <2>1 DEF TypeOK, Links
<1>4. \A d \in Clients \ {c} : Same(d)
  BY <1>0 DEF TypeOK, Same
<1>5. Known'
  BY <1>1, <1>3, <1>4, KnownStays DEF Same, Phases, Using
<1>6. \A n \in Conns : n # <<c, k[c]>> => link'[n] = link[n]
  BY <1>0 DEF Conn
<1>7. Away(Conn(c))' = l.up + held + l.down
  BY <1>1, <1>2 DEF Away
<1>8. Transfer(c)'
  BY <1>1, <1>2, <1>7 DEF Transfer, Active, Phases, Fits
<1>9. Counted(c)'
  BY <1>0, <1>1 DEF Counted, Phases, Using
<1>. QED BY <1>3, <1>4, <1>5, <1>6, <1>8, <1>9, ClientKeeps

(* What the invariant says of a client that uses its connection.           *)
LEMMA ActiveFacts ==
  ASSUME BenchInv, NEW c \in Clients, Active(c),
         NEW held, held = (IF cur = Conn(c) THEN got ELSE 0),
         NEW l, l = link[Conn(c)]
  PROVE  /\ l \in Links /\ held \in Nat /\ l.up \in Nat /\ l.down \in Nat
         /\ l.client = "open"
         /\ l.up + held + l.down + received[c] <= sent[c]
         /\ l.server = "open" => l.up + held + l.down + received[c] = sent[c]
         /\ spc # "killed" => l.server # "fin"
         /\ cpc[c] \in {"recv", "close"} => sent[c] = DataSize
         /\ cpc[c] = "close" /\ spc # "killed" => received[c] = DataSize
         /\ sent[c] \in 0 .. DataSize /\ received[c] \in 0 .. DataSize
         /\ link = [link EXCEPT ![Conn(c)] = l]
         /\ sent = [sent EXCEPT ![c] = sent[c]] /\ received = [received EXCEPT ![c] = received[c]]
<1>0. TypeOK /\ link \in [Conns -> Links] /\ Conn(c) \in Conns /\ Transfer(c)
  BY ConnFacts DEF BenchInv
<1>1. l \in Links /\ held \in Nat
  BY <1>0, BenchAssumption DEF TypeOK
<1>2. l.up \in Nat /\ l.down \in Nat
  BY <1>1, LinkFields
<1>3. Away(Conn(c)) = l.up + held + l.down
  BY DEF Away
<1>4. /\ sent \in [Clients -> 0 .. DataSize] /\ received \in [Clients -> 0 .. DataSize]
  BY <1>0 DEF TypeOK
<1>5. /\ link = [link EXCEPT ![Conn(c)] = l]
      /\ sent = [sent EXCEPT ![c] = sent[c]] /\ received = [received EXCEPT ![c] = received[c]]
  BY <1>0, <1>4
<1>. QED BY <1>0, <1>1, <1>2, <1>3, <1>4, <1>5 DEF Transfer

LEMMA ConnectStep ==
  ASSUME BenchInv, NEW c \in Clients, tcp_client_connect(c)
  PROVE  BenchInv'
<1>0. /\ TypeOK /\ link \in [Conns -> Links] /\ Conn(c) \in Conns /\ Counted(c) /\ Transfer(c)
      /\ cpc[c] = "connect"
  BY ConnFacts DEF BenchInv, tcp_client_connect
<1>1. CASE /\ link' = [link EXCEPT ![Conn(c)] = Fresh]
           /\ backlog' = Append(backlog, Conn(c))
           /\ cpc' = [cpc EXCEPT ![c] = "send"]
           /\ UNCHANGED <<k, sent, received, metrics, spc, cur, got, keep_running>>
           /\ spc \notin Gone
  <2>1. cpc'[c] = "send" /\ Conn(c)' = Conn(c)
    BY <1>0, <1>1 DEF TypeOK, Conn
  <2>2. link' \in [Conns -> Links] /\ link'[Conn(c)] = Fresh
    BY <1>0, <1>1, LinkTypes
  <2>3. PICK n \in Conns : n = Conn(c) /\ n[1] = c /\ n[2] = k[c]
    BY <1>0, ConnFacts
  <2>4. backlog \in Seq(Conns) /\ backlog' \in Seq(Conns)
    BY <1>0, <1>1 DEF TypeOK
  <2>5. TypeOK'
    BY <1>0, <1>1, <2>2, <2>4 DEF TypeOK, Links
  <2>6. \A d \in Clients \ {c} : Same(d)
    BY <1>0, <1>1 DEF TypeOK, Same
  <2>7. ASSUME NEW m \in Conns, Made(m) PROVE Made(m)'
    <3>1. \A d \in Clients : k'[d] = k[d] /\ (cpc[d] # "connect" => cpc'[d] # "connect")
      BY <1>1, <2>1, <2>6 DEF Same
    <3>. QED BY <1>0, <2>5, <2>7, <3>1, MadeStays
  <2>8. Known'
    <3>0. Known
      BY DEF BenchInv
    <3>1. spc' \in {"recv", "send"} => Made(cur)'
      <4>. SUFFICES ASSUME spc \in {"recv", "send"} PROVE Made(cur)'
        BY <1>1
      <4>1. PICK m \in Conns : m = cur /\ m = cur'
        BY <1>0, <1>1 DEF TypeOK
      <4>2. Made(m)'
        BY <2>7, <3>0, <4>1 DEF Known
      <4>. QED BY <4>1, <4>2 DEF Made
    <3>2. ASSUME NEW i \in 1 .. Len(backlog') PROVE Made(backlog[i])'
      <4>1. Len(backlog') = Len(backlog) + 1 /\ Len(backlog) \in Nat
        BY <1>0, <1>1, <2>4
      <4>2. CASE i = Len(backlog) + 1
        <5>1. backlog'[i] = n
          BY <1>0, <1>1, <2>3, <2>4, <4>2
        <5>. QED BY <1>1, <2>1, <2>3, <5>1 DEF Made
      <4>3. CASE i \in 1 .. Len(backlog)
        <5>1. PICK m \in Conns : m = backlog[i] /\ m = backlog'[i]
          BY <1>0, <1>1, <2>4, <4>3
        <5>2. Made(m)'
          BY <2>7, <3>0, <4>3, <5>1 DEF Known
        <5>. QED BY <5>1, <5>2 DEF Made
      <4>. QED BY <4>1, <4>2, <4>3
    <3>. QED BY <3>1, <3>2 DEF Known
  <2>9. \A m \in Conns : m # <<c, k[c]>> => link'[m] = link[m]
    BY <1>0, <1>1 DEF Conn
  <2>10. cur # n \/ got = 0
    <3>1. spc \in {"recv", "send"} => Made(cur)
      BY DEF BenchInv, Known
    <3>2. ~Made(n)
      <4>1. k[c] \in Nat
        BY <1>0, BenchAssumption DEF TypeOK
      <4>. QED BY <1>0, <2>3, <4>1 DEF Made
    <3>3. spc \notin {"recv", "send"} => cur = <<>>
      BY <1>0 DEF TypeOK
    <3>. QED BY <1>0, <2>3, <3>1, <3>2, <3>3, ConnFacts
  <2>11. Away(Conn(c))' = 0
    BY <1>1, <2>1, <2>2, <2>3, <2>10 DEF Away, Fresh
  <2>12. Transfer(c)'
    BY <1>0, <1>1, <2>1, <2>2, <2>11 DEF Transfer, Active, Fresh
  <2>13. Counted(c)'
    BY <1>0, <1>1, <2>1 DEF Counted, Gone
  <2>. QED BY <1>1, <2>5, <2>6, <2>8, <2>9, <2>12, <2>13, ClientKeeps
<1>2. CASE EndConnection(c, "FAILED") /\ UNCHANGED <<link, serverVars>>
  BY <1>0, <1>2, ConnectionEnds
<1>. QED BY <1>1, <1>2 DEF tcp_client_connect

LEMMA SendStep ==
  ASSUME BenchInv, NEW c \in Clients, tcp_client_send_data(c)
  PROVE  BenchInv'
<1>0. TypeOK /\ link \in [Conns -> Links] /\ Conn(c) \in Conns /\ cpc[c] = "send" /\ Active(c)
  BY ConnFacts DEF BenchInv, tcp_client_send_data, Active
<1>1. PICK held : held = (IF cur = Conn(c) THEN got ELSE 0)
  OBVIOUS
<1>2. PICK l : l = link[Conn(c)]
  OBVIOUS
<1>3. /\ l \in Links /\ held \in Nat /\ l.up \in Nat /\ l.down \in Nat /\ l.client = "open"
      /\ l.up + held + l.down + received[c] <= sent[c]
      /\ l.server = "open" => l.up + held + l.down + received[c] = sent[c]
      /\ spc # "killed" => l.server # "fin"
      /\ sent[c] \in 0 .. DataSize /\ received[c] \in 0 .. DataSize
      /\ link = [link EXCEPT ![Conn(c)] = l]
      /\ sent = [sent EXCEPT ![c] = sent[c]] /\ received = [received EXCEPT ![c] = received[c]]
  BY <1>0, <1>1, <1>2, ActiveFacts
<1>4. l.up <= Window
  BY <1>3, LinkFields
<1>5. ASSUME NEW b \in Int, 1 <= b, b <= DataSize - sent[c], Advance(c, b),
             NEW m \in Links, link' = [link EXCEPT ![Conn(c)] = m],
             m.client = "open", m.server = l.server, m.down = l.down,
             m.up \in Nat, m.up <= l.up + b, m.server = "open" => m.up = l.up + b
      PROVE  BenchInv'
  <2>1. sent[c] + b \in 0 .. DataSize
    BY <1>3, <1>5, BenchAssumption
  <2>2. PICK phase \in Phases :
          /\ phase = (IF sent[c] + b = DataSize THEN "recv" ELSE "send")
          /\ cpc' = [cpc EXCEPT ![c] = phase]
    BY <1>0, <1>5 DEF Advance, Phases
  <2>3. /\ sent' = [sent EXCEPT ![c] = sent[c] + b]
        /\ received' = [received EXCEPT ![c] = received[c]]
        /\ UNCHANGED <<k, metrics, serverVars>>
    BY <1>3, <1>5 DEF Advance
  <2>4. /\ m.up + held + m.down + received[c] <= sent[c] + b
        /\ m.server = "open" => m.up + held + m.down + received[c] = sent[c] + b
    BY <1>3, <1>5, BenchAssumption
  <2>5. Fits(phase, sent[c] + b, received[c], m, held)
    BY <1>3, <1>5, <2>2, <2>4 DEF Fits
  <2>6. cpc[c] \in Using
    BY <1>0 DEF Phases, Using
  <2>. QED BY <1>1, <1>3, <1>5, <2>1, <2>2, <2>3, <2>5, <2>6, PhaseStep
<1>6. ASSUME l.server = "open", NEW b \in Some(DataSize - sent[c], Window - l.up),
             link' = [link EXCEPT ![Conn(c)].up = @ + b], Advance(c, b)
      PROVE  BenchInv'
  <2>0. DataSize - sent[c] \in Int /\ Window - l.up \in Int
    BY <1>3, BenchAssumption
  <2>1. b \in Int /\ 1 <= b /\ b <= DataSize - sent[c] /\ b <= Window - l.up
    BY <1>6, <2>0, SomeFacts
  <2>2. l.up + b \in 0 .. Window
    BY <1>3, <2>1, BenchAssumption
  <2>3. PICK m : m = [l EXCEPT !.up = @ + b]
    OBVIOUS
  <2>4. m \in Links
    BY <1>3, <2>2, <2>3 DEF Links
  <2>5. m.up = l.up + b /\ m.down = l.down /\ m.client = l.client /\ m.server = l.server
    BY <1>3, <2>3 DEF Links
  <2>6. link' = [link EXCEPT ![Conn(c)] = m]
    BY <1>0, <1>2, <1>6, <2>3
  <2>7. l.up + b \in Nat /\ l.up + b <= l.up + b
    BY <1>3, <2>1
  <2>8. m.client = "open" /\ m.up \in Nat /\ m.up <= l.up + b
    BY <1>3, <2>5, <2>7
  <2>. QED BY <1>5, <1>6, <2>1, <2>4, <2>5, <2>6, <2>8
<1>7. CASE CloseAndEnd(c, "FAILED")
  BY <1>0, <1>7, CloseEnds
<1>8. ASSUME l.server # "open", NEW b \in 1 .. DataSize - sent[c], Advance(c, b), UNCHANGED link
      PROVE  BenchInv'
  <2>1. b \in Int /\ 1 <= b /\ b <= DataSize - sent[c] /\ l.up <= l.up + b
    BY <1>3, BenchAssumption
  <2>. QED BY <1>3, <1>5, <1>8, <2>1
<1>9. ASSUME cpc' = [cpc EXCEPT ![c] = "killed"], link' = [link EXCEPT ![Conn(c)] = Dead],
             UNCHANGED <<k, sent, received, metrics, serverVars>>
      PROVE  BenchInv'
  <2>1. sent' = [sent EXCEPT ![c] = sent[c]] /\ received' = [received EXCEPT ![c] = received[c]]
    BY <1>3, <1>9
  <2>2. /\ Dead \in Links /\ "killed" \in Phases /\ cpc[c] \in Using
        /\ Fits("killed", sent[c], received[c], Dead, held)
    BY <1>0, LinkTypes DEF Phases, Using, Fits
  <2>. QED BY <1>1, <1>3, <1>9, <2>1, <2>2, PhaseStep
<1>. QED BY <1>0, <1>2, <1>6, <1>7, <1>8, <1>9 DEF tcp_client_send_data

LEMMA ReceiveStep ==
  ASSUME BenchInv, NEW c \in Clients, tcp_client_receive_data(c)
  PROVE  BenchInv'
<1>0. TypeOK /\ link \in [Conns -> Links] /\ Conn(c) \in Conns /\ cpc[c] = "recv" /\ Active(c)
  BY ConnFacts DEF BenchInv, tcp_client_receive_data, Active
<1>1. PICK held : held = (IF cur = Conn(c) THEN got ELSE 0)
  OBVIOUS
<1>2. PICK l : l = link[Conn(c)]
  OBVIOUS
<1>3. /\ l \in Links /\ held \in Nat /\ l.up \in Nat /\ l.down \in Nat /\ l.client = "open"
      /\ l.up + held + l.down + received[c] <= sent[c]
      /\ l.server = "open" => l.up + held + l.down + received[c] = sent[c]
      /\ spc # "killed" => l.server # "fin"
      /\ sent[c] = DataSize
      /\ sent[c] \in 0 .. DataSize /\ received[c] \in 0 .. DataSize
      /\ link = [link EXCEPT ![Conn(c)] = l]
      /\ sent = [sent EXCEPT ![c] = sent[c]] /\ received = [received EXCEPT ![c] = received[c]]
  BY <1>0, <1>1, <1>2, ActiveFacts
<1>4. l.down <= Window /\ DataSize \in Nat
  BY <1>3, LinkFields, BenchAssumption
<1>5. ASSUME NEW b \in Some(BufferSize, l.down), link' = [link EXCEPT ![Conn(c)].down = @ - b],
             received' = [received EXCEPT ![c] = @ + b],
             cpc' = [cpc EXCEPT ![c] = IF received[c] + b >= sent[c] THEN "close" ELSE @],
             UNCHANGED <<k, sent, metrics, serverVars>>
      PROVE  BenchInv'
  <2>1. b \in Int /\ 1 <= b /\ b <= l.down
    BY <1>3, SomeFacts, BenchAssumption
  <2>2. l.down - b \in 0 .. Window /\ received[c] + b \in 0 .. DataSize
    BY <1>3, <1>4, <2>1, BenchAssumption
  <2>3. PICK m : m = [l EXCEPT !.down = @ - b]
    OBVIOUS
  <2>4. m \in Links
    BY <1>3, <2>2, <2>3 DEF Links
  <2>5. m.down = l.down - b /\ m.up = l.up /\ m.client = l.client /\ m.server = l.server
    BY <1>3, <2>3 DEF Links
  <2>6. link' = [link EXCEPT ![Conn(c)] = m]
    BY <1>0, <1>2, <1>5, <2>3
  <2>7. PICK phase \in Phases :
          /\ phase = (IF received[c] + b >= sent[c] THEN "close" ELSE "recv")
          /\ cpc' = [cpc EXCEPT ![c] = phase]
    BY <1>0, <1>5 DEF Phases, Using
  <2>8. /\ sent' = [sent EXCEPT ![c] = sent[c]]
        /\ received' = [received EXCEPT ![c] = received[c] + b]
    BY <1>3, <1>5
  <2>9. /\ m.up + held + m.down + (received[c] + b) <= sent[c]
        /\ m.server = "open" => m.up + held + m.down + (received[c] + b) = sent[c]
    BY <1>3, <2>1, <2>5, BenchAssumption
  <2>10. phase = "close" => received[c] + b = DataSize
    <3>1. PICK r \in 0 .. DataSize : r = received[c] + b
      BY <2>2
    <3>2. r >= DataSize => r = DataSize
      BY <1>4
    <3>. QED BY <1>3, <2>7, <3>1, <3>2
  <2>11. cpc[c] \in Using
    BY <1>0 DEF Phases, Using
  <2>12. Fits(phase, sent[c], received[c] + b, m, held)
    BY <1>3, <2>5, <2>7, <2>9, <2>10 DEF Fits
  <2>. QED BY <1>1, <1>3, <1>5, <2>2, <2>4, <2>6, <2>7, <2>8, <2>11, <2>12, PhaseStep
<1>6. ASSUME l.server = "fin", cpc' = [cpc EXCEPT ![c] = "close"],
             UNCHANGED <<k, sent, received, metrics, link, serverVars>>
      PROVE  BenchInv'
  <2>1. /\ sent' = [sent EXCEPT ![c] = sent[c]] /\ received' = [received EXCEPT ![c] = received[c]]
        /\ link' = [link EXCEPT ![Conn(c)] = l]
    BY <1>3, <1>6
  <2>2. "close" \in Phases /\ cpc[c] \in Using
    BY <1>0 DEF Phases, Using
  <2>3. Fits("close", sent[c], received[c], l, held)
    BY <1>3, <1>6 DEF Fits
  <2>. QED BY <1>1, <1>3, <1>6, <2>1, <2>2, <2>3, PhaseStep
<1>7. CASE CloseAndEnd(c, "FAILED") \/ CloseAndEnd(c, "TIMEOUT")
  BY <1>0, <1>7, CloseEnds
<1>. QED BY <1>0, <1>2, <1>5, <1>6, <1>7 DEF tcp_client_receive_data, TimedOut

LEMMA CloseStep ==
  ASSUME BenchInv, NEW c \in Clients, Shutdown(c) \/ Drain(c)
  PROVE  BenchInv'
<1>1. CASE Shutdown(c)
  <2>0. TypeOK /\ link \in [Conns -> Links] /\ Conn(c) \in Conns /\ cpc[c] = "close" /\ Active(c)
    BY <1>1, ConnFacts DEF BenchInv, Shutdown, Active
  <2>1. PICK held : held = (IF cur = Conn(c) THEN got ELSE 0)
    OBVIOUS
  <2>2. PICK l : l = link[Conn(c)]
    OBVIOUS
  <2>3. /\ l \in Links /\ held \in Nat /\ sent[c] = DataSize
        /\ spc # "killed" => received[c] = DataSize
        /\ sent[c] \in 0 .. DataSize /\ received[c] \in 0 .. DataSize
        /\ sent = [sent EXCEPT ![c] = sent[c]] /\ received = [received EXCEPT ![c] = received[c]]
    BY <2>0, <2>1, <2>2, ActiveFacts
  <2>4. PICK m : m = [l EXCEPT !.client = "fin"]
    OBVIOUS
  <2>5. m \in Links
    BY <2>3, <2>4 DEF Links
  <2>6. /\ link' = [link EXCEPT ![Conn(c)] = m] /\ cpc' = [cpc EXCEPT ![c] = "drain"]
        /\ sent' = [sent EXCEPT ![c] = sent[c]] /\ received' = [received EXCEPT ![c] = received[c]]
        /\ UNCHANGED <<k, metrics, serverVars>>
    BY <1>1, <2>0, <2>2, <2>3, <2>4 DEF Shutdown
  <2>7. "drain" \in Phases /\ cpc[c] \in Using /\ Fits("drain", sent[c], received[c], m, held)
    BY <2>0, <2>3 DEF Phases, Using, Fits
  <2>. QED BY <2>1, <2>3, <2>5, <2>6, <2>7, PhaseStep
<1>2. CASE Drain(c)
  BY <1>2, CloseEnds DEF Drain
<1>. QED BY <1>1, <1>2
----------------------------------------------------------------------------
LEMMA InitBench ==
  ASSUME Init
  PROVE  BenchInv
<1>1. TypeOK
  <2>1. Dead \in Links /\ <<>> \in Seq(Conns)
    BY LinkTypes
  <2>2. NoMetrics \in [DOMAIN NoMetrics -> Nat]
    BY DEF NoMetrics
  <2>. QED BY <2>1, <2>2, BenchAssumption DEF Init, TypeOK, Links, Gone
<1>2. Known
  BY DEF Init, Known
<1>3. ASSUME NEW c \in Clients PROVE Transfer(c) /\ Counted(c)
  <2>1. Transfer(c)
    BY DEF Init, Transfer, Active
  <2>2. Counted(c)
    BY BenchAssumption DEF Init, Counted, NoMetrics, Using
  <2>. QED BY <2>1, <2>2
<1>. QED BY <1>1, <1>2, <1>3 DEF BenchInv

LEMMA BenchInvariant == Spec => []BenchInv
<1>1. Init => BenchInv
  BY InitBench
<1>2. BenchInv /\ [Next]_vars => BenchInv'
  <2>. SUFFICES ASSUME BenchInv, [Next]_vars PROVE BenchInv'
    OBVIOUS
  <2>1. ASSUME NEW c \in Clients, ClientStep(c) PROVE BenchInv'
    BY <2>1, ConnectStep, SendStep, ReceiveStep, CloseStep DEF ClientStep
  <2>2. CASE ServerStep
    BY <2>2, AcceptStep, EchoRecvStep, EchoSendStep DEF ServerStep
  <2>3. CASE AcceptFails \/ ServerDies
    BY <2>3, ServerEnds
  <2>4. CASE sigint_handler
    BY <2>4, SignalStep
  <2>5. CASE UNCHANGED vars
    <3>1. TypeOK' /\ Known'
      BY <2>5 DEF BenchInv, TypeOK, Known, Made
    <3>2. ASSUME NEW c \in Clients PROVE Transfer(c)' /\ Counted(c)'
      BY <2>5 DEF BenchInv, Transfer, Counted, Active, Away, Conn
    <3>. QED BY <3>1, <3>2 DEF BenchInv
  <2>. QED BY <2>1, <2>2, <2>3, <2>4, <2>5 DEF Next
<1>. QED BY <1>1, <1>2, PTL DEF Spec

(* Every variable of the bench has its type: a direction of a connection   *)
(* never holds more than the window, the server's buffer never more than   *)
(* BUFFER_SIZE, and the client never counts more than data_size bytes.     *)
THEOREM TypeCorrect == Spec => []TypeOK
<1>1. BenchInv => TypeOK
  BY DEF BenchInv
<1>. QED BY <1>1, BenchInvariant, PTL

(* While a connection stands, every byte tcp_client.c has sent on it is    *)
(* under way, in the buffer of echo_server_handle_client or received back, *)
(* for any number of clients and any split of the data by send and recv.   *)
THEOREM EchoExactCorrect == Spec => []EchoExact
<1>1. BenchInv => EchoExact
  <2>. SUFFICES ASSUME BenchInv, NEW c \in Clients, Active(c), link[Conn(c)].server = "open"
                PROVE  sent[c] = link[Conn(c)].up + (IF cur = Conn(c) THEN got ELSE 0)
                                   + link[Conn(c)].down + received[c]
    BY DEF EchoExact, Active
  <2>1. PICK held : held = (IF cur = Conn(c) THEN got ELSE 0)
    OBVIOUS
  <2>2. PICK l : l = link[Conn(c)]
    OBVIOUS
  <2>3. l.up + held + l.down + received[c] = sent[c]
    BY <2>1, <2>2, ActiveFacts
  <2>. QED BY <2>1, <2>2, <2>3
<1>. QED BY <1>1, BenchInvariant, PTL

(* What run_tcp_client reports at its end: every connection counted once,  *)
(* as a success or a failure, and the bytes of the successes only.         *)
THEOREM AccountedCorrect == Spec => []Accounted
<1>1. BenchInv => Accounted
  <2>. SUFFICES ASSUME BenchInv, NEW c \in Clients,
                       NEW m \in [DOMAIN NoMetrics -> Nat], m = metrics[c]
                PROVE  /\ cpc[c] = "done" => m.total = TotalConns
                       /\ m.total = m.successful + m.failed + m.timeout
                       /\ m.bytes_sent = m.successful * DataSize
                       /\ m.bytes_received <= m.bytes_sent
                       /\ m.bytes_sent <= m.bytes_received + (IF spc = "killed" THEN DataSize ELSE 0)
    BY DEF Accounted, BenchInv, TypeOK
  <2>1. Counted(c)
    BY DEF BenchInv
  <2>2. m.bytes_received \in Nat /\ m.bytes_sent \in Nat
    BY DEF NoMetrics
  <2>. QED BY <2>1, <2>2 DEF Counted
<1>. QED BY <1>1, BenchInvariant, PTL
============================================================================
