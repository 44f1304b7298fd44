----------------------------- MODULE EchoBench -----------------------------
(***************************************************************************)
(* bench/src: tcp_client.c, echo_server.c and the counters of              *)
(* bench_common.c.  Each client process makes TotalConns connections, one  *)
(* after the other: it sends everything, then receives the echo, then      *)
(* closes.  The server handles one connection at a time; the others wait   *)
(* in its backlog, where a client may give up on them.                     *)
(*                                                                         *)
(* TCP is external: a direction of a connection holds up to Window bytes,  *)
(* send and recv move some of what fits or is there.  A send to a peer     *)
(* that has closed is lost, fails, or raises SIGPIPE, which neither        *)
(* program handles and which therefore ends it.                            *)
(***************************************************************************)
EXTENDS Integers, Sequences, FiniteSetsExt

CONSTANTS Clients,     \* processes in client mode
          TotalConns,  \* total_connections of each
          DataSize,    \* data_size, 1 to 10485760
          BufferSize,  \* BUFFER_SIZE
          Window       \* bytes the kernel holds in one direction

ASSUME BenchAssumption == /\ TotalConns \in Nat \ {0} /\ DataSize \in Nat \ {0}
                          /\ BufferSize \in Nat \ {0} /\ Window \in Nat \ {0}

VARIABLES cpc,          \* phase of each client
          k,            \* the connection it is at
          sent,         \* total_sent, then bytes_sent, of that connection
          received,     \* bytes_received of that connection
          metrics,      \* global_metrics_t of each client
          link,         \* the connections
          backlog,      \* connections the server has not accepted
          spc,          \* phase of the server
          cur,          \* the connection it handles
          got,          \* received there and not yet echoed
          keep_running  \* of the server

clientVars == <<cpc, k, sent, received, metrics>>
serverVars == <<backlog, spc, cur, got, keep_running>>
vars == <<clientVars, link, serverVars>>

Conns == Clients \X (1 .. TotalConns)
Conn(c) == <<c, k[c]>>
Gone == {"stopped", "killed"}

(* Bytes under way to the server and to the client, what the server may    *)
(* still expect from the client ("fin": the end of the data), and what the *)
(* client may expect from the server ("rst": an error).                    *)
Dead == [up |-> 0, down |-> 0, client |-> "closed", server |-> "rst"]
Fresh == [up |-> 0, down |-> 0, client |-> "open", server |-> "open"]

NoMetrics == [total |-> 0, successful |-> 0, failed |-> 0, timeout |-> 0,
              bytes_sent |-> 0, bytes_received |-> 0]

Init ==
  /\ cpc = [c \in Clients |-> "connect"]
  /\ k = [c \in Clients |-> 1]
  /\ sent = [c \in Clients |-> 0]
  /\ received = [c \in Clients |-> 0]
  /\ metrics = [c \in Clients |-> NoMetrics]
  /\ link = [n \in Conns |-> Dead]
  /\ backlog = <<>>
  /\ spc = "accept"
  /\ cur = <<>>
  /\ got = 0
  /\ keep_running = TRUE
----------------------------------------------------------------------------
(* One end closes its socket.                                              *)
ClientCloses(l) ==
  IF l.server = "open" THEN [l EXCEPT !.client = "closed", !.down = 0] ELSE Dead
ServerCloses(l, how) ==
  IF l.client # "closed" THEN [l EXCEPT !.server = how, !.up = 0] ELSE Dead

(* How many bytes a call can move.                                         *)
Some(limit, available) == 1 .. Min({limit, available})
----------------------------------------------------------------------------
(* update_metrics.                                                         *)
update_metrics(m, state, s, r) ==
  [m EXCEPT !.total = @ + 1,
            !.successful = IF state = "CLOSED" THEN @ + 1 ELSE @,
            !.bytes_sent = IF state = "CLOSED" THEN @ + s ELSE @,
            !.bytes_received = IF state = "CLOSED" THEN @ + r ELSE @,
            !.failed = IF state = "FAILED" THEN @ + 1 ELSE @,
            !.timeout = IF state = "TIMEOUT" THEN @ + 1 ELSE @]

(* One turn of the loop in run_tcp_client ends: a connection that did not  *)
(* return 0 is recorded as FAILED, whatever its state was, so the TIMEOUT  *)
(* branch of update_metrics is never taken.                                *)
EndConnection(c, state) ==
  LET recorded == IF state = "CLOSED" THEN state ELSE "FAILED" IN
  /\ metrics' = [metrics EXCEPT ![c] = update_metrics(@, recorded, sent[c], received[c])]
  /\ cpc' = [cpc EXCEPT ![c] = IF k[c] = TotalConns THEN "done" ELSE "connect"]
  /\ k' = [k EXCEPT ![c] = IF @ = TotalConns THEN @ ELSE @ + 1]
  /\ sent' = [sent EXCEPT ![c] = 0]
  /\ received' = [received EXCEPT ![c] = 0]

(* It also closes the socket.                                              *)
CloseAndEnd(c, state) ==
  /\ link' = [link EXCEPT ![Conn(c)] = ClientCloses(@)]
  /\ EndConnection(c, state)
  /\ UNCHANGED serverVars

(* connect succeeds once the connection is in the server's backlog.        *)
tcp_client_connect(c) ==
  /\ cpc[c] = "connect"
  /\ \/ /\ spc \notin Gone
        /\ link' = [link EXCEPT ![Conn(c)] = Fresh]
        /\ backlog' = Append(backlog, Conn(c))
        /\ cpc' = [cpc EXCEPT ![c] = "send"]
        /\ UNCHANGED <<k, sent, received, metrics, spc, cur, got, keep_running>>
     \/ EndConnection(c, "FAILED") /\ UNCHANGED <<link, serverVars>>

(* tcp_client_send_data: without memory it fails before the first byte.    *)
Advance(c, n) ==
  /\ sent' = [sent EXCEPT ![c] = @ + n]
  /\ cpc' = [cpc EXCEPT ![c] = IF sent[c] + n = DataSize THEN "recv" ELSE @]
  /\ UNCHANGED <<k, received, metrics, serverVars>>

tcp_client_send_data(c) ==
  LET l == link[Conn(c)] IN
  /\ cpc[c] = "send"
  /\ \/ /\ l.server = "open"
        /\ \E n \in Some(DataSize - sent[c], Window - l.up) :
             /\ link' = [link EXCEPT ![Conn(c)].up = @ + n]
             /\ Advance(c, n)
     \/ /\ l.server # "open" \/ sent[c] = 0
        /\ CloseAndEnd(c, "FAILED")
     \/ /\ l.server # "open"
        /\ \/ \E n \in 1 .. DataSize - sent[c] : Advance(c, n) /\ UNCHANGED link
           \/ /\ cpc' = [cpc EXCEPT ![c] = "killed"]
              /\ link' = [link EXCEPT ![Conn(c)] = Dead]
              /\ UNCHANGED <<k, sent, received, metrics, serverVars>>

(* Mutated form: nobody asks whether everything was received.              *)
TimedOutUnchecked(c) ==
  /\ cpc' = [cpc EXCEPT ![c] = "close"]
  /\ UNCHANGED <<k, sent, received, metrics, link, serverVars>>

(* poll times out.  The loop only runs while something is missing.         *)
TimedOut(c) == CloseAndEnd(c, "TIMEOUT")

(* tcp_client_receive_data.  It ends when everything is back; when the     *)
(* server has closed it ends too, and that is no failure.                  *)
tcp_client_receive_data(c) ==
  LET l == link[Conn(c)] IN
  /\ cpc[c] = "recv"
  /\ \/ \E n \in Some(BufferSize, l.down) :
          /\ link' = [link EXCEPT ![Conn(c)].down = @ - n]
          /\ received' = [received EXCEPT ![c] = @ + n]
          /\ cpc' = [cpc EXCEPT ![c] = IF received[c] + n >= sent[c] THEN "close" ELSE @]
          /\ UNCHANGED <<k, sent, metrics, serverVars>>
     \/ /\ l.server = "fin" /\ l.down = 0
        /\ cpc' = [cpc EXCEPT ![c] = "close"]
        /\ UNCHANGED <<k, sent, received, metrics, link, serverVars>>
     \/ l.server # "open" /\ CloseAndEnd(c, "FAILED")
     \/ l.server = "open" /\ l.down = 0 /\ TimedOut(c)

(* tcp_client_close: send FIN, then drain until the server closes or 5     *)
(* seconds have passed.                                                    *)
Shutdown(c) ==
  /\ cpc[c] = "close"
  /\ link' = [link EXCEPT ![Conn(c)].client = "fin"]
  /\ cpc' = [cpc EXCEPT ![c] = "drain"]
  /\ UNCHANGED <<k, sent, received, metrics, serverVars>>

Drain(c) == cpc[c] = "drain" /\ CloseAndEnd(c, "CLOSED")
----------------------------------------------------------------------------
(* The server is gone: what waited in the backlog is reset.                *)
Leave(l, how) ==
  /\ spc' = how
  /\ link' = [n \in Conns |-> IF n \in Range(backlog) THEN ServerCloses(l[n], "rst") ELSE l[n]]
  /\ backlog' = <<>>
  /\ cur' = <<>> /\ got' = 0

(* Mutated form: the loop does not look at keep_running.                   *)
NextClientAlways ==
  /\ spc' = "accept"
  /\ link' = [link EXCEPT ![cur] = ServerCloses(@, "fin")]
  /\ cur' = <<>> /\ got' = 0
  /\ UNCHANGED <<backlog, clientVars, keep_running>>

(* echo_server_handle_client returns to the loop of run_echo_server.       *)
NextClient ==
  LET l == [link EXCEPT ![cur] = ServerCloses(@, "fin")] IN
  /\ IF keep_running
       THEN spc' = "accept" /\ link' = l /\ cur' = <<>> /\ got' = 0 /\ UNCHANGED backlog
       ELSE Leave(l, "stopped")
  /\ UNCHANGED <<clientVars, keep_running>>

(* accept is restarted after a signal (signal(2) sets SA_RESTART), so      *)
(* keep_running is only looked at after a connection.                      *)
Accept ==
  /\ spc = "accept" /\ backlog # <<>>
  /\ cur' = Head(backlog)
  /\ backlog' = Tail(backlog)
  /\ spc' = "recv"
  /\ UNCHANGED <<clientVars, link, got, keep_running>>

AcceptFails ==
  /\ spc = "accept"
  /\ Leave(link, "stopped")
  /\ UNCHANGED <<clientVars, keep_running>>

(* Mutated form: the loop goes on whatever recv returns.                   *)
EchoEndsNever == FALSE

(* recv says that the client has finished, or fails: both end the loop.    *)
EchoEnds ==
  LET l == link[cur] IN l.client = "closed" \/ (l.client = "fin" /\ l.up = 0)

(* Mutated form: a whole buffer, not what was received.                    *)
ToEchoBuffer(n) == BufferSize

(* What is echoed after recv has returned n.                               *)
ToEcho(n) == n

(* The echo loop of echo_server_handle_client.                             *)
EchoRecv ==
  /\ spc = "recv"
  /\ \/ \E n \in Some(BufferSize, link[cur].up) :
          /\ link' = [link EXCEPT ![cur].up = @ - n]
          /\ got' = ToEcho(n)
          /\ spc' = "send"
          /\ UNCHANGED <<clientVars, backlog, cur, keep_running>>
     \/ EchoEnds /\ NextClient

Echoed(n) ==
  /\ got' = got - n
  /\ spc' = IF got = n THEN "recv" ELSE "send"
  /\ UNCHANGED <<clientVars, backlog, cur, keep_running>>

EchoSend ==
  LET l == link[cur] IN
  /\ spc = "send"
  /\ \/ /\ l.client # "closed"
        /\ \E n \in Some(got, Window - l.down) :
             link' = [link EXCEPT ![cur].down = @ + n] /\ Echoed(n)
     \/ /\ l.client = "closed"
        /\ \/ \E n \in 1 .. got : Echoed(n) /\ UNCHANGED link
           \/ NextClient
           \/ /\ Leave([link EXCEPT ![cur] = Dead], "killed")
              /\ UNCHANGED <<clientVars, keep_running>>

(* The server process dies: a connection with unread data is reset, one    *)
(* without ends as if the server had closed it.                            *)
ServerDies ==
  /\ spc \notin Gone
  /\ IF cur = <<>>
       THEN Leave(link, "killed")
       ELSE LET how == IF link[cur].up > 0 THEN "rst" ELSE "fin"
            IN  Leave([link EXCEPT ![cur] = ServerCloses(@, how)], "killed")
  /\ UNCHANGED <<clientVars, keep_running>>

sigint_handler ==
  /\ spc \notin Gone /\ keep_running
  /\ keep_running' = FALSE
  /\ UNCHANGED <<clientVars, link, backlog, spc, cur, got>>
----------------------------------------------------------------------------
ClientStep(c) ==
  \/ tcp_client_connect(c) \/ tcp_client_send_data(c) \/ tcp_client_receive_data(c)
  \/ Shutdown(c) \/ Drain(c)

ServerStep == Accept \/ EchoRecv \/ EchoSend

Next == (\E c \in Clients : ClientStep(c)) \/ ServerStep
        \/ AcceptFails \/ ServerDies \/ sigint_handler

Spec == Init /\ [][Next]_vars

(* Every process that can go on does.                                      *)
FairSpec == Spec /\ WF_vars(ServerStep) /\ \A c \in Clients : WF_vars(ClientStep(c))
----------------------------------------------------------------------------
(* Every variable has its type; a direction never holds more than Window,   *)
(* and the server has a connection exactly while it handles one.            *)
TypeOK ==
  /\ cpc \in [Clients -> {"connect", "send", "recv", "close", "drain", "done", "killed"}]
  /\ k \in [Clients -> 1 .. TotalConns]
  /\ sent \in [Clients -> 0 .. DataSize] /\ received \in [Clients -> 0 .. DataSize]
  /\ metrics \in [Clients -> [DOMAIN NoMetrics -> Nat]]
  /\ link \in [Conns -> [up : 0 .. Window, down : 0 .. Window,
                          client : {"open", "fin", "closed"}, server : {"open", "fin", "rst"}]]
  /\ backlog \in Seq(Conns)
  /\ spc \in {"accept", "recv", "send"} \cup Gone
  /\ IF spc \in {"recv", "send"} THEN cur \in Conns ELSE cur = <<>>
  /\ got \in 0 .. BufferSize /\ (got > 0 <=> spc = "send")
  /\ keep_running \in BOOLEAN

(* While a connection stands, every byte sent is under way, in the server's *)
(* buffer or back at the client: none is lost, doubled or taken from        *)
(* another connection, also when the client has given up earlier ones the   *)
(* server still works on.                                                   *)
EchoExact ==
  \A c \in Clients :
    LET l == link[Conn(c)] IN
    cpc[c] \in {"send", "recv", "close"} /\ l.server = "open" =>
      sent[c] = l.up + (IF cur = Conn(c) THEN got ELSE 0) + l.down + received[c]

(* A finished client has counted each of its connections once, in one of    *)
(* the three counters of update_metrics; what it reports as sent is what    *)
(* its successes sent, and all of it came back, unless the server died:     *)
(* then at most the one connection it died in is a success without the      *)
(* whole echo.                                                              *)
Accounted ==
  \A c \in Clients :
    LET m == metrics[c] IN
    /\ cpc[c] = "done" => m.total = TotalConns
    /\ m.total = m.successful + m.failed + m.timeout
    /\ m.bytes_sent = m.successful * DataSize
    /\ m.bytes_received <= m.bytes_sent
    /\ m.bytes_sent <= m.bytes_received + (IF spc = "killed" THEN DataSize ELSE 0)

(* Every client gets through all its connections, although the server       *)
(* serves one at a time and a client sends everything before it receives:   *)
(* true as long as two windows and one byte hold the data.                  *)
BenchEnds == <>(\A c \in Clients : cpc[c] \in {"done", "killed"})

(* After a signal the server stops once it has a connection to finish.      *)
StopsAfterConnection ==
  ~keep_running /\ (spc # "accept" \/ backlog # <<>>) ~> spc \in Gone
============================================================================
