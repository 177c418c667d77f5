--------------------------- MODULE MtlsServerProofs ---------------------------
(***************************************************************************)
(* The slot table of the mTLS server is safe for every MAX_CLIENTS, every  *)
(* set of connections, every bound and every set of failing calls.         *)
(***************************************************************************)
EXTENDS MtlsServer, TLAPS

(* During a handshake the slot being filled holds the new descriptor.      *)
AcceptingHeld == pc \in {"tls", "tls_finish"} => fds[out_index] # NoFd

(* broadcast has a line to send.                                           *)
LineHeld == pc = "broadcast" => line # 0 /\ total # 0

IInv ==
  /\ TypeOK /\ SlotsHoldOpenConns /\ SslMatchesFd /\ NfdsInBounds
  /\ AcceptingHeld /\ LineHeld

(* A record SSL_read returns ends no later than what the peer sent.        *)
LEMMA RecordEnds ==
  ASSUME NEW m \in Nat, NEW n \in Nat, m \div 2 < n \div 2
  PROVE  2 * (m \div 2) + 2 \in Nat /\ 2 * (m \div 2) + 2 <= n
<1>1. n \div 2 \in Nat /\ m \div 2 \in Nat /\ 2 * (n \div 2) <= n
  BY Z3
<1> QED  BY <1>1

(* The invariant holds when poll_loop starts with empty arrays.            *)
LEMMA InitIInv == Init => IInv
<1> SUFFICES ASSUME Init PROVE IInv  OBVIOUS
<1> USE ConstantsAssumption
<1>1. NewSocket \in Socket
  BY DEF NewSocket, NoRecord, Socket, Record
<1>2. sock \in [Conns -> Socket]
  BY <1>1 DEF Init
<1>3. revents \in SUBSET AllSlots
  BY DEF Init, Slots, AllSlots
<1>4. eof \in BOOLEAN
  BY DEF Init
<1>5. TypeOK
  BY <1>2, <1>3, <1>4 DEF Init, TypeOK, Slots
<1>6. SlotsHoldOpenConns /\ SslMatchesFd /\ NfdsInBounds /\ AcceptingHeld /\ LineHeld
  BY DEF Init, SlotsHoldOpenConns, SslMatchesFd, NfdsInBounds, AcceptingHeld, LineHeld, Slots
<1> QED  BY <1>5, <1>6 DEF IInv

(* Each field of a socket may take any value of its type.                  *)
LEMMA SocketFields ==
  ASSUME NEW r \in Socket
  PROVE  /\ \A v \in {"none", "hello", "replied", "finished", "badcert", "broken"} :
              [r EXCEPT !.hs = v] \in Socket
         /\ \A v \in {"up", "fin", "doomed", "reset", "rst"} : [r EXCEPT !.peer = v] \in Socket
         /\ \A v \in 0..MaxSegs : [r EXCEPT !.sent = v] \in Socket
         /\ \A v \in 0..MaxSegs : [r EXCEPT !.seen = v] \in Socket
         /\ \A v \in Seq(Record) : [r EXCEPT !.got = v] \in Socket
         /\ \A v \in Record : [r EXCEPT !.wpend = v] \in Socket
  BY DEF Socket

(* The records SSL_write makes of a line are records.                      *)
LEMMA RecordsMade ==
  ASSUME NEW c \in Conns, sock[c] \in Socket, line \in 0..MaxLines, total \in 0..TLS_RECORD_SIZE
  PROVE  /\ NoRecord \in Record /\ Rest(c) \in Record
         /\ \A g \in Seq(Record), x \in Record : Deliver(c, g, x) \in Seq(Record)
<1> USE ConstantsAssumption
<1>1. NoRecord \in Record
  BY DEF NoRecord, Record
<1>2. Rest(c) \in Record
  BY <1>1 DEF Rest, Record, Socket
<1>3. \A g \in Seq(Record), x \in Record : Append(g, x) \in Seq(Record)
  OBVIOUS
<1> QED  BY <1>1, <1>2, <1>3, Zenon DEF Deliver

(* What every step of the server's thread keeps: the sockets stay typed.   *)
LEMMA SockTyped ==
  ASSUME IInv, Next PROVE sock' \in [Conns -> Socket]
<1> USE ConstantsAssumption
<1>1. /\ sock \in [Conns -> Socket] /\ fds \in [Slots -> Conns \cup {NoFd}]
      /\ out_index \in Slots /\ line \in 0..MaxLines /\ total \in 0..TLS_RECORD_SIZE /\ nfds \in 2..MAX_CLIENTS /\ i \in 2..MAX_CLIENTS
  BY DEF IInv, TypeOK
<1>2. NewSocket \in Socket
  BY DEF NewSocket, NoRecord, Socket, Record
<1>3. ASSUME NEW c \in Conns, close(c) PROVE sock' \in [Conns -> Socket]
  BY <1>1, <1>2, <1>3 DEF close
<1>4. ASSUME pc \in {"tls", "tls_finish"} PROVE Accepting \in Conns
  BY <1>1, <1>4 DEF IInv, AcceptingHeld, Accepting
<1>5. ASSUME NEW k \in Slots, fds[k] # NoFd, pc # "tls" PROVE ssls[k] = fds[k] /\ ssls[k] \in Conns
  BY <1>1, <1>5 DEF IInv, SslMatchesFd
<1>6. ASSUME NEW c \in Conns PROVE AfterSend(c) \in {"up", "fin", "doomed", "reset", "rst"}
  BY <1>1 DEF Socket, AfterSend
<1>7. ASSUME reject, pc \in {"tls", "tls_finish"} PROVE sock' \in [Conns -> Socket]
  BY <1>3, <1>4, <1>7 DEF reject
<1>8. CASE SSL_accept_hello
  <2>1. Accepting \in Conns
    BY <1>4, <1>8 DEF SSL_accept_hello
  <2> DEFINE r == [sock[Accepting] EXCEPT !.hs = "replied"]
             q == [r EXCEPT !.peer = AfterSend(Accepting)]
  <2>2. r \in Socket
    BY <1>1, <2>1, SocketFields
  <2>3. q \in Socket
    BY <2>1, <2>2, <1>6, SocketFields
  <2>4. sock' = [sock EXCEPT ![Accepting] = q]
    BY <1>1, <1>8, <2>1 DEF SSL_accept_hello
  <2> QED
    BY <1>1, <2>1, <2>3, <2>4
<1>9. CASE tls_accept_function
  <2>1. Accepting \in Conns
    BY <1>4, <1>9 DEF tls_accept_function
  <2> DEFINE q == [sock[Accepting] EXCEPT !.peer = AfterSend(Accepting)]
  <2>2. q \in Socket
    BY <1>1, <2>1, <1>6, SocketFields
  <2>3. sock' = [sock EXCEPT ![Accepting] = q]
    BY <1>9 DEF tls_accept_function
  <2> QED
    BY <1>1, <2>1, <2>2, <2>3
<1>10. CASE broadcast
  <2>1. PICK k \in Targets : SSL_write(ssls[k])
    BY <1>10 DEF broadcast
  <2>2. k \in Slots /\ fds[k] # NoFd
    BY <1>1, <2>1 DEF Targets, Slots
  <2>3. ssls[k] \in Conns
    BY <1>5, <1>10, <2>2 DEF broadcast
  <2> DEFINE c == ssls[k]
  <2>4. /\ c \in Conns /\ sock[c] \in Socket
        /\ Rest(c) \in Record /\ NoRecord \in Record /\ sock[c].wpend \in Record
        /\ sock[c].got \in Seq(Record) /\ AfterSend(c) \in {"up", "fin", "doomed", "reset", "rst"}
        /\ \A g \in Seq(Record), x \in Record : Deliver(c, g, x) \in Seq(Record)
    <3>1. c \in Conns /\ sock[c] \in Socket
      BY <1>1, <2>3
    <3>2. sock[c].wpend \in Record /\ sock[c].got \in Seq(Record)
      BY <3>1 DEF Socket
    <3> HIDE DEF c
    <3> QED  BY <1>1, <1>6, <3>1, <3>2, RecordsMade
  <2> HIDE DEF c
  <2>5. ASSUME NEW g \in Seq(Record), NEW v \in {"up", "fin", "doomed", "reset", "rst"},
               NEW w \in Record,
               \/ sock' = [sock EXCEPT ![c].got = g, ![c].peer = v, ![c].wpend = w]
               \/ sock' = [sock EXCEPT ![c].peer = v, ![c].wpend = w]
        PROVE  sock' \in [Conns -> Socket]
    <3> DEFINE r0 == IF sock' = [sock EXCEPT ![c].peer = v, ![c].wpend = w]
                       THEN sock[c] ELSE [sock[c] EXCEPT !.got = g]
               r1 == [r0 EXCEPT !.peer = v]
               r2 == [r1 EXCEPT !.wpend = w]
    <3>1. r0 \in Socket  BY <2>4, SocketFields
    <3>2. r1 \in Socket  BY <3>1, SocketFields
    <3>3. r2 \in Socket  BY <3>2, SocketFields
    <3>4. sock' = [sock EXCEPT ![c] = r2]  BY <1>1, <2>4, <2>5
    <3> QED  BY <1>1, <2>4, <3>3, <3>4
  <2>6. CASE SSL_write_fails(c)
    <3>1. [sock[c] EXCEPT !.hs = "broken"] \in Socket  BY <2>4, SocketFields
    <3> QED  BY <1>1, <2>4, <2>6, <3>1 DEF SSL_write_fails
  <2>7. CASE SSL_write_sends(c)
    <3> DEFINE g == Deliver(c, Deliver(c, sock[c].got, sock[c].wpend), Rest(c))
    <3>1. g \in Seq(Record)  BY <2>4
    <3>2. sock' = [sock EXCEPT ![c].got = g, ![c].peer = AfterSend(c), ![c].wpend = NoRecord]
      BY <1>1, <2>4, <2>7 DEF SSL_write_sends
    <3> HIDE DEF g
    <3> QED  BY <2>4, <2>5, <3>1, <3>2
  <2>8. CASE SSL_write_full(c)
    <3> DEFINE g == Deliver(c, sock[c].got, sock[c].wpend)
               v == IF sock[c].wpend = NoRecord THEN sock[c].peer ELSE AfterSend(c)
    <3>1. g \in Seq(Record) /\ v \in {"up", "fin", "doomed", "reset", "rst"}
      <4>1. sock[c].peer \in {"up", "fin", "doomed", "reset", "rst"}
        BY <2>4 DEF Socket
      <4> QED  BY <2>4, <4>1
    <3>2. \/ UNCHANGED sock
          \/ sock' = [sock EXCEPT ![c].got = g, ![c].peer = v, ![c].wpend = Rest(c)]
      BY <1>1, <2>4, <2>8 DEF SSL_write_full
    <3> HIDE DEF g, v
    <3> QED  BY <1>1, <2>4, <2>5, <3>1, <3>2
  <2>9. CASE SSL_write_reset(c)
    <3> DEFINE w == IF sock[c].wpend = NoRecord THEN Rest(c) ELSE sock[c].wpend
    <3>1. w \in Record  BY <2>4
    <3>2. sock' = [sock EXCEPT ![c].peer = AfterSend(c), ![c].wpend = w]
      BY <1>1, <2>4, <2>9 DEF SSL_write_reset
    <3> HIDE DEF w
    <3> QED  BY <2>4, <2>5, <3>1, <3>2
  <2> QED
    BY <1>1, <2>1, <2>6, <2>7, <2>8, <2>9 DEF SSL_write, c
<1>11. ASSUME NEW k \in Slots, monitor(k) PROVE sock' \in [Conns -> Socket]
  <2>1. ssls[k] \in Conns
    BY <1>5, <1>11 DEF monitor, FirstDue, Due
  <2> DEFINE c == ssls[k]
             n == IF RecordReady(c) THEN 2 * (sock[c].seen \div 2) + 2 ELSE sock[c].sent
  <2>2. sock[c].seen \in 0..MaxSegs /\ sock[c].sent \in 0..MaxSegs
    BY <1>1, <2>1 DEF Socket
  <2>3. n \in 0..MaxSegs
    BY <2>2, RecordEnds DEF RecordReady
  <2> HIDE DEF n
  <2>4. sock' = [sock EXCEPT ![c].seen = n]
    BY <1>11, <2>1, <1>1 DEF monitor, n
  <2>5. [sock[c] EXCEPT !.seen = n] \in Socket
    BY <1>1, <2>1, <2>3, SocketFields
  <2> QED
    BY <1>1, <2>1, <2>4, <2>5
<1>12. ASSUME NEW k \in Slots, monitor_disconnect(k) \/ monitor_cleanup(k)
       PROVE sock' \in [Conns -> Socket]
  <2>1. fds[k] \in Conns
    BY <1>1, <1>12 DEF monitor_disconnect, monitor_cleanup, FirstDue, Due
  <2> QED
    BY <1>1, <1>3, <1>12, <2>1 DEF monitor_disconnect, monitor_cleanup, monitor_error
<1>13. ASSUME NEW c \in Conns, max_clients_reached(c) \/ tcp_accept_function(c) \/ PeerConnects(c)
       PROVE sock' \in [Conns -> Socket]
  BY <1>1, <1>3, <1>13 DEF max_clients_reached, tcp_accept_function, PeerConnects
<1>14. ASSUME NEW c \in Conns, Peer(c) PROVE sock' \in [Conns -> Socket]
  <2>1. PICK r \in Socket : sock' = [sock EXCEPT ![c] = r]
    <3>1. sock[c] \in Socket  BY <1>1
    <3>2. ASSUME NEW v \in {"hello", "finished", "badcert"},
                 sock' = [sock EXCEPT ![c].hs = v]
          PROVE  \E r \in Socket : sock' = [sock EXCEPT ![c] = r]
      <4>1. [sock[c] EXCEPT !.hs = v] \in Socket  BY <3>1, SocketFields
      <4> QED  BY <3>2, <4>1
    <3>3. ASSUME NEW v \in {"fin", "reset", "rst"}, sock' = [sock EXCEPT ![c].peer = v]
          PROVE  \E r \in Socket : sock' = [sock EXCEPT ![c] = r]
      <4>1. [sock[c] EXCEPT !.peer = v] \in Socket  BY <3>1, SocketFields
      <4> QED  BY <3>3, <4>1
    <3>4. ASSUME sock[c].sent < MaxSegs, sock' = [sock EXCEPT ![c].sent = @ + 1]
          PROVE  \E r \in Socket : sock' = [sock EXCEPT ![c] = r]
      <4>1. sock[c].sent + 1 \in 0..MaxSegs  BY <3>1, <3>4 DEF Socket
      <4>2. [sock[c] EXCEPT !.sent = sock[c].sent + 1] \in Socket  BY <3>1, <4>1, SocketFields
      <4> QED  BY <3>4, <4>2
    <3> QED  BY <1>14, <3>2, <3>3, <3>4 DEF Peer
  <2> QED
    BY <1>1, <2>1
<1>15. CASE SSL_new_fails \/ SSL_set_fd_fails \/ SSL_accept_no_hello \/ SSL_accept_fails
  BY <1>7, <1>15 DEF SSL_new_fails, SSL_set_fd_fails, SSL_accept_no_hello, SSL_accept_fails
<1>16. CASE \/ setup \/ poll_loop \/ accept_fails \/ read_server \/ read_server_eof
            \/ broadcast_returns \/ iteration_ends \/ Type
  BY <1>1, <1>16 DEF setup, poll_loop, accept_fails, read_server, read_server_eof,
     broadcast_returns, iteration_ends, Type
<1> QED
  BY <1>8, <1>9, <1>10, <1>11, <1>12, <1>13, <1>14, <1>15, <1>16 DEF Next, Server, Environment

(* A step leaves every variable but sock typed.                            *)
LEMMA ServerTyped ==
  ASSUME IInv, Next, sock' \in [Conns -> Socket] PROVE TypeOK'
<1> USE ConstantsAssumption
<1>1. TypeOK /\ NfdsInBounds
  BY DEF IInv
<1>2. ASSUME NEW c \in Conns, close(c)
      PROVE  conn' \in [Conns -> {"closed", "queued", "open"}]
  BY <1>1, <1>2 DEF TypeOK, close
<1>3. CASE setup \/ accept_fails \/ read_server_eof
  BY <1>1, <1>3 DEF setup, accept_fails, read_server_eof, TypeOK, slots, stdin, Goto
<1>4. CASE poll_loop
  <2>1. revents' \in SUBSET AllSlots
    <3>1. ASSUME NEW k \in revents' PROVE k \in AllSlots
      BY <1>1, <1>4, <3>1 DEF TypeOK, poll_loop, AllSlots
    <3> QED  BY <3>1
  <2> QED
    BY <1>1, <1>4, <2>1 DEF poll_loop, TypeOK, slots, stdin, Goto, AfterAccept
<1>5. ASSUME NEW c \in Conns, max_clients_reached(c) PROVE TypeOK'
  BY <1>1, <1>2, <1>5 DEF max_clients_reached, TypeOK, slots, stdin, Goto
<1>6. ASSUME NEW c \in Conns, tcp_accept_function(c) PROVE TypeOK'
  <2>1. PICK k \in FreeSlots : /\ fds' = [fds EXCEPT ![k] = c]
                               /\ revents' = revents \ {k}
                               /\ nfds' = IF k >= nfds THEN k + 1 ELSE nfds
                               /\ out_index' = k
    BY <1>6 DEF tcp_accept_function
  <2>2. k \in Slots
    BY DEF FreeSlots
  <2> QED
    BY <1>1, <1>6, <2>1, <2>2 DEF tcp_accept_function, TypeOK, stdin, Goto, Slots
<1>7. ASSUME reject, pc \in {"tls", "tls_finish"}, ssls' \in [Slots -> Conns \cup {NoFd}],
             freed' \in SUBSET Slots
      PROVE  TypeOK'
  <2>1. Accepting \in Conns
    BY <1>1, <1>7 DEF IInv, AcceptingHeld, TypeOK, Accepting
  <2>2. conn' \in [Conns -> {"closed", "queued", "open"}]
    BY <1>2, <1>7, <2>1 DEF reject
  <2> QED
    BY <1>1, <1>7, <2>2 DEF reject, TypeOK, NfdsInBounds, Slots, stdin
<1>8. CASE SSL_new_fails \/ SSL_set_fd_fails \/ SSL_accept_no_hello \/ SSL_accept_fails
  <2>1. Accepting \in Conns \cup {NoFd}
    BY <1>1 DEF TypeOK, Accepting
  <2> QED
    BY <1>1, <1>7, <1>8, <2>1 DEF TypeOK, SSL_new_fails, SSL_set_fd_fails,
       SSL_accept_no_hello, SSL_accept_fails
<1>9. CASE SSL_accept_hello
  <2>1. Accepting \in Conns \cup {NoFd}
    BY <1>1 DEF TypeOK, Accepting
  <2> QED
    BY <1>1, <1>9, <2>1 DEF TypeOK, SSL_accept_hello, stdin
<1>10. CASE tls_accept_function
  BY <1>1, <1>10 DEF TypeOK, tls_accept_function, AfterAccept, slots, stdin
<1>11. CASE read_server
  BY <1>1, <1>11 DEF TypeOK, read_server, slots, Goto
<1>12. CASE broadcast
  <2>1. PICK k \in Targets : SSL_write(ssls[k]) /\ i' = k + 1
    BY <1>12 DEF broadcast
  <2>2. i' \in 2..MAX_CLIENTS
    BY <1>1, <2>1 DEF TypeOK, Targets
  <2>3. pc' \in {"broadcast", "killed"}
    BY <2>1 DEF SSL_write
  <2> QED
    BY <1>1, <1>12, <2>2, <2>3 DEF TypeOK, broadcast, slots, stdin
<1>13. CASE broadcast_returns \/ iteration_ends
  BY <1>1, <1>13 DEF TypeOK, broadcast_returns, iteration_ends, slots, stdin, Goto
<1>14. ASSUME NEW k \in Slots, monitor(k) PROVE TypeOK'
  BY <1>1, <1>14, SMTT(30) DEF TypeOK, monitor, Slots, slots, stdin
<1>15. ASSUME NEW k \in Slots, FirstDue(k), monitor_error(k) PROVE TypeOK'
  <2>1. fds[k] \in Conns /\ k < nfds
    BY <1>1, <1>15 DEF FirstDue, Due, TypeOK
  <2>2. conn' \in [Conns -> {"closed", "queued", "open"}]
    BY <1>2, <1>15, <2>1 DEF monitor_error
  <2> QED
    BY <1>1, <1>15, <2>1, <2>2 DEF monitor_error, TypeOK, Slots, stdin
<1>16. ASSUME NEW k \in Slots, monitor_disconnect(k) \/ monitor_cleanup(k) PROVE TypeOK'
  BY <1>1, <1>15, <1>16 DEF TypeOK, monitor_disconnect, monitor_cleanup, slots, stdin
<1>17. ASSUME NEW c \in Conns, PeerConnects(c) \/ Peer(c) PROVE TypeOK'
  BY <1>1, <1>17 DEF TypeOK, PeerConnects, Peer, server, slots, stdin
<1>18. CASE Type
  <2>1. eof' \in BOOLEAN
    BY <1>1, <1>18 DEF TypeOK, Type
  <2> QED
    BY <1>1, <1>18, <2>1 DEF TypeOK, Type, server, slots
<1> QED
  BY <1>3, <1>4, <1>5, <1>6, <1>8, <1>9, <1>10, <1>11, <1>12, <1>13, <1>14, <1>16, <1>17,
     <1>18 DEF Next, Server, Environment

(* The table of descriptors survives every step.                           *)
LEMMA SlotsStep ==
  ASSUME IInv, Next PROVE SlotsHoldOpenConns' /\ AcceptingHeld'
<1> USE ConstantsAssumption
<1>1. /\ SlotsHoldOpenConns /\ AcceptingHeld
      /\ fds \in [Slots -> Conns \cup {NoFd}] /\ out_index \in Slots
      /\ conn \in [Conns -> {"closed", "queued", "open"}]
  BY DEF IInv, TypeOK
<1>2. ASSUME UNCHANGED <<fds, conn>> PROVE SlotsHoldOpenConns'
  BY <1>1, <1>2 DEF SlotsHoldOpenConns
<1>3. ASSUME NEW k \in Slots, fds[k] # NoFd, close(fds[k]), fds' = [fds EXCEPT ![k] = NoFd]
      PROVE  SlotsHoldOpenConns'
  BY <1>1, <1>3 DEF SlotsHoldOpenConns, close
<1>4. ASSUME NEW c \in Conns, conn[c] # "open", conn' = [conn EXCEPT ![c] = "closed"], fds' = fds
      PROVE  SlotsHoldOpenConns'
  BY <1>1, <1>4 DEF SlotsHoldOpenConns
<1>5. CASE \/ setup \/ poll_loop \/ accept_fails \/ SSL_accept_hello \/ tls_accept_function
           \/ read_server \/ read_server_eof \/ broadcast_returns \/ iteration_ends \/ Type
  BY <1>1, <1>2, <1>5 DEF setup, poll_loop, accept_fails, SSL_accept_hello, tls_accept_function,
     read_server, read_server_eof, broadcast_returns, iteration_ends, Type, AcceptingHeld,
     AfterAccept, Goto, server, slots
<1>6. CASE broadcast
  <2>1. pc' \in {"broadcast", "killed"} /\ fds' = fds /\ conn' = conn
    BY <1>6 DEF broadcast, SSL_write, slots
  <2> QED
    BY <1>2, <2>1 DEF AcceptingHeld
<1>7. ASSUME NEW c \in Conns, max_clients_reached(c)
      PROVE  SlotsHoldOpenConns' /\ AcceptingHeld'
  BY <1>1, <1>4, <1>7 DEF max_clients_reached, close, slots, AcceptingHeld, Goto
<1>8. ASSUME NEW c \in Conns, tcp_accept_function(c)
      PROVE  SlotsHoldOpenConns' /\ AcceptingHeld'
  <2>1. PICK k \in FreeSlots : fds' = [fds EXCEPT ![k] = c] /\ out_index' = k
    BY <1>8 DEF tcp_accept_function
  <2>2. k \in Slots /\ fds[k] = NoFd
    BY DEF FreeSlots
  <2>3. conn[c] = "queued" /\ conn' = [conn EXCEPT ![c] = "open"]
    BY <1>8 DEF tcp_accept_function
  <2> QED
    BY <1>1, <2>1, <2>2, <2>3 DEF SlotsHoldOpenConns, AcceptingHeld
<1>9. CASE SSL_new_fails \/ SSL_set_fd_fails \/ SSL_accept_no_hello \/ SSL_accept_fails
  BY <1>1, <1>3, <1>9 DEF SSL_new_fails, SSL_set_fd_fails, SSL_accept_no_hello,
     SSL_accept_fails, reject, Accepting, AcceptingHeld
<1>10. ASSUME NEW k \in Slots, monitor(k)
       PROVE  SlotsHoldOpenConns' /\ AcceptingHeld'
  BY <1>2, <1>10 DEF monitor, slots, AcceptingHeld
<1>11. ASSUME NEW k \in Slots, monitor_disconnect(k) \/ monitor_cleanup(k)
       PROVE  SlotsHoldOpenConns' /\ AcceptingHeld'
  <2>1. fds[k] # NoFd /\ pc = "monitor"
    BY <1>11 DEF monitor_disconnect, monitor_cleanup, FirstDue, Due
  <2> QED
    BY <1>2, <1>3, <1>11, <2>1 DEF monitor_disconnect, monitor_cleanup, monitor_error,
       slots, AcceptingHeld
<1>12. ASSUME NEW c \in Conns, PeerConnects(c) \/ Peer(c)
       PROVE  SlotsHoldOpenConns' /\ AcceptingHeld'
  BY <1>1, <1>12 DEF PeerConnects, Peer, server, slots, SlotsHoldOpenConns, AcceptingHeld
<1> QED
  BY <1>5, <1>6, <1>7, <1>8, <1>9, <1>10, <1>11, <1>12 DEF Next, Server, Environment

(* The SSL objects and nfds follow the table of descriptors.               *)
LEMMA SslStep ==
  ASSUME IInv, Next PROVE SslMatchesFd' /\ NfdsInBounds' /\ LineHeld'
<1> USE ConstantsAssumption
<1>1. TypeOK /\ SslMatchesFd /\ NfdsInBounds /\ LineHeld /\ AcceptingHeld
  BY DEF IInv
<1>2. ASSUME UNCHANGED slots, pc # "tls", pc' \notin {"tls", "tls_finish"}
      PROVE  SslMatchesFd' /\ NfdsInBounds'
  BY <1>1, <1>2 DEF SslMatchesFd, NfdsInBounds, slots
<1>3. CASE \/ setup \/ poll_loop \/ accept_fails \/ tls_accept_function \/ read_server
           \/ read_server_eof \/ broadcast_returns \/ iteration_ends
  BY <1>1, <1>2, <1>3 DEF setup, poll_loop, accept_fails, tls_accept_function, read_server,
     read_server_eof, broadcast_returns, iteration_ends, LineHeld, AfterAccept, Goto, TypeOK
<1>4. CASE broadcast
  <2>1. pc' \in {"broadcast", "killed"} /\ UNCHANGED <<slots, line, total>> /\ pc = "broadcast"
    BY <1>4 DEF broadcast, SSL_write
  <2> QED
    BY <1>1, <1>2, <2>1 DEF LineHeld
<1>5. ASSUME NEW c \in Conns, max_clients_reached(c)
      PROVE  SslMatchesFd' /\ NfdsInBounds' /\ LineHeld'
  BY <1>2, <1>5 DEF max_clients_reached, LineHeld, Goto
<1>6. ASSUME NEW c \in Conns, tcp_accept_function(c)
      PROVE  SslMatchesFd' /\ NfdsInBounds' /\ LineHeld'
  <2>1. PICK k \in FreeSlots : /\ fds' = [fds EXCEPT ![k] = c] /\ out_index' = k
                               /\ nfds' = IF k >= nfds THEN k + 1 ELSE nfds
    BY <1>6 DEF tcp_accept_function
  <2>2. k \in Slots
    BY DEF FreeSlots
  <2> QED
    BY <1>1, <1>6, <2>1, <2>2 DEF tcp_accept_function, SslMatchesFd, NfdsInBounds, LineHeld,
       TypeOK, Slots, Goto
<1>7. CASE SSL_new_fails \/ SSL_set_fd_fails \/ SSL_accept_no_hello \/ SSL_accept_fails
  BY <1>1, <1>7 DEF SSL_new_fails, SSL_set_fd_fails, SSL_accept_no_hello, SSL_accept_fails,
     reject, SslMatchesFd, NfdsInBounds, LineHeld, TypeOK, Slots
<1>8. CASE SSL_accept_hello
  BY <1>1, <1>8 DEF SSL_accept_hello, SslMatchesFd, NfdsInBounds, LineHeld, TypeOK, Accepting
<1>9. ASSUME NEW k \in Slots, monitor(k) PROVE SslMatchesFd' /\ NfdsInBounds' /\ LineHeld'
  BY <1>1, <1>2, <1>9 DEF monitor, LineHeld
<1>10. ASSUME NEW k \in Slots, monitor_disconnect(k) \/ monitor_cleanup(k)
       PROVE  SslMatchesFd' /\ NfdsInBounds' /\ LineHeld'
  <2>1. k < nfds /\ pc = "monitor"
    BY <1>1, <1>10 DEF monitor_disconnect, monitor_cleanup, FirstDue, Due, TypeOK
  <2>2. CASE monitor_error(k)
    BY <1>1, <2>1, <2>2 DEF monitor_error, SslMatchesFd, NfdsInBounds, LineHeld, TypeOK, Slots
  <2>3. CASE pc' = "killed" /\ UNCHANGED slots
    BY <1>2, <2>1, <2>3 DEF LineHeld
  <2> QED
    BY <1>10, <2>2, <2>3 DEF monitor_disconnect, monitor_cleanup
<1>11. ASSUME UNCHANGED server PROVE SslMatchesFd' /\ NfdsInBounds' /\ LineHeld'
  BY <1>1, <1>11 DEF server, slots, SslMatchesFd, NfdsInBounds, LineHeld
<1>12. ASSUME Environment PROVE UNCHANGED server
  BY <1>12 DEF Environment, Type, PeerConnects, Peer
<1> QED
  BY <1>3, <1>4, <1>5, <1>6, <1>7, <1>8, <1>9, <1>10, <1>11, <1>12 DEF Next, Server

(* Every behaviour of the server keeps the invariant.                      *)
THEOREM Invariance == Spec => []IInv
<1>1. IInv /\ [Next]_vars => IInv'
  <2>1. ASSUME IInv, Next PROVE IInv'
    BY <2>1, SockTyped, ServerTyped, SlotsStep, SslStep DEF IInv
  <2>2. ASSUME IInv, UNCHANGED vars PROVE IInv'
    BY <2>2 DEF IInv, vars, server, slots, stdin, TypeOK, SlotsHoldOpenConns, SslMatchesFd,
       NfdsInBounds, AcceptingHeld, LineHeld
  <2> QED  BY <2>1, <2>2
<1> QED  BY <1>1, InitIInv, PTL DEF Spec

(* tcp_accept_function, poll_loop and monitor never leak a client's        *)
(* descriptor, keep one in two slots, or keep one they closed.             *)
THEOREM SlotsSafe == Spec => []SlotsHoldOpenConns
  BY Invariance, PTL DEF IInv

(* broadcast and monitor never hand OpenSSL a freed object, or the object  *)
(* of another connection.                                                  *)
THEOREM SslSafe == Spec => []SslMatchesFd
  BY Invariance, PTL DEF IInv

(* nfds stays between 2 and the length of the arrays.                      *)
THEOREM NfdsSafe == Spec => []NfdsInBounds
  BY Invariance, PTL DEF IInv

(* Every variable keeps its type.                                          *)
THEOREM TypeCorrect == Spec => []TypeOK
  BY Invariance, PTL DEF IInv

-----------------------------------------------------------------------------
(* Records in order: no line twice, and the end of a line after the record *)
(* that stands for its start.                                              *)
InOrder(g) ==
  /\ \A a, b \in DOMAIN g : a < b => g[a].line < g[b].line
  /\ \A a \in DOMAIN g : g[a].from # 0 => a > 1 /\ g[a - 1].to = g[a].from

Below(g, n) == \A a \in DOMAIN g : g[a].line < n

EndsAt(g, at) == Len(g) > 0 /\ g[Len(g)].to = at

(* What the socket r was sent is in order and was read before line n, and  *)
(* its pending record comes next.                                          *)
Sound(r, n) ==
  /\ InOrder(r.got) /\ Below(r.got, n) /\ r.wpend.line < n
  /\ r.wpend # NoRecord => Below(r.got, r.wpend.line)
  /\ r.wpend.from # 0 /\ r.peer = "up" => EndsAt(r.got, r.wpend.from)

(* Nobody has been sent a line that was not read, and the clients that     *)
(* broadcast has not come to have not been sent the line it is sending.    *)
LInv ==
  /\ \A c \in Conns : Sound(sock[c], taken + 1)
  /\ pc = "broadcast" =>
       /\ line = taken
       /\ \A k \in Slots : k >= i /\ fds[k] # NoFd => Sound(sock[fds[k]], line)

(* Sending a record that comes next keeps the order.                       *)
LEMMA AppendInOrder ==
  ASSUME NEW g \in Seq(Record), NEW x \in Record, InOrder(g), Below(g, x.line),
         x.from # 0 => EndsAt(g, x.from)
  PROVE  /\ InOrder(Append(g, x)) /\ EndsAt(Append(g, x), x.to)
         /\ \A n \in Nat : x.line < n => Below(Append(g, x), n)
<1> DEFINE h == Append(g, x)
<1>1. /\ Len(g) \in Nat /\ DOMAIN g = 1..Len(g) /\ \A a \in 1..Len(g) : g[a] \in Record
      /\ DOMAIN h = 1..(Len(g) + 1) /\ Len(h) = Len(g) + 1
      /\ h[Len(g) + 1] = x /\ \A a \in 1..Len(g) : h[a] = g[a]
  OBVIOUS
<1>2. \A y \in Record : y.line \in Nat
  BY ConstantsAssumption DEF Record
<1> HIDE DEF h
<1>3. ASSUME NEW a \in DOMAIN h, NEW b \in DOMAIN h, a < b PROVE h[a].line < h[b].line
  <2>1. CASE b = Len(g) + 1
    BY <1>1, <1>3, <2>1 DEF Below
  <2>2. CASE b # Len(g) + 1
    BY <1>1, <1>3, <2>2 DEF InOrder
  <2> QED  BY <2>1, <2>2
<1>4. ASSUME NEW a \in DOMAIN h, h[a].from # 0 PROVE a > 1 /\ h[a - 1].to = h[a].from
  <2>1. CASE a = Len(g) + 1
    <3>1. EndsAt(g, x.from)  BY <1>1, <1>4, <2>1
    <3>2. Len(g) > 0 /\ g[Len(g)].to = x.from /\ a - 1 = Len(g)
      BY <1>1, <2>1, <3>1 DEF EndsAt
    <3>3. h[a - 1] = g[Len(g)]  BY <1>1, <3>2
    <3> QED  BY <1>1, <2>1, <3>2, <3>3
  <2>2. CASE a # Len(g) + 1
    <3>1. a \in DOMAIN g /\ h[a] = g[a]  BY <1>1, <1>4, <2>2
    <3>2. a > 1 /\ g[a - 1].to = g[a].from  BY <1>4, <3>1 DEF InOrder
    <3>3. h[a - 1] = g[a - 1]  BY <1>1, <3>1, <3>2
    <3> QED  BY <3>1, <3>2, <3>3
  <2> QED  BY <2>1, <2>2
<1>5. ASSUME NEW n \in Nat, x.line < n, NEW a \in DOMAIN h PROVE h[a].line < n
  <2>1. CASE a = Len(g) + 1
    BY <1>1, <1>5, <2>1
  <2>2. CASE a # Len(g) + 1
    <3>1. a \in DOMAIN g /\ h[a] = g[a]  BY <1>1, <1>5, <2>2
    <3>2. g[a].line < x.line /\ g[a].line \in Nat /\ x.line \in Nat
      BY <1>1, <1>2, <3>1 DEF Below
    <3> QED  BY <1>5, <3>1, <3>2
  <2> QED  BY <2>1, <2>2
<1>6. EndsAt(h, x.to)
  BY <1>1 DEF EndsAt
<1> QED  BY <1>3, <1>4, <1>5, <1>6 DEF h, InOrder, Below

(* Reading more lines, or a peer that leaves, takes nothing away.          *)
LEMMA SoundWeakens ==
  ASSUME NEW r \in Socket, NEW q \in Socket, NEW m \in Nat, NEW n \in Nat, m <= n, Sound(r, m),
         q.got = r.got, q.wpend = r.wpend, q.peer = "up" => r.peer = "up"
  PROVE  Sound(q, n)
<1>1. /\ r.wpend.line \in Nat /\ DOMAIN r.got = 1..Len(r.got)
      /\ \A a \in DOMAIN r.got : r.got[a] \in Record /\ r.got[a].line \in Nat
  <2>1. r.wpend \in Record /\ r.got \in Seq(Record)
    BY DEF Socket
  <2>2. \A x \in Record : x.line \in Nat
    BY ConstantsAssumption DEF Record
  <2> QED  BY <2>1, <2>2
<1>2. Below(q.got, n)
  BY <1>1 DEF Sound, Below
<1>3. q.wpend.line < n
  BY <1>1 DEF Sound
<1> QED  BY <1>2, <1>3 DEF Sound

(* The peers do not change what the server has sent.                       *)
LEMMA PeerSendsNothing ==
  ASSUME IInv, NEW c \in Conns, Peer(c)
  PROVE  \A d \in Conns : /\ sock'[d].got = sock[d].got /\ sock'[d].wpend = sock[d].wpend
                          /\ sock'[d].peer = "up" => sock[d].peer = "up"
<1>1. sock \in [Conns -> Socket] /\ sock[c] \in Socket
  BY DEF IInv, TypeOK
<1>2. \E v : \/ sock' = [sock EXCEPT ![c].hs = v] \/ sock' = [sock EXCEPT ![c].sent = v]
             \/ sock' = [sock EXCEPT ![c].peer = v] /\ v # "up"
  BY DEF Peer
<1>3. \A d \in Conns : d # c => sock'[d] = sock[d]
  BY <1>1, <1>2
<1>4. /\ sock'[c].got = sock[c].got /\ sock'[c].wpend = sock[c].wpend
      /\ sock'[c].peer = "up" => sock[c].peer = "up"
  BY <1>1, <1>2 DEF Socket
<1> QED  BY <1>3, <1>4, Zenon

(* A step that sends nothing keeps what was sent, or forgets it.           *)
LEMMA SentKept ==
  ASSUME IInv, Next, ~broadcast
  PROVE  \A c \in Conns : \/ /\ sock'[c].got = sock[c].got /\ sock'[c].wpend = sock[c].wpend
                             /\ sock'[c].peer = "up" => sock[c].peer = "up"
                          \/ sock'[c].got = <<>> /\ sock'[c].wpend = NoRecord
<1> USE ConstantsAssumption
<1>1. sock \in [Conns -> Socket] /\ fds \in [Slots -> Conns \cup {NoFd}] /\ out_index \in Slots
  BY DEF IInv, TypeOK
<1> DEFINE Kept == \A c \in Conns : \/ /\ sock'[c].got = sock[c].got /\ sock'[c].wpend = sock[c].wpend
                                       /\ sock'[c].peer = "up" => sock[c].peer = "up"
                                    \/ sock'[c].got = <<>> /\ sock'[c].wpend = NoRecord
<1>2. ASSUME NEW d, close(d) PROVE Kept
  BY <1>1, <1>2 DEF close, NewSocket, Socket
<1>3. ASSUME NEW d, NEW v, \/ sock' = [sock EXCEPT ![d].seen = v]
                           \/ sock' = [sock EXCEPT ![d].peer = v] /\ (v = "up" => sock[d].peer = "up")
      PROVE  Kept
  <2>1. ASSUME NEW c \in Conns, c # d PROVE sock'[c] = sock[c]
    BY <1>1, <1>3, <2>1
  <2>2. ASSUME NEW c \in Conns
        PROVE  /\ sock'[c].got = sock[c].got /\ sock'[c].wpend = sock[c].wpend
               /\ sock'[c].peer = "up" => sock[c].peer = "up"
    <3>1. CASE c = d
      <4>1. sock[c] \in Socket  BY <1>1, <2>2
      <4> QED  BY <1>1, <1>3, <2>2, <3>1, <4>1 DEF Socket
    <3>2. CASE c # d
      <4>1. sock'[c] = sock[c]  BY <2>1, <2>2, <3>2
      <4> QED  BY <4>1
    <3> QED  BY <3>1, <3>2
  <2> QED  BY <2>2, Zenon
<1>4. CASE UNCHANGED sock
  BY <1>4
<1>5. CASE SSL_accept_hello
  BY <1>1, <1>5 DEF SSL_accept_hello, AfterSend, Socket
<1>6. CASE tls_accept_function
  BY <1>3, <1>6 DEF tls_accept_function, AfterSend
<1>7. ASSUME NEW k \in Slots, monitor(k) \/ monitor_disconnect(k) \/ monitor_cleanup(k) PROVE Kept
  BY <1>2, <1>3, <1>4, <1>7 DEF monitor, monitor_disconnect, monitor_cleanup, monitor_error
<1>8. ASSUME NEW c \in Conns, \/ max_clients_reached(c) \/ tcp_accept_function(c)
                              \/ PeerConnects(c) \/ Peer(c)
      PROVE  Kept
  BY <1>2, <1>4, <1>8, PeerSendsNothing DEF max_clients_reached, tcp_accept_function, PeerConnects
<1>9. CASE SSL_new_fails \/ SSL_set_fd_fails \/ SSL_accept_no_hello \/ SSL_accept_fails
  BY <1>2, <1>9 DEF SSL_new_fails, SSL_set_fd_fails, SSL_accept_no_hello, SSL_accept_fails, reject
<1>10. CASE \/ setup \/ poll_loop \/ accept_fails \/ read_server \/ read_server_eof
            \/ broadcast_returns \/ iteration_ends \/ Type
  BY <1>4, <1>10 DEF setup, poll_loop, accept_fails, read_server, read_server_eof,
     broadcast_returns, iteration_ends, Type
<1> QED
  BY <1>5, <1>6, <1>7, <1>8, <1>9, <1>10 DEF Next, Server, Environment

(* Sending the pending record and what is left of the line keeps the       *)
(* order, wherever SSL_write stops.                                        *)
LEMMA WriteSound ==
  ASSUME NEW c \in Conns, sock \in [Conns -> Socket], line \in Nat, line \in 0..MaxLines, line # 0,
         total \in 0..TLS_RECORD_SIZE, Sound(sock[c], line), SSL_write(c)
  PROVE  Sound(sock'[c], line + 1) /\ \A d \in Conns : d # c => sock'[d] = sock[d]
<1> USE ConstantsAssumption
<1> DEFINE s == sock[c]
           p == s.wpend
           g1 == Deliver(c, s.got, p)
           g2 == Deliver(c, g1, Rest(c))
<1>1. s \in Socket /\ p \in Record /\ s.got \in Seq(Record)
  BY DEF Socket
<1>2. /\ Rest(c) \in Record /\ NoRecord \in Record
      /\ \A g \in Seq(Record), x \in Record : Deliver(c, g, x) \in Seq(Record)
  BY RecordsMade
<1>3. g1 \in Seq(Record) /\ g2 \in Seq(Record)
  BY <1>1, <1>2
<1>4. /\ \A x \in Record : x.line \in Nat /\ x.from \in Nat /\ x.to \in Nat
      /\ NoRecord.line = 0 /\ NoRecord.from = 0 /\ NoRecord.to = 0
  BY DEF Record, NoRecord
<1>5. Rest(c) # NoRecord => Rest(c).line = line /\ Rest(c).from = p.to
  BY DEF Rest
<1>6. /\ InOrder(s.got) /\ Below(s.got, line) /\ p.line < line
      /\ p # NoRecord => Below(s.got, p.line)
      /\ p.from # 0 /\ s.peer = "up" => EndsAt(s.got, p.from)
  BY DEF Sound
<1> HIDE DEF s
<1>7. ASSUME s.peer = "up"
      PROVE  /\ InOrder(g1) /\ Below(g1, line) /\ InOrder(g2) /\ Below(g2, line + 1)
             /\ Rest(c) # NoRecord =>
                  Below(g1, Rest(c).line) /\ (Rest(c).from # 0 => EndsAt(g1, Rest(c).from))
  <2>1. InOrder(g1) /\ Below(g1, line) /\ (p # NoRecord => EndsAt(g1, p.to))
    <3>1. CASE p = NoRecord
      <4>1. g1 = s.got  BY <3>1 DEF Deliver
      <4> QED  BY <1>6, <3>1, <4>1
    <3>2. CASE p # NoRecord
      <4>1. g1 = Append(s.got, p)  BY <1>7, <3>2 DEF Deliver, s
      <4> HIDE DEF p
      <4>2. InOrder(Append(s.got, p)) /\ EndsAt(Append(s.got, p), p.to) /\ Below(Append(s.got, p), line)
        BY <1>1, <1>6, <1>7, <3>2, AppendInOrder
      <4> QED  BY <4>1, <4>2
    <3> QED  BY <3>1, <3>2
  <2> HIDE DEF g1, p
  <2>2. InOrder(g2) /\ Below(g2, line + 1)
    <3>1. CASE Rest(c) = NoRecord
      <4>1. g2 = g1  BY <3>1 DEF Deliver
      <4>2. \A a \in DOMAIN g1 : g1[a] \in Record  BY <1>3
      <4> QED  BY <1>4, <2>1, <4>1, <4>2 DEF Below
    <3>2. CASE Rest(c) # NoRecord
      <4>1. g2 = Append(g1, Rest(c))  BY <1>7, <3>2 DEF Deliver, s
      <4>2. Rest(c).from # 0 => EndsAt(g1, Rest(c).from)
        BY <1>4, <1>5, <2>1, <3>2
      <4>3. Below(g1, Rest(c).line) /\ Rest(c).line < line + 1 /\ line + 1 \in Nat
        BY <1>5, <2>1, <3>2
      <4> QED  BY <1>2, <1>3, <2>1, <4>1, <4>2, <4>3, AppendInOrder
    <3> QED  BY <3>1, <3>2
  <2>3. Rest(c) # NoRecord => Below(g1, Rest(c).line) /\ (Rest(c).from # 0 => EndsAt(g1, Rest(c).from))
    BY <1>4, <1>5, <2>1
  <2> QED  BY <1>7, <2>1, <2>2, <2>3
<1>8. ASSUME s.peer # "up"
      PROVE  /\ g1 = s.got /\ g2 = s.got /\ InOrder(g1) /\ Below(g1, line) /\ Below(g2, line + 1)
             /\ Rest(c) # NoRecord => Below(g1, Rest(c).line)
  <2>1. g1 = s.got /\ g2 = s.got
    BY <1>8 DEF Deliver, s
  <2>2. \A a \in DOMAIN s.got : s.got[a] \in Record
    BY <1>1
  <2>3. Below(s.got, line + 1)
    BY <1>4, <1>6, <2>2 DEF Below
  <2> QED  BY <1>5, <1>6, <2>1, <2>3
<1>9. ASSUME sock'[c].got = s.got, sock'[c].wpend = p, sock'[c].peer = "up" => s.peer = "up",
             sock'[c] \in Socket
      PROVE  Sound(sock'[c], line + 1)
  BY <1>1, <1>9, SoundWeakens DEF s
<1> HIDE DEF g1, g2, p
<1>10. CASE SSL_write_fails(c)
  <2>1. sock' = [sock EXCEPT ![c] = [s EXCEPT !.hs = "broken"]]
    BY <1>10 DEF SSL_write_fails, s
  <2>2. [s EXCEPT !.hs = "broken"] \in Socket
    BY <1>1, SocketFields
  <2>3. sock'[c] = [s EXCEPT !.hs = "broken"] /\ \A d \in Conns : d # c => sock'[d] = sock[d]
    BY <2>1
  <2>4. sock'[c].got = s.got /\ sock'[c].wpend = p /\ sock'[c].peer = s.peer
    BY <1>1, <2>3 DEF Socket, p
  <2> QED  BY <1>9, <2>2, <2>3, <2>4
<1>11. CASE SSL_write_sends(c)
  <2>1. sock'[c].got = g2 /\ sock'[c].wpend = NoRecord /\ \A d \in Conns : d # c => sock'[d] = sock[d]
    <3>1. sock' = [sock EXCEPT ![c] = [s EXCEPT !.got = g2, !.peer = AfterSend(c), !.wpend = NoRecord]]
      BY <1>11 DEF SSL_write_sends, s, p, g1, g2
    <3> QED  BY <1>1, <3>1 DEF Socket
  <2>2. InOrder(g2) /\ Below(g2, line + 1)
    BY <1>6, <1>7, <1>8
  <2> QED  BY <1>4, <2>1, <2>2 DEF Sound
<1>12. CASE SSL_write_full(c) /\ ~UNCHANGED sock
  <2>1. /\ sock'[c].got = g1 /\ sock'[c].wpend = Rest(c) /\ Rest(c) # NoRecord
        /\ sock'[c].peer \in {s.peer, AfterSend(c)} /\ \A d \in Conns : d # c => sock'[d] = sock[d]
    <3> DEFINE v == IF p = NoRecord THEN s.peer ELSE AfterSend(c)
    <3>1. sock' = [sock EXCEPT ![c] = [s EXCEPT !.got = g1, !.peer = v, !.wpend = Rest(c)]]
      BY <1>12 DEF SSL_write_full, s, p, g1
    <3>2. Rest(c) # NoRecord
      BY <1>12 DEF SSL_write_full
    <3>3. v \in {s.peer, AfterSend(c)}
      OBVIOUS
    <3> HIDE DEF v
    <3> QED  BY <1>1, <3>1, <3>2, <3>3 DEF Socket
  <2>2. sock'[c].peer = "up" => s.peer = "up"
    BY <2>1 DEF AfterSend, s
  <2>3. InOrder(g1) /\ Below(g1, line) /\ Below(g1, Rest(c).line) /\ Rest(c).line = line
    BY <1>5, <1>7, <1>8, <2>1
  <2>4. Below(g1, line + 1)
    <3>1. \A a \in DOMAIN g1 : g1[a] \in Record  BY <1>3
    <3> QED  BY <1>4, <2>3, <3>1 DEF Below
  <2> QED  BY <1>7, <2>1, <2>2, <2>3, <2>4 DEF Sound
<1>13. CASE SSL_write_reset(c)
  <2> DEFINE w == IF p = NoRecord THEN Rest(c) ELSE p
  <2>1. /\ sock'[c].got = s.got /\ sock'[c].wpend = w /\ sock'[c].peer = AfterSend(c)
        /\ \A d \in Conns : d # c => sock'[d] = sock[d]
    <3>1. sock' = [sock EXCEPT ![c] = [s EXCEPT !.peer = AfterSend(c), !.wpend = w]]
      BY <1>13 DEF SSL_write_reset, s, p
    <3> HIDE DEF w
    <3> QED  BY <1>1, <3>1 DEF Socket
  <2>2. s.peer # "up" /\ AfterSend(c) # "up"
    BY <1>13 DEF SSL_write_reset, AfterSend, s
  <2>3. w.line < line + 1 /\ (w # NoRecord => Below(s.got, w.line))
    <3>1. p.line \in Nat /\ NoRecord.line < line + 1  BY <1>1, <1>4 DEF p
    <3>2. CASE p = NoRecord
      <4>1. w = Rest(c)  BY <3>2
      <4> QED  BY <1>5, <1>8, <2>2, <3>1, <4>1
    <3>3. CASE p # NoRecord
      <4>1. w = p  BY <3>3
      <4> QED  BY <1>6, <3>1, <3>3, <4>1
    <3> QED  BY <3>2, <3>3
  <2>4. InOrder(s.got) /\ Below(s.got, line + 1)
    BY <1>6, <1>8, <2>2
  <2> HIDE DEF w
  <2> QED  BY <2>1, <2>2, <2>3, <2>4 DEF Sound
<1>14. CASE UNCHANGED sock
  BY <1>1, <1>9, <1>14 DEF s, p
<1> QED  BY <1>10, <1>11, <1>12, <1>13, <1>14 DEF SSL_write

(* broadcast's SSL_write sends the next line or an earlier one, in order.  *)
LEMMA BroadcastOrdered ==
  ASSUME IInv, LInv, broadcast PROVE LInv'
<1> USE ConstantsAssumption
<1>1. /\ sock \in [Conns -> Socket] /\ fds \in [Slots -> Conns \cup {NoFd}]
      /\ nfds \in 2..MAX_CLIENTS /\ i \in 2..MAX_CLIENTS /\ taken \in 0..MaxLines
      /\ line \in 0..MaxLines /\ total \in 0..TLS_RECORD_SIZE
  BY DEF IInv, TypeOK
<1>2. PICK k \in Targets : SSL_write(ssls[k]) /\ i' = k + 1
  BY DEF broadcast
<1>3. k \in Slots /\ fds[k] # NoFd /\ k >= i
  BY <1>1 DEF Targets, Slots
<1>4. pc = "broadcast" /\ pc' \in {"broadcast", "killed"} /\ UNCHANGED <<fds, line, taken>>
  BY <1>2 DEF broadcast, SSL_write, slots, stdin
<1> DEFINE c == fds[k]
<1>5. c \in Conns /\ ssls[k] = c
  BY <1>1, <1>3, <1>4 DEF IInv, SslMatchesFd
<1>6. line = taken /\ line # 0 /\ line \in Nat /\ Sound(sock[c], line)
  BY <1>1, <1>3, <1>4, <1>5 DEF LInv, IInv, LineHeld
<1> HIDE DEF c
<1>7. Sound(sock'[c], line + 1) /\ \A d \in Conns : d # c => sock'[d] = sock[d]
  BY <1>1, <1>2, <1>5, <1>6, WriteSound
<1>8. \A d \in Conns : Sound(sock'[d], taken' + 1)
  BY <1>4, <1>6, <1>7 DEF LInv
<1>9. ASSUME NEW j \in Slots, j >= k + 1, fds[j] # NoFd PROVE Sound(sock'[fds[j]], line)
  <2>1. j # k /\ j >= i
    BY <1>1, <1>3, <1>9 DEF Slots
  <2>2. fds[j] \in Conns /\ fds[j] # c
    BY <1>1, <1>3, <1>9, <2>1 DEF IInv, SlotsHoldOpenConns, c
  <2> QED  BY <1>4, <1>7, <1>9, <2>1, <2>2 DEF LInv
<1> QED  BY <1>2, <1>4, <1>6, <1>8, <1>9 DEF LInv

(* Every other step sends nothing and reads at most one more line.         *)
LEMMA OtherOrdered ==
  ASSUME IInv, LInv, Next, ~broadcast PROVE LInv'
<1> USE ConstantsAssumption
<1>1. /\ sock \in [Conns -> Socket] /\ fds \in [Slots -> Conns \cup {NoFd}] /\ taken \in Nat
  BY DEF IInv, TypeOK
<1>2. sock' \in [Conns -> Socket]
  BY SockTyped
<1>3. taken' = taken \/ taken' = taken + 1
  BY DEF Next, Server, Environment, setup, poll_loop, accept_fails, max_clients_reached,
     tcp_accept_function, SSL_new_fails, SSL_set_fd_fails, SSL_accept_no_hello, SSL_accept_hello,
     SSL_accept_fails, tls_accept_function, read_server, read_server_eof, broadcast_returns, monitor,
     monitor_disconnect, monitor_cleanup, monitor_error, iteration_ends, Type, PeerConnects, Peer,
     reject, stdin
<1>4. ASSUME NEW c \in Conns PROVE Sound(sock'[c], taken' + 1)
  <2>1. Sound(sock[c], taken + 1) /\ taken + 1 \in Nat /\ taken' + 1 \in Nat /\ taken + 1 <= taken' + 1
    BY <1>1, <1>3 DEF LInv
  <2>2. CASE sock'[c].got = <<>> /\ sock'[c].wpend = NoRecord
    BY <1>1, <1>3, <2>2 DEF Sound, InOrder, Below, NoRecord
  <2>3. CASE /\ sock'[c].got = sock[c].got /\ sock'[c].wpend = sock[c].wpend
             /\ sock'[c].peer = "up" => sock[c].peer = "up"
    <3>1. sock[c] \in Socket /\ sock'[c] \in Socket  BY <1>1, <1>2
    <3> QED  BY <2>1, <2>3, <3>1, SoundWeakens
  <2> QED  BY <2>2, <2>3, SentKept
<1>5. ASSUME pc' = "broadcast"
      PROVE  /\ line' = taken'
             /\ \A k \in Slots : k >= i' /\ fds'[k] # NoFd => Sound(sock'[fds'[k]], line')
  <2>1. CASE read_server
    <3>1. line' = taken + 1 /\ taken' = taken + 1 /\ fds' = fds /\ sock' = sock
      BY <2>1 DEF read_server, slots
    <3>2. \A c \in Conns : Sound(sock[c], taken + 1)
      BY DEF LInv
    <3> QED  BY <1>1, <3>1, <3>2
  <2>2. CASE Environment
    <3>1. pc = "broadcast" /\ UNCHANGED <<line, taken, fds, i>>
      BY <1>5, <2>2 DEF Environment, Type, PeerConnects, Peer, server, slots, stdin
    <3>2. \A c \in Conns : /\ sock'[c].got = sock[c].got /\ sock'[c].wpend = sock[c].wpend
                           /\ sock'[c].peer = "up" => sock[c].peer = "up"
      BY <2>2, PeerSendsNothing DEF Environment, Type, PeerConnects
    <3>3. ASSUME NEW k \in Slots, k >= i, fds[k] # NoFd PROVE Sound(sock'[fds[k]], line)
      <4>1. fds[k] \in Conns /\ line = taken /\ line \in Nat /\ Sound(sock[fds[k]], line)
        BY <1>1, <3>1, <3>3 DEF LInv
      <4>2. sock[fds[k]] \in Socket /\ sock'[fds[k]] \in Socket
        BY <1>1, <1>2, <4>1
      <4>3. line <= line
        BY <4>1
      <4> QED  BY <3>2, <4>1, <4>2, <4>3, SoundWeakens
    <3> QED  BY <3>1, <3>3 DEF LInv
  <2>3. ASSUME Server, ~read_server PROVE FALSE
    BY <1>5, <2>3 DEF Server, setup, poll_loop, accept_fails, max_clients_reached,
       tcp_accept_function, SSL_new_fails, SSL_set_fd_fails, SSL_accept_no_hello, SSL_accept_hello,
       SSL_accept_fails, tls_accept_function, read_server_eof, broadcast_returns, monitor,
       monitor_disconnect, monitor_cleanup, monitor_error, iteration_ends, reject, Goto, AfterAccept
  <2> QED  BY <2>1, <2>2, <2>3 DEF Next
<1> QED  BY <1>4, <1>5 DEF LInv

(* A client gets no line twice and none after a later one, and the end of  *)
(* a line only after the record that stands for its start, for lines of    *)
(* every length: broadcast ignores what SSL_write returns, and a full      *)
(* socket makes a later call send an earlier line, or fail the session.    *)
THEOREM LinesAlwaysInOrder == Spec => []LinesInOrder
<1>1. Init => LInv
  BY ConstantsAssumption DEF Init, LInv, NewSocket, NoRecord, Sound, InOrder, Below
<1>2. IInv /\ LInv /\ [Next]_vars => LInv'
  <2>1. ASSUME LInv, UNCHANGED vars PROVE LInv'
    BY <2>1 DEF vars, server, slots, stdin, LInv
  <2> QED  BY <2>1, BroadcastOrdered, OtherOrdered
<1>3. LInv => LinesInOrder
  BY DEF LInv, Sound, InOrder, Below, LinesInOrder
<1> QED  BY <1>1, <1>2, <1>3, Invariance, PTL DEF Spec
=============================================================================
