------------------------------ MODULE MtlsClient ------------------------------
(***************************************************************************)
(* The client of projects/networking/mtls-chat (client.c): it connects and *)
(* completes the handshake on a blocking socket, makes the socket          *)
(* non-blocking, and then polls stdin and the socket.  The server's first  *)
(* record after the handshake carries the session ticket, which SSL_read   *)
(* consumes without returning anything.  The result of SSL_write is not    *)
(* looked at, so a full socket leaves a record pending in the SSL object.  *)
(***************************************************************************)
EXTENDS Naturals

CONSTANTS
  MaxLines,     \* bound: reads of stdin that return data
  MaxSegs,      \* bound: segments the server sends, two to a record
  StdinCloses   \* whether stdin may reach end of file

ASSUME ConstantsAssumption ==
  MaxLines \in Nat /\ MaxSegs \in Nat /\ StdinCloses \in BOOLEAN

VARIABLES
  pc,        \* where the client is
  nonblock,  \* O_NONBLOCK is set on the socket
  revents,   \* slots of fds with POLLIN set: 0 stdin, 1 socket
  peer,      \* the server's end: see MtlsServer
  hello,     \* the server's answer in the handshake, if it has come
  wpend,     \* a record is pending in the SSL object, or has broken it
  sent,      \* segments the server has sent
  seen,      \* segments SSL_read has taken
  typed,     \* lines that became available on stdin
  taken,     \* lines read_client has read
  eof        \* stdin is at end of file

link == <<peer, hello, sent, seen>>
stdin == <<typed, taken, eof>>
vars == <<pc, nonblock, revents, wpend, link, stdin>>

TypeOK ==
  /\ pc \in {"setup_context", "connect", "SSL_connect", "poll", "stdin", "write", "monitor",
             "exited", "killed"}
  /\ nonblock \in BOOLEAN /\ revents \subseteq {0, 1}
  /\ peer \in {"up", "fin", "doomed", "reset", "rst"}
  /\ hello \in {"none", "good", "bad"} /\ wpend \in {"none", "pending", "broken"}
  /\ sent \in 0..MaxSegs /\ seen \in 0..MaxSegs
  /\ typed \in 0..MaxLines /\ taken \in 0..MaxLines /\ eof \in BOOLEAN

Init ==
  /\ pc = "setup_context" /\ nonblock = FALSE /\ revents = {}
  /\ peer = "up" /\ hello = "none" /\ wpend = "none" /\ sent = 0 /\ seen = 0
  /\ typed = 0 /\ taken = 0 /\ eof = FALSE

(* Every error of setup_context exits.                                     *)
setup_context ==
  /\ pc = "setup_context" /\ pc' \in {"connect", "exited"}
  /\ UNCHANGED <<nonblock, revents, wpend, link, stdin>>

(* tcp_tls_connect: connect() returns, if only when it times out; it and   *)
(* the calls around it exit when they fail.                                *)
connect ==
  /\ pc = "connect" /\ pc' \in {"SSL_connect", "exited"}
  /\ UNCHANGED <<nonblock, revents, wpend, link, stdin>>

(* Mutant: the socket stays blocking.                                      *)
SSL_connect_blocking ==
  /\ pc = "SSL_connect" /\ hello = "good" /\ peer \in {"up", "fin"}
  /\ pc' = "poll"
  /\ peer' = IF peer = "fin" THEN "doomed" ELSE peer
  /\ UNCHANGED <<nonblock, revents, wpend, hello, sent, seen, stdin>>

(* SSL_connect() waits for the server's answer as long as the server takes *)
(* and sends its own; then fcntl().                                        *)
SSL_connect ==
  /\ pc = "SSL_connect"
  /\ \/ /\ hello = "good" /\ peer \in {"up", "fin"}
        /\ pc' = "poll" /\ nonblock' = TRUE
        /\ peer' = IF peer = "fin" THEN "doomed" ELSE peer
     \/ /\ hello = "bad" \/ (hello = "none" /\ peer # "up") \/ peer = "reset"
        /\ pc' = "exited" /\ UNCHANGED <<nonblock, peer>>
  /\ UNCHANGED <<revents, wpend, hello, sent, seen, stdin>>

AfterStdin(rv) == IF 1 \in rv THEN "monitor" ELSE "poll"

Readable == seen < sent \/ peer # "up"

poll_loop ==
  /\ pc = "poll"
  /\ revents' = (IF taken < typed \/ eof THEN {0} ELSE {}) \cup (IF Readable THEN {1} ELSE {})
  /\ pc' = IF 0 \in revents' THEN "stdin" ELSE AfterStdin(revents')
  /\ UNCHANGED <<nonblock, wpend, link, stdin>>

(* read_client: the end of stdin makes poll_loop continue.                 *)
read_client ==
  /\ pc = "stdin"
  /\ \/ taken < typed /\ taken' = taken + 1 /\ pc' = "write"
     \/ taken = typed /\ pc' = "poll" /\ UNCHANGED taken
  /\ UNCHANGED <<nonblock, revents, wpend, link, typed, eof>>

(* SSL_write on the non-blocking socket, with SIGPIPE at its default.  The *)
(* socket may be full, which leaves the record pending; then the next line *)
(* is taken for its retry, and if it is shorter the session is broken.     *)
SSL_write_fails ==
  /\ wpend # "none"
  /\ wpend' = "broken" /\ UNCHANGED peer

SSL_write_sends ==
  /\ wpend # "broken" /\ peer \in {"up", "fin", "doomed"}
  /\ wpend' = "none"
  /\ peer' = IF peer = "fin" THEN "doomed" ELSE peer

SSL_write_full ==
  /\ wpend # "broken" /\ peer \in {"up", "fin", "doomed"} /\ nonblock
  /\ wpend' = "pending" /\ UNCHANGED peer

SSL_write_reset ==
  /\ wpend # "broken" /\ peer = "reset"
  /\ wpend' = "pending" /\ peer' = "rst"

(* RST has come, or comes between the pending record and the rest.         *)
SSL_write_killed ==
  /\ wpend # "broken"
  /\ peer = "rst" \/ (peer \in {"fin", "doomed"} /\ wpend = "pending")
  /\ UNCHANGED <<wpend, peer>>

SSL_write ==
  /\ pc = "write"
  /\ \/ /\ SSL_write_fails \/ SSL_write_sends \/ SSL_write_full \/ SSL_write_reset
        /\ pc' = AfterStdin(revents)
     \/ SSL_write_killed /\ pc' = "killed"
  /\ UNCHANGED <<nonblock, revents, hello, sent, seen, stdin>>

(* The last segments of the complete, unread records that are not the      *)
(* ticket, and the one SSL_read returns.                                   *)
DataReady == {n \in (seen + 1)..sent : n % 2 = 0 /\ n > 2}
NextData == CHOOSE n \in DataReady : \A m \in DataReady : n <= m

(* Mutant: a closed connection is taken for one with nothing to read yet.  *)
monitor_goes_on ==
  /\ pc = "monitor" /\ pc' = "poll"
  /\ seen' = IF DataReady # {} THEN NextData ELSE sent
  /\ UNCHANGED <<nonblock, revents, wpend, peer, hello, sent, stdin>>

(* SSL_read returns a record, which is printed; or takes what there is of  *)
(* one and returns SSL_ERROR_WANT_READ, where a blocking socket would      *)
(* wait; or the server has gone, or the session is broken, and the client  *)
(* exits.                                                                  *)
monitor ==
  /\ pc = "monitor"
  /\ \/ /\ DataReady # {} /\ wpend # "broken"
        /\ seen' = NextData /\ pc' = "poll"
     \/ /\ DataReady = {} /\ peer = "up" /\ nonblock /\ wpend # "broken"
        /\ seen' = sent /\ pc' = "poll"
     \/ /\ (DataReady = {} /\ peer # "up") \/ wpend = "broken"
        /\ pc' = "exited" /\ UNCHANGED seen
  /\ UNCHANGED <<nonblock, revents, wpend, peer, hello, sent, stdin>>

-----------------------------------------------------------------------------
(* The server, which may never answer, and the person at stdin.            *)
Connected == pc \notin {"setup_context", "connect", "SSL_connect"}

Peer ==
  /\ \/ /\ peer = "up" /\ pc = "SSL_connect" /\ hello = "none"
        /\ hello' \in {"good", "bad"} /\ UNCHANGED <<peer, sent>>
     \/ /\ peer = "up" /\ sent < MaxSegs /\ Connected
        /\ sent' = sent + 1 /\ UNCHANGED <<peer, hello>>
     \/ /\ peer = "up" /\ pc \notin {"setup_context", "connect"}
        /\ peer' \in {"fin", "reset"} /\ UNCHANGED <<hello, sent>>
     \/ /\ peer = "doomed"
        /\ peer' = "rst" /\ UNCHANGED <<hello, sent>>
  /\ UNCHANGED <<pc, nonblock, revents, wpend, seen, stdin>>

Type ==
  /\ ~eof
  /\ \/ typed < MaxLines /\ typed' = typed + 1 /\ UNCHANGED eof
     \/ StdinCloses /\ eof' = TRUE /\ UNCHANGED typed
  /\ UNCHANGED <<pc, nonblock, revents, wpend, link, taken>>

Client ==
  \/ setup_context \/ connect \/ SSL_connect \/ poll_loop \/ read_client \/ SSL_write \/ monitor

Stopped == pc \in {"exited", "killed"}

Next == Client \/ (~Stopped /\ (Peer \/ Type))

Spec == Init /\ [][Next]_vars

(* The scheduler runs the client; the server and its user owe nothing.     *)
FairSpec == Spec /\ WF_vars(Client)

-----------------------------------------------------------------------------
(* Once the handshake is over, a line typed at the client is read and      *)
(* handed to SSL_write although the server has sent a session ticket, or   *)
(* half a record, and nothing more, and although the socket is full.       *)
StdinServed == (Connected /\ taken < typed) ~> ((taken = typed /\ pc # "write") \/ Stopped)

(* What the server sends is read, and its disconnect ends the client, as   *)
(* long as stdin stays open.                                               *)
ServerHeard == (pc = "poll" /\ Readable) ~> (~Readable \/ Stopped \/ eof)
=============================================================================
