-------------------------------- MODULE TcpChat --------------------------------
(***************************************************************************)
(* The tcp-suite as a whole: the server of TcpServer, with client.c as     *)
(* each of its peers.  The client is one thread too: it polls its socket   *)
(* and its stdin, and both its read() and its write() block.  MaxSegs      *)
(* bounds the lines typed at a client.                                     *)
(***************************************************************************)
EXTENDS TcpServer

CONSTANTS
  RecvBuffer,  \* bound: segments a socket holds for a server that does not read
  Typists      \* bound: the clients at which somebody types or ends stdin

ASSUME ChatAssumption == RecvBuffer \in Nat \ {0} /\ Typists \subseteq Conns

VARIABLES
  cpc,      \* where each client is
  crevents  \* slots of the client's fds with POLLIN set: 0 socket, 1 stdin

cvars == <<vars, cpc, crevents>>

ChatInit ==
  /\ Init
  /\ cpc = [c \in Conns |-> "connectf"]
  /\ crevents = [c \in Conns |-> {}]

CGoto(c, from, to) == cpc[c] = from /\ cpc' = [cpc EXCEPT ![c] = to]

(* The server has closed the connection, or its process has ended.         *)
ServerGone(c) == conn[c] = "closed" \/ ~Running

(* main: close(socket_fd), or the kernel's when the process ends; unread   *)
(* bytes make it an abort.                                                 *)
CloseSocket(c) ==
  sock' = IF ServerGone(c) THEN sock
          ELSE [sock EXCEPT ![c].peer = IF sock[c].queued > 0 THEN "reset" ELSE "fin",
                            ![c].queued = 0]

-----------------------------------------------------------------------------
connectf(c) ==
  /\ \/ Running /\ PeerConnects(c) /\ CGoto(c, "connectf", "poll")
     \/ /\ pc = "setup" \/ ~Running
        /\ CGoto(c, "connectf", "returned")
        /\ UNCHANGED vars
  /\ UNCHANGED crevents

(* Mutant: the socket's events are left out of poll().                     *)
readaw_poll_stdin_only(c, typing) ==
  /\ cpc[c] = "poll" /\ typing
  /\ crevents' = [crevents EXCEPT ![c] = {1}]
  /\ cpc' = [cpc EXCEPT ![c] = "stdin"]
  /\ UNCHANGED vars

(* Mutant: a return of poll() is taken for data on the socket.             *)
readaw_poll_any(c, typing) ==
  /\ cpc[c] = "poll" /\ (typing \/ sock[c].queued > 0 \/ ServerGone(c))
  /\ crevents' = [crevents EXCEPT ![c] = IF typing THEN {0, 1} ELSE {0}]
  /\ cpc' = [cpc EXCEPT ![c] = "socket"]
  /\ UNCHANGED vars

(* poll(): somebody may be typing, or have ended, the client's stdin.      *)
readaw_poll(c, typing) ==
  /\ cpc[c] = "poll"
  /\ crevents' = [crevents EXCEPT ![c] =
       (IF sock[c].queued > 0 \/ ServerGone(c) THEN {0} ELSE {})
         \cup (IF typing THEN {1} ELSE {})]
  /\ cpc' = [cpc EXCEPT ![c] = IF 0 \in crevents'[c] THEN "socket"
                               ELSE IF 1 \in crevents'[c] THEN "stdin" ELSE "poll"]
  /\ UNCHANGED vars

(* Mutant: the client goes on after the end of the stream.                 *)
readaw_disconnected_ignored(c) ==
  /\ sock[c].queued = 0 /\ ServerGone(c)
  /\ CGoto(c, "socket", "poll")
  /\ UNCHANGED <<vars, crevents>>

(* read() from the server takes what has arrived; its end makes readaw     *)
(* return 1.                                                               *)
readaw_read(c) ==
  /\ sock[c].queued > 0
  /\ sock' = [sock EXCEPT ![c].queued = 0]
  /\ CGoto(c, "socket", IF 1 \in crevents[c] THEN "stdin" ELSE "poll")
  /\ UNCHANGED <<server, conn, written, stdin, crevents>>

readaw_disconnected(c) ==
  /\ sock[c].queued = 0 /\ ServerGone(c)
  /\ CGoto(c, "socket", "returned")
  /\ UNCHANGED <<vars, crevents>>

(* read() from stdin: a line, or the end, which makes readaw return 1.     *)
readaw_stdin(c) ==
  /\ sock[c].sent < MaxSegs
  /\ CGoto(c, "stdin", "write")
  /\ UNCHANGED <<vars, crevents>>

(* Mutant: the socket is closed, but readaw goes on.                       *)
readaw_stdin_eof_goes_on(c) ==
  /\ CloseSocket(c)
  /\ CGoto(c, "stdin", "poll")
  /\ UNCHANGED <<server, conn, written, stdin, crevents>>

readaw_stdin_eof(c) ==
  /\ CloseSocket(c)
  /\ CGoto(c, "stdin", "returned")
  /\ UNCHANGED <<server, conn, written, stdin, crevents>>

(* write() to the server blocks while the connection is full; once the     *)
(* server is gone it fails, or raises SIGPIPE.                             *)
readaw_write(c) ==
  /\ \/ /\ ~ServerGone(c) /\ sock[c].sent - sock[c].seen < RecvBuffer
        /\ sock' = [sock EXCEPT ![c].sent = @ + 1]
        /\ CGoto(c, "write", "poll")
     \/ /\ ServerGone(c)
        /\ CGoto(c, "write", "poll") \/ CGoto(c, "write", "killed")
        /\ UNCHANGED sock
  /\ UNCHANGED <<server, conn, written, stdin, crevents>>

-----------------------------------------------------------------------------
Client(c) ==
  \/ connectf(c) \/ readaw_poll(c, FALSE) \/ readaw_read(c) \/ readaw_disconnected(c)
  \/ readaw_stdin(c) \/ readaw_stdin_eof(c) \/ readaw_write(c)

ServerStep == Server /\ UNCHANGED <<cpc, crevents>>

ChatNext ==
  \/ ServerStep
  \/ Running /\ (Type \/ \E c \in Conns : ResetArrives(c)) /\ UNCHANGED <<cpc, crevents>>
  \/ \E c \in Conns : Client(c)
  \/ \E c \in Typists : readaw_poll(c, TRUE)

(* Every process is scheduled; nothing is assumed of the people typing.    *)
ChatSpec ==
  /\ ChatInit /\ [][ChatNext]_cvars
  /\ WF_cvars(ServerStep) /\ \A c \in Conns : WF_cvars(Client(c))

-----------------------------------------------------------------------------
(* Server and client each wait in write() for the other to read.           *)
Deadlocked ==
  /\ pc = "write"
  /\ \E k \in Targets : LET c == pollt[k] IN
       /\ \A j \in Targets : k <= j
       /\ sock[c].peer = "up" /\ sock[c].queued = SendBuffer
       /\ cpc[c] = "write" /\ sock[c].sent - sock[c].seen >= RecvBuffer

Ready(c) == Readable(c) /\ \E k \in Slots : pollt[k] = c

(* The clients that have connected and not yet returned.                   *)
Inside(c) == cpc[c] \in {"poll", "socket", "stdin", "write"}

(* Nobody waits for somebody who has gone: the server's write() only ever  *)
(* blocks on a client whose loop still runs, and a client only calls       *)
(* read() on its socket when that will return.                             *)
WaitsAreAnswered ==
  /\ \A k \in Targets : pc = "write" /\ (\A j \in Targets : k <= j) =>
       (sock[pollt[k]].peer = "up" => Inside(pollt[k]))
  /\ \A c \in Conns : cpc[c] = "socket" => sock[c].queued > 0 \/ ServerGone(c)

(* client.c is one of the peers TcpServer allows: whatever is shown of the *)
(* server there holds when its clients are these.                          *)
ClientsArePeers == Spec

(* The server waits in read() for a client that has nothing to say: the    *)
(* client's slot has just been used for the first time, or poll() failed.  *)
ReadBlocks == pc = "read" /\ \E k \in Slots : FirstDue(k) /\ ~Readable(pollt[k])

(* The server is not stuck in a write() or a read(), and accept() does not *)
(* fail for ever: each failure continues before any client is read.        *)
ServerGoesOn ==
  ~<>[]Deadlocked /\ ~<>[]ReadBlocks /\ ~[]<><<accept_fails>>_vars

(* What a client in a slot sends, and its disconnect, is read by the       *)
(* server eventually, also after end of file on stdin.  There are three    *)
(* ways to starve it while everybody runs: a connection that is full in    *)
(* both directions, a read() of a silent client, an accept() that keeps    *)
(* failing.                                                                *)
ClientsServed ==
  ServerGoesOn => \A c \in Conns : Ready(c) ~> (~Ready(c) \/ ~Running)

(* A line the server wrote is read by a client that is still connected,    *)
(* with the same exceptions.                                               *)
LinesReachClients ==
  ServerGoesOn => \A c \in Conns : (sock[c].queued > 0) ~> (sock[c].queued = 0 \/ ~Running)

(* Every client returns once the server is gone.                           *)
ClientsReturn ==
  \A c \in Conns : ~Running ~> cpc[c] \in {"returned", "killed"}
=============================================================================
