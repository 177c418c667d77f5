------------------------------ MODULE HttpServer ------------------------------
(***************************************************************************)
(* projects/networking/http-server: main accepts connections and starts a  *)
(* detached thread for each, handing it the descriptor in a heap cell of   *)
(* its own; the thread receives once, builds a response and sends it.      *)
(* SIGINT, which the kernel delivers to the main thread, clears            *)
(* keep_running and interrupts accept() if main is in it.  When main       *)
(* returns, or SIGPIPE strikes any thread, all threads end.                *)
(***************************************************************************)
EXTENDS Naturals, FiniteSets

CONSTANTS
  Conns,       \* connections clients may open; each stands for its fd too
  NoFd,        \* no descriptor
  SendBuffer,  \* bound: chunks of a response a socket holds
  MaxChunks,   \* bound: chunks of a response
  Faults       \* what may go wrong

ASSUME ConstantsAssumption ==
  /\ IsFiniteSet(Conns) /\ NoFd \notin Conns
  /\ SendBuffer \in Nat \ {0} /\ MaxChunks \in Nat \ {0}
  /\ Faults \subseteq {"create", "malloc", "accept", "pthread_create", "SIGINT", "leave"}

VARIABLES
  pc,            \* where main is
  keep_running,  \* the flag signal_handler clears
  client_fd,     \* main's pointer to the cell of this iteration
  heap,          \* the allocated cells
  cell,          \* what the cells hold
  thread,        \* where each thread is
  arg,           \* the cell each thread was given
  fd,            \* each thread's client_fd
  left,          \* chunks of its response each thread still has to send
  conn,          \* life of a connection on the server's side
  request,       \* how much of its request a client has sent
  socket,        \* chunks in a socket that the client has not read
  peer           \* what became of the client's end: see MtlsServer

cells == <<client_fd, heap, cell>>
handlers == <<thread, arg, fd, left>>
clients == <<request, socket, peer>>
vars == <<pc, keep_running, cells, handlers, conn, clients>>

Threads == 1..Cardinality(Conns)
Cells == 1..(Cardinality(Conns) + 1)

TypeOK ==
  /\ pc \in {"create", "while", "accept", "pthread_create", "close", "returned", "killed"}
  /\ keep_running \in BOOLEAN
  /\ client_fd \in Cells /\ heap \subseteq Cells
  /\ cell \in [Cells -> Conns \cup {NoFd}]
  /\ thread \in [Threads -> {"none", "start", "recv", "build", "send", "sending", "close", "done"}]
  /\ arg \in [Threads -> Cells] /\ fd \in [Threads -> Conns \cup {NoFd}]
  /\ left \in [Threads -> 0..MaxChunks]
  /\ conn \in [Conns -> {"new", "queued", "open", "closed"}]
  /\ request \in [Conns -> {"none", "part", "full"}]
  /\ socket \in [Conns -> 0..SendBuffer]
  /\ peer \in [Conns -> {"up", "fin", "doomed", "reset", "rst"}]

Init ==
  /\ pc = "create" /\ keep_running = TRUE
  /\ client_fd = 1 /\ heap = {} /\ cell = [a \in Cells |-> NoFd]
  /\ thread = [t \in Threads |-> "none"]
  /\ arg = [t \in Threads |-> 1] /\ fd = [t \in Threads |-> NoFd]
  /\ left = [t \in Threads |-> 0]
  /\ conn = [c \in Conns |-> "new"]
  /\ request = [c \in Conns |-> "none"]
  /\ socket = [c \in Conns |-> 0] /\ peer = [c \in Conns |-> "up"]

Alive == pc \notin {"returned", "killed"}

-----------------------------------------------------------------------------
(* socket(), bind() and listen().                                          *)
create ==
  /\ pc = "create"
  /\ pc' = "while" \/ ("create" \in Faults /\ pc' = "returned")
  /\ UNCHANGED <<keep_running, cells, handlers, conn, clients>>

(* Mutant: one static int serves every iteration.                          *)
while_static ==
  /\ pc = "while" /\ keep_running /\ pc' = "accept"
  /\ heap' = {1} /\ client_fd' = 1
  /\ UNCHANGED <<keep_running, cell, handlers, conn, clients>>

(* The loop's test, then malloc().                                         *)
while ==
  /\ pc = "while"
  /\ \/ /\ keep_running /\ pc' = "accept"
        /\ client_fd' \in Cells \ heap /\ \A a \in Cells \ heap : client_fd' <= a
        /\ heap' = heap \cup {client_fd'}
     \/ /\ ~keep_running \/ "malloc" \in Faults
        /\ pc' = "close" /\ UNCHANGED <<client_fd, heap>>
  /\ UNCHANGED <<keep_running, cell, handlers, conn, clients>>

accept(c) ==
  /\ pc = "accept" /\ conn[c] = "queued"
  /\ pc' = "pthread_create"
  /\ conn' = [conn EXCEPT ![c] = "open"]
  /\ cell' = [cell EXCEPT ![client_fd] = c]
  /\ UNCHANGED <<keep_running, client_fd, heap, handlers, clients>>

accept_fails ==
  /\ pc = "accept" /\ "accept" \in Faults
  /\ pc' = "while"
  /\ heap' = heap \ {client_fd}
  /\ UNCHANGED <<keep_running, client_fd, cell, handlers, conn, clients>>

(* pthread_create and pthread_detach; a failure closes the connection.     *)
pthread_create ==
  /\ pc = "pthread_create" /\ pc' = "while"
  /\ \/ \E t \in Threads :
          /\ thread[t] = "none" /\ \A s \in Threads : s < t => thread[s] # "none"
          /\ thread' = [thread EXCEPT ![t] = "start"]
          /\ arg' = [arg EXCEPT ![t] = client_fd]
          /\ UNCHANGED <<heap, conn>>
     \/ /\ "pthread_create" \in Faults
        /\ conn' = [conn EXCEPT ![cell[client_fd]] = "closed"]
        /\ heap' = heap \ {client_fd}
        /\ UNCHANGED <<thread, arg>>
  /\ UNCHANGED <<keep_running, client_fd, cell, fd, left, clients>>

(* Mutant: main joins the threads instead of detaching them.               *)
main_returns_joins ==
  /\ pc = "close" /\ \A t \in Threads : thread[t] \in {"none", "done"}
  /\ pc' = "returned"
  /\ UNCHANGED <<keep_running, cells, handlers, conn, clients>>

(* close(socket_fd) and return, which ends the process.                    *)
main_returns ==
  /\ pc = "close" /\ pc' = "returned"
  /\ UNCHANGED <<keep_running, cells, handlers, conn, clients>>

(* SIGINT: an accept() in progress fails with EINTR and main breaks out.   *)
signal_handler ==
  /\ "SIGINT" \in Faults /\ Alive /\ keep_running
  /\ keep_running' = FALSE
  /\ \/ /\ pc = "accept" /\ pc' = "close"
        /\ heap' = heap \ {client_fd}
     \/ UNCHANGED <<pc, heap>>
  /\ UNCHANGED <<client_fd, cell, handlers, conn, clients>>

-----------------------------------------------------------------------------
(* handler(): read and free the cell, allocate the buffer.                 *)
handler_start(t) ==
  /\ thread[t] = "start"
  /\ fd' = [fd EXCEPT ![t] = cell[arg[t]]]
  /\ heap' = heap \ {arg[t]}
  /\ \E next \in {"recv"} \cup (IF "malloc" \in Faults THEN {"close"} ELSE {}) :
       thread' = [thread EXCEPT ![t] = next]
  /\ UNCHANGED <<pc, keep_running, client_fd, cell, arg, left, conn, clients>>

(* Mutant: a request that does not match is left without a close.          *)
handler_recv_returns(t) ==
  /\ thread[t] = "recv" /\ request[fd[t]] # "none"
  /\ thread' = [thread EXCEPT ![t] = IF request[fd[t]] = "full" THEN "build" ELSE "recv"]
  /\ UNCHANGED <<pc, keep_running, cells, arg, fd, left, conn, clients>>

(* One recv(): what has arrived must match the expression as it stands.    *)
handler_recv(t) ==
  /\ thread[t] = "recv"
  /\ request[fd[t]] # "none" \/ peer[fd[t]] # "up"
  /\ thread' = [thread EXCEPT ![t] = IF request[fd[t]] = "full" THEN "build" ELSE "close"]
  /\ UNCHANGED <<pc, keep_running, cells, arg, fd, left, conn, clients>>

(* build_http: a 404, or the header and the file, of any length.  The      *)
(* buffers for it come from malloc()s nobody checks: NULL ends the process.*)
build_http(t) ==
  /\ thread[t] = "build"
  /\ \/ /\ thread' = [thread EXCEPT ![t] = "send"]
        /\ \E n \in 1..MaxChunks : left' = [left EXCEPT ![t] = n]
        /\ UNCHANGED pc
     \/ /\ "malloc" \in Faults
        /\ pc' = "killed" /\ UNCHANGED <<thread, left>>
  /\ UNCHANGED <<keep_running, cells, arg, fd, conn, clients>>

(* send(): chunk by chunk, blocking while the socket is full.  An abort or *)
(* a RST ends it with what it has sent so far; only a send() that has sent *)
(* nothing yet raises SIGPIPE, when RST has come after FIN.                *)
handler_send(t) ==
  LET c == fd[t] IN
  /\ thread[t] \in {"send", "sending"} /\ left[t] > 0
  /\ \/ /\ \/ /\ peer[c] = "up" /\ socket[c] < SendBuffer
              /\ socket' = [socket EXCEPT ![c] = @ + 1]
              /\ UNCHANGED peer
           \/ /\ peer[c] \in {"fin", "doomed"}
              /\ peer' = [peer EXCEPT ![c] = "doomed"]
              /\ UNCHANGED socket
        /\ thread' = [thread EXCEPT ![t] = "sending"]
        /\ left' = [left EXCEPT ![t] = @ - 1]
        /\ UNCHANGED pc
     \/ /\ peer[c] = "reset" \/ (peer[c] = "rst" /\ thread[t] = "sending")
        /\ left' = [left EXCEPT ![t] = 0]
        /\ UNCHANGED <<pc, thread, peer, socket>>
     \/ /\ peer[c] = "rst" /\ thread[t] = "send"
        /\ pc' = "killed"
        /\ UNCHANGED <<thread, left, peer, socket>>
  /\ UNCHANGED <<keep_running, cells, arg, fd, conn, request>>

(* close(client_fd), reached when everything is sent or nothing is to be.  *)
handler_close(t) ==
  /\ thread[t] = "close" \/ (thread[t] \in {"send", "sending"} /\ left[t] = 0)
  /\ conn' = [conn EXCEPT ![fd[t]] = "closed"]
  /\ thread' = [thread EXCEPT ![t] = "done"]
  /\ UNCHANGED <<pc, keep_running, cells, arg, fd, left, clients>>

-----------------------------------------------------------------------------
(* The clients.                                                            *)
Client(c) ==
  \/ /\ conn[c] = "new" /\ pc # "create"
     /\ conn' = [conn EXCEPT ![c] = "queued"]
     /\ UNCHANGED <<pc, keep_running, cells, handlers, clients>>
  \/ /\ conn[c] \in {"queued", "open"} /\ peer[c] = "up"
     /\ \/ /\ request[c] # "full"
           /\ \E sent \in {"part", "full"} : request' = [request EXCEPT ![c] = sent]
           /\ UNCHANGED <<socket, peer>>
        \/ /\ socket[c] > 0
           /\ socket' = [socket EXCEPT ![c] = 0]
           /\ UNCHANGED <<request, peer>>
        \/ /\ "leave" \in Faults
           /\ peer' = [peer EXCEPT ![c] = IF socket[c] > 0 THEN "reset" ELSE "fin"]
           /\ UNCHANGED <<request, socket>>
     /\ UNCHANGED <<pc, keep_running, cells, handlers, conn>>
  \/ /\ conn[c] = "open" /\ peer[c] = "doomed"
     /\ peer' = [peer EXCEPT ![c] = "rst"]
     /\ UNCHANGED <<pc, keep_running, cells, handlers, conn, request, socket>>

Main ==
  \/ create \/ while \/ (\E c \in Conns : accept(c)) \/ accept_fails \/ pthread_create
  \/ main_returns

handler(t) ==
  /\ Alive
  /\ \/ handler_start(t) \/ handler_recv(t) \/ build_http(t) \/ handler_send(t)
     \/ handler_close(t)

Next ==
  \/ Main \/ signal_handler
  \/ \E t \in Threads : handler(t)
  \/ Alive /\ \E c \in Conns : Client(c)

Spec == Init /\ [][Next]_vars

(* The scheduler runs every thread; clients and SIGINT owe nothing.        *)
FairSpec == Spec /\ WF_vars(Main) /\ \A t \in Threads : WF_vars(handler(t))

-----------------------------------------------------------------------------
Holders(c) ==
  {t \in Threads : \/ thread[t] = "start" /\ cell[arg[t]] = c
                   \/ thread[t] \in {"recv", "build", "send", "sending", "close"} /\ fd[t] = c}

(* An accepted connection belongs to exactly one thread, or to main while  *)
(* it starts that thread, until it is closed; a thread reads its cell      *)
(* before the cell is freed or reused; nobody uses a closed connection.    *)
ConnsOwnedOnce ==
  Alive =>
    /\ \A c \in Conns :
         Cardinality(Holders(c)) + (IF pc = "pthread_create" /\ cell[client_fd] = c THEN 1 ELSE 0)
           = IF conn[c] = "open" THEN 1 ELSE 0
    /\ \A t \in Threads : thread[t] = "start" => arg[t] \in heap

(* The thread is blocked in send() until its own client reads.             *)
WaitsForClient(t) ==
  /\ thread[t] \in {"send", "sending"} /\ left[t] > 0
  /\ socket[fd[t]] = SendBuffer /\ peer[fd[t]] = "up"

(* A thread whose client has sent something closes the connection in the   *)
(* end, however its client reads or leaves, unless that client stays and   *)
(* never reads again: no other client, and not main, can hold it up.       *)
HandlersFinish ==
  \A t \in Threads :
    \/ <>[]WaitsForClient(t)
    \/ (thread[t] = "recv" /\ request[fd[t]] # "none") ~> (thread[t] = "done" \/ ~Alive)

(* After SIGINT the server closes, whatever its handlers and clients do,   *)
(* unless the signal fell between the loop's test and accept(): then main  *)
(* waits there for one more client.                                        *)
SigintStops ==
  ~keep_running ~> (~Alive \/ (pc = "accept" /\ \A c \in Conns : conn[c] # "queued"))
=============================================================================
