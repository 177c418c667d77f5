--------------------------- MODULE HttpServerProofs ---------------------------
(***************************************************************************)
(* http-server hands every accepted connection to exactly one owner, for   *)
(* every number of connections: no thread reads a cell that is freed or    *)
(* reused, and no descriptor is closed twice.                              *)
(***************************************************************************)
EXTENDS HttpServer, FiniteSetTheorems, TLAPS

(* main and the threads as owners of a connection.                         *)
MainHolds(c) == pc = "pthread_create" /\ cell[client_fd] = c
HasFd(t) == thread[t] \in {"recv", "build", "send", "sending", "close"}
Holds(t, c) == (thread[t] = "start" /\ cell[arg[t]] = c) \/ (HasFd(t) /\ fd[t] = c)
Unowned(c) == \A t \in Threads : ~Holds(t, c)

(* A cell belongs to main until a thread is started with it, and to that   *)
(* thread until it has read it.                                            *)
CellsHeld ==
  /\ pc \in {"accept", "pthread_create"} =>
       client_fd \in heap /\ \A t \in Threads : thread[t] = "start" => arg[t] # client_fd
  /\ \A t \in Threads : thread[t] = "start" => arg[t] \in heap
  /\ \A s, t \in Threads : thread[s] = "start" /\ thread[t] = "start" /\ arg[s] = arg[t] => s = t

(* What main and the threads hold is a connection.                         *)
FdsValid ==
  /\ pc = "pthread_create" => cell[client_fd] \in Conns
  /\ \A t \in Threads : thread[t] = "start" => cell[arg[t]] \in Conns
  /\ \A t \in Threads : HasFd(t) => fd[t] \in Conns

OwnedOnce ==
  \A c \in Conns :
    IF conn[c] = "open"
    THEN \/ MainHolds(c) /\ Unowned(c)
         \/ ~MainHolds(c) /\ \E t \in Threads : \A s \in Threads : Holds(s, c) <=> s = t
    ELSE ~MainHolds(c) /\ Unowned(c)

IInv == TypeOK /\ (Alive => CellsHeld /\ FdsValid /\ OwnedOnce)

-----------------------------------------------------------------------------
(* The constants as the proofs use them.                                   *)
LEMMA Constants ==
  /\ NoFd \notin Conns /\ SendBuffer \in Nat \ {0} /\ MaxChunks \in Nat \ {0}
  /\ Cardinality(Conns) \in Nat /\ 1 \in Cells
<1>1. Cardinality(Conns) \in Nat
  BY ConstantsAssumption, FS_CardinalityType
<1> QED  BY ConstantsAssumption, <1>1 DEF Cells

(* The invariant holds when the server starts.                             *)
LEMMA InitIInv == Init => IInv
<1> SUFFICES ASSUME Init PROVE IInv  OBVIOUS
<1>1. TypeOK
  BY Constants DEF Init, TypeOK
<1>2. CellsHeld /\ FdsValid
  BY DEF Init, CellsHeld, FdsValid, HasFd
<1>3. OwnedOnce
  BY DEF Init, OwnedOnce, MainHolds, Unowned, Holds, HasFd
<1> QED  BY <1>1, <1>2, <1>3 DEF IInv

(* main's steps keep the types.                                            *)
LEMMA MainType ==
  ASSUME TypeOK, Main \/ signal_handler PROVE TypeOK'
<1>1. CASE create \/ main_returns
  BY <1>1 DEF create, main_returns, TypeOK, cells, handlers, clients
<1>2. CASE while
  <2>1. client_fd' \in Cells /\ heap' \subseteq Cells
    BY <1>2 DEF while, TypeOK
  <2> QED  BY <1>2, <2>1 DEF while, TypeOK, handlers, clients
<1>3. ASSUME NEW c \in Conns, accept(c) PROVE TypeOK'
  BY <1>3 DEF accept, TypeOK, handlers, clients
<1>4. CASE accept_fails
  BY <1>4 DEF accept_fails, TypeOK, handlers, clients
<1>5. CASE pthread_create
  <2>1. UNCHANGED <<keep_running, client_fd, cell, fd, left, request, socket, peer>> /\ pc' = "while"
    BY <1>5 DEF pthread_create, clients
  <2>2. thread' \in [Threads -> {"none", "start", "recv", "build", "send", "sending", "close", "done"}]
    BY <1>5 DEF pthread_create, TypeOK
  <2>3. arg' \in [Threads -> Cells] /\ heap' \subseteq Cells
    BY <1>5 DEF pthread_create, TypeOK
  <2>4. conn' \in [Conns -> {"new", "queued", "open", "closed"}]
    BY <1>5 DEF pthread_create, TypeOK
  <2> QED  BY <2>1, <2>2, <2>3, <2>4 DEF TypeOK
<1>6. CASE signal_handler
  <2>1. keep_running' \in BOOLEAN
    BY <1>6 DEF signal_handler
  <2>2. heap' \subseteq Cells /\ pc' \in {pc, "close"}
    BY <1>6 DEF signal_handler, TypeOK
  <2> QED  BY <1>6, <2>1, <2>2 DEF signal_handler, TypeOK, handlers, clients
<1> QED  BY <1>1, <1>2, <1>3, <1>4, <1>5, <1>6 DEF Main

(* So do the threads and the clients.                                      *)
LEMMA HandlerType ==
  ASSUME TypeOK, FdsValid, NEW t \in Threads, handler(t) PROVE TypeOK'
<1>1. CASE handler_start(t)
  <2>1. fd' \in [Threads -> Conns \cup {NoFd}] /\ heap' \subseteq Cells
    BY <1>1 DEF handler_start, TypeOK
  <2>2. thread' \in [Threads -> {"none", "start", "recv", "build", "send", "sending", "close", "done"}]
    BY <1>1 DEF handler_start, TypeOK
  <2> QED  BY <1>1, <2>1, <2>2 DEF handler_start, TypeOK, clients
<1>2. CASE handler_recv(t)
  BY <1>2 DEF handler_recv, TypeOK, cells, clients
<1>3. CASE build_http(t)
  <2>1. left' \in [Threads -> 0..MaxChunks] /\ pc' \in {pc, "killed"}
    BY <1>3, Constants DEF build_http, TypeOK
  <2> QED  BY <1>3, <2>1 DEF build_http, TypeOK, cells, clients
<1>4. CASE handler_send(t)
  <2>1. fd[t] \in Conns /\ left[t] \in 0..MaxChunks /\ socket[fd[t]] \in 0..SendBuffer
    BY <1>4 DEF handler_send, FdsValid, HasFd, TypeOK
  <2>2. left' \in [Threads -> 0..MaxChunks]
    <3>1. left[t] > 0 /\ (left' = left \/ left' = [left EXCEPT ![t] = @ - 1] \/ left' = [left EXCEPT ![t] = 0])
      BY <1>4 DEF handler_send
    <3>2. left[t] - 1 \in 0..MaxChunks /\ 0 \in 0..MaxChunks
      BY <2>1, <3>1, Constants
    <3> QED  BY <3>1, <3>2 DEF TypeOK
  <2>3. socket' \in [Conns -> 0..SendBuffer]
    <3>1. socket' = socket \/ (socket[fd[t]] < SendBuffer /\ socket' = [socket EXCEPT ![fd[t]] = @ + 1])
      BY <1>4 DEF handler_send
    <3>2. socket[fd[t]] < SendBuffer => socket[fd[t]] + 1 \in 0..SendBuffer
      BY <2>1, Constants
    <3> QED  BY <2>1, <3>1, <3>2 DEF TypeOK
  <2>4. peer' \in [Conns -> {"up", "fin", "doomed", "reset", "rst"}] /\ pc' \in {pc, "killed"}
    BY <1>4, <2>1 DEF handler_send, TypeOK
  <2>5. thread' \in [Threads -> {"none", "start", "recv", "build", "send", "sending", "close", "done"}]
    BY <1>4 DEF handler_send, TypeOK
  <2> QED  BY <1>4, <2>2, <2>3, <2>4, <2>5 DEF handler_send, TypeOK, cells
<1>5. CASE handler_close(t)
  BY <1>5 DEF handler_close, TypeOK, cells, clients
<1> QED  BY <1>1, <1>2, <1>3, <1>4, <1>5 DEF handler

LEMMA ClientType ==
  ASSUME TypeOK, NEW c \in Conns, Client(c) PROVE TypeOK'
<1>1. UNCHANGED <<pc, keep_running, client_fd, heap, cell, thread, arg, fd, left>>
  BY DEF Client, cells, handlers
<1>2. conn' \in [Conns -> {"new", "queued", "open", "closed"}]
  BY DEF Client, TypeOK, clients
<1>3. request' \in [Conns -> {"none", "part", "full"}]
  BY DEF Client, TypeOK, clients
<1>4. socket' \in [Conns -> 0..SendBuffer]
  BY Constants DEF Client, TypeOK, clients
<1>5. peer' \in [Conns -> {"up", "fin", "doomed", "reset", "rst"}]
  BY DEF Client, TypeOK, clients
<1> QED  BY <1>1, <1>2, <1>3, <1>4, <1>5 DEF TypeOK

-----------------------------------------------------------------------------
Owned == CellsHeld /\ FdsValid /\ OwnedOnce

(* A step that leaves the owners alone.                                    *)
LEMMA SameOwners ==
  ASSUME OwnedOnce,
         \A c \in Conns : /\ (conn'[c] = "open" <=> conn[c] = "open")
                          /\ (MainHolds(c)' <=> MainHolds(c))
                          /\ \A t \in Threads : Holds(t, c)' <=> Holds(t, c)
  PROVE  OwnedOnce'
BY DEF OwnedOnce, Unowned

(* main's steps: a connection comes to main and goes to a thread.          *)
LEMMA MainOwned ==
  ASSUME TypeOK, Owned, Main, Alive' PROVE Owned'
<1>1. CASE create \/ main_returns
  <2>1. UNCHANGED <<client_fd, heap, cell, thread, arg, fd, conn>>
        /\ pc \notin {"accept", "pthread_create"} /\ pc' \notin {"accept", "pthread_create"}
    BY <1>1 DEF create, main_returns, cells, handlers
  <2> QED
    BY <2>1 DEF Owned, CellsHeld, FdsValid, OwnedOnce, HasFd, MainHolds, Holds, Unowned
<1>2. CASE while
  <2>1. /\ UNCHANGED <<cell, thread, arg, fd, conn>> /\ pc = "while"
        /\ \/ pc' = "accept" /\ client_fd' \in Cells \ heap /\ heap' = heap \cup {client_fd'}
           \/ pc' = "close" /\ UNCHANGED <<client_fd, heap>>
    BY <1>2 DEF while, handlers
  <2>2. CellsHeld'
    BY <2>1 DEF Owned, CellsHeld
  <2>3. FdsValid'
    BY <2>1 DEF Owned, FdsValid, HasFd
  <2>4. OwnedOnce'
    BY <2>1 DEF Owned, OwnedOnce, MainHolds, Holds, HasFd, Unowned
  <2> QED  BY <2>2, <2>3, <2>4 DEF Owned
<1>3. ASSUME NEW d \in Conns, accept(d) PROVE Owned'
  <2>1. /\ UNCHANGED <<client_fd, heap, thread, arg, fd>> /\ pc = "accept"
        /\ pc' = "pthread_create" /\ conn[d] = "queued" /\ conn' = [conn EXCEPT ![d] = "open"]
        /\ cell' = [cell EXCEPT ![client_fd] = d]
    BY <1>3 DEF accept, handlers
  <2>2. cell'[client_fd] = d /\ \A a \in Cells : a # client_fd => cell'[a] = cell[a]
    BY <2>1 DEF TypeOK
  <2>3. \A t \in Threads : thread[t] = "start" => arg[t] # client_fd /\ cell'[arg[t]] = cell[arg[t]]
    BY <2>1, <2>2 DEF Owned, CellsHeld, TypeOK
  <2>4. CellsHeld'
    BY <2>1 DEF Owned, CellsHeld
  <2>5. FdsValid'
    BY <2>1, <2>2, <2>3 DEF Owned, FdsValid, HasFd
  <2>6. \A t \in Threads, c \in Conns : Holds(t, c)' <=> Holds(t, c)
    BY <2>1, <2>3 DEF Holds, HasFd
  <2>7. \A c \in Conns : (MainHolds(c)' <=> c = d) /\ ~MainHolds(c)
    BY <2>1, <2>2 DEF MainHolds
  <2>8. OwnedOnce'
    <3> SUFFICES ASSUME NEW c \in Conns
                 PROVE  IF conn'[c] = "open"
                        THEN \/ MainHolds(c)' /\ Unowned(c)'
                             \/ ~MainHolds(c)' /\ \E t \in Threads : \A s \in Threads :
                                                     Holds(s, c)' <=> s = t
                        ELSE ~MainHolds(c)' /\ Unowned(c)'
      BY DEF OwnedOnce
    <3>1. CASE c = d
      <4>1. conn'[c] = "open" /\ Unowned(c)
        BY <2>1, <3>1 DEF TypeOK, Owned, OwnedOnce
      <4> QED  BY <2>6, <2>7, <3>1, <4>1 DEF Unowned
    <3>2. CASE c # d
      <4>1. conn'[c] = conn[c]
        BY <2>1, <3>2 DEF TypeOK
      <4> QED  BY <2>6, <2>7, <3>2, <4>1 DEF Owned, OwnedOnce, Unowned
    <3> QED  BY <3>1, <3>2
  <2> QED  BY <2>4, <2>5, <2>8 DEF Owned
<1>4. CASE accept_fails
  <2>1. /\ UNCHANGED <<client_fd, cell, thread, arg, fd, conn>> /\ pc = "accept" /\ pc' = "while"
        /\ heap' = heap \ {client_fd}
    BY <1>4 DEF accept_fails, handlers
  <2>2. CellsHeld'
    BY <2>1 DEF Owned, CellsHeld
  <2> QED
    BY <2>1, <2>2 DEF Owned, FdsValid, HasFd, OwnedOnce, MainHolds, Holds, Unowned
<1>5. CASE pthread_create
  <2> DEFINE d == cell[client_fd]
  <2>1. /\ UNCHANGED <<client_fd, cell, fd>> /\ pc = "pthread_create" /\ pc' = "while"
        /\ d \in Conns /\ conn[d] = "open" /\ Unowned(d) /\ \A c \in Conns : MainHolds(c) <=> c = d
    BY <1>5 DEF pthread_create, Owned, FdsValid, OwnedOnce, MainHolds
  <2>2. \A c \in Conns : ~MainHolds(c)'
    BY <2>1 DEF MainHolds
  <2>3. ASSUME NEW u \in Threads, thread[u] = "none", thread' = [thread EXCEPT ![u] = "start"],
               arg' = [arg EXCEPT ![u] = client_fd], UNCHANGED <<heap, conn>>
        PROVE  Owned'
    <3>1. /\ thread'[u] = "start" /\ arg'[u] = client_fd
          /\ \A t \in Threads : t # u => thread'[t] = thread[t] /\ arg'[t] = arg[t]
      BY <2>3 DEF TypeOK
    <3>2. CellsHeld'
      BY <2>1, <2>3, <3>1 DEF Owned, CellsHeld
    <3>3. FdsValid'
      BY <2>1, <3>1 DEF Owned, FdsValid, HasFd
    <3>4. \A c \in Conns : /\ Holds(u, c)' <=> c = d
                           /\ \A t \in Threads : t # u => (Holds(t, c)' <=> Holds(t, c))
                           /\ ~Holds(u, c)
      BY <2>1, <2>3, <3>1 DEF Holds, HasFd
    <3>5. OwnedOnce'
      <4> SUFFICES ASSUME NEW c \in Conns
                   PROVE  IF conn[c] = "open"
                          THEN \E t \in Threads : \A s \in Threads : Holds(s, c)' <=> s = t
                          ELSE Unowned(c)'
        BY <2>2, <2>3 DEF OwnedOnce
      <4>1. CASE c = d
        <5>1. \A s \in Threads : Holds(s, c)' <=> s = u
          BY <2>1, <3>4, <4>1 DEF Unowned
        <5> QED  BY <2>1, <4>1, <5>1
      <4>2. CASE c # d
        <5>1. \A s \in Threads : Holds(s, c)' <=> Holds(s, c)
          BY <3>4, <4>2
        <5> QED  BY <2>1, <4>2, <5>1 DEF Owned, OwnedOnce, Unowned
      <4> QED  BY <4>1, <4>2
    <3> QED  BY <3>2, <3>3, <3>5 DEF Owned
  <2>4. ASSUME conn' = [conn EXCEPT ![d] = "closed"], heap' = heap \ {client_fd},
               UNCHANGED <<thread, arg>>
        PROVE  Owned'
    <3>1. CellsHeld' /\ FdsValid'
      BY <2>1, <2>4 DEF Owned, CellsHeld, FdsValid, HasFd
    <3>2. \A t \in Threads, c \in Conns : Holds(t, c)' <=> Holds(t, c)
      BY <2>1, <2>4 DEF Holds, HasFd
    <3>3. conn'[d] = "closed" /\ \A c \in Conns : c # d => conn'[c] = conn[c]
      BY <2>1, <2>4 DEF TypeOK
    <3>4. OwnedOnce'
      BY <2>1, <2>2, <3>2, <3>3 DEF Owned, OwnedOnce, Unowned
    <3> QED  BY <3>1, <3>4 DEF Owned
  <2> QED  BY <1>5, <2>3, <2>4 DEF pthread_create
<1> QED  BY <1>1, <1>2, <1>3, <1>4, <1>5 DEF Main

(* SIGINT frees at most the cell main waits with.                          *)
LEMMA SignalOwned ==
  ASSUME TypeOK, Owned, signal_handler PROVE Owned'
<1>1. /\ UNCHANGED <<client_fd, cell, thread, arg, fd, conn>>
      /\ \/ pc = "accept" /\ pc' = "close" /\ heap' = heap \ {client_fd}
         \/ UNCHANGED <<pc, heap>>
  BY DEF signal_handler, handlers
<1>2. CellsHeld'
  BY <1>1 DEF Owned, CellsHeld
<1>3. FdsValid'
  BY <1>1 DEF Owned, FdsValid, HasFd
<1>4. \A c \in Conns : /\ (MainHolds(c)' <=> MainHolds(c))
                       /\ \A t \in Threads : Holds(t, c)' <=> Holds(t, c)
  BY <1>1 DEF MainHolds, Holds, HasFd
<1> QED  BY <1>1, <1>2, <1>3, <1>4, SameOwners DEF Owned

(* A thread takes the descriptor from its cell, and closes it once.        *)
LEMMA HandlerOwned ==
  ASSUME TypeOK, Owned, NEW t \in Threads, handler(t), Alive' PROVE Owned'
<1>1. CASE handler_start(t)
  <2>1. /\ UNCHANGED <<pc, client_fd, cell, arg, conn>> /\ thread[t] = "start"
        /\ fd' = [fd EXCEPT ![t] = cell[arg[t]]] /\ heap' = heap \ {arg[t]}
        /\ \E next \in {"recv", "close"} : thread' = [thread EXCEPT ![t] = next]
    BY <1>1 DEF handler_start
  <2>2. /\ thread'[t] \in {"recv", "close"} /\ fd'[t] = cell[arg[t]]
        /\ \A s \in Threads : s # t => thread'[s] = thread[s] /\ fd'[s] = fd[s]
    BY <2>1 DEF TypeOK
  <2>3. CellsHeld'
    BY <2>1, <2>2 DEF Owned, CellsHeld
  <2>4. FdsValid'
    BY <2>1, <2>2 DEF Owned, FdsValid, HasFd
  <2>5. \A c \in Conns : /\ (MainHolds(c)' <=> MainHolds(c))
                         /\ \A s \in Threads : Holds(s, c)' <=> Holds(s, c)
    BY <2>1, <2>2 DEF MainHolds, Holds, HasFd
  <2> QED  BY <2>1, <2>3, <2>4, <2>5, SameOwners DEF Owned
<1>2. CASE handler_recv(t) \/ build_http(t) \/ handler_send(t)
  <2>1. /\ UNCHANGED <<client_fd, heap, cell, arg, fd, conn>> /\ pc' \in {pc, "killed"}
        /\ thread[t] \in {"recv", "build", "send", "sending"}
        /\ \E next \in {"build", "close", "send", "sending"} :
             thread' = thread \/ thread' = [thread EXCEPT ![t] = next]
    BY <1>2 DEF handler_recv, build_http, handler_send, cells
  <2>2. /\ thread[t] # "start" /\ thread'[t] # "start" /\ HasFd(t) /\ HasFd(t)' /\ pc' = pc
        /\ \A s \in Threads : s # t => thread'[s] = thread[s]
    BY <2>1 DEF TypeOK, HasFd, Alive
  <2>3. CellsHeld'
    BY <2>1, <2>2 DEF Owned, CellsHeld
  <2>4. FdsValid'
    BY <2>1, <2>2 DEF Owned, FdsValid, HasFd
  <2>5. \A c \in Conns : /\ (MainHolds(c)' <=> MainHolds(c))
                         /\ \A s \in Threads : Holds(s, c)' <=> Holds(s, c)
    BY <2>1, <2>2 DEF MainHolds, Holds, HasFd
  <2> QED  BY <2>1, <2>3, <2>4, <2>5, SameOwners DEF Owned
<1>3. CASE handler_close(t)
  <2>1. /\ UNCHANGED <<pc, client_fd, heap, cell, arg, fd>> /\ HasFd(t) /\ thread[t] # "start"
        /\ conn' = [conn EXCEPT ![fd[t]] = "closed"] /\ thread' = [thread EXCEPT ![t] = "done"]
    BY <1>3 DEF handler_close, cells, HasFd
  <2>2. thread'[t] = "done" /\ \A s \in Threads : s # t => thread'[s] = thread[s]
    BY <2>1 DEF TypeOK
  <2>3. fd[t] \in Conns /\ conn'[fd[t]] = "closed" /\ \A c \in Conns : c # fd[t] => conn'[c] = conn[c]
    BY <2>1 DEF Owned, FdsValid, TypeOK
  <2>4. CellsHeld'
    BY <2>1, <2>2 DEF Owned, CellsHeld
  <2>5. FdsValid'
    BY <2>1, <2>2 DEF Owned, FdsValid, HasFd
  <2>6. \A c \in Conns : /\ (MainHolds(c)' <=> MainHolds(c)) /\ ~Holds(t, c)'
                         /\ \A s \in Threads : s # t => (Holds(s, c)' <=> Holds(s, c))
                         /\ Holds(t, c) <=> c = fd[t]
    BY <2>1, <2>2 DEF MainHolds, Holds, HasFd
  <2>7. ~MainHolds(fd[t]) /\ \A s \in Threads : s # t => ~Holds(s, fd[t])
    BY <2>3, <2>6 DEF Owned, OwnedOnce, Unowned
  <2>8. OwnedOnce'
    <3> SUFFICES ASSUME NEW c \in Conns
                 PROVE  IF conn'[c] = "open"
                        THEN \/ MainHolds(c)' /\ Unowned(c)'
                             \/ ~MainHolds(c)' /\ \E u \in Threads : \A s \in Threads :
                                                     Holds(s, c)' <=> s = u
                        ELSE ~MainHolds(c)' /\ Unowned(c)'
      BY DEF OwnedOnce
    <3>1. CASE c = fd[t]
      BY <2>3, <2>6, <2>7, <3>1 DEF Unowned
    <3>2. CASE c # fd[t]
      <4>1. \A s \in Threads : Holds(s, c)' <=> Holds(s, c)
        BY <2>6, <3>2
      <4> QED  BY <2>3, <2>6, <3>2, <4>1 DEF Owned, OwnedOnce, Unowned
    <3> QED  BY <3>1, <3>2
  <2> QED  BY <2>4, <2>5, <2>8 DEF Owned
<1> QED  BY <1>1, <1>2, <1>3 DEF handler

(* The clients do not touch what the server owns.                          *)
LEMMA ClientOwned ==
  ASSUME TypeOK, Owned, NEW d \in Conns, Client(d) PROVE Owned'
<1>1. UNCHANGED <<pc, client_fd, heap, cell, thread, arg, fd>>
  BY DEF Client, cells, handlers
<1>2. \A c \in Conns : conn'[c] = "open" <=> conn[c] = "open"
  BY DEF Client, TypeOK
<1>3. \A c \in Conns : /\ (MainHolds(c)' <=> MainHolds(c))
                       /\ \A t \in Threads : Holds(t, c)' <=> Holds(t, c)
  BY <1>1 DEF MainHolds, Holds, HasFd
<1>4. CellsHeld' /\ FdsValid'
  BY <1>1 DEF Owned, CellsHeld, FdsValid, HasFd
<1> QED  BY <1>2, <1>3, <1>4, SameOwners DEF Owned

-----------------------------------------------------------------------------
(* The inductive invariant, for every number of connections.               *)
THEOREM Invariance == Spec => []IInv
<1>1. IInv /\ [Next]_vars => IInv'
  <2> SUFFICES ASSUME IInv, [Next]_vars PROVE IInv'  OBVIOUS
  <2>1. CASE Main \/ signal_handler
    <3>1. Alive
      BY <2>1 DEF Main, create, while, accept, accept_fails, pthread_create, main_returns,
         signal_handler, Alive
    <3> QED  BY <2>1, <3>1, MainType, MainOwned, SignalOwned DEF IInv, Owned
  <2>2. ASSUME NEW t \in Threads, handler(t) PROVE IInv'
    <3>1. Alive
      BY <2>2 DEF handler
    <3> QED  BY <2>2, <3>1, HandlerType, HandlerOwned DEF IInv, Owned
  <2>3. ASSUME Alive, NEW c \in Conns, Client(c) PROVE IInv'
    BY <2>3, ClientType, ClientOwned DEF IInv, Owned
  <2>4. CASE UNCHANGED vars
    BY <2>4 DEF vars, cells, handlers, clients, IInv, TypeOK, Alive, CellsHeld, FdsValid, OwnedOnce,
       MainHolds, Holds, HasFd, Unowned
  <2> QED  BY <2>1, <2>2, <2>3, <2>4 DEF Next
<1> QED  BY InitIInv, <1>1, PTL DEF Spec

(* Every accepted connection has one owner until it is closed, and every   *)
(* thread finds its cell as main left it.                                  *)
THEOREM OwnedExactlyOnce == Spec => []ConnsOwnedOnce
<1>1. IInv => ConnsOwnedOnce
  <2> SUFFICES ASSUME IInv, Alive, NEW c \in Conns
               PROVE  Cardinality(Holders(c))
                        + (IF pc = "pthread_create" /\ cell[client_fd] = c THEN 1 ELSE 0)
                        = IF conn[c] = "open" THEN 1 ELSE 0
    BY DEF ConnsOwnedOnce, IInv, CellsHeld
  <2>1. \A t \in Threads : t \in Holders(c) <=> Holds(t, c)
    BY DEF Holders, Holds, HasFd
  <2>2. Unowned(c) => Cardinality(Holders(c)) = 0
    <3>1. Unowned(c) => Holders(c) = {}
      BY <2>1 DEF Unowned, Holders
    <3> QED  BY <3>1, FS_EmptySet
  <2>3. ASSUME NEW t \in Threads, \A s \in Threads : Holds(s, c) <=> s = t
        PROVE  Cardinality(Holders(c)) = 1
    <3>1. Holders(c) = {t}
      BY <2>1, <2>3 DEF Holders
    <3> QED  BY <3>1, FS_Singleton
  <2>4. OwnedOnce
    BY DEF IInv
  <2> QED  BY <2>2, <2>3, <2>4 DEF OwnedOnce, MainHolds
<1> QED  BY Invariance, <1>1, PTL
=============================================================================
