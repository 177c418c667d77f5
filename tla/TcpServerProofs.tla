---------------------------- MODULE TcpServerProofs ----------------------------
(***************************************************************************)
(* The tcp-suite server keeps its slots in order and implements Broadcast  *)
(* for every MAX_CLIENTS, every set of connections, every bound and every  *)
(* set of failing calls, and client.c is one of the peers it allows for.   *)
(***************************************************************************)
EXTENDS TcpChat, TLAPS

(* A slot in use lies below nfds and holds a connection of its own.        *)
SlotsHeld ==
  Filled => \A k \in Slots : pollt[k] # NoFd =>
    /\ k < nfds /\ pollt[k] \in Conns /\ conn[pollt[k]] = "open"
    /\ \A j \in Slots : pollt[j] = pollt[k] => j = k

(* Before the loop no slot is in use.                                      *)
SetupEmpty == pc = "setup" => \A k \in Slots : pollt[k] = NoFd

(* A line is held exactly while it is broadcast, and it is the last one    *)
(* that was read.                                                          *)
LineHeld ==
  /\ pc = "write" => line # 0
  /\ pc \notin {"write", "killed"} => line = 0
  /\ line # 0 => line = taken

(* The loops start at slot 2.                                              *)
LoopStarts == pc \in {"setup", "poll", "accept", "stdin"} => i = 2

(* Nothing was ever written to a connection that has not been accepted.    *)
PendingUnheard == \A c \in Conns : conn[c] \in {"new", "queued"} => written[c] = <<>>

(* poll() has failed only in the iteration that leads to cleanup.          *)
PollFailed == r = -1 => pc \in {"read", "cleanup", "exited", "killed"}

IInv ==
  /\ TypeOK /\ SlotsHeld /\ SetupEmpty /\ LineHeld /\ LoopStarts /\ PendingUnheard /\ PollFailed

(* Each field of a socket may take any value of its type.                  *)
LEMMA SocketFields ==
  ASSUME NEW s \in Socket
  PROVE  /\ \A v \in {"up", "fin", "doomed", "reset", "rst"} : [s EXCEPT !.peer = v] \in Socket
         /\ \A v \in 0..MaxSegs : [s EXCEPT !.sent = v] \in Socket
         /\ \A v \in 0..MaxSegs : [s EXCEPT !.seen = v] \in Socket
         /\ \A v \in 0..SendBuffer : [s EXCEPT !.queued = v] \in Socket
  BY DEF Socket

(* The broadcast writes to slots of the array.                             *)
LEMMA TargetsAreSlots ==
  ASSUME TypeOK, Filled, NEW k \in Targets PROVE k \in Slots /\ pollt[k] # NoFd
<1>1. i \in 2..(MAX_CLIENTS + 1) /\ nfds \in 2..(MAX_CLIENTS + 1) /\ MAX_CLIENTS \in Nat
  BY ConstantsAssumption DEF TypeOK
<1> QED  BY <1>1 DEF Targets, Slots

(* The invariant holds when main starts.                                   *)
LEMMA InitIInv == Init => IInv
<1> SUFFICES ASSUME Init PROVE IInv  OBVIOUS
<1> USE ConstantsAssumption
<1>1. NewSocket \in Socket
  BY DEF NewSocket, Socket
<1>2. sock \in [Conns -> Socket]
  BY <1>1 DEF Init
<1>3. revents \in SUBSET AllSlots
  BY DEF Init, AllSlots
<1>4. eof \in BOOLEAN
  BY DEF Init
<1>5. TypeOK
  BY <1>2, <1>3, <1>4 DEF Init, TypeOK, Filled, Slots
<1>6. SlotsHeld /\ SetupEmpty /\ LineHeld /\ LoopStarts /\ PendingUnheard /\ PollFailed
  BY DEF Init, SlotsHeld, SetupEmpty, LineHeld, LoopStarts, PendingUnheard, PollFailed
<1> QED  BY <1>5, <1>6 DEF IInv

(* Every step keeps the sockets typed.                                     *)
LEMMA SockTyped ==
  ASSUME IInv, Next PROVE sock' \in [Conns -> Socket]
<1> USE ConstantsAssumption
<1>1. sock \in [Conns -> Socket] /\ pollt \in [Slots -> Conns \cup {NoFd, Stray}]
  BY DEF IInv, TypeOK
<1>2. NewSocket \in Socket
  BY DEF NewSocket, Socket
<1>3. ASSUME NEW k \in Slots, pollt[k] # NoFd, pc \in {"read", "write"} PROVE pollt[k] \in Conns
  BY <1>3 DEF IInv, SlotsHeld, Filled
<1>4. ASSUME NEW c \in Conns PROVE AfterSend(c) \in {"up", "fin", "doomed", "reset", "rst"}
  BY <1>1 DEF Socket, AfterSend
<1>5. CASE write
  <2>1. PICK k \in Targets :
          LET c == pollt[k] IN
          \/ sock[c].peer = "up" /\ sock[c].queued < SendBuffer /\ sock' = [sock EXCEPT ![c].queued = @ + 1]
          \/ sock' = [sock EXCEPT ![c].peer = AfterSend(c)]
          \/ UNCHANGED sock
    BY <1>5 DEF write
  <2>2. k \in Slots /\ pollt[k] # NoFd
    BY <1>5, <2>1, TargetsAreSlots DEF write, Filled, IInv
  <2> DEFINE c == pollt[k]
  <2>3. c \in Conns
    BY <1>3, <1>5, <2>2 DEF write
  <2> HIDE DEF c
  <2>4. sock[c] \in Socket
    BY <1>1, <2>3
  <2>5. CASE sock[c].queued < SendBuffer /\ sock' = [sock EXCEPT ![c].queued = @ + 1]
    <3>1. sock[c].queued + 1 \in 0..SendBuffer
      BY <2>4, <2>5 DEF Socket
    <3>2. [sock[c] EXCEPT !.queued = sock[c].queued + 1] \in Socket
      BY <2>4, <3>1, SocketFields
    <3> QED  BY <1>1, <2>3, <2>5, <3>2
  <2>6. CASE sock' = [sock EXCEPT ![c].peer = AfterSend(c)]
    <3>1. [sock[c] EXCEPT !.peer = AfterSend(c)] \in Socket
      BY <1>4, <2>3, <2>4, SocketFields
    <3> QED  BY <1>1, <2>3, <2>6, <3>1
  <2> QED
    BY <1>1, <2>1, <2>5, <2>6 DEF c
<1>6. ASSUME NEW k \in Slots, read(k) PROVE sock' \in [Conns -> Socket]
  <2>1. pollt[k] \in Conns
    BY <1>3, <1>6 DEF read, FirstDue, Due
  <2>2. [sock[pollt[k]] EXCEPT !.seen = sock[pollt[k]].sent] \in Socket
    BY <1>1, <2>1 DEF Socket
  <2> QED  BY <1>1, <1>6, <2>1, <2>2 DEF read
<1>7. ASSUME NEW k \in Slots, read_closes(k) PROVE sock' \in [Conns -> Socket]
  BY <1>1, <1>2, <1>7 DEF read_closes
<1>8. ASSUME NEW c \in Conns, Peer(c) \/ ResetArrives(c) \/ PeerReads(c) PROVE sock' \in [Conns -> Socket]
  <2>1. sock[c] \in Socket  BY <1>1
  <2>2. PICK s \in Socket : sock' = [sock EXCEPT ![c] = s]
    <3>1. ASSUME sock[c].sent < MaxSegs, sock' = [sock EXCEPT ![c].sent = @ + 1]
          PROVE  \E s \in Socket : sock' = [sock EXCEPT ![c] = s]
      <4>1. sock[c].sent + 1 \in 0..MaxSegs  BY <2>1, <3>1 DEF Socket
      <4>2. [sock[c] EXCEPT !.sent = sock[c].sent + 1] \in Socket  BY <2>1, <4>1, SocketFields
      <4> QED  BY <3>1, <4>2
    <3>2. ASSUME NEW v \in {"fin", "reset"}, sock' = [sock EXCEPT ![c].peer = v, ![c].queued = 0]
          PROVE  \E s \in Socket : sock' = [sock EXCEPT ![c] = s]
      <4> DEFINE s == [sock[c] EXCEPT !.peer = v]
      <4>1. s \in Socket  BY <2>1, SocketFields
      <4>2. 0 \in 0..SendBuffer  OBVIOUS
      <4>3. [s EXCEPT !.queued = 0] \in Socket  BY <4>1, <4>2, SocketFields
      <4>4. sock' = [sock EXCEPT ![c] = [s EXCEPT !.queued = 0]]  BY <1>1, <3>2
      <4> QED  BY <4>3, <4>4
    <3>3. ASSUME sock' = [sock EXCEPT ![c].peer = "rst"]
          PROVE  \E s \in Socket : sock' = [sock EXCEPT ![c] = s]
      <4>1. [sock[c] EXCEPT !.peer = "rst"] \in Socket  BY <2>1, SocketFields
      <4> QED  BY <3>3, <4>1
    <3>4. ASSUME sock' = [sock EXCEPT ![c].queued = 0]
          PROVE  \E s \in Socket : sock' = [sock EXCEPT ![c] = s]
      <4>1. [sock[c] EXCEPT !.queued = 0] \in Socket  BY <2>1 DEF Socket
      <4> QED  BY <3>4, <4>1
    <3> QED  BY <1>8, <3>1, <3>2, <3>3, <3>4 DEF Peer, ResetArrives, PeerReads
  <2> QED  BY <1>1, <2>2
<1>9. ASSUME NEW c \in Conns, accept(c) \/ PeerConnects(c) PROVE UNCHANGED sock
  BY <1>9 DEF accept, PeerConnects
<1>10. CASE \/ setup \/ bind_fails \/ poll \/ accept_fails \/ read_stdin \/ read_stdin_eof
            \/ write_ends \/ read_ends \/ cleanup \/ Type
  BY <1>1, <1>10 DEF setup, bind_fails, poll, accept_fails, read_stdin, read_stdin_eof,
     write_ends, read_ends, cleanup, Type
<1> QED
  BY <1>1, <1>5, <1>6, <1>7, <1>8, <1>9, <1>10 DEF Next, Server, Environment

(* A step leaves every variable but sock typed.                            *)
LEMMA ServerTyped ==
  ASSUME IInv, Next, sock' \in [Conns -> Socket] PROVE TypeOK'
<1> USE ConstantsAssumption
<1>1. TypeOK /\ SlotsHeld /\ LineHeld
  BY DEF IInv
<1>2. CASE setup \/ accept_fails \/ read_stdin_eof \/ write_ends \/ read_ends
  BY <1>1, <1>2 DEF setup, accept_fails, read_stdin_eof, write_ends, read_ends, TypeOK, Filled,
     slots, stdin, Goto
<1>3. CASE bind_fails
  <2>1. ~Filled'
    BY <1>1, <1>3 DEF bind_fails, Goto, Filled, IInv, PollFailed
  <2> QED  BY <1>1, <1>3, <2>1 DEF bind_fails, TypeOK, stdin, Goto
<1>4. CASE poll
  <2>1. revents' \in SUBSET AllSlots
    <3>1. ASSUME NEW k \in revents' PROVE k \in AllSlots
      <4>1. k \in revents \/ k \in 0..(nfds - 1)
        BY <1>4, <3>1 DEF poll
      <4>2. nfds \in 0..(MAX_CLIENTS + 1) /\ revents \subseteq 0..MAX_CLIENTS
        BY <1>1, <1>4 DEF TypeOK, Filled, poll, AllSlots
      <4>3. ASSUME k \in 0..(nfds - 1) PROVE k \in 0..MAX_CLIENTS
        BY <4>2, <4>3
      <4> QED  BY <4>1, <4>2, <4>3 DEF AllSlots
    <3> QED  BY <3>1
  <2>2. r' \in {-1, 0, 1} /\ pc' \in {"poll", "accept", "stdin", "read"}
    BY <1>4 DEF poll, AfterAccept
  <2> QED
    BY <1>1, <1>4, <2>1, <2>2 DEF poll, TypeOK, Filled, slots, stdin
<1>5. ASSUME NEW c \in Conns, accept(c) PROVE TypeOK'
  <2>1. pollt' \in [Slots -> Conns \cup {NoFd, Stray}] /\ nfds' \in 2..(MAX_CLIENTS + 1)
    <3>1. CASE UNCHANGED slots
      BY <1>1, <1>5, <3>1 DEF slots, accept, Goto, Filled, TypeOK
    <3>2. ASSUME NEW k \in FreeSlots, pollt' = [pollt EXCEPT ![k] = c],
                 nfds' = IF k >= nfds THEN k + 1 ELSE nfds
          PROVE  pollt' \in [Slots -> Conns \cup {NoFd, Stray}] /\ nfds' \in 2..(MAX_CLIENTS + 1)
      BY <1>1, <1>5, <3>2 DEF FreeSlots, accept, Goto, Filled, TypeOK, Slots
    <3> QED  BY <1>5, <3>1, <3>2 DEF accept
  <2> QED
    BY <1>1, <1>5, <2>1 DEF accept, TypeOK, Filled, stdin, Goto, AfterAccept
<1>6. CASE read_stdin
  BY <1>1, <1>6 DEF read_stdin, TypeOK, Filled, slots, Goto
<1>7. CASE write
  <2>1. PICK k \in Targets : /\ written' = [written EXCEPT ![pollt[k]] = Append(@, line)]
                             /\ i' = k + 1
    BY <1>7 DEF write
  <2>2. k \in Slots /\ pollt[k] # NoFd /\ i' \in 2..(MAX_CLIENTS + 1)
    <3>1. k \in Slots /\ pollt[k] # NoFd
      BY <1>1, <1>7, <2>1, TargetsAreSlots DEF write, Filled
    <3> QED  BY <2>1, <3>1 DEF Slots
  <2>3. pollt[k] \in Conns /\ line \in 1..MaxLines
    BY <1>1, <1>7, <2>2 DEF write, SlotsHeld, Filled, LineHeld, TypeOK
  <2>4. Append(written[pollt[k]], line) \in Seq(1..MaxLines)
    BY <1>1, <2>3 DEF TypeOK
  <2>5. written' \in [Conns -> Seq(1..MaxLines)]
    BY <1>1, <2>1, <2>3, <2>4 DEF TypeOK
  <2>6. pc' \in {"write", "killed"}
    BY <1>7 DEF write
  <2> QED
    BY <1>1, <1>7, <2>2, <2>5, <2>6 DEF write, TypeOK, Filled, slots, stdin
<1>8. ASSUME NEW k \in Slots, read(k) \/ read_closes(k) PROVE TypeOK'
  <2>1. /\ i' = k + 1 /\ pc = "read" /\ pc' \in {"read", "killed"}
        /\ UNCHANGED <<nfds, polled, revents, r, line, written, stdin>>
        /\ pollt' = pollt \/ pollt' = [pollt EXCEPT ![k] = NoFd]
        /\ conn' = conn \/ conn' = [conn EXCEPT ![pollt[k]] = "closed"]
    BY <1>8 DEF read, read_closes, slots
  <2>2. i' \in 2..(MAX_CLIENTS + 1)
    BY <2>1 DEF Slots
  <2>3. pollt' \in [Slots -> Conns \cup {NoFd, Stray}]
    BY <1>1, <2>1 DEF TypeOK
  <2> QED
    BY <1>1, <2>1, <2>2, <2>3 DEF TypeOK, Filled, stdin
<1>9. CASE cleanup
  <2>1. conn' \in [Conns -> {"new", "queued", "open", "closed"}]
    BY <1>1, <1>9 DEF cleanup, TypeOK
  <2> QED
    BY <1>1, <1>9, <2>1 DEF cleanup, TypeOK, Filled, slots, stdin, Goto
<1>10. ASSUME NEW c \in Conns, PeerConnects(c) \/ Peer(c) \/ ResetArrives(c) \/ PeerReads(c) PROVE TypeOK'
  BY <1>1, <1>10 DEF PeerConnects, Peer, ResetArrives, PeerReads, TypeOK, Filled, server, slots, stdin
<1>11. CASE Type
  <2>1. eof' \in BOOLEAN
    BY <1>1, <1>11 DEF TypeOK, Type
  <2> QED
    BY <1>1, <1>11, <2>1 DEF TypeOK, Filled, Type, server, slots
<1> QED
  BY <1>2, <1>3, <1>4, <1>5, <1>6, <1>7, <1>8, <1>9, <1>10, <1>11 DEF Next, Server, Environment

(* The table of slots survives every step.                                 *)
LEMMA SlotsStep ==
  ASSUME IInv, Next PROVE SlotsHeld' /\ SetupEmpty'
<1> USE ConstantsAssumption
<1>1. TypeOK /\ SlotsHeld /\ SetupEmpty /\ PollFailed
  BY DEF IInv
<1>2. ASSUME UNCHANGED <<pollt, nfds, conn>>, Filled, pc' # "setup" PROVE SlotsHeld' /\ SetupEmpty'
  BY <1>1, <1>2 DEF SlotsHeld, SetupEmpty, Filled
<1>3. CASE \/ setup \/ poll \/ accept_fails \/ read_stdin \/ read_stdin_eof \/ write \/ write_ends
           \/ read_ends
  <2>1. UNCHANGED <<pollt, nfds, conn>> /\ pc' # "setup"
    BY <1>3 DEF setup, poll, accept_fails, read_stdin, read_stdin_eof, write, write_ends, read_ends,
       slots, Goto, AfterAccept
  <2>2. Filled
    BY <1>3 DEF setup, poll, accept_fails, read_stdin, read_stdin_eof, write, write_ends, read_ends,
       Goto, Filled
  <2> QED  BY <1>2, <2>1, <2>2
<1>4. CASE bind_fails
  BY <1>1, <1>4 DEF bind_fails, Goto, SlotsHeld, SetupEmpty, Filled, PollFailed
<1>5. ASSUME NEW c \in Conns, accept(c) PROVE SlotsHeld' /\ SetupEmpty'
  <2>1. /\ pc = "accept" /\ pc' \in {"stdin", "read"} /\ conn[c] = "queued"
        /\ conn' = [conn EXCEPT ![c] = "open"]
    BY <1>5 DEF accept, Goto, AfterAccept
  <2>2. CASE UNCHANGED slots
    BY <1>1, <2>1, <2>2 DEF slots, SlotsHeld, SetupEmpty, Filled, TypeOK
  <2>3. ASSUME NEW k \in FreeSlots, pollt' = [pollt EXCEPT ![k] = c],
               nfds' = IF k >= nfds THEN k + 1 ELSE nfds
        PROVE  SlotsHeld' /\ SetupEmpty'
    <3>1. k \in Slots /\ k \in Int /\ nfds \in Int
      BY <1>1 DEF FreeSlots, Slots, TypeOK
    <3>2. \A j \in Slots : pollt[j] # NoFd =>
             j < nfds /\ pollt[j] \in Conns /\ conn[pollt[j]] = "open" /\ pollt[j] # c
                /\ \A m \in Slots : pollt[m] = pollt[j] => m = j
      BY <1>1, <2>1 DEF SlotsHeld, Filled
    <3>3. \A j \in Slots : j \in Int  BY DEF Slots
    <3>4. k < nfds' /\ nfds <= nfds' /\ nfds' \in Int
      BY <3>1, <2>3
    <3>5. pollt \in [Slots -> Conns \cup {NoFd, Stray}] /\ conn \in [Conns -> {"new", "queued", "open", "closed"}]
      BY <1>1 DEF TypeOK
    <3>6. ASSUME NEW j \in Slots, pollt'[j] # NoFd
          PROVE  /\ j < nfds' /\ pollt'[j] \in Conns /\ conn'[pollt'[j]] = "open"
                 /\ \A m \in Slots : pollt'[m] = pollt'[j] => m = j
      <4>1. CASE j = k
        BY <2>1, <2>3, <3>1, <3>2, <3>4, <3>5, <4>1
      <4>2. CASE j # k
        <5>1. pollt'[j] = pollt[j]  BY <2>3, <3>1, <3>5, <4>2
        <5>2. j < nfds'  BY <3>1, <3>2, <3>3, <3>4, <3>6, <5>1
        <5> QED  BY <2>1, <2>3, <3>1, <3>2, <3>5, <3>6, <4>2, <5>1, <5>2
      <4> QED  BY <4>1, <4>2
    <3> QED  BY <2>1, <3>6 DEF SlotsHeld, SetupEmpty
  <2> QED
    BY <1>5, <2>2, <2>3 DEF accept
<1>6. ASSUME NEW k \in Slots, read(k) PROVE SlotsHeld' /\ SetupEmpty'
  BY <1>2, <1>6 DEF read, slots, Filled
<1>7. ASSUME NEW k \in Slots, read_closes(k) PROVE SlotsHeld' /\ SetupEmpty'
  <2>1. /\ pc = "read" /\ pollt[k] # NoFd /\ pc' \in {"read", "killed"} /\ nfds' = nfds
        /\ pollt' = [pollt EXCEPT ![k] = NoFd]
        /\ conn' = [conn EXCEPT ![pollt[k]] = "closed"]
    BY <1>7 DEF read_closes, FirstDue, Due
  <2> QED
    BY <1>1, <2>1 DEF SlotsHeld, SetupEmpty, Filled, TypeOK
<1>8. CASE cleanup
  BY <1>8 DEF cleanup, Goto, SlotsHeld, SetupEmpty, Filled
<1>9. ASSUME NEW c \in Conns, PeerConnects(c) PROVE SlotsHeld' /\ SetupEmpty'
  BY <1>1, <1>9 DEF PeerConnects, server, slots, SlotsHeld, SetupEmpty, Filled, TypeOK
<1>10. ASSUME NEW c \in Conns, Peer(c) \/ ResetArrives(c) \/ PeerReads(c) PROVE SlotsHeld' /\ SetupEmpty'
  BY <1>1, <1>10 DEF Peer, ResetArrives, PeerReads, server, slots, SlotsHeld, SetupEmpty, Filled
<1>11. CASE Type
  BY <1>1, <1>11 DEF Type, server, slots, SlotsHeld, SetupEmpty, Filled
<1> QED
  BY <1>3, <1>4, <1>5, <1>6, <1>7, <1>8, <1>9, <1>10, <1>11 DEF Next, Server, Environment

(* So do the facts about the broadcast in progress.                        *)
LEMMA BroadcastStep ==
  ASSUME IInv, Next PROVE LineHeld' /\ LoopStarts' /\ PendingUnheard' /\ PollFailed'
<1> USE ConstantsAssumption
<1>1. TypeOK /\ SlotsHeld /\ LineHeld /\ LoopStarts /\ PendingUnheard /\ PollFailed
  BY DEF IInv
<1>2. CASE \/ setup \/ bind_fails \/ accept_fails \/ read_stdin \/ read_stdin_eof \/ write_ends
           \/ read_ends
  BY <1>1, <1>2 DEF setup, bind_fails, accept_fails, read_stdin, read_stdin_eof, write_ends,
     read_ends, Goto, slots, stdin, LineHeld, LoopStarts, PendingUnheard, PollFailed, TypeOK
<1>3. CASE poll
  <2>1. pc = "poll" /\ pc' \in {"poll", "accept", "stdin", "read"} /\ (r' = -1 => pc' = "read")
    BY <1>3 DEF poll, AfterAccept
  <2> QED
    BY <1>1, <1>3, <2>1 DEF poll, stdin, LineHeld, LoopStarts, PendingUnheard, PollFailed
<1>4. ASSUME NEW c \in Conns, accept(c)
      PROVE  LineHeld' /\ LoopStarts' /\ PendingUnheard' /\ PollFailed'
  BY <1>1, <1>4 DEF accept, Goto, AfterAccept, stdin, LineHeld, LoopStarts, PendingUnheard,
     PollFailed, TypeOK
<1>5. CASE write
  <2>1. PICK k \in Targets : written' = [written EXCEPT ![pollt[k]] = Append(@, line)]
    BY <1>5 DEF write
  <2>2. k \in Slots /\ pollt[k] # NoFd
    BY <1>1, <1>5, <2>1, TargetsAreSlots DEF write, Filled
  <2>3. pollt[k] \in Conns /\ conn[pollt[k]] = "open"
    BY <1>1, <1>5, <2>2 DEF write, SlotsHeld, Filled
  <2>4. pc' \in {"write", "killed"}
    BY <1>5 DEF write
  <2>5. PendingUnheard'
    BY <1>1, <1>5, <2>1, <2>3 DEF write, PendingUnheard, TypeOK
  <2> QED
    BY <1>1, <1>5, <2>4, <2>5 DEF write, stdin, LineHeld, LoopStarts, PollFailed
<1>6. ASSUME NEW k \in Slots, read(k) \/ read_closes(k)
      PROVE  LineHeld' /\ LoopStarts' /\ PendingUnheard' /\ PollFailed'
  <2>1. /\ pc = "read" /\ pc' \in {"read", "killed"} /\ UNCHANGED <<line, r, written, stdin>>
        /\ conn' = conn \/ conn' = [conn EXCEPT ![pollt[k]] = "closed"]
    BY <1>6 DEF read, read_closes
  <2> QED
    BY <1>1, <2>1 DEF stdin, LineHeld, LoopStarts, PendingUnheard, PollFailed, TypeOK
<1>7. CASE cleanup
  BY <1>1, <1>7 DEF cleanup, Goto, stdin, LineHeld, LoopStarts, PendingUnheard, PollFailed, TypeOK
<1>8. ASSUME NEW c \in Conns, PeerConnects(c) \/ Peer(c) \/ ResetArrives(c) \/ PeerReads(c)
      PROVE  LineHeld' /\ LoopStarts' /\ PendingUnheard' /\ PollFailed'
  BY <1>1, <1>8 DEF PeerConnects, Peer, ResetArrives, PeerReads, server, stdin, LineHeld, LoopStarts,
     PendingUnheard, PollFailed, TypeOK
<1>9. CASE Type
  BY <1>1, <1>9 DEF Type, server, LineHeld, LoopStarts, PendingUnheard, PollFailed
<1> QED
  BY <1>2, <1>3, <1>4, <1>5, <1>6, <1>7, <1>8, <1>9 DEF Next, Server, Environment

(* A step keeps the invariant.                                             *)
LEMMA StepKeepsIInv == ASSUME IInv, [Next]_vars PROVE IInv'
<1>1. ASSUME Next PROVE IInv'
  BY <1>1, SockTyped, ServerTyped, SlotsStep, BroadcastStep DEF IInv
<1>2. ASSUME UNCHANGED vars PROVE IInv'
  BY <1>2 DEF IInv, vars, server, slots, stdin, TypeOK, SlotsHeld, Filled, SetupEmpty, LineHeld,
     LoopStarts, PendingUnheard, PollFailed
<1> QED  BY <1>1, <1>2

(* Every behaviour of the server keeps the invariant.                      *)
THEOREM Invariance == Spec => []IInv
<1>1. IInv /\ [Next]_vars => IInv'
  BY StepKeepsIInv
<1> QED  BY <1>1, InitIInv, PTL DEF Spec

(* Every variable keeps its type: in the loop, and in the cleanup after a  *)
(* failed poll(), nfds is between 2 and the length of pollt, whoever comes *)
(* and goes.  After a failed bind() it is whatever the stack held.         *)
THEOREM TypeCorrect == Spec => []TypeOK
  BY Invariance, PTL DEF IInv

(* However clients come and go, poll(), the broadcast, the reading loop    *)
(* and cleanup see every client that accept() has put in a slot, and no    *)
(* descriptor is in two slots or used after its close().                   *)
THEOREM ClientsAlwaysCovered == Spec => []ClientsCovered
<1>1. IInv => ClientsCovered
  BY DEF IInv, SlotsHeld, Filled, ClientsCovered
<1> QED  BY <1>1, Invariance, PTL

-----------------------------------------------------------------------------
(* What poll() reported holds until the reading loop gets there: a slot it *)
(* has not reached, that poll() covered and whose revents has POLLIN, has  *)
(* something to read.  When accept() looks for a free slot, none of those  *)
(* that poll() covered has POLLIN.                                         *)
Polled == pc \in {"accept", "stdin", "write"} \/ (pc = "read" /\ r # -1)
PolledFresh ==
  Polled => \A k \in Slots : k \in revents /\ k < polled =>
              /\ pollt[k] # NoFd /\ (pc = "read" => i <= k) => Readable(pollt[k])
              /\ pc = "accept" => pollt[k] # NoFd

(* Whatever the memory that was never written holds, poll()'s report stays *)
(* valid until it has been used.                                           *)
LEMMA PolledStep ==
  ASSUME IInv, IInv', PolledFresh, Next PROVE PolledFresh'
<1> USE ConstantsAssumption
<1>1. /\ TypeOK /\ SlotsHeld /\ LoopStarts /\ PollFailed /\ PolledFresh /\ PollFailed'
  BY DEF IInv
<1>2. CASE setup \/ bind_fails \/ accept_fails \/ read_ends \/ cleanup
  BY <1>1, <1>2 DEF setup, bind_fails, accept_fails, read_ends, cleanup, Goto, slots, Polled,
     PolledFresh
<1>3. CASE poll
  <2>1. CASE UNCHANGED revents /\ r' = -1 /\ pc' = "read"
    BY <1>1, <1>3, <2>1 DEF poll, slots, Polled, PolledFresh
  <2>2. CASE /\ revents' = {k \in revents : k >= nfds} \cup {k \in 0..(nfds - 1) : Pollin(k)}
             /\ polled' = nfds
    <3>1. \A k \in Slots : k \in revents' /\ k < polled' => Pollin(k)
      BY <1>1, <1>3, <2>2 DEF poll, TypeOK, Slots
    <3>2. \A k \in Slots : k \in revents' /\ k < polled' => pollt[k] # NoFd /\ Readable(pollt[k])
      BY <3>1 DEF Pollin, Slots
    <3>3. UNCHANGED <<pollt, nfds, sock>>
      BY <1>3 DEF poll, slots
    <3> QED
      BY <3>2, <3>3 DEF PolledFresh, Readable
  <2> QED
    BY <1>3, <2>1, <2>2 DEF poll
<1>4. ASSUME NEW c \in Conns, accept(c) PROVE PolledFresh'
  <2>1. /\ pc = "accept" /\ pc' \in {"stdin", "read"} /\ i = 2
        /\ UNCHANGED <<polled, revents, r, i, sock>>
    BY <1>1, <1>4 DEF accept, Goto, AfterAccept, LoopStarts
  <2>2. CASE UNCHANGED slots
    BY <1>1, <2>1, <2>2 DEF slots, Polled, PolledFresh, Readable, Slots
  <2>3. ASSUME NEW k \in FreeSlots, pollt' = [pollt EXCEPT ![k] = c],
               nfds' = IF k >= nfds THEN k + 1 ELSE nfds
        PROVE  PolledFresh'
    <3>1. k \in Slots /\ ~(k \in revents /\ k < polled)
      BY <1>1, <2>1 DEF FreeSlots, PolledFresh, Polled
    <3>2. \A j \in Slots : j \in revents /\ j < polled => pollt'[j] = pollt[j] /\ Readable(pollt[j])
      BY <1>1, <2>1, <2>3, <3>1 DEF PolledFresh, Polled, TypeOK, Slots
    <3> QED  BY <2>1, <3>2 DEF PolledFresh, Polled, Readable
  <2> QED
    BY <1>4, <2>2, <2>3 DEF accept
<1>5. CASE read_stdin \/ read_stdin_eof
  <2>1. /\ pc = "stdin" /\ pc' \in {"write", "read"} /\ UNCHANGED <<pollt, polled, revents, r, i, sock>>
        /\ Polled /\ i = 2
    BY <1>1, <1>5 DEF read_stdin, read_stdin_eof, Goto, slots, Polled, LoopStarts
  <2> QED
    BY <1>1, <2>1 DEF PolledFresh, Polled, Readable
<1>6. CASE write
  <2>1. PICK k \in Targets :
          LET c == pollt[k] IN
          \/ sock' = [sock EXCEPT ![c].queued = @ + 1]
          \/ sock[c].peer \notin {"up", "rst"} /\ sock' = [sock EXCEPT ![c].peer = AfterSend(c)]
          \/ UNCHANGED sock
    BY <1>6 DEF write
  <2>2. k \in Slots /\ pollt[k] # NoFd
    BY <1>1, <1>6, <2>1, TargetsAreSlots DEF write, Filled
  <2>3. pollt[k] \in Conns
    BY <1>1, <1>6, <2>2 DEF write, SlotsHeld, Filled
  <2>4. /\ pc = "write" /\ pc' \in {"write", "killed"} /\ Polled
        /\ UNCHANGED <<pollt, polled, revents, r>>
    BY <1>6 DEF write, slots, Polled
  <2>5. \A c \in Conns : Readable(c) => Readable(c)'
    <3> DEFINE d == pollt[k]
    <3>1. sock[d] \in Socket /\ sock \in [Conns -> Socket] /\ d \in Conns
      BY <1>1, <2>3 DEF TypeOK
    <3> HIDE DEF d
    <3>2. CASE sock' = [sock EXCEPT ![d].queued = @ + 1]
      BY <3>1, <3>2 DEF Readable, Socket
    <3>3. CASE sock[d].peer \notin {"up", "rst"} /\ sock' = [sock EXCEPT ![d].peer = AfterSend(d)]
      <4>1. AfterSend(d) # "up"
        BY <3>3 DEF AfterSend
      <4>2. sock'[d].peer # "up" /\ \A c \in Conns : c # d => sock'[c] = sock[c]
        BY <3>1, <3>3, <4>1 DEF Socket
      <4> QED  BY <4>2 DEF Readable
    <3>4. CASE UNCHANGED sock
      BY <3>4 DEF Readable
    <3> QED  BY <2>1, <3>2, <3>3, <3>4 DEF d
  <2>6. \A j \in Slots : pollt[j] # NoFd => pollt[j] \in Conns
    BY <1>1, <2>4 DEF SlotsHeld, Filled
  <2> QED
    BY <1>1, <2>4, <2>5, <2>6 DEF PolledFresh, Polled
<1>7. CASE write_ends
  BY <1>1, <1>7 DEF write_ends, Goto, slots, Polled, PolledFresh, Readable
<1>8. ASSUME NEW k \in Slots, read(k) \/ read_closes(k) PROVE PolledFresh'
  <2>1. /\ pc = "read" /\ pc' \in {"read", "killed"} /\ i' = k + 1
        /\ UNCHANGED <<polled, revents, r>> /\ i <= k /\ pollt[k] # NoFd
    BY <1>1, <1>8 DEF read, read_closes, slots, FirstDue, Due, TypeOK
  <2>2. pollt[k] \in Conns
    BY <1>1, <2>1 DEF SlotsHeld, Filled
  <2>3. \A j \in Slots : j # k => pollt'[j] = pollt[j]
    BY <1>1, <1>8 DEF read, read_closes, slots, TypeOK
  <2>4. \A c \in Conns : c # pollt[k] => sock'[c] = sock[c]
    BY <1>1, <1>8 DEF read, read_closes, TypeOK
  <2>5. \A j \in Slots : j # k /\ pollt[j] # NoFd => pollt[j] \in Conns /\ pollt[j] # pollt[k]
    BY <1>1, <2>1 DEF SlotsHeld, Filled
  <2>6. PolledFresh'
    <3> SUFFICES ASSUME Polled', NEW j \in Slots, j \in revents', j < polled', pollt'[j] # NoFd,
                        pc' = "read" => i' <= j
                 PROVE  Readable(pollt[j])'
      BY <2>1 DEF PolledFresh
    <3>1. pc' = "read" /\ r # -1
      BY <2>1 DEF Polled
    <3>2. j # k /\ i <= j
      BY <1>1, <2>1, <3>1 DEF Slots, TypeOK
    <3>3. Readable(pollt[j])
      BY <1>1, <2>1, <2>3, <3>1, <3>2 DEF PolledFresh, Polled
    <3> QED  BY <2>3, <2>4, <2>5, <3>2, <3>3 DEF Readable
  <2> QED
    BY <2>6
<1>9. ASSUME Environment PROVE PolledFresh'
  <2>1. UNCHANGED <<pc, pollt, polled, revents, r, i>>
    BY <1>9 DEF Environment, Type, PeerConnects, Peer, ResetArrives, PeerReads, server, slots
  <2>2. \A c \in Conns : Readable(c) => Readable(c)'
    <3>1. CASE UNCHANGED sock
      BY <3>1 DEF Readable
    <3>2. ASSUME NEW c \in Conns, Peer(c) \/ ResetArrives(c) \/ PeerReads(c)
          PROVE  \A d \in Conns : Readable(d) => Readable(d)'
      <4>1. sock[c] \in Socket /\ sock \in [Conns -> Socket]
        BY <1>1 DEF TypeOK
      <4>2. \A d \in Conns : d # c => sock'[d] = sock[d]
        BY <3>2, <4>1 DEF Peer, ResetArrives, PeerReads
      <4>3. Readable(c) => Readable(c)'
        <5>1. CASE sock' = [sock EXCEPT ![c].sent = @ + 1]
          BY <4>1, <5>1 DEF Readable, Socket
        <5>2. CASE sock' = [sock EXCEPT ![c].queued = 0]
          BY <4>1, <5>2 DEF Readable, Socket
        <5>3. ASSUME NEW v \in {"fin", "reset"}, sock' = [sock EXCEPT ![c].peer = v, ![c].queued = 0]
              PROVE  Readable(c)'
          BY <4>1, <5>3 DEF Readable, Socket
        <5>4. CASE sock' = [sock EXCEPT ![c].peer = "rst"]
          BY <4>1, <5>4 DEF Readable, Socket
        <5> QED  BY <3>2, <5>1, <5>2, <5>3, <5>4 DEF Peer, ResetArrives, PeerReads
      <4> QED  BY <4>2, <4>3 DEF Readable
    <3> QED  BY <1>9, <3>1, <3>2 DEF Environment, Type, PeerConnects
  <2>3. Polled => \A j \in Slots : pollt[j] # NoFd => pollt[j] \in Conns
    BY <1>1 DEF SlotsHeld, Filled, Polled
  <2> QED
    BY <1>1, <2>1, <2>2, <2>3 DEF PolledFresh, Polled
<1> QED
  BY <1>2, <1>3, <1>4, <1>5, <1>6, <1>7, <1>8, <1>9 DEF Next, Server

(* Unless poll() fails, the only thread blocks in read() on no slot that   *)
(* poll() has covered: such a slot, when the loop reads it, has data, an   *)
(* end of stream or an error, whatever was in the revents nobody wrote.    *)
THEOREM NoBlockingRead == Spec => []ReadNeverBlocks
<1>1. Init => PolledFresh
  BY DEF Init, PolledFresh, Polled
<1>2. IInv /\ IInv' /\ PolledFresh /\ [Next]_vars => PolledFresh'
  <2>1. ASSUME PolledFresh, UNCHANGED vars PROVE PolledFresh'
    BY <2>1 DEF vars, server, slots, PolledFresh, Polled, Readable
  <2> QED  BY <2>1, PolledStep
<1>3. IInv /\ PolledFresh => ReadNeverBlocks
  <2> SUFFICES ASSUME IInv, PolledFresh, pc = "read", r # -1, NEW k \in Slots, FirstDue(k), ~(k >= polled)
               PROVE  Readable(pollt[k])
    BY DEF ReadNeverBlocks
  <2>1. k \in revents /\ pollt[k] # NoFd /\ i <= k /\ k < polled
    BY ConstantsAssumption DEF FirstDue, Due, IInv, TypeOK, Filled, Slots
  <2> QED  BY <2>1 DEF PolledFresh, Polled
<1> QED  BY <1>1, <1>2, <1>3, Invariance, PTL DEF Spec

-----------------------------------------------------------------------------
(* Seen through Members and Owed, a step of the server is a step of        *)
(* Broadcast or leaves its variables alone.                                *)
LEMMA StepSimulates ==
  ASSUME IInv, IInv', [Next]_vars PROVE [Chat!BroadcastNext]_(Chat!bvars)
<1> USE ConstantsAssumption
<1>1. /\ TypeOK /\ SlotsHeld /\ SetupEmpty /\ LineHeld /\ LoopStarts /\ PendingUnheard
      /\ LineHeld' /\ SlotsHeld'
  BY DEF IInv
<1>2. ASSUME UNCHANGED <<pollt, nfds, i, line, taken, written>> PROVE UNCHANGED Chat!bvars
  BY <1>2 DEF Chat!bvars, Members, Owed, Targets
<1>3. ASSUME UNCHANGED <<pollt, taken, written>>, line = 0, line' = 0 PROVE UNCHANGED Chat!bvars
  BY <1>3 DEF Chat!bvars, Members, Owed
<1>4. CASE setup \/ poll \/ accept_fails \/ read_stdin_eof \/ cleanup \/ Environment \/ UNCHANGED vars
  BY <1>2, <1>4 DEF setup, poll, accept_fails, read_stdin_eof, cleanup, Environment, Type,
     PeerConnects, Peer, ResetArrives, PeerReads, vars, server, slots, stdin
<1>5. CASE bind_fails
  <2>1. Members = {} /\ Members' = {}
    BY <1>1, <1>5 DEF bind_fails, Goto, SetupEmpty, Members
  <2>2. line = 0 /\ line' = 0 /\ UNCHANGED <<taken, written>>
    BY <1>1, <1>5 DEF bind_fails, Goto, LineHeld, stdin
  <2> QED  BY <2>1, <2>2 DEF Chat!bvars, Owed
<1>6. ASSUME NEW c \in Conns, accept(c) PROVE [Chat!BroadcastNext]_(Chat!bvars)
  <2>1. /\ pc = "accept" /\ line = 0 /\ line' = 0 /\ conn[c] = "queued"
        /\ UNCHANGED <<i, written, taken>>
    BY <1>1, <1>6 DEF accept, Goto, LineHeld, stdin
  <2>2. CASE UNCHANGED slots
    BY <1>3, <2>1, <2>2 DEF slots
  <2>3. ASSUME NEW k \in FreeSlots, pollt' = [pollt EXCEPT ![k] = c] PROVE Chat!Join(c)
    <3>1. k \in Slots /\ pollt[k] = NoFd
      BY DEF FreeSlots
    <3>2. c \notin Members
      BY <1>1, <2>1 DEF Members, SlotsHeld, Filled
    <3>3. Members' = Members \cup {c}
      BY <1>1, <2>3, <3>1 DEF Members, TypeOK
    <3>4. written[c] = <<>>
      BY <1>1, <2>1 DEF PendingUnheard
    <3> QED  BY <2>1, <3>2, <3>3, <3>4 DEF Chat!Join, Owed
  <2> QED
    BY <1>6, <2>2, <2>3 DEF accept, Chat!BroadcastNext
<1>7. CASE read_stdin
  <2>1. /\ pc = "stdin" /\ line = 0 /\ line' # 0 /\ i' = 2 /\ taken' = taken + 1
        /\ UNCHANGED <<pollt, nfds, written>>
    BY <1>1, <1>7 DEF read_stdin, Goto, LineHeld, LoopStarts, slots
  <2>2. Owed' = Members'
    <3>1. Owed' = {pollt[k] : k \in {j \in 2..(nfds - 1) : pollt[j] # NoFd}}
      BY <2>1 DEF Owed, Targets
    <3>2. \A k \in Slots : pollt[k] # NoFd => k < nfds /\ pollt[k] \in Conns
      BY <1>1, <2>1 DEF SlotsHeld, Filled
    <3>3. nfds \in 0..(MAX_CLIENTS + 1) /\ NoFd \notin Conns
      BY <1>1, <2>1 DEF TypeOK, Filled
    <3>4. {j \in 2..(nfds - 1) : pollt[j] # NoFd} = {j \in Slots : pollt[j] # NoFd}
      BY <3>2, <3>3 DEF Slots
    <3>5. Members' = {pollt[k] : k \in {j \in Slots : pollt[j] # NoFd}}
      BY <2>1, <3>2, <3>3 DEF Members
    <3> QED  BY <3>1, <3>4, <3>5
  <2>3. Members' = Members /\ Owed = {}
    BY <2>1 DEF Members, Owed
  <2> QED
    BY <2>1, <2>2, <2>3 DEF Chat!BroadcastNext, Chat!Say
<1>8. CASE write
  <2>1. PICK k \in Targets : /\ written' = [written EXCEPT ![pollt[k]] = Append(@, line)]
                             /\ i' = k + 1 /\ \A j \in Targets : k <= j
    BY <1>8 DEF write
  <2>2. k \in Slots /\ pollt[k] # NoFd /\ k \in i..(nfds - 1)
    BY <1>1, <1>8, <2>1, TargetsAreSlots DEF Targets, write, Filled
  <2>3. /\ pc = "write" /\ line # 0 /\ line = taken
        /\ UNCHANGED <<pollt, nfds, line, taken>>
    BY <1>1, <1>8 DEF write, LineHeld, slots, stdin
  <2>4. pollt[k] \in Conns /\ \A j \in Slots : pollt[j] = pollt[k] => j = k
    BY <1>1, <2>2, <2>3 DEF SlotsHeld, Filled
  <2>5. Targets' = Targets \ {k}
    BY <1>1, <2>1, <2>2, <2>3 DEF Targets, TypeOK
  <2>6. \A j \in Targets : j \in Slots
    BY <1>1, <2>3, TargetsAreSlots DEF Filled
  <2>7. Owed = {pollt[j] : j \in Targets} /\ Owed' = {pollt[j] : j \in Targets \ {k}}
    BY <2>3, <2>5 DEF Owed
  <2>8. Owed' = Owed \ {pollt[k]} /\ pollt[k] \in Owed
    BY <2>1, <2>4, <2>6, <2>7
  <2>9. Chat!Tell(pollt[k])
    BY <2>1, <2>3, <2>8 DEF Chat!Tell, Members
  <2> QED
    BY <2>4, <2>9 DEF Chat!BroadcastNext
<1>9. CASE write_ends
  <2>1. Targets = {} /\ line' = 0 /\ UNCHANGED <<pollt, taken, written>>
    BY <1>9 DEF write_ends, slots, stdin
  <2>2. Owed = {} /\ Owed' = {}
    BY <2>1 DEF Owed
  <2> QED  BY <2>1, <2>2 DEF Chat!bvars, Members
<1>10. CASE read_ends \/ \E k \in Slots : read(k)
  BY <1>1, <1>3, <1>10 DEF read_ends, read, Goto, slots, stdin, LineHeld
<1>11. ASSUME NEW k \in Slots, read_closes(k) PROVE Chat!BroadcastNext
  <2>1. /\ pc = "read" /\ pollt[k] # NoFd /\ line = 0 /\ line' = 0
        /\ UNCHANGED <<taken, written>> /\ pollt' = [pollt EXCEPT ![k] = NoFd]
    BY <1>1, <1>11 DEF read_closes, FirstDue, Due, LineHeld, stdin
  <2>2. pollt[k] \in Conns /\ \A j \in Slots : pollt[j] = pollt[k] => j = k
    BY <1>1, <2>1 DEF SlotsHeld, Filled
  <2>3. Members' = Members \ {pollt[k]} /\ pollt[k] \in Members
    BY <1>1, <2>1, <2>2 DEF Members, TypeOK
  <2>4. Chat!Leave(pollt[k])
    BY <2>1, <2>3 DEF Chat!Leave, Owed
  <2> QED  BY <2>2, <2>4 DEF Chat!BroadcastNext
<1> QED
  BY <1>4, <1>5, <1>6, <1>7, <1>8, <1>9, <1>10, <1>11 DEF Next, Server

(* The server implements Broadcast: whoever is in a slot is written each   *)
(* line main reads from stdin, once and in order, and main reads no other  *)
(* line and gives no slot away before the broadcast of a line has ended.   *)
THEOREM Refinement == Spec => ImplementsBroadcast
<1>1. Init => Chat!BroadcastInit
  BY ConstantsAssumption DEF Init, Chat!BroadcastInit, Members, Owed
<1>2. IInv /\ IInv' /\ [Next]_vars => [Chat!BroadcastNext]_(Chat!bvars)
  BY StepSimulates
<1> QED
  BY <1>1, <1>2, Invariance, PTL DEF Spec, ImplementsBroadcast, Chat!BroadcastSpec

-----------------------------------------------------------------------------
(* The server among its clients.  A client inside its loop is connected    *)
(* and has not closed; a connection it has not closed, to a server that    *)
(* runs, has a client inside its loop.                                     *)
ClientTypes ==
  /\ cpc \in [Conns -> {"connectf", "poll", "socket", "stdin", "write", "returned", "killed"}]
  /\ crevents \in [Conns -> SUBSET {0, 1}]
InsideIsUp == \A c \in Conns : Inside(c) => conn[c] # "new" /\ sock[c].peer = "up"
UpIsInside ==
  \A c \in Conns : Running /\ conn[c] \in {"queued", "open"} /\ sock[c].peer = "up" => Inside(c)
NewIsUp == \A c \in Conns : conn[c] = "new" => sock[c].peer = "up"

(* Nothing is queued for a peer that has closed.                           *)
ClosedIsEmpty == \A c \in Conns : sock[c].peer # "up" => sock[c].queued = 0

(* A line in the client's buffer is one of the MaxSegs.                    *)
TypedFits == \A c \in Conns : cpc[c] = "write" => sock[c].sent < MaxSegs

(* What the client's poll() reported is still there when it reads.         *)
SocketFresh == \A c \in Conns : cpc[c] = "socket" => sock[c].queued > 0 \/ ServerGone(c)

ClientInv ==
  /\ ClientTypes /\ InsideIsUp /\ UpIsInside /\ NewIsUp /\ ClosedIsEmpty /\ TypedFits /\ SocketFresh

(* What a step of the server's thread may do to a connection: it takes     *)
(* nothing back from a peer that is up, and forgets one that has closed.   *)
LEMMA ServerOnConnection ==
  ASSUME IInv, IInv', Server, NEW c \in Conns
  PROVE  /\ sock[c].peer = "up" =>
              /\ sock'[c].peer = "up" /\ sock'[c].sent = sock[c].sent
              /\ sock[c].queued > 0 => sock'[c].queued > 0
         /\ sock[c].peer # "up" =>
              \/ sock'[c].peer # "up" /\ sock'[c].queued = sock[c].queued
              \/ conn'[c] = "closed" /\ sock'[c] = NewSocket
         /\ conn[c] # "new" => conn'[c] # "new"
         /\ conn'[c] \in {"queued", "open"} => conn[c] \in {"queued", "open"}
         /\ conn[c] = "closed" => conn'[c] = "closed"
         /\ Running
<1>1. /\ TypeOK /\ sock \in [Conns -> Socket] /\ conn \in [Conns -> {"new", "queued", "open", "closed"}]
      /\ pollt \in [Slots -> Conns \cup {NoFd, Stray}]
  BY DEF IInv, TypeOK
<1>2. CASE setup \/ bind_fails \/ poll \/ accept_fails \/ read_stdin \/ read_stdin_eof \/ write_ends \/ read_ends
  <2>1. UNCHANGED <<conn, sock>> /\ Running
    BY <1>2 DEF setup, bind_fails, poll, accept_fails, read_stdin, read_stdin_eof, write_ends,
       read_ends, Goto, Running
  <2> QED  BY <2>1
<1>3. ASSUME NEW d \in Conns, accept(d)
      PROVE  /\ UNCHANGED sock /\ Running /\ conn' = [conn EXCEPT ![d] = "open"] /\ conn[d] = "queued"
  BY <1>3 DEF accept, Goto, Running
<1>4. CASE write
  <2>1. /\ Running /\ UNCHANGED conn
        /\ \/ UNCHANGED sock
           \/ \E d \in Conns :
                \/ /\ sock[d].peer = "up"
                   /\ sock' = [sock EXCEPT ![d].queued = @ + 1]
                \/ /\ sock[d].peer \notin {"up", "rst"}
                   /\ sock' = [sock EXCEPT ![d].peer = AfterSend(d)]
    <3>1. pc = "write" /\ SlotsHeld /\ Filled
      BY <1>4 DEF write, IInv, Filled
    <3>2. Targets \subseteq Slots /\ \A k \in Targets : pollt[k] \in Conns
      BY <1>1, <3>1, ConstantsAssumption DEF Targets, SlotsHeld, TypeOK, Slots
    <3> QED  BY <1>4, <3>1, <3>2 DEF write, Running
  <2>2. CASE UNCHANGED sock
    BY <2>1, <2>2
  <2>3. ASSUME NEW d \in Conns, sock[d].peer = "up", sock' = [sock EXCEPT ![d].queued = @ + 1]
        PROVE  /\ sock'[c].peer = sock[c].peer /\ sock'[c].sent = sock[c].sent
               /\ sock'[c].queued = sock[c].queued \/ (c = d /\ sock'[c].queued = sock[c].queued + 1)
    BY <1>1, <2>3 DEF Socket
  <2>4. ASSUME NEW d \in Conns, sock[d].peer \notin {"up", "rst"},
               sock' = [sock EXCEPT ![d].peer = AfterSend(d)]
        PROVE  /\ sock'[c].sent = sock[c].sent /\ sock'[c].queued = sock[c].queued
               /\ sock'[c].peer = "up" <=> sock[c].peer = "up"
    BY <1>1, <2>4 DEF Socket, AfterSend
  <2>5. sock[c].queued \in Nat
    BY <1>1 DEF Socket
  <2> QED  BY <2>1, <2>2, <2>3, <2>4, <2>5
<1>5. ASSUME NEW k \in Slots, read(k)
      PROVE  /\ Running /\ UNCHANGED conn /\ sock'[c].peer = sock[c].peer
             /\ sock'[c].sent = sock[c].sent /\ sock'[c].queued = sock[c].queued
  BY <1>1, <1>5 DEF read, Running, Socket
<1>6. ASSUME NEW k \in Slots, read_closes(k)
      PROVE  \E d : /\ Running /\ sock[d].peer # "up" /\ conn' = [conn EXCEPT ![d] = "closed"]
                    /\ sock' = [sock EXCEPT ![d] = NewSocket]
  BY <1>6 DEF read_closes, Running
<1>7. ASSUME NEW d, sock[d].peer # "up", conn' = [conn EXCEPT ![d] = "closed"],
             sock' = [sock EXCEPT ![d] = NewSocket]
      PROVE  \/ c = d /\ sock[c].peer # "up" /\ conn'[c] = "closed" /\ sock'[c] = NewSocket
             \/ conn'[c] = conn[c] /\ sock'[c] = sock[c]
  BY <1>1, <1>7
<1>8. CASE cleanup
  <2>1. Running /\ UNCHANGED sock /\ conn'[c] \in {"closed", conn[c]}
    BY <1>8 DEF cleanup, Goto, Running
  <2> QED  BY <2>1
<1>9. CASE \E d \in Conns : accept(d)
  BY <1>1, <1>3, <1>9
<1>10. CASE \E k \in Slots : read(k)
  BY <1>5, <1>10
<1>11. CASE \E k \in Slots : read_closes(k)
  <2>1. Running
    BY <1>6, <1>11
  <2>2. \/ sock[c].peer # "up" /\ conn'[c] = "closed" /\ sock'[c] = NewSocket
        \/ conn'[c] = conn[c] /\ sock'[c] = sock[c]
    BY <1>6, <1>7, <1>11
  <2> QED  BY <2>1, <2>2
<1> QED  BY <1>2, <1>4, <1>8, <1>9, <1>10, <1>11 DEF Server

(* A step of a client is a step of a peer of TcpServer, or one the server  *)
(* does not see.                                                           *)
LEMMA ClientIsPeer ==
  ASSUME IInv, ClientInv, NEW c \in Conns, Client(c) PROVE [Next]_vars
<1>1. CASE connectf(c)
  BY <1>1 DEF connectf, Next, Environment
<1>2. CASE readaw_poll(c, FALSE) \/ readaw_disconnected(c) \/ readaw_stdin(c)
  BY <1>2 DEF readaw_poll, readaw_disconnected, readaw_stdin
<1>3. CASE readaw_read(c)
  <2>1. sock[c].peer = "up"
    BY <1>3 DEF readaw_read, ClientInv, InsideIsUp, Inside, CGoto
  <2>2. PeerReads(c)
    BY <1>3, <2>1 DEF readaw_read, PeerReads
  <2> QED  BY <2>2 DEF Next, Environment
<1>4. CASE readaw_stdin_eof(c)
  <2>1. CASE ServerGone(c)
    BY <1>4, <2>1 DEF readaw_stdin_eof, CloseSocket, vars
  <2>2. CASE ~ServerGone(c)
    <3>1. sock[c].peer = "up" /\ conn[c] \in {"queued", "open"} /\ Running
      BY <1>4, <2>2 DEF readaw_stdin_eof, ClientInv, InsideIsUp, Inside, CGoto, ServerGone, IInv, TypeOK
    <3>2. \E end \in {"fin", "reset"} : sock' = [sock EXCEPT ![c].peer = end, ![c].queued = 0]
      BY <1>4, <2>2 DEF readaw_stdin_eof, CloseSocket
    <3>3. Peer(c)
      BY <1>4, <3>1, <3>2 DEF readaw_stdin_eof, Peer
    <3> QED  BY <3>1, <3>3 DEF Next, Environment
  <2> QED  BY <2>1, <2>2
<1>5. CASE readaw_write(c)
  <2>1. CASE ServerGone(c)
    BY <1>5, <2>1 DEF readaw_write, vars
  <2>2. CASE ~ServerGone(c)
    <3>1. cpc[c] = "write" /\ sock' = [sock EXCEPT ![c].sent = @ + 1]
      BY <1>5, <2>2 DEF readaw_write, CGoto
    <3>2. /\ sock[c].peer = "up" /\ conn[c] \in {"queued", "open"} /\ Running /\ sock[c].sent < MaxSegs
      BY <2>2, <3>1 DEF ClientInv, InsideIsUp, TypedFits, Inside, ServerGone, IInv, TypeOK
    <3>3. Peer(c)
      BY <1>5, <3>1, <3>2 DEF readaw_write, Peer
    <3> QED  BY <3>2, <3>3 DEF Next, Environment
  <2> QED  BY <2>1, <2>2
<1> QED  BY <1>1, <1>2, <1>3, <1>4, <1>5 DEF Client

(* So a step of the chat is a step of the server among any peers.          *)
LEMMA ChatStepIsServers ==
  ASSUME IInv, ClientInv, [ChatNext]_cvars PROVE [Next]_vars
<1>1. CASE ServerStep
  BY <1>1 DEF ServerStep, Next
<1>2. CASE Running /\ (Type \/ \E c \in Conns : ResetArrives(c))
  BY <1>2 DEF Next, Environment
<1>3. CASE \E c \in Conns : Client(c)
  BY <1>3, ClientIsPeer
<1>4. CASE \E c \in Typists : readaw_poll(c, TRUE)
  BY <1>4 DEF readaw_poll
<1>5. CASE UNCHANGED cvars
  BY <1>5 DEF cvars
<1> QED  BY <1>1, <1>2, <1>3, <1>4, <1>5 DEF ChatNext

(* A step of the server keeps what is known of its clients.                *)
LEMMA ServerKeepsClients ==
  ASSUME IInv, IInv', ClientInv, ServerStep PROVE ClientInv'
<1>1. Server /\ UNCHANGED <<cpc, crevents>>
  BY DEF ServerStep
<1> DEFINE Kept(c) ==
      /\ sock[c].peer = "up" =>
           /\ sock'[c].peer = "up" /\ sock'[c].sent = sock[c].sent
           /\ sock[c].queued > 0 => sock'[c].queued > 0
      /\ sock[c].peer # "up" =>
           \/ sock'[c].peer # "up" /\ sock'[c].queued = sock[c].queued
           \/ conn'[c] = "closed" /\ sock'[c] = NewSocket
      /\ conn[c] # "new" => conn'[c] # "new"
      /\ conn'[c] \in {"queued", "open"} => conn[c] \in {"queued", "open"}
      /\ conn[c] = "closed" => conn'[c] = "closed"
      /\ Running
<1>2. ASSUME NEW c \in Conns PROVE Kept(c)
  BY <1>1, ServerOnConnection
<1>3. NewSocket.peer = "up" /\ NewSocket.queued = 0
  BY DEF NewSocket
<1>4. ClientTypes'
  BY <1>1 DEF ClientInv, ClientTypes
<1>5. InsideIsUp'
  BY <1>1, <1>2 DEF ClientInv, InsideIsUp, Inside
<1>6. ASSUME NEW c \in Conns, Running', conn'[c] \in {"queued", "open"}, sock'[c].peer = "up" PROVE Inside(c)'
  <2>1. Running /\ conn[c] \in {"queued", "open"} /\ sock[c].peer = "up"
    BY <1>2, <1>6
  <2>2. Inside(c)
    BY <2>1 DEF ClientInv, UpIsInside
  <2> QED  BY <1>1, <2>2 DEF Inside
<1>7. NewIsUp'
  BY <1>2 DEF ClientInv, NewIsUp
<1>8. ASSUME NEW c \in Conns, sock'[c].peer # "up" PROVE sock'[c].queued = 0
  BY <1>2, <1>3, <1>8 DEF ClientInv, ClosedIsEmpty
<1>9. ASSUME NEW c \in Conns, cpc'[c] = "write" PROVE sock'[c].sent < MaxSegs
  BY <1>1, <1>2, <1>9 DEF ClientInv, TypedFits, InsideIsUp, Inside
<1>10. ASSUME NEW c \in Conns, cpc'[c] = "socket" PROVE sock'[c].queued > 0 \/ ServerGone(c)'
  <2>1. cpc[c] = "socket" /\ Inside(c)
    BY <1>1, <1>10 DEF Inside
  <2>2. sock[c].peer = "up" /\ (sock[c].queued > 0 \/ conn[c] = "closed")
    BY <1>2, <2>1 DEF ClientInv, SocketFresh, InsideIsUp, ServerGone
  <2> QED  BY <1>2, <2>2 DEF ServerGone
<1> QED
  BY <1>4, <1>5, <1>6, <1>7, <1>8, <1>9, <1>10 DEF ClientInv, UpIsInside, NewIsUp, ClosedIsEmpty, TypedFits, SocketFresh

(* So do the lines typed at it, and a RST.                                 *)
LEMMA KernelKeepsClients ==
  ASSUME IInv, ClientInv, Type \/ \E c \in Conns : ResetArrives(c), UNCHANGED <<cpc, crevents>>
  PROVE  ClientInv'
<1>1. sock \in [Conns -> Socket]
  BY DEF IInv, TypeOK
<1>2. UNCHANGED <<pc, conn, cpc, crevents>>
  BY DEF Type, ResetArrives, server
<1>3. ASSUME NEW c \in Conns
      PROVE  /\ sock'[c].sent = sock[c].sent /\ sock'[c].queued = sock[c].queued
             /\ sock'[c].peer = "up" <=> sock[c].peer = "up"
  <2>1. CASE Type
    BY <2>1 DEF Type
  <2>2. ASSUME NEW d \in Conns, ResetArrives(d)
        PROVE  /\ sock'[c].sent = sock[c].sent /\ sock'[c].queued = sock[c].queued
               /\ sock'[c].peer = "up" <=> sock[c].peer = "up"
    BY <1>1, <2>2 DEF ResetArrives, Socket
  <2> QED  BY <2>1, <2>2
<1> QED
  BY <1>2, <1>3 DEF ClientInv, ClientTypes, InsideIsUp, UpIsInside, NewIsUp, ClosedIsEmpty, TypedFits, SocketFresh,
     Inside, ServerGone, Running

(* A client's own step, which changes nobody else's socket.                *)
LEMMA ClientKeepsClients ==
  ASSUME IInv, ClientInv, NEW c \in Conns, NEW typing \in BOOLEAN, Client(c) \/ readaw_poll(c, typing)
  PROVE  ClientInv'
<1>1. /\ sock \in [Conns -> Socket] /\ conn \in [Conns -> {"new", "queued", "open", "closed"}]
      /\ cpc \in [Conns -> {"connectf", "poll", "socket", "stdin", "write", "returned", "killed"}]
      /\ crevents \in [Conns -> SUBSET {0, 1}]
  BY DEF IInv, TypeOK, ClientInv, ClientTypes
<1>2. sock[c].queued \in Nat /\ sock[c].sent \in Nat
  BY <1>1 DEF Socket
<1>3. pc' = pc
  BY DEF Client, connectf, PeerConnects, readaw_poll, readaw_read, readaw_disconnected, readaw_stdin,
     readaw_stdin_eof, readaw_write, vars, server
<1>4. CASE connectf(c)
  <2>1. CASE Running /\ PeerConnects(c) /\ CGoto(c, "connectf", "poll")
    BY <1>1, <1>3, <1>4, <2>1 DEF connectf, PeerConnects, CGoto, ClientInv, ClientTypes, InsideIsUp,
       UpIsInside, NewIsUp, ClosedIsEmpty, TypedFits, SocketFresh, Inside, ServerGone, Running
  <2>2. CASE (pc = "setup" \/ ~Running) /\ CGoto(c, "connectf", "returned") /\ UNCHANGED vars
    BY <1>1, <1>3, <1>4, <2>2 DEF connectf, vars, CGoto, ClientInv, ClientTypes, InsideIsUp,
       UpIsInside, NewIsUp, ClosedIsEmpty, TypedFits, SocketFresh, Inside, ServerGone, Running
  <2> QED  BY <1>4, <2>1, <2>2 DEF connectf
<1>5. ASSUME NEW t \in BOOLEAN, readaw_poll(c, t) PROVE ClientInv'
  <2>1. /\ cpc[c] = "poll" /\ UNCHANGED <<conn, sock>> /\ crevents' \in [Conns -> SUBSET {0, 1}]
        /\ 0 \in crevents'[c] => sock[c].queued > 0 \/ ServerGone(c)
    BY <1>1, <1>5 DEF readaw_poll, vars
  <2>2. PICK to \in {"socket", "stdin", "poll"} :
          cpc' = [cpc EXCEPT ![c] = to] /\ (to = "socket" => 0 \in crevents'[c])
    BY <1>5 DEF readaw_poll
  <2> QED  BY <1>1, <1>3, <2>1, <2>2 DEF ClientInv, ClientTypes, InsideIsUp,
             UpIsInside, NewIsUp, ClosedIsEmpty, TypedFits, SocketFresh, Inside, ServerGone, Running
<1>6. CASE readaw_read(c)
  <2>1. PICK to \in {"stdin", "poll"} : cpc[c] = "socket" /\ cpc' = [cpc EXCEPT ![c] = to]
    BY <1>6 DEF readaw_read, CGoto
  <2>2. sock' = [sock EXCEPT ![c].queued = 0] /\ UNCHANGED <<conn, crevents>>
    BY <1>6 DEF readaw_read
  <2>3. ASSUME NEW d \in Conns
        PROVE  /\ sock'[d].peer = sock[d].peer /\ sock'[d].sent = sock[d].sent
               /\ sock'[d].queued = IF d = c THEN 0 ELSE sock[d].queued
    BY <1>1, <2>2 DEF Socket
  <2> QED  BY <1>1, <1>3, <2>1, <2>2, <2>3 DEF ClientInv, ClientTypes, InsideIsUp,
             UpIsInside, NewIsUp, ClosedIsEmpty, TypedFits, SocketFresh, Inside, ServerGone, Running
<1>7. CASE readaw_disconnected(c)
  BY <1>1, <1>3, <1>7 DEF readaw_disconnected, CGoto, vars, ClientInv, ClientTypes, InsideIsUp,
     UpIsInside, NewIsUp, ClosedIsEmpty, TypedFits, SocketFresh, Inside, ServerGone, Running
<1>8. CASE readaw_stdin(c)
  BY <1>1, <1>3, <1>8 DEF readaw_stdin, CGoto, vars, ClientInv, ClientTypes, InsideIsUp,
     UpIsInside, NewIsUp, ClosedIsEmpty, TypedFits, SocketFresh, Inside, ServerGone, Running
<1>9. CASE readaw_stdin_eof(c)
  <2>1. cpc[c] = "stdin" /\ cpc' = [cpc EXCEPT ![c] = "returned"] /\ UNCHANGED <<conn, crevents>>
    BY <1>9 DEF readaw_stdin_eof, CGoto
  <2>2. ASSUME NEW d \in Conns
        PROVE  IF d = c /\ ~ServerGone(c) THEN sock'[d].peer # "up" /\ sock'[d].queued = 0 ELSE sock'[d] = sock[d]
    BY <1>1, <1>9 DEF readaw_stdin_eof, CloseSocket, Socket
  <2> QED  BY <1>1, <1>3, <2>1, <2>2 DEF ClientInv, ClientTypes, InsideIsUp,
             UpIsInside, NewIsUp, ClosedIsEmpty, TypedFits, SocketFresh, Inside, ServerGone, Running
<1>10. CASE readaw_write(c)
  <2>1. /\ cpc[c] = "write" /\ UNCHANGED <<conn, crevents>>
        /\ \/ cpc' = [cpc EXCEPT ![c] = "poll"]
           \/ ServerGone(c) /\ cpc' = [cpc EXCEPT ![c] = "killed"]
    BY <1>10 DEF readaw_write, CGoto
  <2>2. ASSUME NEW d \in Conns
        PROVE  /\ sock'[d].peer = sock[d].peer /\ sock'[d].queued = sock[d].queued
               /\ d # c => sock'[d].sent = sock[d].sent
    BY <1>1, <1>10 DEF readaw_write, Socket
  <2> QED  BY <1>1, <1>3, <2>1, <2>2 DEF ClientInv, ClientTypes, InsideIsUp,
             UpIsInside, NewIsUp, ClosedIsEmpty, TypedFits, SocketFresh, Inside, ServerGone, Running
<1> QED  BY <1>4, <1>5, <1>6, <1>7, <1>8, <1>9, <1>10 DEF Client

(* The server's invariant and the clients', for every number of clients.   *)
THEOREM ChatInvariance == ChatSpec => [](IInv /\ ClientInv)
<1>1. ASSUME ChatInit PROVE IInv /\ ClientInv
  <2>1. IInv
    BY <1>1, InitIInv DEF ChatInit
  <2>2. ASSUME NEW c \in Conns
        PROVE  cpc[c] = "connectf" /\ conn[c] = "new" /\ sock[c].peer = "up" /\ sock[c].queued = 0
    BY <1>1 DEF ChatInit, Init, NewSocket
  <2>3. ClientTypes
    BY <1>1 DEF ChatInit, ClientTypes
  <2> QED  BY <2>1, <2>2, <2>3 DEF ClientInv, InsideIsUp, UpIsInside, NewIsUp, ClosedIsEmpty, TypedFits,
             SocketFresh, Inside
<1>2. ASSUME IInv, ClientInv, [ChatNext]_cvars PROVE IInv' /\ ClientInv'
  <2>1. [Next]_vars
    BY <1>2, ChatStepIsServers
  <2>2. IInv'
    BY <1>2, <2>1, StepKeepsIInv
  <2>3. CASE ServerStep
    BY <1>2, <2>2, <2>3, ServerKeepsClients
  <2>4. CASE Running /\ (Type \/ \E c \in Conns : ResetArrives(c)) /\ UNCHANGED <<cpc, crevents>>
    BY <1>2, <2>2, <2>4, KernelKeepsClients
  <2>5. CASE \E c \in Conns : Client(c)
    BY <1>2, <2>2, <2>5, ClientKeepsClients
  <2>6. CASE \E c \in Typists : readaw_poll(c, TRUE)
    BY <1>2, <2>2, <2>6, ClientKeepsClients, ChatAssumption
  <2>7. CASE UNCHANGED cvars
    <3>1. UNCHANGED <<pc, conn, sock, cpc, crevents>>
      BY <2>7 DEF cvars, vars, server
    <3> QED  BY <1>2, <2>2, <3>1 DEF ClientInv, ClientTypes, InsideIsUp, UpIsInside, NewIsUp, ClosedIsEmpty,
               TypedFits, SocketFresh, Inside, ServerGone, Running
  <2> QED  BY <1>2, <2>3, <2>4, <2>5, <2>6, <2>7 DEF ChatNext
<1> QED  BY <1>1, <1>2, PTL DEF ChatSpec

(* client.c behaves as TcpServer lets a peer behave: a client sends only   *)
(* while it is connected, closes once, and reads only what was written to  *)
(* it.  So every theorem about the server holds among these clients.       *)
THEOREM ClientsAlwaysPeers == ChatSpec => ClientsArePeers
<1>1. ChatInit => Init
  BY DEF ChatInit
<1>2. IInv /\ ClientInv /\ [ChatNext]_cvars => [Next]_vars
  BY ChatStepIsServers
<1> QED  BY <1>1, <1>2, ChatInvariance, PTL DEF ChatSpec, ClientsArePeers, Spec

(* The server never blocks in write() on a client that has left, and no    *)
(* client blocks in read() on its socket.                                  *)
THEOREM WaitsAlwaysAnswered == ChatSpec => []WaitsAreAnswered
<1>1. ASSUME IInv, ClientInv PROVE WaitsAreAnswered
  <2>1. ASSUME NEW k \in Targets, pc = "write", sock[pollt[k]].peer = "up" PROVE Inside(pollt[k])
    <3>1. k \in Slots /\ pollt[k] # NoFd
      BY <1>1, <2>1, TargetsAreSlots DEF IInv, Filled
    <3>2. pollt[k] \in Conns /\ conn[pollt[k]] = "open" /\ Running
      BY <1>1, <2>1, <3>1 DEF IInv, SlotsHeld, Filled, Running
    <3> QED  BY <1>1, <2>1, <3>2 DEF ClientInv, UpIsInside
  <2> QED  BY <1>1, <2>1 DEF WaitsAreAnswered, ClientInv, SocketFresh
<1> QED  BY <1>1, ChatInvariance, PTL

(* In particular the two programs together broadcast: each client in a     *)
(* slot is written each line once and in order.                            *)
THEOREM ChatBroadcasts == ChatSpec => ImplementsBroadcast /\ []ClientsCovered
<1> QED  BY ClientsAlwaysPeers, Refinement, ClientsAlwaysCovered, PTL DEF ClientsArePeers
=============================================================================
