------------------------------- MODULE TcpServer -------------------------------
(***************************************************************************)
(* The chat server of projects/networking/tcp-suite (server.c), the        *)
(* ancestor of the mTLS server: the same poll loop over one array, with    *)
(* blocking sockets and no TLS.  nfds never shrinks, so a slot once used   *)
(* is polled for ever; a call on a socket may block the only thread, which *)
(* is modelled by an action that is not enabled.                           *)
(***************************************************************************)
EXTENDS Integers, Sequences

CONSTANTS
  Conns,         \* TCP connections peers may open; each stands for its fd too
  NoFd,          \* the -1 of an unused pollt[k].fd
  Stray,         \* a descriptor number that main never got from accept()
  MAX_CLIENTS,   \* the last slot's index
  SendBuffer,    \* bound: lines a socket holds for a peer that does not read
  MaxLines,      \* bound: reads of stdin that return data
  MaxSegs,       \* bound: segments a peer sends
  Faults,        \* the calls that may fail
  Garbage,       \* the slots whose unwritten revents may have POLLIN set
  Indeterminate, \* the values nfds may have when main jumps over its initialisation
  StdinCloses    \* whether stdin may reach end of file

ASSUME ConstantsAssumption ==
  /\ NoFd \notin Conns /\ Stray \notin Conns /\ Stray # NoFd
  /\ MAX_CLIENTS \in Nat /\ MAX_CLIENTS > 1
  /\ SendBuffer \in Nat \ {0} /\ MaxLines \in Nat /\ MaxSegs \in Nat
  /\ Faults \subseteq {"socket", "bind", "accept", "poll"}
  /\ Garbage \subseteq 2..MAX_CLIENTS
  /\ Indeterminate \subseteq Int
  /\ StdinCloses \in BOOLEAN

VARIABLES
  pc,       \* where the thread is
  pollt,    \* pollt[k].fd of the client slots
  revents,  \* the slots whose pollt[k].revents has POLLIN set
  nfds,     \* how many slots poll() is given
  polled,   \* history: how many the last poll() that returned was given
  r,        \* what poll() returned, as a sign
  i,        \* index of the for loop being run
  line,     \* the line of stdin in buffer
  conn,     \* life of a connection on the server's side
  sock,     \* the rest of a connection: see Socket
  written,  \* history: the lines write() was called with, by connection
  typed,    \* lines that became available on stdin
  taken,    \* lines read from stdin
  eof       \* stdin is at end of file

slots == <<pollt, nfds>>
server == <<pc, slots, polled, revents, r, i, line>>
stdin == <<typed, taken, eof>>
vars == <<server, conn, sock, written, stdin>>

Slots == 2..MAX_CLIENTS
AllSlots == 0..MAX_CLIENTS

(* peer: see MtlsServer.  sent, seen: segments the peer sent and the       *)
(* server read.  queued: lines in the socket's send buffer.                *)
Socket == [peer : {"up", "fin", "doomed", "reset", "rst"},
           sent : 0..MaxSegs, seen : 0..MaxSegs, queued : 0..SendBuffer]

NewSocket == [peer |-> "up", sent |-> 0, seen |-> 0, queued |-> 0]

(* Outside the frame that a failed bind() leaves unfilled.                 *)
Filled == pc \notin {"exited", "killed"} /\ (pc = "cleanup" => r = -1)

TypeOK ==
  /\ pc \in {"setup", "poll", "accept", "stdin", "write", "read", "cleanup", "exited", "killed"}
  /\ pollt \in [Slots -> Conns \cup {NoFd, Stray}]
  /\ revents \in SUBSET AllSlots
  /\ nfds \in Int /\ (Filled => nfds \in 2..(MAX_CLIENTS + 1))
  /\ polled \in 0..(MAX_CLIENTS + 1)
  /\ r \in {-1, 0, 1}
  /\ i \in 2..(MAX_CLIENTS + 1)
  /\ line \in 0..MaxLines
  /\ conn \in [Conns -> {"new", "queued", "open", "closed"}]
  /\ sock \in [Conns -> Socket]
  /\ written \in [Conns -> Seq(1..MaxLines)]
  /\ typed \in 0..MaxLines /\ taken \in 0..MaxLines
  /\ eof \in BOOLEAN

Init ==
  /\ pc = "setup"
  /\ pollt = [k \in Slots |-> NoFd]
  /\ revents \in SUBSET Garbage
  /\ nfds = 2 /\ polled = 0 /\ r = 0 /\ i = 2 /\ line = 0
  /\ conn = [c \in Conns |-> "new"]
  /\ sock = [c \in Conns |-> NewSocket]
  /\ written = [c \in Conns |-> <<>>]
  /\ typed = 0 /\ taken = 0 /\ eof = FALSE

Goto(from, to) == pc = from /\ pc' = to

-----------------------------------------------------------------------------
(* Sockets, as the kernel keeps them.                                      *)
Readable(c) == sock[c].seen < sock[c].sent \/ sock[c].peer # "up"

AfterSend(c) == CASE sock[c].peer = "fin" -> "doomed"
                  [] sock[c].peer = "reset" -> "rst"
                  [] OTHER -> sock[c].peer

-----------------------------------------------------------------------------
(* main up to the loop.                                                    *)
setup ==
  /\ \/ Goto("setup", "poll")
     \/ "socket" \in Faults /\ Goto("setup", "exited")
  /\ UNCHANGED <<slots, polled, revents, r, i, line, conn, sock, written, stdin>>

(* bind() or listen() fails: the goto jumps over the initialisation of     *)
(* nfds and pollt, so cleanup reads whatever the stack holds, and nothing  *)
(* keeps nfds inside the array.                                            *)
bind_fails ==
  /\ "bind" \in Faults
  /\ Goto("setup", "cleanup")
  /\ nfds' \in Indeterminate
  /\ pollt' \in [Slots -> {NoFd, Stray}]
  /\ UNCHANGED <<polled, revents, r, i, line, conn, sock, written, stdin>>

Pollin(k) ==
  \/ k = 0 /\ \E c \in Conns : conn[c] = "queued"
  \/ k = 1 /\ (eof \/ taken < typed)
  \/ k \in Slots /\ pollt[k] # NoFd /\ Readable(pollt[k])

(* Where an iteration goes once the listening socket has been seen to.     *)
AfterAccept(rv) == IF 1 \in rv THEN "stdin" ELSE "read"

(* poll(pollt, nfds, TIMEOUT).  Slots from nfds on keep their revents; a   *)
(* failed poll() leaves every revents as it was, and the reading loop,     *)
(* which does not look at r, still runs before main gives up.              *)
poll ==
  /\ pc = "poll"
  /\ \/ /\ revents' = {k \in revents : k >= nfds} \cup {k \in 0..(nfds - 1) : Pollin(k)}
        /\ polled' = nfds
        /\ r' = IF revents' \cap 0..(nfds - 1) = {} THEN 0 ELSE 1
        /\ pc' = IF r' = 0 THEN "poll"
                 ELSE IF 0 \in revents' THEN "accept" ELSE AfterAccept(revents')
     \/ /\ "poll" \in Faults
        /\ r' = -1
        /\ pc' = "read"
        /\ UNCHANGED <<polled, revents>>
  /\ UNCHANGED <<slots, i, line, conn, sock, written, stdin>>

FreeSlots == {k \in Slots : pollt[k] = NoFd}

(* accept(): the first free slot takes the client, whose revents is left   *)
(* as it was.  With no free slot the descriptor is forgotten.              *)
accept(c) ==
  /\ conn[c] = "queued"
  /\ \/ /\ FreeSlots = {}
        /\ UNCHANGED slots
     \/ \E k \in FreeSlots :
          /\ \A j \in FreeSlots : k <= j
          /\ pollt' = [pollt EXCEPT ![k] = c]
          /\ nfds' = IF k >= nfds THEN k + 1 ELSE nfds
  /\ conn' = [conn EXCEPT ![c] = "open"]
  /\ Goto("accept", AfterAccept(revents))
  /\ UNCHANGED <<polled, revents, r, i, line, sock, written, stdin>>

accept_fails ==
  /\ "accept" \in Faults
  /\ Goto("accept", "poll")
  /\ UNCHANGED <<slots, polled, revents, r, i, line, conn, sock, written, stdin>>

-----------------------------------------------------------------------------
(* Broadcasting: a read of stdin, then one blocking write() per client.    *)
read_stdin ==
  /\ taken < typed
  /\ taken' = taken + 1
  /\ line' = taken + 1
  /\ Goto("stdin", "write")
  /\ UNCHANGED <<slots, polled, revents, r, i, conn, sock, written, typed, eof>>

(* Mutant: end of file starts the next iteration, as in the mTLS server.   *)
read_stdin_eof_continues ==
  /\ taken = typed
  /\ Goto("stdin", "poll")
  /\ UNCHANGED <<slots, polled, revents, r, i, line, conn, sock, written, stdin>>

read_stdin_eof ==
  /\ taken = typed
  /\ Goto("stdin", "read")
  /\ UNCHANGED <<slots, polled, revents, r, i, line, conn, sock, written, stdin>>

(* Mutant: the loop stops one slot early.                                  *)
Targets_off_by_one == {k \in i..(nfds - 2) : pollt[k] # NoFd}

(* The slots the broadcast still has to write to.                          *)
Targets == {k \in i..(nfds - 1) : pollt[k] # NoFd}

(* SIGPIPE is left at its default: a send after the RST ends the process.  *)
write ==
  /\ pc = "write"
  /\ \E k \in Targets :
       LET c == pollt[k] IN
       /\ \A j \in Targets : k <= j
       /\ \/ /\ sock[c].peer = "up" /\ sock[c].queued < SendBuffer
             /\ sock' = [sock EXCEPT ![c].queued = @ + 1]
             /\ pc' = "write"
          \/ /\ sock[c].peer \notin {"up", "rst"}
             /\ sock' = [sock EXCEPT ![c].peer = AfterSend(c)]
             /\ pc' = "write"
          \/ /\ sock[c].peer = "rst"
             /\ pc' = "killed"
             /\ UNCHANGED sock
       /\ written' = [written EXCEPT ![c] = Append(@, line)]
       /\ i' = k + 1
  /\ UNCHANGED <<slots, polled, revents, r, line, conn, stdin>>

write_ends ==
  /\ Goto("write", "read") /\ Targets = {}
  /\ i' = 2
  /\ line' = 0
  /\ UNCHANGED <<slots, polled, revents, r, conn, sock, written, stdin>>

-----------------------------------------------------------------------------
(* Mutant: the loop does not look at revents.                              *)
Due_all == {k \in i..(nfds - 1) : pollt[k] # NoFd}

(* The slots the reading loop still has to read.                           *)
Due == {k \in i..(nfds - 1) : pollt[k] # NoFd /\ k \in revents}

FirstDue(k) == k \in Due /\ \A j \in Due : k <= j

(* read() returns what has arrived.                                        *)
read(k) ==
  LET c == pollt[k] IN
  /\ pc = "read" /\ FirstDue(k)
  /\ sock[c].seen < sock[c].sent
  /\ sock' = [sock EXCEPT ![c].seen = sock[c].sent]
  /\ i' = k + 1
  /\ UNCHANGED <<pc, slots, polled, revents, r, line, conn, written, stdin>>

(* Mutant: a disconnect lowers nfds, as in the mTLS server.                *)
read_closes_shrinks(k) ==
  LET c == pollt[k] IN
  /\ pc = "read" /\ FirstDue(k)
  /\ sock[c].seen = sock[c].sent /\ sock[c].peer # "up"
  /\ conn' = [conn EXCEPT ![c] = "closed"]
  /\ sock' = [sock EXCEPT ![c] = NewSocket]
  /\ pollt' = [pollt EXCEPT ![k] = NoFd]
  /\ nfds' = nfds - 1
  /\ i' = k + 1
  /\ UNCHANGED <<pc, polled, revents, r, line, written, stdin>>

(* read() returns 0, or -1 for an aborted connection.  After -1 fwrite()   *)
(* is handed (size_t)-1 bytes: it runs off buffer, which may or may not    *)
(* end the process.                                                        *)
read_closes(k) ==
  LET c == pollt[k] IN
  /\ pc = "read" /\ FirstDue(k)
  /\ sock[c].seen = sock[c].sent /\ sock[c].peer # "up"
  /\ conn' = [conn EXCEPT ![c] = "closed"]
  /\ sock' = [sock EXCEPT ![c] = NewSocket]
  /\ pollt' = [pollt EXCEPT ![k] = NoFd]
  /\ i' = k + 1
  /\ \/ pc' = "read"
     \/ sock[c].peer = "reset" /\ pc' = "killed"
  /\ UNCHANGED <<nfds, polled, revents, r, line, written, stdin>>

read_ends ==
  /\ Goto("read", IF r = -1 THEN "cleanup" ELSE "poll") /\ Due = {}
  /\ i' = 2
  /\ UNCHANGED <<slots, polled, revents, r, line, conn, sock, written, stdin>>

(* cleanup closes every descriptor below nfds and main returns.  An nfds   *)
(* beyond the array makes it read, and close, what lies behind: that may   *)
(* end the process too.                                                    *)
cleanup ==
  LET held == {k \in Slots : k < nfds /\ pollt[k] \in Conns} IN
  /\ \/ Goto("cleanup", "exited")
     \/ nfds > MAX_CLIENTS + 2 /\ Goto("cleanup", "killed")
  /\ conn' = [c \in Conns |-> IF \E k \in held : pollt[k] = c THEN "closed" ELSE conn[c]]
  /\ UNCHANGED <<slots, polled, revents, r, i, line, sock, written, stdin>>

-----------------------------------------------------------------------------
(* The peers and the person at stdin.                                      *)
Running == pc \notin {"exited", "killed"}

PeerConnects(c) ==
  /\ pc \notin {"setup", "cleanup"} /\ conn[c] = "new"
  /\ conn' = [conn EXCEPT ![c] = "queued"]
  /\ UNCHANGED <<server, sock, written, stdin>>

Peer(c) ==
  /\ conn[c] \in {"queued", "open"}
  /\ \/ /\ sock[c].peer = "up" /\ sock[c].sent < MaxSegs
        /\ sock' = [sock EXCEPT ![c].sent = @ + 1]
     \/ /\ sock[c].peer = "up"
        /\ \E end \in {"fin", "reset"} :
             sock' = [sock EXCEPT ![c].peer = end, ![c].queued = 0]
  /\ UNCHANGED <<server, conn, written, stdin>>

(* The RST that answers a send to a closed socket arrives.                 *)
ResetArrives(c) ==
  /\ sock[c].peer = "doomed"
  /\ sock' = [sock EXCEPT ![c].peer = "rst"]
  /\ UNCHANGED <<server, conn, written, stdin>>

(* What was written to a peer can be read after the server has ended too.  *)
PeerReads(c) ==
  /\ sock[c].queued > 0 /\ sock[c].peer = "up"
  /\ sock' = [sock EXCEPT ![c].queued = 0]
  /\ UNCHANGED <<server, conn, written, stdin>>

(* Bound: stdin ends, if it does, behind the last of MaxLines lines; its     *)
(* end shows only once they have been read.                                *)
Type ==
  /\ ~eof
  /\ \/ typed < MaxLines /\ typed' = typed + 1 /\ UNCHANGED eof
     \/ StdinCloses /\ taken = MaxLines /\ eof' = TRUE /\ UNCHANGED typed
  /\ UNCHANGED <<server, conn, sock, written, taken>>

-----------------------------------------------------------------------------
(* One step of the server's thread.                                        *)
Server ==
  \/ setup \/ bind_fails \/ poll
  \/ accept_fails \/ \E c \in Conns : accept(c)
  \/ read_stdin \/ read_stdin_eof \/ write \/ write_ends
  \/ \E k \in Slots : read(k) \/ read_closes(k)
  \/ read_ends \/ cleanup

Environment ==
  \/ Running /\ (Type \/ \E c \in Conns : PeerConnects(c) \/ Peer(c) \/ ResetArrives(c))
  \/ \E c \in Conns : PeerReads(c)

Next == Server \/ Environment

Spec == Init /\ [][Next]_vars

-----------------------------------------------------------------------------
(* Every slot in use holds an accepted, unclosed connection of its own and *)
(* lies below nfds, so that poll(), the broadcast and the reading loop all *)
(* see it, whatever order clients come and go in; so does cleanup, except  *)
(* after a failed bind(), when it goes through an array nobody filled.     *)
ClientsCovered ==
  Filled =>
    \A k \in Slots : pollt[k] # NoFd =>
      /\ k < nfds /\ conn[pollt[k]] = "open"
      /\ \A j \in Slots : pollt[j] = pollt[k] => j = k

(* The line being broadcast, as the abstract server sees it.               *)
Members == {c \in Conns : \E k \in Slots : pollt[k] = c}
Owed == IF line = 0 THEN {} ELSE {pollt[k] : k \in Targets}

Chat == INSTANCE Broadcast WITH
  Clients <- Conns, members <- Members, said <- taken, owed <- Owed, heard <- written

(* The server implements Broadcast: every client in a slot is written each *)
(* line read from stdin while it is there, once and in order, and no slot  *)
(* changes hands in the middle of a broadcast.                             *)
ImplementsBroadcast == Chat!BroadcastSpec

(* read() is only called on a client that has something to read, so the    *)
(* only thread does not block on a silent one, whatever the unwritten      *)
(* revents of the array hold, unless poll() failed or the client has just  *)
(* been given a slot that no poll() has covered yet: accept() leaves its   *)
(* revents as it found it.                                                 *)
ReadNeverBlocks ==
  pc = "read" /\ r # -1 =>
    \A k \in Slots : FirstDue(k) => Readable(pollt[k]) \/ k >= polled
=============================================================================
