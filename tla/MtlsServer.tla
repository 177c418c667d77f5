------------------------------ MODULE MtlsServer ------------------------------
(***************************************************************************)
(* The chat server of projects/networking/mtls-chat (server.c): one thread *)
(* runs poll_loop over the parallel arrays fds and ssls.  Slot 0 is the    *)
(* listening socket, slot 1 is stdin, slots 2 .. MAX_CLIENTS - 1 hold one  *)
(* client each.  An iteration polls slots 0 .. nfds - 1, accepts at most   *)
(* one client, broadcasts at most one line of stdin and then reads at most *)
(* one record of every client that poll() reported.                        *)
(*                                                                         *)
(* Each action is what the thread does up to the next call whose result    *)
(* depends on the outside world, so the peers move between any two.  The   *)
(* kernel's TCP, OpenSSL and the peers are outside the repository and are  *)
(* modelled by how server.c uses them.                                     *)
(***************************************************************************)
EXTENDS Integers, Sequences

CONSTANTS
  Conns,         \* TCP connections peers may open; each stands for its fd too
  NoFd,          \* the -1 of an unused fds[k].fd, and the NULL of ssls[k]
  MAX_CLIENTS,   \* length of fds and ssls
  TLS_RECORD_SIZE, \* the most read_server reads: a line has 1 .. this many bytes
  MaxLines,      \* bound: reads of stdin that return data
  MaxSegs,       \* bound: TCP segments a peer sends after the handshake
  Faults,        \* the calls that may fail
  StdinCloses    \* whether stdin may reach end of file

ASSUME ConstantsAssumption ==
  /\ NoFd \notin Conns
  /\ MAX_CLIENTS \in Nat /\ MAX_CLIENTS > 2
  /\ TLS_RECORD_SIZE \in Nat \ {0}
  /\ MaxLines \in Nat /\ MaxSegs \in Nat
  /\ Faults \subseteq {"setup", "accept", "SSL_new", "SSL_set_fd", "SSL_read", "full"}
  /\ StdinCloses \in BOOLEAN

VARIABLES
  pc,         \* where the thread is
  fds,        \* fds[k].fd of the client slots
  revents,    \* the slots whose fds[k].revents has POLLIN set
  ssls,       \* the connection the SSL object of slot k was bound to
  freed,      \* the slots whose ssls[k] points to an object SSL_free released
  nfds,       \* how many slots poll() is given
  i,          \* index of the for loop being run
  out_index,  \* slot tcp_accept_function filled
  line,       \* the line of stdin in buffer
  total,      \* its length
  conn,       \* life of a connection on the server's side
  sock,       \* the rest of a connection: see Socket
  typed,      \* lines that became available on stdin
  taken,      \* lines read_server has read
  eof         \* stdin is at end of file

slots == <<fds, ssls, freed, nfds>>
server == <<pc, slots, revents, i, out_index, line, total>>
stdin == <<typed, taken, eof>>
vars == <<server, conn, sock, stdin>>

Slots == 2..(MAX_CLIENTS - 1)
AllSlots == 0..(MAX_CLIENTS - 1)
Lines == 1..MaxLines

(* A TLS record of a client's session: the bytes from .. to - 1 of a line. *)
Record == [line : 0..MaxLines, from : 0..TLS_RECORD_SIZE, to : 0..TLS_RECORD_SIZE]
NoRecord == [line |-> 0, from |-> 0, to |-> 0]

(* hs: the TLS handshake flights sent so far, or a session that failed     *)
(* (broken).  peer: what became of the peer's end: closed (fin), closed    *)
(* and about to answer a send with a RST (doomed), aborted by a RST no     *)
(* call has reported yet (reset), or gone so that a send raises SIGPIPE    *)
(* (rst).  sent, seen: segments the peer sent and SSL_read took, two to a  *)
(* record.  got: records that reached the peer.  wpend: the record that    *)
(* could not be sent yet.                                                  *)
Socket ==
  [hs : {"none", "hello", "replied", "finished", "badcert", "broken"},
   peer : {"up", "fin", "doomed", "reset", "rst"},
   sent : 0..MaxSegs, seen : 0..MaxSegs,
   got : Seq(Record), wpend : Record]

NewSocket == [hs |-> "none", peer |-> "up", sent |-> 0, seen |-> 0,
              got |-> <<>>, wpend |-> NoRecord]

TypeOK ==
  /\ pc \in {"setup", "poll", "accept", "tls", "tls_finish", "stdin", "broadcast",
             "monitor", "exited", "killed"}
  /\ fds \in [Slots -> Conns \cup {NoFd}]
  /\ revents \in SUBSET AllSlots
  /\ ssls \in [Slots -> Conns \cup {NoFd}]
  /\ freed \in SUBSET Slots
  /\ nfds \in 2..MAX_CLIENTS
  /\ i \in 2..MAX_CLIENTS
  /\ out_index \in Slots
  /\ line \in 0..MaxLines
  /\ total \in 0..TLS_RECORD_SIZE
  /\ conn \in [Conns -> {"closed", "queued", "open"}]
  /\ sock \in [Conns -> Socket]
  /\ typed \in 0..MaxLines /\ taken \in 0..MaxLines
  /\ eof \in BOOLEAN

(* revents of a client slot is not written before a client gets the slot.  *)
Init ==
  /\ pc = "setup"
  /\ fds = [k \in Slots |-> NoFd]
  /\ revents \in SUBSET Slots
  /\ ssls = [k \in Slots |-> NoFd]
  /\ freed = {}
  /\ nfds = 2 /\ i = 2 /\ out_index = 2 /\ line = 0 /\ total = 0
  /\ conn = [c \in Conns |-> "closed"]
  /\ sock = [c \in Conns |-> NewSocket]
  /\ typed = 0 /\ taken = 0 /\ eof = FALSE

Goto(from, to) == pc = from /\ pc' = to

-----------------------------------------------------------------------------
(* Sockets, as the kernel keeps them.                                      *)

(* POLLIN: unread bytes, an end of stream or an error.                     *)
Readable(c) == sock[c].seen < sock[c].sent \/ sock[c].peer # "up"

(* close(): the kernel forgets the connection.                             *)
close(c) ==
  /\ conn' = [conn EXCEPT ![c] = "closed"]
  /\ sock' = [sock EXCEPT ![c] = NewSocket]

(* Sending to a peer that has closed its end makes it answer with a RST;   *)
(* sending to one that aborted reports ECONNRESET, once.                   *)
AfterSend(c) == CASE sock[c].peer = "fin" -> "doomed"
                  [] sock[c].peer = "reset" -> "rst"
                  [] OTHER -> sock[c].peer

(* SIGPIPE is left at its default: a send after the RST ends the process.  *)
Sigpipe(c) == sock[c].peer = "rst"

-----------------------------------------------------------------------------
(* server(): setup_context, then setup_tcp; every error of theirs exits.   *)
setup ==
  /\ \/ Goto("setup", "poll")
     \/ "setup" \in Faults /\ Goto("setup", "exited")
  /\ UNCHANGED <<slots, revents, i, out_index, line, total, conn, sock, stdin>>

(* Where an iteration goes once connections have been dealt with.          *)
AfterAccept(rv) == IF 1 \in rv THEN "stdin" ELSE "monitor"

Pollin(k) ==
  \/ k = 0 /\ \E c \in Conns : conn[c] = "queued"
  \/ k = 1 /\ (eof \/ taken < typed)
  \/ k \in Slots /\ fds[k] # NoFd /\ Readable(fds[k])

(* poll(fds, nfds, TIMEOUT).  Slots from nfds on keep their old revents.   *)
(* When nothing is ready the call times out and the loop polls again.      *)
poll_loop ==
  /\ revents' = {k \in revents : k >= nfds} \cup {k \in 0..(nfds - 1) : Pollin(k)}
  /\ Goto("poll", IF revents' \cap 0..(nfds - 1) = {} THEN "poll"
                  ELSE IF 0 \in revents' THEN "accept"
                  ELSE AfterAccept(revents'))
  /\ UNCHANGED <<slots, i, out_index, line, total, conn, sock, stdin>>

-----------------------------------------------------------------------------
(* tcp_accept_function: accept() fails, or every slot is taken and the new *)
(* client is closed, or the first free slot takes the client.              *)
FreeSlots == {k \in Slots : fds[k] = NoFd}

accept_fails ==
  /\ "accept" \in Faults
  /\ Goto("accept", "poll")
  /\ UNCHANGED <<slots, revents, i, out_index, line, total, conn, sock, stdin>>

(* Mutant: the refused client's descriptor is not closed.                  *)
max_clients_reached_leaks(c) ==
  /\ conn[c] = "queued" /\ FreeSlots = {}
  /\ conn' = [conn EXCEPT ![c] = "open"]
  /\ Goto("accept", "poll")
  /\ UNCHANGED <<slots, revents, i, out_index, line, total, sock, stdin>>

max_clients_reached(c) ==
  /\ conn[c] = "queued" /\ FreeSlots = {}
  /\ close(c)
  /\ Goto("accept", "poll")
  /\ UNCHANGED <<slots, revents, i, out_index, line, total, stdin>>

(* Mutant: nfds becomes the index of the new slot, not one more.           *)
tcp_accept_function_off_by_one(c) ==
  /\ conn[c] = "queued"
  /\ \E k \in FreeSlots :
       /\ \A j \in FreeSlots : k <= j
       /\ fds' = [fds EXCEPT ![k] = c]
       /\ revents' = revents \ {k}
       /\ nfds' = IF k >= nfds THEN k ELSE nfds
       /\ out_index' = k
  /\ conn' = [conn EXCEPT ![c] = "open"]
  /\ Goto("accept", "tls")
  /\ UNCHANGED <<ssls, freed, i, line, total, sock, stdin>>

tcp_accept_function(c) ==
  /\ conn[c] = "queued"
  /\ \E k \in FreeSlots :
       /\ \A j \in FreeSlots : k <= j
       /\ fds' = [fds EXCEPT ![k] = c]
       /\ revents' = revents \ {k}
       /\ nfds' = IF k >= nfds THEN k + 1 ELSE nfds
       /\ out_index' = k
  /\ conn' = [conn EXCEPT ![c] = "open"]
  /\ Goto("accept", "tls")
  /\ UNCHANGED <<ssls, freed, i, line, total, sock, stdin>>

-----------------------------------------------------------------------------
(* tls_accept_function.  The socket is already non-blocking, so SSL_accept *)
(* gives up when a flight of the peer has not arrived.                     *)
Accepting == fds[out_index]

(* Mutant: the slot keeps the descriptor.                                  *)
reject_keeps_slot ==
  /\ close(Accepting)
  /\ nfds' = nfds - 1
  /\ pc' = "poll"
  /\ UNCHANGED <<fds, revents, i, out_index, line, total, stdin>>

(* What poll_loop does when it returns 1, before the next iteration.       *)
reject ==
  /\ close(Accepting)
  /\ fds' = [fds EXCEPT ![out_index] = NoFd]
  /\ nfds' = nfds - 1
  /\ pc' = "poll"
  /\ UNCHANGED <<revents, i, out_index, line, total, stdin>>

SSL_new_fails ==
  /\ pc = "tls" /\ "SSL_new" \in Faults
  /\ ssls' = [ssls EXCEPT ![out_index] = NoFd]
  /\ freed' = freed \ {out_index}
  /\ reject

SSL_set_fd_fails ==
  /\ pc = "tls" /\ "SSL_set_fd" \in Faults
  /\ ssls' = [ssls EXCEPT ![out_index] = NoFd]
  /\ freed' = freed \cup {out_index}
  /\ reject

(* No ClientHello to read: SSL_ERROR_WANT_READ, or the peer has left.      *)
SSL_accept_no_hello ==
  /\ pc = "tls" /\ sock[Accepting].hs = "none"
  /\ ssls' = [ssls EXCEPT ![out_index] = Accepting]
  /\ freed' = freed \cup {out_index}
  /\ reject

SSL_accept_hello ==
  /\ pc = "tls" /\ sock[Accepting].hs = "hello"
  /\ ssls' = [ssls EXCEPT ![out_index] = Accepting]
  /\ freed' = freed \ {out_index}
  /\ sock' = [sock EXCEPT ![Accepting].hs = "replied",
                          ![Accepting].peer = AfterSend(Accepting)]
  /\ pc' = "tls_finish"
  /\ UNCHANGED <<fds, nfds, revents, i, out_index, line, total, conn, stdin>>

(* The peer's certificate and Finished have not arrived, or the CA did not *)
(* issue the certificate.  SSL_shutdown sends nothing in a handshake.      *)
SSL_accept_fails ==
  /\ pc = "tls_finish" /\ sock[Accepting].hs \in {"replied", "badcert"}
  /\ freed' = freed \cup {out_index}
  /\ reject
  /\ UNCHANGED ssls

(* The handshake completes; SSL_accept sends the session tickets and       *)
(* ignores a peer that has gone since its last flight.                     *)
tls_accept_function ==
  /\ pc = "tls_finish" /\ sock[Accepting].hs = "finished"
  /\ sock' = [sock EXCEPT ![Accepting].peer = AfterSend(Accepting)]
  /\ pc' = AfterAccept(revents)
  /\ UNCHANGED <<slots, revents, i, out_index, line, total, conn, stdin>>

-----------------------------------------------------------------------------
(* read_server: one read() per line; end of file makes poll_loop continue. *)
read_server ==
  /\ taken < typed
  /\ taken' = taken + 1
  /\ line' = taken + 1
  /\ total' \in 1..TLS_RECORD_SIZE
  /\ Goto("stdin", "broadcast")
  /\ UNCHANGED <<slots, revents, i, out_index, conn, sock, typed, eof>>

read_server_eof ==
  /\ taken = typed
  /\ Goto("stdin", "poll")
  /\ UNCHANGED <<slots, revents, i, out_index, line, total, conn, sock, stdin>>

(* The records reach a peer that has not left.                             *)
Deliver(c, got, record) ==
  IF record = NoRecord \/ sock[c].peer # "up" THEN got ELSE Append(got, record)

(* What a record still pending does not stand for of the line in buffer.   *)
Rest(c) ==
  LET p == sock[c].wpend IN
  IF total > p.to THEN [line |-> line, from |-> p.to, to |-> total] ELSE NoRecord

(* SSL_write(ssls[k], buffer, total), whose result broadcast ignores.  A   *)
(* full socket leaves a record pending in the SSL object.  The next call   *)
(* takes its own line for a retry: a line shorter than what is pending     *)
(* fails the session; otherwise the pending record is sent and after it    *)
(* only the bytes of the new line that lie beyond it.                      *)
SSL_write_fails(c) ==
  /\ sock[c].hs = "broken" \/ total < sock[c].wpend.to
  /\ sock' = [sock EXCEPT ![c].hs = "broken"]

SSL_write_sends(c) ==
  /\ sock[c].peer \notin {"reset", "rst"}
  /\ sock' = [sock EXCEPT ![c].got = Deliver(c, Deliver(c, @, sock[c].wpend), Rest(c)),
                          ![c].peer = AfterSend(c),
                          ![c].wpend = NoRecord]

(* WANT_WRITE, before or after the record that was pending.                *)
SSL_write_full(c) ==
  /\ "full" \in Faults /\ sock[c].peer \notin {"reset", "rst"}
  /\ \/ sock[c].wpend # NoRecord /\ UNCHANGED sock
     \/ /\ Rest(c) # NoRecord
        /\ sock' = [sock EXCEPT
             ![c].got = Deliver(c, @, sock[c].wpend),
             ![c].peer = IF sock[c].wpend = NoRecord THEN @ ELSE AfterSend(c),
             ![c].wpend = Rest(c)]

(* ECONNRESET, which leaves the record pending as a full socket does.      *)
SSL_write_reset(c) ==
  /\ sock[c].peer = "reset"
  /\ sock' = [sock EXCEPT ![c].peer = AfterSend(c),
                          ![c].wpend = IF @ = NoRecord THEN Rest(c) ELSE @]

(* The first send, or the RST the first one drew and then the second.      *)
SSL_write_killed(c) ==
  \/ Sigpipe(c)
  \/ sock[c].peer \in {"fin", "doomed"} /\ sock[c].wpend # NoRecord /\ Rest(c) # NoRecord

SSL_write(c) ==
  \/ SSL_write_fails(c) /\ pc' = "broadcast"
  \/ /\ sock[c].hs # "broken" /\ total >= sock[c].wpend.to
     /\ \/ SSL_write_sends(c) /\ pc' = "broadcast"
        \/ SSL_write_full(c) /\ pc' = "broadcast"
        \/ SSL_write_reset(c) /\ pc' = "broadcast"
        \/ SSL_write_killed(c) /\ pc' = "killed" /\ UNCHANGED sock

(* The slots broadcast still has to write to.                              *)
Targets == {k \in i..(nfds - 1) : fds[k] # NoFd}

(* Mutant: every write of the loop goes to the last slot.                  *)
broadcast_wrong_index ==
  /\ pc = "broadcast"
  /\ \E k \in Targets :
       /\ \A j \in Targets : k <= j
       /\ ssls[nfds - 1] # NoFd
       /\ SSL_write(ssls[nfds - 1])
       /\ i' = k + 1
  /\ UNCHANGED <<slots, revents, out_index, line, total, conn, stdin>>

broadcast ==
  /\ pc = "broadcast"
  /\ \E k \in Targets :
       /\ \A j \in Targets : k <= j
       /\ SSL_write(ssls[k])
       /\ i' = k + 1
  /\ UNCHANGED <<slots, revents, out_index, line, total, conn, stdin>>

broadcast_returns ==
  /\ Targets = {}
  /\ Goto("broadcast", "monitor")
  /\ i' = 2
  /\ line' = 0 /\ total' = 0
  /\ UNCHANGED <<slots, revents, out_index, conn, sock, stdin>>

-----------------------------------------------------------------------------
(* Mutant: the loop stops one slot early.                                  *)
Due_off_by_one == {k \in i..(nfds - 2) : fds[k] # NoFd /\ k \in revents}

(* The slots the last loop still has to call monitor() for.                *)
Due == {k \in i..(nfds - 1) : fds[k] # NoFd /\ k \in revents}

FirstDue(k) == k \in Due /\ \A j \in Due : k <= j

RecordReady(c) == sock[c].seen \div 2 < sock[c].sent \div 2

(* SSL_read returns a record, which goes to stdout, or takes the part of a *)
(* record that has arrived and returns SSL_ERROR_WANT_READ.                *)
monitor(k) ==
  LET c == ssls[k] IN
  /\ pc = "monitor" /\ FirstDue(k)
  /\ sock[c].hs # "broken"
  /\ RecordReady(c) \/ sock[c].peer = "up"
  /\ sock' = [sock EXCEPT ![c].seen =
                IF RecordReady(c) THEN 2 * (@ \div 2) + 2 ELSE sock[c].sent]
  /\ i' = k + 1
  /\ UNCHANGED <<pc, slots, revents, out_index, line, total, conn, stdin>>

(* error: SSL_free, close and forget the slot.                             *)
monitor_error(k) ==
  /\ ssls' = [ssls EXCEPT ![k] = NoFd]
  /\ freed' = freed \ {k}
  /\ close(fds[k])
  /\ fds' = [fds EXCEPT ![k] = NoFd]
  /\ nfds' = nfds - 1
  /\ i' = k + 1
  /\ UNCHANGED <<pc, revents, out_index, line, total, stdin>>

(* SSL_read fails: the stream ended, a record was bad, or the session had  *)
(* failed before (goto error).                                             *)
monitor_disconnect(k) ==
  LET c == ssls[k] IN
  /\ pc = "monitor" /\ FirstDue(k)
  /\ \/ sock[c].hs = "broken"
     \/ ~RecordReady(c) /\ sock[c].peer # "up"
     \/ ~RecordReady(c) /\ "SSL_read" \in Faults /\ Readable(c)
  /\ monitor_error(k)

(* The peer sent close_notify (goto cleanup): SSL_shutdown answers it,     *)
(* unless a record is pending.                                             *)
monitor_cleanup(k) ==
  LET c == ssls[k]
      killed == Sigpipe(c) /\ sock[c].wpend = NoRecord IN
  /\ pc = "monitor" /\ FirstDue(k)
  /\ sock[c].hs # "broken" /\ ~RecordReady(c) /\ sock[c].peer # "up"
  /\ \/ ~killed /\ monitor_error(k)
     \/ /\ killed
        /\ pc' = "killed"
        /\ UNCHANGED <<slots, revents, i, out_index, line, total, conn, sock, stdin>>

iteration_ends ==
  /\ Due = {}
  /\ Goto("monitor", "poll")
  /\ i' = 2
  /\ UNCHANGED <<slots, revents, out_index, line, total, conn, sock, stdin>>

-----------------------------------------------------------------------------
(* The peers and the person at stdin.                                      *)
Running == pc \notin {"exited", "killed"}

(* connect() succeeds once setup_tcp has called listen(); a closed fd is   *)
(* given to a later connection.                                            *)
PeerConnects(c) ==
  /\ pc # "setup" /\ conn[c] = "closed"
  /\ conn' = [conn EXCEPT ![c] = "queued"]
  /\ UNCHANGED <<server, sock, stdin>>

Peer(c) ==
  /\ conn[c] \in {"queued", "open"}
  /\ \/ /\ sock[c].peer = "up" /\ sock[c].hs = "none"
        /\ sock' = [sock EXCEPT ![c].hs = "hello"]
     \/ /\ sock[c].peer = "up" /\ sock[c].hs = "replied"
        /\ \E flight \in {"finished", "badcert"} : sock' = [sock EXCEPT ![c].hs = flight]
     \/ /\ sock[c].peer = "up" /\ sock[c].hs \in {"finished", "broken"}
        /\ sock[c].sent < MaxSegs
        /\ sock' = [sock EXCEPT ![c].sent = @ + 1]
     \/ /\ sock[c].peer = "up"
        /\ \E end \in {"fin", "reset"} : sock' = [sock EXCEPT ![c].peer = end]
     \/ /\ sock[c].peer = "doomed"
        /\ sock' = [sock EXCEPT ![c].peer = "rst"]
  /\ UNCHANGED <<server, conn, stdin>>

Type ==
  /\ ~eof
  /\ \/ typed < MaxLines /\ typed' = typed + 1 /\ UNCHANGED eof
     \/ StdinCloses /\ eof' = TRUE /\ UNCHANGED typed
  /\ UNCHANGED <<server, conn, sock, taken>>

-----------------------------------------------------------------------------
(* One step of the server's thread.                                        *)
Server ==
  \/ setup \/ poll_loop
  \/ accept_fails
  \/ \E c \in Conns : max_clients_reached(c) \/ tcp_accept_function(c)
  \/ SSL_new_fails \/ SSL_set_fd_fails
  \/ SSL_accept_no_hello \/ SSL_accept_hello \/ SSL_accept_fails
  \/ tls_accept_function
  \/ read_server \/ read_server_eof
  \/ broadcast \/ broadcast_returns
  \/ \E k \in Slots : monitor(k) \/ monitor_disconnect(k) \/ monitor_cleanup(k)
  \/ iteration_ends

Environment == Running /\ (Type \/ \E c \in Conns : PeerConnects(c) \/ Peer(c))

Next == Server \/ Environment

Spec == Init /\ [][Next]_vars

(* The scheduler runs the server's thread; peers and stdin owe nothing.    *)
FairSpec == Spec /\ WF_vars(Server)

-----------------------------------------------------------------------------
(* Every connection the server accepted and has not closed is in exactly   *)
(* one slot, and no slot holds a descriptor that was closed: through       *)
(* refusals, failed handshakes and disconnects no fd leaks and none is     *)
(* used after close.                                                       *)
SlotsHoldOpenConns ==
  /\ \A k \in Slots : fds[k] # NoFd => conn[fds[k]] = "open"
  /\ \A c \in Conns : conn[c] = "open" => \E k \in Slots : fds[k] = c
  /\ \A j, k \in Slots : fds[j] = fds[k] /\ fds[j] # NoFd => j = k

(* Whenever broadcast or monitor may use ssls[k], the object there has not *)
(* been freed and talks over the descriptor in fds[k]; only the slot whose *)
(* handshake has not begun may still carry the previous client's pointer.  *)
SslMatchesFd ==
  \A k \in Slots : fds[k] # NoFd /\ ~(pc = "tls" /\ k = out_index)
                     => ssls[k] = fds[k] /\ k \notin freed

(* poll() always covers the listening socket and stdin and never reads     *)
(* past the array, although disconnects and failed handshakes decrement    *)
(* nfds and only an accept raises it.                                      *)
NfdsInBounds ==
  /\ nfds >= 2 /\ nfds <= MAX_CLIENTS
  /\ pc \in {"tls", "tls_finish"} => out_index < nfds

(* A client is sent no line of stdin twice and none after a later one, and *)
(* of each line everything from its start, or from where the record just   *)
(* before it in the session ended: a socket that was full may cost the     *)
(* client a line, or the start of one, and never repeats or reorders any.  *)
LinesInOrder ==
  \A c \in Conns :
    LET s == sock[c].got
        p == sock[c].wpend IN
    /\ \A a, b \in DOMAIN s : a < b => s[a].line < s[b].line
    /\ \A a \in DOMAIN s : s[a].from # 0 => a > 1 /\ s[a - 1].to = s[a].from
    /\ p # NoRecord => \A a \in DOMAIN s : s[a].line < p.line

(* Every established client is below nfds when the server polls: it is     *)
(* polled, read and written to.                                            *)
EveryClientPolled ==
  pc = "poll" => \A k \in Slots : fds[k] # NoFd => k < nfds

Ready(c) ==
  conn[c] = "open" /\ sock[c].hs \in {"finished", "broken"} /\ Readable(c)

(* The jumps of poll_loop back to poll() before it comes to the clients:   *)
(* accept() failed, the table was full, a handshake failed, or stdin has   *)
(* ended.                                                                  *)
Continues ==
  \/ accept_fails \/ \E c \in Conns : max_clients_reached(c)
  \/ SSL_new_fails \/ SSL_set_fd_fails \/ SSL_accept_no_hello \/ SSL_accept_fails
  \/ read_server_eof

Polled(c) == \E k \in Slots : fds[k] = c /\ k < nfds

(* What a polled client sent, and its disconnect, is read after finitely   *)
(* many iterations, unless the client drops out of poll()'s range or       *)
(* poll_loop continues early again and again: a failing accept(), peers    *)
(* that keep knocking at a full table or never finish a handshake, and an  *)
(* ended stdin starve every client.                                        *)
PolledClientsServed ==
  ~[]<><<Continues>>_vars =>
    \A c \in Conns : (Polled(c) /\ Ready(c)) ~> (~Polled(c) \/ ~Ready(c) \/ ~Running)
=============================================================================
