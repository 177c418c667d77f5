----------------------------- MODULE PortScanner -----------------------------
(***************************************************************************)
(* projects/networking/port-scanner/main.c: one thread sends a SYN to each *)
(* port, another reads a raw socket and prints the ports that answer.  A   *)
(* TCP header is the sequence of the ten 16-bit words that lie in memory;  *)
(* the network loses, delays, reorders and repeats packets.                *)
(***************************************************************************)
EXTENDS Checksum, FiniteSets

CONSTANTS
  Args,          \* values of <PORT START> and <PORT END>
  MaxSpan,       \* bound: ports of one scan
  src_addr,      \* the two words of the local address ...
  dst_addr,      \* ... and of the target's
  Rands,         \* words that rand() may put in the sequence number
  Open,          \* the ports the target listens on
  MaxNoise,      \* bound: packets that have nothing to do with the scan
  Patient,       \* whether usleep() and sleep() outlast thread and network
  Faults         \* calls that may fail; "loss" and "repeat" of packets

Port == 1..65535

ASSUME ConstantsAssumption ==
  /\ Args \subseteq Int /\ Open \subseteq Port
  /\ MaxSpan \in Nat /\ MaxNoise \in Nat /\ Patient \in BOOLEAN
  /\ src_addr \in Word \X Word /\ dst_addr \in Word \X Word
  /\ Rands \subseteq Word

VARIABLES
  pc,            \* where main is
  start, end, i, \* its variables
  listener,      \* where the listening thread is
  syns,          \* TCP headers under way to the target
  replies,       \* packets under way from the target
  rx,            \* packets in the listener's socket
  printed,       \* ports printed as open
  lost,          \* ports whose SYN was not sent, or whose packet was lost
  noise          \* unrelated packets so far

mainVars == <<pc, start, end, i>>
netVars == <<syns, replies, lost>>
vars == <<mainVars, listener, netVars, rx, printed, noise>>

SOURCE_PORT == 45677
ntohs(w) == htons(w)

(* Packets as process() sees them; full: at least 40 bytes long.           *)
Packet == [from : {"target", "other"}, full : BOOLEAN,
           source : Word, dest : Word, flags : SUBSET {"SYN", "ACK", "RST"}]

-----------------------------------------------------------------------------
(* The packet.                                                             *)

(* The pseudo header: both addresses, 0 and IPPROTO_TCP, the length 20.    *)
pseudo_header == src_addr \o dst_addr \o <<256 * 6, htons(20)>>

(* The header with the given check field: doff 5 and SYN are bytes 80, 2.  *)
tcphdr(port, seq, check) ==
  <<htons(SOURCE_PORT), htons(port)>> \o seq
    \o <<0, 0, 80 + 256 * 2, htons(65535), check, 0>>

(* Mutant: the header is summed without the pseudo header.                 *)
tcp_checksum_bare(tcph) == checksum(tcph)

tcp_checksum(tcph) == checksum(pseudo_header \o tcph)

build_tcph(port, seq) == tcphdr(port, seq, tcp_checksum(tcphdr(port, seq, 0)))

-----------------------------------------------------------------------------
(* The main thread.                                                        *)

Init ==
  /\ pc = "main" /\ start = 0 /\ end = 0 /\ i = 0
  /\ listener = "none"
  /\ syns = {} /\ replies = {} /\ rx = {} /\ printed = {} /\ lost = {}
  /\ noise = 0

Valid(s, e) == s >= 1 /\ e <= 65535 /\ s <= e

(* Arguments parsed and checked.                                           *)
main ==
  /\ pc = "main"
  /\ \E s, e \in Args :
       /\ e - s < MaxSpan
       /\ pc' = IF Valid(s, e) THEN "local_ipget" ELSE "exited"
       /\ start' = s /\ end' = e
  /\ UNCHANGED <<i, listener, netVars, rx, printed, noise>>

local_ipget ==
  /\ pc = "local_ipget"
  /\ \/ pc' = "pthread_create"
     \/ "local_ipget" \in Faults /\ pc' = "exited"
  /\ UNCHANGED <<start, end, i, listener, netVars, rx, printed, noise>>

pthread_create ==
  /\ pc = "pthread_create"
  /\ \/ pc' = "usleep" /\ listener' = "socket"
     \/ "pthread_create" \in Faults /\ pc' = "exited" /\ UNCHANGED listener
  /\ UNCHANGED <<start, end, i, netVars, rx, printed, noise>>

(* 0.1 s, for the thread to open its socket.                               *)
usleep ==
  /\ pc = "usleep"
  /\ Patient => listener # "socket"
  /\ pc' = "syn_scan" /\ i' = start
  /\ UNCHANGED <<start, end, listener, netVars, rx, printed, noise>>

syn_scan ==
  /\ pc = "syn_scan" /\ i <= end
  /\ \E r1, r2 \in Rands : syns' = syns \cup {build_tcph(i, <<r1, r2>>)}
  /\ i' = i + 1
  /\ UNCHANGED <<pc, start, end, listener, replies, rx, printed, lost, noise>>

(* socket(), setsockopt() or sendto() fails; the next port is tried.       *)
syn_scan_fails ==
  /\ pc = "syn_scan" /\ i <= end
  /\ "syn_scan" \in Faults
  /\ lost' = lost \cup {i}
  /\ i' = i + 1
  /\ UNCHANGED <<pc, start, end, listener, syns, replies, rx, printed, noise>>

syn_scan_ends ==
  /\ pc = "syn_scan" /\ i > end
  /\ pc' = "sleep"
  /\ UNCHANGED <<start, end, i, listener, netVars, rx, printed, noise>>

Quiet == syns = {} /\ replies = {} /\ (listener = "read" => rx = {})

(* Mutant: main returns right after the last SYN.                          *)
sleep_omitted ==
  /\ pc = "sleep"
  /\ pc' = "finished"
  /\ listener' = IF listener = "failed" THEN "failed" ELSE "ended"
  /\ rx' = {}
  /\ UNCHANGED <<start, end, i, netVars, printed, noise>>

(* 2 s for the answers; then main returns and the thread ends with it.     *)
sleep ==
  /\ pc = "sleep"
  /\ Patient => Quiet
  /\ pc' = "finished"
  /\ listener' = IF listener = "failed" THEN "failed" ELSE "ended"
  /\ rx' = {}
  /\ UNCHANGED <<start, end, i, netVars, printed, noise>>

-----------------------------------------------------------------------------
(* The listening thread.                                                   *)

listen_synacks ==
  /\ listener = "socket"
  /\ \/ listener' = "read"
     \/ "socket" \in Faults /\ listener' = "failed"
  /\ UNCHANGED <<mainVars, netVars, rx, printed, noise>>

(* Mutant: every segment with ACK counts.                                  *)
Reports_ack(p) ==
  /\ p.full /\ p.from = "target"
  /\ ntohs(p.dest) = SOURCE_PORT
  /\ ntohs(p.source) \in start..end
  /\ "ACK" \in p.flags

(* The guards of process().                                                *)
Reports(p) ==
  /\ p.full /\ p.from = "target"
  /\ ntohs(p.dest) = SOURCE_PORT
  /\ ntohs(p.source) \in start..end
  /\ {"SYN", "ACK"} \subseteq p.flags

(* read() returns a packet; an EINTR only reads again.                     *)
process ==
  /\ listener = "read"
  /\ \E p \in rx :
       /\ rx' = rx \ {p}
       /\ printed' = printed \cup (IF Reports(p) THEN {ntohs(p.source)} ELSE {})
  /\ UNCHANGED <<mainVars, listener, netVars, noise>>

read_fails ==
  /\ listener = "read"
  /\ "read" \in Faults
  /\ listener' = "failed" /\ rx' = {}
  /\ UNCHANGED <<mainVars, netVars, printed, noise>>

-----------------------------------------------------------------------------
(* The network and the target.                                             *)

(* A SYN reaches the target, which drops it unless its checksum is right   *)
(* and answers SYN-ACK or RST.                                             *)
SynArrives ==
  /\ \E h \in syns :
       /\ syns' \in {syns \ {h}} \cup {s \in {syns} : "repeat" \in Faults}
       /\ replies' = replies \cup
            IF Verifies(pseudo_header \o h)
            THEN {[from |-> "target", full |-> TRUE, source |-> h[2], dest |-> h[1],
                   flags |-> IF ntohs(h[2]) \in Open THEN {"SYN", "ACK"} ELSE {"RST", "ACK"}]}
            ELSE {}
  /\ UNCHANGED <<mainVars, listener, lost, rx, printed, noise>>

SynLost ==
  /\ "loss" \in Faults
  /\ \E h \in syns : syns' = syns \ {h} /\ lost' = lost \cup {ntohs(h[2])}
  /\ UNCHANGED <<mainVars, listener, replies, rx, printed, noise>>

(* A raw socket receives what arrives while it is open.                    *)
ReplyArrives ==
  /\ \E p \in replies :
       /\ replies' = replies \ {p}
       /\ rx' = IF listener = "read" THEN rx \cup {p} ELSE rx
  /\ UNCHANGED <<mainVars, listener, syns, lost, printed, noise>>

ReplyLost ==
  /\ "loss" \in Faults
  /\ \E p \in replies :
       replies' = replies \ {p} /\ lost' = lost \cup {ntohs(p.source)}
  /\ UNCHANGED <<mainVars, listener, syns, rx, printed, noise>>

(* The raw socket sees every TCP packet of the machine: other hosts',      *)
(* other connections' with the target, and fragments too short to read.    *)
Noise ==
  /\ listener = "read" /\ noise < MaxNoise
  /\ noise' = noise + 1
  /\ \E a \in Args, d \in {SOURCE_PORT, SOURCE_PORT - 1},
        f \in {{"SYN", "ACK"}, {"ACK"}, {"SYN"}}, from \in {"target", "other"}, full \in BOOLEAN :
       /\ a \in Port
       /\ from = "target" /\ full /\ f = {"SYN", "ACK"} => a \in Open
       /\ rx' = rx \cup {[from |-> from, full |-> full, source |-> htons(a),
                          dest |-> htons(d), flags |-> f]}
  /\ UNCHANGED <<mainVars, listener, netVars, printed>>

-----------------------------------------------------------------------------
Main == main \/ local_ipget \/ pthread_create \/ usleep \/ syn_scan
          \/ syn_scan_fails \/ syn_scan_ends \/ sleep
Listener == listen_synacks \/ process \/ read_fails
Network == SynArrives \/ SynLost \/ ReplyArrives \/ ReplyLost \/ Noise

Next == Main \/ Listener \/ Network

Spec == Init /\ [][Next]_vars

-----------------------------------------------------------------------------
(* Every port that is scanned fits the 16 bits it is converted to.         *)
TypeOK ==
  /\ pc \in {"main", "local_ipget", "pthread_create", "usleep", "syn_scan", "sleep",
             "finished", "exited"}
  /\ pc \notin {"main", "exited"} => start \in Word /\ end \in Word
  /\ i \in 0..65536
  /\ listener \in {"none", "socket", "read", "failed", "ended"}
  /\ \A h \in syns : h \in Seq(Word) /\ Len(h) = 10
  /\ replies \subseteq Packet /\ rx \subseteq Packet
  /\ printed \subseteq Word /\ lost \subseteq Word /\ noise \in 0..MaxNoise

(* Whatever else arrives on the raw socket, and however late or often,     *)
(* listen_synacks prints only ports of the range that really are open.     *)
OnlyOpenReported == printed \subseteq Open \cap start..end

(* Every header build_tcph makes is accepted by the receiver's checksum    *)
(* test and names a port of the range, though the words are summed as they *)
(* lie in memory and the carries are folded only twice.                    *)
SynsValid ==
  \A h \in syns : Verifies(pseudo_header \o h) /\ ntohs(h[2]) \in start..end

(* When main prints "Finished", every open port of the range has been      *)
(* printed, unless one of its packets was lost, its SYN was not sent or    *)
(* the listener gave up; this rests on the two fixed sleeps being long     *)
(* enough (Patient).                                                       *)
ScanComplete ==
  pc = "finished" /\ listener # "failed" =>
    Open \cap start..end \subseteq printed \cup lost
=============================================================================
