----------------------------- MODULE PacketSniffer -----------------------------
(***************************************************************************)
(* projects/networking/packet-sniffer: main puts interfaces into           *)
(* promiscuous mode, then appends every frame of the wanted interfaces to  *)
(* captures.pcap, which it starts afresh when the rotation time is over.   *)
(* Frames, the clock, signals, a crash and the removal of an interface may *)
(* come between any two calls.  signal() restarts an interrupted           *)
(* recvfrom(), so a signal only shows in the loop's test.  Any call may    *)
(* fail; the program looks at no result of fwrite(), fflush(), fclose() or *)
(* strdup().                                                               *)
(***************************************************************************)
EXTENDS Naturals, Sequences, SequencesExt

CONSTANTS
  Ifaces,      \* the interfaces of the machine
  Lo,          \* the one called "lo"
  None,        \* no frame; NULL for a name
  MAX_IF,      \* length of promisc_interfaces
  Args,        \* the command lines tried
  MaxFrames,   \* bound: frames written
  Faults       \* what may go wrong

ASSUME ConstantsAssumption ==
  /\ Lo \in Ifaces /\ None \notin Ifaces
  /\ Args \subseteq Seq(Ifaces) /\ MAX_IF \in Nat /\ MaxFrames \in Nat
  /\ Faults \subseteq {"socket", "if_nameindex", "ioctl", "fopen", "recvfrom", "unplug",
                   "strdup", "write", "SIGKILL"}

VARIABLES
  pc,                  \* where main is
  keep_running,        \* the flag signal_handler clears
  argv,                \* the arguments, argv[0] left out
  i,                   \* index of the for loop being run
  promisc_interfaces,  \* the names kept for cleanup
  file,                \* captures.pcap is open
  buf,                 \* what stdio holds back from the file
  disk,                \* captures.pcap
  over,                \* the rotation time is over
  n,                   \* number of frames written
  opened,              \* history: n when the file was last opened
  ifaces,              \* the interfaces still there
  promisc,             \* the interfaces in promiscuous mode
  refused,             \* history: those unset_promisc() could not reset
  frame                \* the interface of the frame in the socket, or None

flags == <<ifaces, promisc, refused>>
stdio == <<file, buf, disk, opened>>
vars == <<pc, keep_running, argv, i, promisc_interfaces, stdio, over, n, flags, frame>>

(* The two headers and the bytes of a frame, by the frame's number, and    *)
(* the place where a failed write left bytes out, by the frame it was for. *)
Item == [kind : {"pcap_header", "packet_header", "packet", "cut"}, n : 0..MaxFrames]
Phdr == [kind |-> "pcap_header", n |-> 0]
Header(f) == [kind |-> "packet_header", n |-> f]
Packet(f) == [kind |-> "packet", n |-> f]
Cut(f) == [kind |-> "cut", n |-> f]

TypeOK ==
  /\ pc \in {"socket", "set_promisc", "fopen", "while", "reopen", "recvfrom", "header",
             "packet", "flush", "cleanup", "exited", "killed", "undefined"}
  /\ keep_running \in BOOLEAN /\ file \in BOOLEAN /\ over \in BOOLEAN
  /\ argv \in Seq(Ifaces) /\ promisc_interfaces \in Seq(Ifaces \cup {None})
  /\ Len(promisc_interfaces) <= MAX_IF
  /\ i \in Nat /\ n \in 0..MaxFrames /\ opened \in 0..n
  /\ buf \in Seq(Item) /\ disk \in Seq(Item)
  /\ ifaces \subseteq Ifaces /\ promisc \subseteq ifaces /\ refused \subseteq Ifaces
  /\ frame \in Ifaces \cup {None}

Init ==
  /\ pc = "socket" /\ keep_running = TRUE /\ i = 1
  /\ argv \in Args
  /\ promisc_interfaces = <<>>
  /\ file = FALSE /\ buf = <<>> /\ disk = <<>>
  /\ over = FALSE /\ n = 0 /\ opened = 0
  /\ ifaces = Ifaces /\ promisc = {} /\ refused = {} /\ frame = None

Stopped == pc \in {"exited", "killed", "undefined"}

-----------------------------------------------------------------------------
socket ==
  /\ pc = "socket"
  /\ \/ pc' = "set_promisc"
     \/ "socket" \in Faults /\ pc' = "exited"
  /\ UNCHANGED <<keep_running, argv, i, promisc_interfaces, stdio, over, n, flags, frame>>

(* The names set_promisc is called with: the arguments, or what            *)
(* if_nameindex() lists, without lo.                                       *)
Names == IF argv # <<>> THEN argv ELSE SetToSeq(Ifaces \ {Lo})

if_nameindex_fails ==
  /\ pc = "set_promisc" /\ i = 1 /\ argv = <<>> /\ "if_nameindex" \in Faults
  /\ pc' = "exited"
  /\ UNCHANGED <<keep_running, argv, i, promisc_interfaces, stdio, over, n, flags, frame>>

(* Mutant: promisc_count is not raised.                                    *)
set_promisc_overwrites ==
  /\ pc = "set_promisc" /\ i <= Len(Names) /\ Names[i] \in ifaces
  /\ promisc' = promisc \cup {Names[i]}
  /\ promisc_interfaces' = <<Names[i]>>
  /\ i' = i + 1
  /\ UNCHANGED <<pc, keep_running, argv, stdio, over, n, ifaces, refused, frame>>

(* set_promisc: two ioctl()s, which fail when the interface is gone; then  *)
(* the name is kept, past the end of the array if there are too many, or   *)
(* NULL if strdup() has no memory.                                         *)
set_promisc ==
  /\ pc = "set_promisc" /\ i <= Len(Names)
  /\ \/ /\ Names[i] \in ifaces
        /\ promisc' = promisc \cup {Names[i]}
        /\ \/ /\ Len(promisc_interfaces) < MAX_IF
              /\ \E name \in {Names[i]} \cup (IF "strdup" \in Faults THEN {None} ELSE {}) :
                   promisc_interfaces' = Append(promisc_interfaces, name)
              /\ UNCHANGED pc
           \/ /\ Len(promisc_interfaces) >= MAX_IF
              /\ pc' = "undefined"
              /\ UNCHANGED promisc_interfaces
     \/ /\ Names[i] \notin ifaces \/ "ioctl" \in Faults
        /\ UNCHANGED <<pc, promisc, promisc_interfaces>>
  /\ i' = i + 1
  /\ UNCHANGED <<keep_running, argv, stdio, over, n, ifaces, refused, frame>>

set_promisc_ends ==
  /\ pc = "set_promisc" /\ i > Len(Names)
  /\ pc' = "fopen"
  /\ UNCHANGED <<keep_running, argv, i, promisc_interfaces, stdio, over, n, flags, frame>>

(* write(2) fails for what stdio holds: some of it is passed on, the rest  *)
(* is dropped.  d is the file so far.                                      *)
write_fails(d, all) ==
  /\ "write" \in Faults
  /\ \E k \in 0..(Len(all) - 1) : disk' = d \o Append(SubSeq(all, 1, k), Cut(n))
  /\ buf' = <<>>

(* fwrite(): stdio, which then holds all, may pass on any part of it.      *)
fwrite(d, all) ==
  \/ \E k \in 0..Len(all) :
       /\ disk' = d \o SubSeq(all, 1, k)
       /\ buf' = SubSeq(all, k + 1, Len(all))
  \/ write_fails(d, all)

(* Everything stdio holds goes to the file.                                *)
flush ==
  \/ disk' = disk \o buf /\ buf' = <<>>
  \/ write_fails(disk, buf)

fclose == file' = FALSE /\ flush /\ UNCHANGED opened

(* Mutant: the new file gets no header.                                    *)
fopen_no_header(from) ==
  /\ pc = from /\ pc' = "while"
  /\ file' = TRUE /\ disk' = <<>> /\ buf' = <<>>
  /\ opened' = n /\ over' = FALSE
  /\ UNCHANGED <<keep_running, argv, i, promisc_interfaces, n, flags, frame>>

(* fopen() truncates the file, and the header is written.                  *)
fopen(from) ==
  /\ pc = from
  /\ \/ /\ pc' = "while"
        /\ file' = TRUE /\ fwrite(<<>>, <<Phdr>>)
        /\ opened' = n /\ over' = FALSE
        /\ UNCHANGED i
     \/ /\ "fopen" \in Faults
        /\ pc' = "cleanup" /\ i' = 1
        /\ UNCHANGED <<stdio, over>>
  /\ UNCHANGED <<keep_running, argv, promisc_interfaces, n, flags, frame>>

(* The loop's test, then the rotation's.                                   *)
while ==
  /\ pc = "while"
  /\ \/ ~keep_running /\ pc' = "cleanup" /\ i' = 1 /\ UNCHANGED stdio
     \/ keep_running /\ over /\ pc' = "reopen" /\ fclose /\ UNCHANGED i
     \/ keep_running /\ ~over /\ pc' = "recvfrom" /\ UNCHANGED <<i, stdio>>
  /\ UNCHANGED <<keep_running, argv, promisc_interfaces, over, n, flags, frame>>

(* The filter.  if_indextoname() leaves ifname as it was when the          *)
(* interface has gone, so then any name may be compared.                   *)
Wanted(f) == IF argv = <<>> THEN f # Lo ELSE \E k \in DOMAIN argv : argv[k] = f

(* Mutant: a frame that is not wanted is skipped in a loop of its own.     *)
recvfrom_skips ==
  /\ pc = "recvfrom" /\ frame # None
  /\ frame' = None
  /\ IF Wanted(frame) THEN n' = n + 1 /\ pc' = "header" ELSE UNCHANGED <<n, pc>>
  /\ UNCHANGED <<keep_running, argv, i, promisc_interfaces, stdio, over, flags>>

(* recvfrom() returns a frame, which is written if the filter lets it      *)
(* through; one that is empty or longer than MAX_LEN is not.               *)
recvfrom ==
  /\ pc = "recvfrom" /\ frame # None
  /\ frame' = None
  /\ \/ /\ Wanted(frame) \/ frame \notin ifaces
        /\ n < MaxFrames
        /\ n' = n + 1 /\ pc' = "header"
     \/ pc' = "while" /\ UNCHANGED n
  /\ UNCHANGED <<keep_running, argv, i, promisc_interfaces, stdio, over, flags>>

recvfrom_fails ==
  /\ pc = "recvfrom" /\ "recvfrom" \in Faults
  /\ pc' = "cleanup" /\ i' = 1
  /\ UNCHANGED <<keep_running, argv, promisc_interfaces, stdio, over, n, flags, frame>>

write_header ==
  /\ pc = "header" /\ pc' = "packet"
  /\ fwrite(disk, Append(buf, Header(n)))
  /\ UNCHANGED <<keep_running, argv, i, promisc_interfaces, file, opened, over, n, flags, frame>>

write_packet ==
  /\ pc = "packet" /\ pc' = "flush"
  /\ fwrite(disk, Append(buf, Packet(n)))
  /\ UNCHANGED <<keep_running, argv, i, promisc_interfaces, file, opened, over, n, flags, frame>>

(* Mutant: no fflush().                                                    *)
fflush_omitted ==
  /\ pc = "flush" /\ pc' = "while"
  /\ UNCHANGED <<keep_running, argv, i, promisc_interfaces, stdio, over, n, flags, frame>>

fflush ==
  /\ pc = "flush" /\ pc' = "while"
  /\ flush
  /\ UNCHANGED <<keep_running, argv, i, promisc_interfaces, file, opened, over, n, flags, frame>>

(* cleanup: unset_promisc for every name kept, then close everything.  An  *)
(* ioctl() that fails leaves the interface as it is; NULL for a name is    *)
(* read by strncpy().                                                      *)
unset_promisc ==
  /\ pc = "cleanup" /\ i <= Len(promisc_interfaces)
  /\ LET name == promisc_interfaces[i] IN
     \/ /\ name \in ifaces
        /\ promisc' = promisc \ {name} /\ refused' = refused \ {name}
        /\ i' = i + 1 /\ UNCHANGED pc
     \/ /\ name # None /\ (name \notin ifaces \/ "ioctl" \in Faults)
        /\ refused' = refused \cup {name}
        /\ i' = i + 1 /\ UNCHANGED <<pc, promisc>>
     \/ /\ name = None
        /\ pc' = "killed" /\ UNCHANGED <<i, promisc, refused>>
  /\ UNCHANGED <<keep_running, argv, promisc_interfaces, stdio, over, n, ifaces, frame>>

cleanup_ends ==
  /\ pc = "cleanup" /\ i > Len(promisc_interfaces)
  /\ pc' = "exited"
  /\ IF file THEN fclose ELSE UNCHANGED stdio
  /\ UNCHANGED <<keep_running, argv, i, promisc_interfaces, over, n, flags, frame>>

(* SIGINT or SIGTERM.                                                      *)
signal_handler ==
  /\ ~Stopped /\ keep_running
  /\ keep_running' = FALSE
  /\ UNCHANGED <<pc, argv, i, promisc_interfaces, stdio, over, n, flags, frame>>

-----------------------------------------------------------------------------
(* The network, the clock, the hardware, and a crash.                      *)
Frame(f) ==
  /\ ~Stopped /\ pc # "socket" /\ frame = None /\ f \in ifaces
  /\ frame' = f
  /\ UNCHANGED <<pc, keep_running, argv, i, promisc_interfaces, stdio, over, n, flags>>

Clock ==
  /\ file /\ ~over /\ ~Stopped
  /\ over' = TRUE
  /\ UNCHANGED <<pc, keep_running, argv, i, promisc_interfaces, stdio, n, flags, frame>>

Unplug(f) ==
  /\ ~Stopped /\ "unplug" \in Faults /\ f \in ifaces \ {Lo}
  /\ ifaces' = ifaces \ {f} /\ promisc' = promisc \ {f}
  /\ UNCHANGED <<pc, keep_running, argv, i, promisc_interfaces, stdio, over, n, refused, frame>>

Crash ==
  /\ ~Stopped /\ "SIGKILL" \in Faults
  /\ pc' = "killed"
  /\ UNCHANGED <<keep_running, argv, i, promisc_interfaces, stdio, over, n, flags, frame>>

Main ==
  \/ socket \/ if_nameindex_fails \/ set_promisc \/ set_promisc_ends
  \/ fopen("fopen") \/ while \/ fopen("reopen") \/ recvfrom
  \/ write_header \/ write_packet \/ fflush \/ unset_promisc \/ cleanup_ends

Next ==
  \/ Main \/ recvfrom_fails \/ signal_handler \/ Clock \/ Crash
  \/ \E f \in Ifaces : Frame(f) \/ Unplug(f)

Spec == Init /\ [][Next]_vars

(* The scheduler runs main, and the machine sends itself a frame now and   *)
(* then: the socket gets those of every interface, lo included.  Nothing   *)
(* makes a blocked recvfrom() fail.                                        *)
FairSpec == Spec /\ WF_vars(Main) /\ WF_vars(Frame(Lo))

-----------------------------------------------------------------------------
(* A pcap file, or the beginning of one, as far as no write has failed:    *)
(* the global header, then for each frame its header and its bytes, in the *)
(* order of capture.                                                       *)
PcapPrefix(f) ==
  \A k \in DOMAIN f : (\A j \in 1..k : f[j].kind # "cut") =>
    /\ f[k].kind = IF k = 1 THEN "pcap_header"
                   ELSE IF k % 2 = 0 THEN "packet_header" ELSE "packet"
    /\ k > 1 => IF k % 2 = 1 THEN f[k].n = f[k - 1].n ELSE f[k].n > f[k - 1].n

(* Whenever the program stops or is killed, during a rotation too,         *)
(* captures.pcap is a pcap file up to its last, perhaps cut off, record,   *)
(* or up to the first write that failed: the code ignores that, so what is *)
(* appended behind it is out of step.                                      *)
FileIsPcap == PcapPrefix(disk) /\ PcapPrefix(disk \o buf)

(* The record of frame f is on disk whole, or its own write has failed.    *)
OnDisk(f) ==
  \/ \E k \in DOMAIN disk : k + 1 \in DOMAIN disk /\ disk[k] = Header(f) /\ disk[k + 1] = Packet(f)
  \/ \E k \in DOMAIN disk : disk[k] = Cut(f)

(* Every frame captured since the last rotation is on disk, except the one *)
(* being written: a crash costs no other frame, and neither does a write   *)
(* that fails, whose result the code ignores.                              *)
CapturedIsOnDisk ==
  \A f \in (opened + 1)..n :
    f < n \/ pc \notin {"header", "packet", "flush", "killed"} => OnDisk(f)

(* When main returns no interface is left in promiscuous mode by it,       *)
(* whichever were named, twice or not, failed or unplugged meanwhile,      *)
(* except those whose own last reset failed.                               *)
PromiscRestored == pc = "exited" => promisc \subseteq refused

(* SIGTERM ends the program, with the next frame at the latest.            *)
StopsOnSignal == ~keep_running ~> Stopped
=============================================================================
