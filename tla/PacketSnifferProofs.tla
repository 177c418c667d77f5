------------------------- MODULE PacketSnifferProofs -------------------------
(***************************************************************************)
(* packet-sniffer keeps captures.pcap a pcap file up to the first write    *)
(* that fails, loses no frame but the one being written, and leaves no     *)
(* interface promiscuous that it can reset, for every set of interfaces,   *)
(* every command line, every number of frames, every way stdio may pass    *)
(* its buffer on and every call that may fail.                             *)
(***************************************************************************)
EXTENDS PacketSniffer, SequenceTheorems, TLAPS

(* What has been written since the file was opened, on disk or not.        *)
written == disk \o buf

Broken == \E k \in DOMAIN written : written[k].kind = "cut"

(* The names kept for cleanup from index k on cover the promiscuous ones,  *)
(* unless one of them is NULL, which cleanup does not get past.            *)
KeptFrom(k) ==
  \A f \in promisc :
    \/ \E m \in DOMAIN promisc_interfaces : m >= k /\ promisc_interfaces[m] \in {f, None}
    \/ f \in refused

PromiscKept ==
  /\ pc \in {"socket", "set_promisc", "cleanup"} => i >= 1
  /\ pc = "socket" \/ (pc = "set_promisc" /\ i = 1) => promisc = {}
  /\ pc \notin {"cleanup", "exited", "killed", "undefined"} => KeptFrom(1)
  /\ pc = "cleanup" => KeptFrom(i)
  /\ pc = "exited" => promisc \subseteq refused

(* The frames written are numbered up to n; the next one is not there yet. *)
NumbersBounded ==
  \A k \in DOMAIN written : IF pc = "header" THEN written[k].n < n ELSE written[k].n <= n

(* Between two frames the file ends with a whole record.                   *)
Aligned ==
  Broken \/ /\ pc \in {"while", "recvfrom", "header", "flush"} => Len(written) % 2 = 1
            /\ pc = "packet" => Len(written) > 0 /\ Len(written) % 2 = 0

(* The record being written is the last one, unless its write has failed.  *)
CutOff == \E k \in DOMAIN disk : disk[k] = Cut(n)
Progress ==
  /\ pc = "packet" => CutOff \/ (Len(written) > 0 /\ written[Len(written)] = Header(n))
  /\ pc = "flush" =>
       CutOff \/ /\ Len(written) > 1 /\ written[Len(written) - 1] = Header(n)
                 /\ written[Len(written)] = Packet(n)

(* The file.                                                               *)
FileInv == PcapPrefix(written) /\ NumbersBounded /\ Aligned /\ Progress /\ CapturedIsOnDisk

IInv == TypeOK /\ PromiscKept /\ FileInv

-----------------------------------------------------------------------------
(* The constants as the proofs use them.                                   *)
LEMMA Constants ==
  /\ Lo \in Ifaces /\ None \notin Ifaces
  /\ Args \subseteq Seq(Ifaces) /\ MAX_IF \in Nat /\ MaxFrames \in Nat
BY ConstantsAssumption

(* A write that stdio splits anywhere is the whole write.                  *)
LEMMA SplitWrite ==
  ASSUME NEW S, NEW d \in Seq(S), NEW all \in Seq(S), NEW k \in 0..Len(all)
  PROVE  /\ SubSeq(all, 1, k) \in Seq(S) /\ SubSeq(all, k + 1, Len(all)) \in Seq(S)
         /\ (d \o SubSeq(all, 1, k)) \o SubSeq(all, k + 1, Len(all)) = d \o all
<1>1. Len(all) \in Nat /\ \A m \in 1..Len(all) : all[m] \in S
  BY ElementOfSeq
<1>2. SubSeq(all, 1, k) \in Seq(S) /\ SubSeq(all, k + 1, Len(all)) \in Seq(S)
  <2>1. k \in Int /\ 1 \in Int /\ k + 1 \in Int /\ Len(all) \in Int
    BY <1>1
  <2>2. /\ \A m \in 1..k : all[m] \in S
        /\ \A m \in (k + 1)..Len(all) : all[m] \in S
    BY <1>1
  <2> QED  BY <2>1, <2>2, SubSeqProperties
<1>3. SubSeq(all, 1, k) \o SubSeq(all, k + 1, Len(all)) = all
  <2>1. 1 \in 1..Len(all) + 1 /\ k \in 1 - 1..Len(all) /\ Len(all) \in k..Len(all)
    BY <1>1
  <2>2. SubSeq(all, 1, k) \o SubSeq(all, k + 1, Len(all)) = SubSeq(all, 1, Len(all))
    BY <2>1, ConcatAdjacentSubSeq
  <2> QED  BY <2>2, SubSeqFull
<1>4. \A A, B \in Seq(S) : (d \o A) \o B = d \o (A \o B)
  BY ConcatAssociative, SMTT(30)
<1>5. (d \o SubSeq(all, 1, k)) \o SubSeq(all, k + 1, Len(all))
        = d \o (SubSeq(all, 1, k) \o SubSeq(all, k + 1, Len(all)))
  BY <1>2, <1>4, Zenon
<1> QED  BY <1>2, <1>3, <1>5, Zenon

(* x is w up to a failed write.                                            *)
CutShort(x, w) ==
  /\ Len(x) > 0 /\ Len(x) <= Len(w) /\ x[Len(x)] = Cut(n)
  /\ \A k \in 1..(Len(x) - 1) : x[k] = w[k]

(* y goes on where x ends.                                                 *)
Extends(x, y) == Len(x) <= Len(y) /\ \A k \in DOMAIN x : y[k] = x[k]

(* What has been written after an fwrite(): everything, however much of it *)
(* stdio passes on, or what precedes the failed write.                     *)
LEMMA FwriteOutcome ==
  ASSUME NEW d \in Seq(Item), NEW all \in Seq(Item), n \in 0..MaxFrames, fwrite(d, all)
  PROVE  /\ disk' \in Seq(Item) /\ buf' \in Seq(Item)
         /\ Extends(d, disk')
         /\ \/ written' = d \o all
            \/ written' = disk' /\ CutShort(disk', d \o all)
<1>0. Len(all) \in Nat /\ Len(d) \in Nat /\ DOMAIN d = 1..Len(d) /\ DOMAIN all = 1..Len(all)
  BY LenProperties
<1>00. /\ d \o all \in Seq(Item) /\ Len(d \o all) = Len(d) + Len(all)
       /\ \A m \in 1..(Len(d) + Len(all)) :
            (d \o all)[m] = IF m <= Len(d) THEN d[m] ELSE all[m - Len(d)]
  BY ConcatProperties
<1>1. ASSUME NEW k \in 0..Len(all)
      PROVE  /\ SubSeq(all, 1, k) \in Seq(Item) /\ Len(SubSeq(all, 1, k)) = k
             /\ \A m \in 1..k : SubSeq(all, 1, k)[m] = all[m]
  <2>1. SubSeq(all, 1, k) \in Seq(Item)
    BY SplitWrite
  <2>2. Len(SubSeq(all, 1, k)) = k /\ \A m \in 1..k : SubSeq(all, 1, k)[m] = all[m]
    BY <1>0
  <2> QED  BY <2>1, <2>2
<1>2. ASSUME NEW k \in 0..Len(all), disk' = d \o SubSeq(all, 1, k),
             buf' = SubSeq(all, k + 1, Len(all))
      PROVE  /\ disk' \in Seq(Item) /\ buf' \in Seq(Item) /\ Extends(d, disk')
             /\ written' = d \o all
  <2>1. SubSeq(all, 1, k) \in Seq(Item) /\ buf' \in Seq(Item) /\ disk' \o buf' = d \o all
    BY <1>2, SplitWrite, ZenonT(30)
  <2>2. /\ disk' \in Seq(Item) /\ Len(disk') = Len(d) + Len(SubSeq(all, 1, k))
        /\ \A m \in 1..Len(d) : disk'[m] = d[m]
    <3> DEFINE p == SubSeq(all, 1, k)
    <3>1. p \in Seq(Item) /\ Len(p) \in Nat /\ disk' = d \o p
      BY <1>2, <2>1, LenProperties
    <3> HIDE DEF p
    <3>2. /\ disk' \in Seq(Item) /\ Len(disk') = Len(d) + Len(p)
          /\ \A m \in 1..Len(d) : disk'[m] = d[m]
      BY <1>0, <3>1, ConcatProperties
    <3> QED  BY <3>2 DEF p
  <2>3. Len(SubSeq(all, 1, k)) = k
    BY <1>1
  <2> QED  BY <1>0, <2>1, <2>2, <2>3 DEF written, Extends
<1>3. ASSUME NEW k \in 0..(Len(all) - 1), disk' = d \o Append(SubSeq(all, 1, k), Cut(n)), buf' = <<>>
      PROVE  /\ disk' \in Seq(Item) /\ buf' \in Seq(Item) /\ Extends(d, disk')
             /\ written' = disk' /\ CutShort(disk', d \o all)
  <2> DEFINE p == SubSeq(all, 1, k)
             q == Append(p, Cut(n))
  <2>1. p \in Seq(Item) /\ Len(p) = k /\ \A m \in 1..k : p[m] = all[m]
    BY <1>0, <1>1
  <2>2. Cut(n) \in Item
    BY DEF Cut, Item
  <2> HIDE DEF p
  <2>3. /\ q \in Seq(Item) /\ Len(q) = k + 1 /\ q[k + 1] = Cut(n)
        /\ \A m \in 1..k : q[m] = all[m]
    BY <1>0, <2>1, <2>2, AppendProperties
  <2>4. disk' = d \o q
    BY <1>3 DEF p
  <2> HIDE DEF q
  <2>5. /\ disk' \in Seq(Item) /\ Len(disk') = Len(d) + k + 1
        /\ \A m \in 1..(Len(d) + k + 1) : disk'[m] = IF m <= Len(d) THEN d[m] ELSE q[m - Len(d)]
    <3>1. /\ d \o q \in Seq(Item) /\ Len(d \o q) = Len(d) + Len(q)
          /\ \A m \in 1..(Len(d) + Len(q)) : (d \o q)[m] = IF m <= Len(d) THEN d[m] ELSE q[m - Len(d)]
      BY <2>3, ConcatProperties
    <3> QED  BY <1>0, <2>3, <2>4, <3>1
  <2>6. Extends(d, disk')
    BY <1>0, <2>5 DEF Extends
  <2>7. CutShort(disk', d \o all)
    <3>1. disk'[Len(disk')] = Cut(n)
      BY <1>0, <2>3, <2>5
    <3>2. ASSUME NEW m \in 1..(Len(disk') - 1) PROVE disk'[m] = (d \o all)[m]
      <4>1. m \in 1..(Len(d) + k) /\ m \in 1..(Len(d) + Len(all)) /\ m \in 1..(Len(d) + k + 1)
        BY <1>0, <2>5
      <4>2. CASE m <= Len(d)
        BY <1>00, <2>5, <4>1, <4>2
      <4>3. CASE ~(m <= Len(d))
        <5>1. m - Len(d) \in 1..k
          BY <1>0, <4>1, <4>3
        <5> QED  BY <1>00, <2>3, <2>5, <4>1, <4>3, <5>1
      <4> QED  BY <4>2, <4>3
    <3> QED  BY <1>0, <1>00, <2>5, <3>1, <3>2 DEF CutShort
  <2>8. written' = disk' /\ buf' \in Seq(Item)
    BY <1>3, <2>5, ConcatEmptySeq, EmptySeq DEF written
  <2> QED  BY <2>5, <2>6, <2>7, <2>8
<1>4. CASE write_fails(d, all)
  <2>1. PICK k \in 0..(Len(all) - 1) : disk' = d \o Append(SubSeq(all, 1, k), Cut(n))
    BY <1>4 DEF write_fails
  <2>2. buf' = <<>>
    BY <1>4 DEF write_fails
  <2> QED  BY <1>3, <2>1, <2>2
<1>5. CASE \E k \in 0..Len(all) :
             disk' = d \o SubSeq(all, 1, k) /\ buf' = SubSeq(all, k + 1, Len(all))
  BY <1>2, <1>5
<1> QED  BY <1>4, <1>5 DEF fwrite

(* fflush() and fclose() are a write of what stdio holds.                  *)
LEMMA FlushWrites ==
  ASSUME disk \in Seq(Item), buf \in Seq(Item), flush
  PROVE  fwrite(disk, buf) /\ buf' = <<>>
<1>1. Len(buf) \in Nat
  BY LenProperties
<1>2. CASE write_fails(disk, buf)
  BY <1>2 DEF fwrite, write_fails
<1>3. CASE disk' = disk \o buf /\ buf' = <<>>
  <2>1. SubSeq(buf, 1, Len(buf)) = buf
    BY SubSeqFull
  <2>2. SubSeq(buf, Len(buf) + 1, Len(buf)) = <<>>
    BY <1>1, SubSeqEmpty
  <2>3. Len(buf) \in 0..Len(buf)
    BY <1>1
  <2> QED  BY <1>3, <2>1, <2>2, <2>3 DEF fwrite
<1> QED  BY <1>2, <1>3 DEF flush

(* A write of one more item.                                               *)
LEMMA WrittenGrows ==
  ASSUME NEW item \in Item, disk \in Seq(Item), buf \in Seq(Item)
  PROVE  /\ Append(buf, item) \in Seq(Item)
         /\ disk \o Append(buf, item) = Append(written, item)
<1>1. Append(buf, item) = buf \o <<item>> /\ <<item>> \in Seq(Item)
  BY AppendIsConcat
<1>2. disk \o (buf \o <<item>>) = (disk \o buf) \o <<item>>
  BY <1>1, ConcatAssociative
<1>3. disk \o buf \in Seq(Item)
  BY ConcatProperties
<1>4. Append(buf, item) \in Seq(Item)
  BY AppendProperties
<1> QED  BY <1>1, <1>2, <1>3, <1>4, AppendIsConcat DEF written

(* What precedes a failed write in a pcap file is one.                     *)
LEMMA CutIsPcap ==
  ASSUME NEW x \in Seq(Item), NEW w \in Seq(Item), PcapPrefix(w), CutShort(x, w)
  PROVE  PcapPrefix(x)
<1>1. /\ Len(x) \in Nat /\ Len(w) \in Nat /\ DOMAIN x = 1..Len(x) /\ DOMAIN w = 1..Len(w)
  BY LenProperties
<1> SUFFICES ASSUME NEW k \in 1..Len(x), \A j \in 1..k : x[j].kind # "cut"
             PROVE  /\ x[k].kind = IF k = 1 THEN "pcap_header"
                                   ELSE IF k % 2 = 0 THEN "packet_header" ELSE "packet"
                    /\ k > 1 => IF k % 2 = 1 THEN x[k].n = x[k - 1].n ELSE x[k].n > x[k - 1].n
  BY <1>1 DEF PcapPrefix
<1>2. k # Len(x)
  <2>1. Cut(n).kind = "cut"
    BY DEF Cut
  <2>2. k \in 1..k
    BY <1>1
  <2> QED  BY <1>1, <2>1, <2>2 DEF CutShort
<1>3. k \in DOMAIN w /\ \A j \in 1..k : x[j] = w[j]
  <2>1. Len(x) <= Len(w) /\ \A j \in 1..(Len(x) - 1) : x[j] = w[j]
    BY DEF CutShort
  <2>2. k \in 1..Len(w) /\ k <= Len(x) - 1
    <3>1. Len(x) \in Nat /\ Len(w) \in Nat /\ Len(x) <= Len(w) /\ k \in 1..Len(x) /\ k # Len(x)
      BY <1>1, <1>2, <2>1, Zenon
    <3> QED  BY <3>1
  <2>3. ASSUME NEW j \in 1..k PROVE j \in 1..(Len(x) - 1)
    BY <1>1, <2>2
  <2> QED  BY <1>1, <2>1, <2>2, <2>3
<1>4. \A j \in 1..k : w[j].kind # "cut"
  BY <1>3
<1>5. x[k] = w[k] /\ (k > 1 => x[k - 1] = w[k - 1])
  BY <1>1, <1>3
<1> QED  BY <1>3, <1>4, <1>5 DEF PcapPrefix

(* A file grows by the header of a new frame or by the frame's bytes.      *)
LEMMA PcapGrows ==
  ASSUME NEW f \in Seq(Item), PcapPrefix(f), NEW item \in Item,
         \/ \E k \in DOMAIN f : f[k].kind = "cut"
         \/ /\ Len(f) > 0
            /\ item.kind = IF Len(f) % 2 = 1 THEN "packet_header" ELSE "packet"
            /\ IF Len(f) % 2 = 0 THEN item.n = f[Len(f)].n ELSE item.n > f[Len(f)].n
  PROVE  PcapPrefix(Append(f, item))
<1> DEFINE g == Append(f, item)
<1>1. /\ Len(f) \in Nat /\ Len(g) = Len(f) + 1 /\ DOMAIN g = 1..(Len(f) + 1)
      /\ DOMAIN f = 1..Len(f) /\ \A k \in 1..Len(f) : g[k] = f[k]
      /\ g[Len(f) + 1] = item
  BY AppendProperties, LenProperties
<1> HIDE DEF g
<1> SUFFICES ASSUME NEW k \in DOMAIN g, \A j \in 1..k : g[j].kind # "cut"
             PROVE  /\ g[k].kind = IF k = 1 THEN "pcap_header"
                                   ELSE IF k % 2 = 0 THEN "packet_header" ELSE "packet"
                    /\ k > 1 => IF k % 2 = 1 THEN g[k].n = g[k - 1].n ELSE g[k].n > g[k - 1].n
  BY DEF PcapPrefix, g
<1>2. CASE k \in 1..Len(f)
  <2>1. g[k] = f[k] /\ (k > 1 => g[k - 1] = f[k - 1]) /\ k \in DOMAIN f
    BY <1>1, <1>2
  <2>2. \A j \in 1..k : f[j].kind # "cut"
    BY <1>1, <1>2
  <2> QED  BY <2>1, <2>2 DEF PcapPrefix
<1>3. CASE k = Len(f) + 1
  <2>0. ~(\E j \in DOMAIN f : f[j].kind = "cut")
    BY <1>1, <1>3
  <2>1. /\ g[k] = item /\ g[k - 1] = f[Len(f)] /\ k > 1 /\ Len(f) > 0
        /\ (k % 2 = 0 <=> Len(f) % 2 = 1) /\ (k % 2 = 1 <=> Len(f) % 2 = 0)
    BY <1>1, <1>3, <2>0
  <2>2. Len(f) % 2 \in {0, 1}
    BY <1>1
  <2> QED  BY <2>0, <2>1, <2>2
<1> QED  BY <1>1, <1>2, <1>3

(* What is on disk is the beginning of what has been written.              *)
LEMMA DiskIsPrefix ==
  ASSUME disk \in Seq(Item), buf \in Seq(Item), PcapPrefix(written)
  PROVE  PcapPrefix(disk)
<1>1. /\ Len(disk) \in Nat /\ DOMAIN disk = 1..Len(disk)
      /\ \A k \in 1..Len(disk) : k \in DOMAIN written /\ written[k] = disk[k]
  <2>1. Len(disk) \in Nat /\ Len(buf) \in Nat /\ DOMAIN disk = 1..Len(disk)
    BY LenProperties
  <2>2. /\ written \in Seq(Item) /\ Len(written) = Len(disk) + Len(buf)
        /\ \A k \in 1..(Len(disk) + Len(buf)) :
             written[k] = IF k <= Len(disk) THEN disk[k] ELSE buf[k - Len(disk)]
    BY ConcatProperties DEF written
  <2>3. DOMAIN written = 1..(Len(disk) + Len(buf))
    BY <2>2, LenProperties
  <2> QED  BY <2>1, <2>2, <2>3
<1> SUFFICES ASSUME NEW k \in 1..Len(disk), \A j \in 1..k : disk[j].kind # "cut"
             PROVE  /\ disk[k].kind = IF k = 1 THEN "pcap_header"
                                      ELSE IF k % 2 = 0 THEN "packet_header" ELSE "packet"
                    /\ k > 1 => IF k % 2 = 1 THEN disk[k].n = disk[k - 1].n
                                             ELSE disk[k].n > disk[k - 1].n
  BY <1>1 DEF PcapPrefix
<1>2. k > 1 => k - 1 \in 1..Len(disk)
  BY <1>1
<1>3. \A j \in 1..k : written[j].kind # "cut"
  BY <1>1
<1> QED  BY <1>1, <1>2, <1>3 DEF PcapPrefix

(* A write leaves a pcap file, and what was on disk is still there.        *)
LEMMA WriteKeeps ==
  ASSUME NEW d \in Seq(Item), NEW all \in Seq(Item), n \in 0..MaxFrames, fwrite(d, all),
         MaxFrames \in Nat, PcapPrefix(d \o all),
         \A k \in DOMAIN (d \o all) : (d \o all)[k].n <= n
  PROVE  /\ PcapPrefix(written')
         /\ \A k \in DOMAIN written' : written'[k].n <= n
         /\ Extends(d, disk')
         /\ \/ written' = d \o all
            \/ /\ written' = disk' /\ Broken'
               /\ \E k \in DOMAIN disk' : disk'[k] = Cut(n)
<1> DEFINE w == d \o all
<1>1. w \in Seq(Item) /\ Len(w) \in Nat /\ DOMAIN w = 1..Len(w)
  BY ConcatProperties, LenProperties
<1>2. /\ disk' \in Seq(Item) /\ Extends(d, disk')
      /\ written' = w \/ (written' = disk' /\ CutShort(disk', w))
  BY FwriteOutcome
<1>3. CASE written' = w
  BY <1>2, <1>3
<1>4. CASE written' = disk' /\ CutShort(disk', w)
  <2>1. Len(disk') \in Nat /\ DOMAIN disk' = 1..Len(disk')
    BY <1>2, LenProperties
  <2>2. PcapPrefix(w) /\ \A k \in DOMAIN w : w[k].n <= n
    OBVIOUS
  <2> HIDE DEF w
  <2>3. PcapPrefix(disk')
    BY <1>1, <1>2, <1>4, <2>2, CutIsPcap
  <2>4. Cut(n).n = n /\ Cut(n).kind = "cut"
    BY DEF Cut
  <2>5. Len(disk') \in DOMAIN disk' /\ disk'[Len(disk')] = Cut(n)
    BY <1>4, <2>1 DEF CutShort
  <2>6. ASSUME NEW k \in DOMAIN disk' PROVE disk'[k].n <= n
    <3>1. CASE k = Len(disk')
      BY <2>4, <2>5, <3>1
    <3>2. CASE k # Len(disk')
      BY <1>1, <1>4, <2>1, <2>2, <3>2 DEF CutShort
    <3> QED  BY <3>1, <3>2
  <2>7. Broken'
    BY <1>4, <2>4, <2>5 DEF Broken
  <2> QED  BY <1>2, <1>4, <2>3, <2>5, <2>6, <2>7
<1> QED  BY <1>2, <1>3, <1>4

(* Frames on disk stay there while the file grows.                         *)
LEMMA OnDiskStays ==
  ASSUME disk \in Seq(Item), disk' \in Seq(Item), Extends(disk, disk'), NEW f, OnDisk(f)
  PROVE  OnDisk(f)'
<1>1. /\ Len(disk) \in Nat /\ DOMAIN disk = 1..Len(disk)
      /\ Len(disk') \in Nat /\ DOMAIN disk' = 1..Len(disk')
  BY LenProperties
<1>2. \A k \in DOMAIN disk : k \in DOMAIN disk' /\ disk'[k] = disk[k]
  BY <1>1 DEF Extends
<1> QED  BY <1>2 DEF OnDisk

-----------------------------------------------------------------------------
(* The invariant holds when main starts.                                   *)
LEMMA InitIInv == Init => IInv
<1> SUFFICES ASSUME Init PROVE IInv  OBVIOUS
<1>1. argv \in Seq(Ifaces)
  BY Constants DEF Init
<1>2. TypeOK
  <2>1. promisc_interfaces \in Seq(Ifaces \cup {None}) /\ Len(promisc_interfaces) <= MAX_IF
    BY Constants DEF Init
  <2>2. keep_running \in BOOLEAN /\ file \in BOOLEAN /\ over \in BOOLEAN
    BY DEF Init
  <2>3. i \in Nat /\ n \in 0..MaxFrames /\ opened \in 0..n /\ buf \in Seq(Item) /\ disk \in Seq(Item)
    BY Constants DEF Init
  <2> QED  BY <1>1, <2>1, <2>2, <2>3 DEF Init, TypeOK
<1>3. written = <<>> /\ Len(written) = 0
  BY DEF Init, written
<1>4. FileInv
  BY <1>3 DEF Init, FileInv, PcapPrefix, NumbersBounded, Aligned, Progress, CapturedIsOnDisk
<1>5. PromiscKept
  BY DEF Init, PromiscKept, KeptFrom
<1> QED  BY <1>2, <1>4, <1>5 DEF IInv

(* Types.                                                                  *)
LEMMA TypeStep ==
  ASSUME IInv, Next PROVE TypeOK'
<1>1. TypeOK /\ MAX_IF \in Nat /\ MaxFrames \in Nat
  BY Constants DEF IInv
<1>2. CASE socket \/ if_nameindex_fails \/ set_promisc_ends \/ recvfrom_fails \/ signal_handler
           \/ Clock \/ Crash
  <2>1. /\ UNCHANGED <<argv, promisc_interfaces, file, buf, disk, opened, n, ifaces, promisc,
                      refused, frame>>
        /\ i' \in {i, 1}
        /\ pc' \in {pc, "set_promisc", "fopen", "cleanup", "exited", "killed"}
    BY <1>2 DEF socket, if_nameindex_fails, set_promisc_ends, recvfrom_fails, signal_handler,
       Clock, Crash, stdio, flags
  <2>2. keep_running' \in {keep_running, FALSE} /\ over' \in {over, TRUE}
    BY <1>2 DEF socket, if_nameindex_fails, set_promisc_ends, recvfrom_fails, signal_handler,
       Clock, Crash
  <2>3. keep_running' \in BOOLEAN /\ over' \in BOOLEAN
    BY <1>1, <2>2 DEF TypeOK
  <2> QED  BY <1>1, <2>1, <2>3 DEF TypeOK
<1>3. CASE set_promisc
  <2>1. /\ UNCHANGED <<keep_running, argv, file, buf, disk, opened, over, n, ifaces, refused, frame>>
        /\ i' \in Nat
    BY <1>1, <1>3 DEF set_promisc, stdio, TypeOK
  <2>2. promisc' \subseteq ifaces' /\ pc' \in {pc, "undefined"}
    BY <1>1, <1>3 DEF set_promisc, TypeOK
  <2>3. promisc_interfaces' \in Seq(Ifaces \cup {None}) /\ Len(promisc_interfaces') <= MAX_IF
    <3>1. CASE UNCHANGED promisc_interfaces
      BY <1>1, <3>1 DEF TypeOK
    <3>2. ASSUME NEW name \in {Names[i], None}, Names[i] \in ifaces,
                 Len(promisc_interfaces) < MAX_IF,
                 promisc_interfaces' = Append(promisc_interfaces, name)
          PROVE  promisc_interfaces' \in Seq(Ifaces \cup {None}) /\ Len(promisc_interfaces') <= MAX_IF
      <4>1. name \in Ifaces \cup {None} /\ promisc_interfaces \in Seq(Ifaces \cup {None})
        BY <1>1, <3>2 DEF TypeOK
      <4> QED  BY <1>1, <3>2, <4>1, AppendProperties, LenProperties
    <3> QED  BY <1>3, <3>1, <3>2 DEF set_promisc
  <2> QED  BY <1>1, <2>1, <2>2, <2>3 DEF TypeOK
<1>4. ASSUME NEW from, fopen(from) PROVE TypeOK'
  <2>1. <<Phdr>> \in Seq(Item) /\ <<>> \in Seq(Item)
    BY <1>1 DEF Phdr, Item
  <2>2. /\ disk' \in Seq(Item) /\ buf' \in Seq(Item) /\ i' \in Nat /\ pc' \in {"while", "cleanup"}
        /\ opened' \in {n, opened}
    <3>1. CASE fwrite(<<>>, <<Phdr>>) /\ pc' = "while" /\ opened' = n /\ i' = i
      BY <1>1, <2>1, <3>1, FwriteOutcome DEF TypeOK
    <3>2. CASE UNCHANGED stdio /\ pc' = "cleanup" /\ i' = 1
      BY <1>1, <3>2 DEF TypeOK, stdio
    <3> QED  BY <1>4, <3>1, <3>2 DEF fopen
  <2>3. file' \in BOOLEAN /\ over' \in BOOLEAN
    BY <1>1, <1>4 DEF fopen, TypeOK, stdio
  <2>4. UNCHANGED <<keep_running, argv, promisc_interfaces, n, ifaces, promisc, refused, frame>>
    BY <1>4 DEF fopen, flags
  <2>5. opened' \in 0..n'
    BY <1>1, <2>2, <2>4 DEF TypeOK
  <2> QED  BY <1>1, <2>2, <2>3, <2>4, <2>5 DEF TypeOK
<1>5. CASE while
  <2>1. CASE fclose
    <3>1. disk' \in Seq(Item) /\ buf' \in Seq(Item)
      BY <1>1, <2>1, FlushWrites, FwriteOutcome DEF fclose, TypeOK
    <3>2. /\ UNCHANGED <<keep_running, argv, promisc_interfaces, over, n, opened, ifaces, promisc,
                         refused, frame>>
          /\ file' \in BOOLEAN /\ i' \in {i, 1} /\ pc' \in {"cleanup", "reopen", "recvfrom"}
      BY <1>5, <2>1 DEF while, fclose, flags
    <3> QED  BY <1>1, <3>1, <3>2 DEF TypeOK
  <2>2. CASE UNCHANGED stdio
    BY <1>1, <1>5, <2>2 DEF while, stdio, TypeOK, flags
  <2> QED  BY <1>5, <2>1, <2>2 DEF while
<1>6. CASE recvfrom
  BY <1>1, <1>6 DEF recvfrom, TypeOK, stdio, flags
<1>7. CASE write_header \/ write_packet
  <2>1. disk' \in Seq(Item) /\ buf' \in Seq(Item)
    <3>1. PICK item \in Item : fwrite(disk, Append(buf, item))
      BY <1>1, <1>7 DEF write_header, write_packet, Header, Packet, Item, TypeOK
    <3> QED  BY <1>1, <3>1, WrittenGrows, FwriteOutcome DEF TypeOK
  <2> QED  BY <1>1, <1>7, <2>1 DEF write_header, write_packet, TypeOK, flags
<1>8. CASE fflush
  <2>1. disk' \in Seq(Item) /\ buf' \in Seq(Item)
    BY <1>1, <1>8, FlushWrites, FwriteOutcome DEF fflush, TypeOK
  <2> QED  BY <1>1, <1>8, <2>1 DEF fflush, TypeOK, flags
<1>9. CASE unset_promisc
  <2>1. /\ promisc' \subseteq promisc /\ i' \in {i, i + 1} /\ pc' \in {pc, "killed"}
        /\ UNCHANGED <<keep_running, argv, promisc_interfaces, file, buf, disk, opened, over, n,
                      ifaces, frame>>
    BY <1>9 DEF unset_promisc, stdio
  <2>2. refused' \subseteq Ifaces
    <3>1. promisc_interfaces[i] \in Ifaces \cup {None}
      <4>1. i \in 1..Len(promisc_interfaces)
        BY <1>1, <1>9 DEF unset_promisc, TypeOK, IInv, PromiscKept
      <4> QED  BY <1>1, <4>1, ElementOfSeq DEF TypeOK
    <3> QED  BY <1>1, <1>9, <3>1 DEF unset_promisc, TypeOK
  <2> QED  BY <1>1, <2>1, <2>2 DEF TypeOK
<1>10. CASE cleanup_ends
  <2>1. CASE fclose
    <3>1. disk' \in Seq(Item) /\ buf' \in Seq(Item)
      BY <1>1, <2>1, FlushWrites, FwriteOutcome DEF fclose, TypeOK
    <3> QED  BY <1>1, <1>10, <2>1, <3>1 DEF cleanup_ends, fclose, TypeOK, flags
  <2>2. CASE UNCHANGED stdio
    BY <1>1, <1>10, <2>2 DEF cleanup_ends, stdio, TypeOK, flags
  <2> QED  BY <1>10, <2>1, <2>2 DEF cleanup_ends
<1>11. ASSUME NEW f \in Ifaces, Frame(f) \/ Unplug(f) PROVE TypeOK'
  BY <1>1, <1>11 DEF Frame, Unplug, TypeOK, stdio, flags
<1> QED
  BY <1>2, <1>3, <1>4, <1>5, <1>6, <1>7, <1>8, <1>9, <1>10, <1>11 DEF Next, Main

(* Every interface that is promiscuous is one cleanup will come to, or has *)
(* refused to be reset.                                                    *)
LEMMA PromiscStep ==
  ASSUME IInv, Next PROVE PromiscKept'
<1>1. /\ PromiscKept /\ i \in Nat /\ promisc_interfaces \in Seq(Ifaces \cup {None})
      /\ DOMAIN promisc_interfaces = 1..Len(promisc_interfaces) /\ Len(promisc_interfaces) \in Nat
  BY LenProperties DEF IInv, TypeOK
<1>2. CASE set_promisc
  <2>1. /\ pc = "set_promisc" /\ pc' \in {"set_promisc", "undefined"} /\ i' = i + 1 /\ KeptFrom(1)
        /\ refused' = refused
    BY <1>1, <1>2 DEF set_promisc, PromiscKept
  <2>2. i' # 1 /\ i' >= 1
    BY <1>1, <2>1 DEF PromiscKept
  <2>3. KeptFrom(1)' \/ pc' = "undefined"
    <3>1. CASE UNCHANGED <<promisc, promisc_interfaces>>
      BY <2>1, <3>1 DEF KeptFrom
    <3>2. CASE pc' = "undefined"
      BY <3>2
    <3>3. ASSUME NEW name \in {Names[i], None}, promisc' = promisc \cup {Names[i]},
                 Names[i] \in ifaces, promisc_interfaces' = Append(promisc_interfaces, name)
          PROVE  KeptFrom(1)'
      <4>1. name \in Ifaces \cup {None}
        BY <3>3 DEF IInv, TypeOK
      <4>2. /\ DOMAIN promisc_interfaces' = 1..(Len(promisc_interfaces) + 1)
            /\ \A k \in DOMAIN promisc_interfaces : promisc_interfaces'[k] = promisc_interfaces[k]
            /\ promisc_interfaces'[Len(promisc_interfaces) + 1] = name
        BY <1>1, <3>3, <4>1, AppendProperties, LenProperties
      <4> SUFFICES ASSUME NEW f \in promisc'
                   PROVE  \/ \E m \in DOMAIN promisc_interfaces' :
                               m >= 1 /\ promisc_interfaces'[m] \in {f, None}
                          \/ f \in refused'
        BY DEF KeptFrom
      <4>3. CASE f \in promisc
        <5>1. CASE f \in refused
          BY <2>1, <5>1
        <5>2. CASE f \notin refused
          <6>1. PICK m \in DOMAIN promisc_interfaces : m >= 1 /\ promisc_interfaces[m] \in {f, None}
            BY <2>1, <4>3, <5>2 DEF KeptFrom
          <6> QED  BY <1>1, <4>2, <6>1
        <5> QED  BY <5>1, <5>2
      <4>4. CASE f = Names[i]
        <5>1. Len(promisc_interfaces) + 1 \in DOMAIN promisc_interfaces'
          BY <1>1, <4>2
        <5> QED  BY <1>1, <3>3, <4>2, <4>4, <5>1
      <4> QED  BY <3>3, <4>3, <4>4
    <3> QED  BY <1>2, <3>1, <3>2, <3>3 DEF set_promisc
  <2> QED  BY <2>1, <2>2, <2>3 DEF PromiscKept
<1>3. CASE unset_promisc
  <2>1. pc = "cleanup" /\ KeptFrom(i) /\ i >= 1 /\ promisc_interfaces' = promisc_interfaces
    BY <1>1, <1>3 DEF unset_promisc, PromiscKept
  <2>2. CASE pc' = "killed"
    BY <2>2 DEF PromiscKept
  <2>3. CASE /\ pc' = pc /\ i' = i + 1 /\ promisc_interfaces[i] # None
             /\ \/ /\ promisc' = promisc \ {promisc_interfaces[i]}
                   /\ refused' = refused \ {promisc_interfaces[i]}
                \/ promisc' = promisc /\ refused' = refused \cup {promisc_interfaces[i]}
    <3> SUFFICES ASSUME NEW f \in promisc', f \notin refused'
                 PROVE  \E m \in DOMAIN promisc_interfaces :
                          m >= i + 1 /\ promisc_interfaces[m] \in {f, None}
      BY <1>1, <2>1, <2>3 DEF KeptFrom, PromiscKept
    <3>0. f \in promisc /\ f \notin refused /\ f # promisc_interfaces[i]
      BY <2>3
    <3>1. PICK m \in DOMAIN promisc_interfaces : m >= i /\ promisc_interfaces[m] \in {f, None}
      BY <2>1, <3>0 DEF KeptFrom
    <3>2. m # i
      BY <2>3, <3>0, <3>1
    <3> QED  BY <1>1, <3>1, <3>2
  <2>4. None \notin ifaces
    BY Constants DEF IInv, TypeOK
  <2> QED  BY <1>3, <2>2, <2>3, <2>4 DEF unset_promisc
<1>4. CASE cleanup_ends
  <2>1. /\ pc = "cleanup" /\ i > Len(promisc_interfaces) /\ KeptFrom(i)
        /\ pc' = "exited" /\ promisc' = promisc /\ refused' = refused
    BY <1>1, <1>4 DEF cleanup_ends, PromiscKept, flags
  <2>2. promisc \subseteq refused
    BY <1>1, <2>1 DEF KeptFrom
  <2> QED  BY <2>1, <2>2 DEF PromiscKept
<1>5. CASE socket \/ if_nameindex_fails
  BY <1>1, <1>5 DEF socket, if_nameindex_fails, PromiscKept, KeptFrom, flags
<1>6. ASSUME UNCHANGED <<promisc, refused, promisc_interfaces>>,
             \/ pc' \notin {"socket", "set_promisc", "cleanup", "exited"}
             \/ pc' = "cleanup" /\ i' = 1,
             pc \notin {"socket", "cleanup", "exited", "killed", "undefined"}
      PROVE  PromiscKept'
  BY <1>1, <1>6 DEF PromiscKept, KeptFrom
<1>7. CASE Clock \/ signal_handler \/ (\E f \in Ifaces : Frame(f))
  <2>1. UNCHANGED <<pc, i, promisc, refused, promisc_interfaces>>
    BY <1>7 DEF Clock, signal_handler, Frame, flags
  <2> QED  BY <1>1, <2>1 DEF PromiscKept, KeptFrom
<1>8. CASE Crash
  BY <1>8 DEF Crash, PromiscKept
<1>9. ASSUME NEW f \in Ifaces, Unplug(f) PROVE PromiscKept'
  <2>1. /\ UNCHANGED <<pc, i, refused, promisc_interfaces>> /\ promisc' \subseteq promisc
    BY <1>9 DEF Unplug
  <2> QED  BY <1>1, <2>1 DEF PromiscKept, KeptFrom
<1>10. CASE set_promisc_ends \/ fopen("fopen") \/ fopen("reopen") \/ while \/ recvfrom
            \/ write_header \/ write_packet \/ fflush \/ recvfrom_fails
  BY <1>6, <1>10 DEF set_promisc_ends, fopen, while, recvfrom, write_header, write_packet, fflush,
     recvfrom_fails, flags
<1> QED
  BY <1>2, <1>3, <1>4, <1>5, <1>7, <1>8, <1>9, <1>10 DEF Next, Main

-----------------------------------------------------------------------------
(* The type of what has been written.                                      *)
LEMMA WrittenType ==
  ASSUME disk \in Seq(Item), buf \in Seq(Item)
  PROVE  /\ written \in Seq(Item) /\ Len(written) \in Nat /\ DOMAIN written = 1..Len(written)
         /\ \A k \in DOMAIN written : written[k] \in Item
<1>1. written \in Seq(Item)
  BY ConcatProperties DEF written
<1> QED  BY <1>1, LenProperties, ElementOfSeq

(* A write adds one item to a file that is waiting for it, or cuts it off. *)
LEMMA WriteStep ==
  ASSUME IInv, write_header \/ write_packet PROVE FileInv'
<1> DEFINE item == IF pc = "header" THEN Header(n) ELSE Packet(n)
<1>1. /\ TypeOK /\ FileInv /\ n \in 0..MaxFrames /\ MaxFrames \in Nat
      /\ disk \in Seq(Item) /\ buf \in Seq(Item)
  BY Constants DEF IInv, TypeOK
<1>2. /\ item \in Item /\ item.n = n
      /\ item.kind = IF pc = "header" THEN "packet_header" ELSE "packet"
  BY <1>1 DEF Item, Header, Packet
<1>3. /\ fwrite(disk, Append(buf, item)) /\ n' = n /\ opened' = opened
      /\ \/ pc = "header" /\ pc' = "packet" /\ item = Header(n)
         \/ pc = "packet" /\ pc' = "flush" /\ item = Packet(n)
  BY DEF write_header, write_packet
<1> HIDE DEF item
<1>4. /\ Append(buf, item) \in Seq(Item) /\ disk \o Append(buf, item) = Append(written, item)
  BY <1>1, <1>2, WrittenGrows
<1>5. /\ written \in Seq(Item) /\ Len(written) \in Nat /\ DOMAIN written = 1..Len(written)
      /\ \A k \in DOMAIN written : written[k] \in Item /\ written[k].n \in Nat
  BY <1>1, WrittenType DEF Item
<1> DEFINE w == Append(written, item)
<1>6. /\ w \in Seq(Item) /\ Len(w) = Len(written) + 1 /\ DOMAIN w = 1..(Len(written) + 1)
      /\ \A k \in DOMAIN written : w[k] = written[k]
      /\ w[Len(written) + 1] = item
  BY <1>2, <1>5, AppendProperties, LenProperties
<1> HIDE DEF w
<1>7. Broken \/ (Len(written) > 0 /\ Len(written) % 2 = IF pc = "header" THEN 1 ELSE 0)
  BY <1>1, <1>3, <1>5 DEF FileInv, Aligned
<1>8. ASSUME ~Broken
      PROVE  IF pc = "header" THEN item.n > written[Len(written)].n
                              ELSE item.n = written[Len(written)].n
  <2>1. CASE pc = "header"
    <3>1. Len(written) \in DOMAIN written
      BY <1>5, <1>7, <1>8
    <3>2. written[Len(written)].n < n /\ written[Len(written)].n \in Nat
      BY <1>1, <1>5, <2>1, <3>1 DEF FileInv, NumbersBounded
    <3> QED  BY <1>1, <1>2, <2>1, <3>2
  <2>2. CASE pc = "packet"
    <3>1. ~CutOff
      <4>1. SUFFICES ASSUME NEW k \in DOMAIN disk, disk[k] = Cut(n) PROVE Broken
        BY <1>8 DEF CutOff
      <4>2. Len(disk) \in Nat /\ Len(buf) \in Nat /\ DOMAIN disk = 1..Len(disk)
        BY <1>1, LenProperties
      <4>3. /\ Len(written) = Len(disk) + Len(buf)
            /\ \A m \in 1..(Len(disk) + Len(buf)) :
                 written[m] = IF m <= Len(disk) THEN disk[m] ELSE buf[m - Len(disk)]
        BY <1>1, ConcatProperties DEF written
      <4>4. k \in DOMAIN written /\ written[k] = Cut(n)
        BY <1>5, <4>1, <4>2, <4>3
      <4> QED  BY <4>4 DEF Broken, Cut
    <3>2. written[Len(written)] = Header(n)
      BY <1>1, <2>2, <3>1 DEF FileInv, Progress
    <3> QED  BY <1>2, <2>2, <3>2 DEF Header
  <2> QED  BY <1>3, <2>1, <2>2
<1>9. PcapPrefix(w)
  <2>1. PcapPrefix(written)
    BY <1>1 DEF FileInv
  <2>2. ASSUME ~Broken
        PROVE  /\ Len(written) > 0
               /\ item.kind = IF Len(written) % 2 = 1 THEN "packet_header" ELSE "packet"
               /\ IF Len(written) % 2 = 0 THEN item.n = written[Len(written)].n
                                          ELSE item.n > written[Len(written)].n
    BY <1>2, <1>3, <1>7, <1>8, <2>2
  <2> QED  BY <1>2, <1>5, <2>1, <2>2, PcapGrows DEF w, Broken
<1>10. \A k \in DOMAIN w : w[k].n <= n
  <2> SUFFICES ASSUME NEW k \in DOMAIN w PROVE w[k].n <= n
    OBVIOUS
  <2>1. CASE k \in DOMAIN written
    <3>1. written[k].n <= n
      BY <1>1, <1>5, <2>1 DEF FileInv, NumbersBounded
    <3> QED  BY <1>6, <2>1, <3>1
  <2>2. CASE k = Len(written) + 1
    BY <1>1, <1>2, <1>6, <2>2
  <2> QED  BY <1>5, <1>6, <2>1, <2>2
<1>11. /\ PcapPrefix(written') /\ \A k \in DOMAIN written' : written'[k].n <= n
       /\ Extends(disk, disk')
       /\ \/ written' = w
          \/ /\ written' = disk' /\ Broken'
             /\ \E k \in DOMAIN disk' : disk'[k] = Cut(n)
  <2> DEFINE all == Append(buf, item)
  <2>1. all \in Seq(Item) /\ disk \o all = w /\ fwrite(disk, all)
    BY <1>3, <1>4 DEF w
  <2> HIDE DEF all
  <2> QED  BY <1>1, <1>9, <1>10, <2>1, WriteKeeps
<1>12. disk' \in Seq(Item)
  BY <1>1, <1>3, <1>4, FwriteOutcome
<1>13. NumbersBounded'
  BY <1>3, <1>11 DEF NumbersBounded
<1>14. Aligned'
  <2>1. CASE Broken'
    BY <2>1 DEF Aligned
  <2>2. CASE written' = w /\ ~Broken
    <3>1. Len(written') = Len(written) + 1
      BY <1>6, <2>2
    <3> QED  BY <1>3, <1>5, <1>7, <2>2, <3>1 DEF Aligned
  <2>3. CASE written' = w /\ Broken
    <3>1. PICK k \in DOMAIN written : written[k].kind = "cut"
      BY <2>3 DEF Broken
    <3>2. k \in DOMAIN w /\ w[k] = written[k]
      BY <1>5, <1>6
    <3> QED  BY <2>3, <3>1, <3>2 DEF Aligned, Broken
  <2> QED  BY <1>11, <2>1, <2>2, <2>3
<1>15. Progress'
  <2>1. CASE \E k \in DOMAIN disk' : disk'[k] = Cut(n)
    BY <1>3, <2>1 DEF Progress, CutOff
  <2>2. CASE written' = w /\ pc = "header"
    BY <1>3, <1>5, <1>6, <2>2 DEF Progress
  <2>3. CASE written' = w /\ pc = "packet" /\ ~CutOff
    <3>1. Len(written) > 0 /\ written[Len(written)] = Header(n)
      BY <1>1, <2>3 DEF FileInv, Progress
    <3>2. Len(written') = Len(written) + 1 /\ Len(written') - 1 = Len(written)
      BY <1>5, <1>6, <2>3
    <3>3. written'[Len(written') - 1] = Header(n)
      <4>1. Len(written) \in DOMAIN written
        BY <1>5, <3>1
      <4>2. w[Len(written)] = Header(n)
        BY <1>6, <3>1, <4>1
      <4> QED  BY <2>3, <3>2, <4>2
    <3>4. written'[Len(written')] = Packet(n) /\ Len(written') > 1
      BY <1>3, <1>5, <1>6, <2>3, <3>1, <3>2
    <3>5. pc' = "flush" /\ n' = n
      BY <1>3, <2>3
    <3> QED  BY <3>3, <3>4, <3>5 DEF Progress
  <2>4. CASE CutOff
    <3>1. PICK k \in DOMAIN disk : disk[k] = Cut(n)
      BY <2>4 DEF CutOff
    <3>2. Len(disk) \in Nat /\ Len(disk') \in Nat /\ DOMAIN disk = 1..Len(disk)
          /\ DOMAIN disk' = 1..Len(disk')
      BY <1>1, <1>12, LenProperties
    <3>3. k \in DOMAIN disk' /\ disk'[k] = Cut(n)
      BY <1>11, <3>1, <3>2 DEF Extends
    <3> QED  BY <2>1, <3>3
  <2> QED  BY <1>3, <1>11, <2>1, <2>2, <2>3, <2>4
<1>16. CapturedIsOnDisk'
  <2> SUFFICES ASSUME NEW f \in (opened + 1)..n, f < n PROVE OnDisk(f)'
    BY <1>3 DEF CapturedIsOnDisk
  <2>1. OnDisk(f)
    BY <1>1 DEF FileInv, CapturedIsOnDisk
  <2> QED  BY <1>1, <1>11, <1>12, <2>1, OnDiskStays
<1> QED  BY <1>11, <1>13, <1>14, <1>15, <1>16 DEF FileInv

(* fflush() and fclose() keep what has been written, or cut it off.        *)
LEMMA FlushStep ==
  ASSUME IInv, flush, n' = n, opened' = opened,
         pc' \notin {"recvfrom", "header", "packet", "flush"},
         \/ pc = "flush" /\ pc' = "while"
         \/ pc \notin {"header", "packet", "flush", "killed"} /\ pc' # "while"
  PROVE  FileInv'
<1>1. /\ TypeOK /\ FileInv /\ n \in 0..MaxFrames /\ MaxFrames \in Nat
      /\ disk \in Seq(Item) /\ buf \in Seq(Item)
  BY Constants DEF IInv, TypeOK
<1>2. fwrite(disk, buf) /\ buf' = <<>>
  BY <1>1, FlushWrites
<1>3. /\ written \in Seq(Item) /\ Len(written) \in Nat /\ DOMAIN written = 1..Len(written)
      /\ \A k \in DOMAIN written : written[k].n \in Nat
  BY <1>1, WrittenType DEF Item
<1>4. PcapPrefix(written) /\ \A k \in DOMAIN written : written[k].n <= n
  BY <1>1, <1>3 DEF FileInv, NumbersBounded
<1>5. /\ PcapPrefix(written') /\ \A k \in DOMAIN written' : written'[k].n <= n
      /\ Extends(disk, disk')
      /\ \/ written' = written
         \/ /\ written' = disk' /\ Broken'
            /\ \E k \in DOMAIN disk' : disk'[k] = Cut(n)
  BY <1>1, <1>2, <1>4, WriteKeeps DEF written
<1>6. disk' \in Seq(Item) /\ written' = disk'
  <2>1. disk' \in Seq(Item)
    BY <1>1, <1>2, FwriteOutcome
  <2> QED  BY <1>2, <2>1, ConcatEmptySeq DEF written
<1>7. NumbersBounded'
  BY <1>5 DEF NumbersBounded
<1>8. Aligned'
  <2>1. CASE Broken'
    BY <2>1 DEF Aligned
  <2>2. CASE written' = written
    BY <1>1, <2>2 DEF FileInv, Aligned, Broken
  <2> QED  BY <1>5, <2>1, <2>2
<1>9. Progress'
  BY DEF Progress
<1>10. CapturedIsOnDisk'
  <2> SUFFICES ASSUME NEW f \in (opened + 1)..n PROVE OnDisk(f)'
    BY DEF CapturedIsOnDisk
  <2>1. CASE OnDisk(f)
    BY <1>1, <1>5, <1>6, <2>1, OnDiskStays
  <2>2. CASE ~OnDisk(f)
    <3>1. pc = "flush" /\ f = n
      BY <1>1, <2>2 DEF FileInv, CapturedIsOnDisk, TypeOK
    <3>2. CASE \E k \in DOMAIN disk' : disk'[k] = Cut(n)
      BY <3>1, <3>2 DEF OnDisk
    <3>3. CASE written' = written
      <4>1. ~CutOff
        BY <2>2, <3>1 DEF OnDisk, CutOff
      <4>2. /\ Len(written) > 1 /\ written[Len(written) - 1] = Header(n)
            /\ written[Len(written)] = Packet(n)
        BY <1>1, <3>1, <4>1 DEF FileInv, Progress
      <4>3. disk' = written
        BY <1>6, <3>3
      <4> DEFINE k == Len(written) - 1
      <4>4. k \in DOMAIN written /\ k + 1 \in DOMAIN written /\ k + 1 = Len(written)
        BY <1>3, <4>2
      <4>5. written[k] = Header(n) /\ written[k + 1] = Packet(n)
        BY <4>2, <4>4
      <4> HIDE DEF k
      <4> QED  BY <3>1, <4>3, <4>4, <4>5 DEF OnDisk
    <3> QED  BY <1>5, <3>2, <3>3
  <2> QED  BY <2>1, <2>2
<1> QED  BY <1>5, <1>7, <1>8, <1>9, <1>10 DEF FileInv

(* The other calls leave the file alone, or start it anew.                 *)
LEMMA FileStep ==
  ASSUME IInv, Next PROVE FileInv'
<1>1. /\ TypeOK /\ FileInv /\ n \in 0..MaxFrames /\ MaxFrames \in Nat
      /\ disk \in Seq(Item) /\ buf \in Seq(Item)
  BY Constants DEF IInv, TypeOK
<1>2. /\ written \in Seq(Item) /\ Len(written) \in Nat /\ DOMAIN written = 1..Len(written)
      /\ \A k \in DOMAIN written : written[k].n \in Nat
  BY <1>1, WrittenType DEF Item
<1>3. ASSUME UNCHANGED <<disk, buf, opened, n>>,
             \/ pc' = pc
             \/ pc' = "killed"
             \/ /\ pc \notin {"header", "packet", "flush", "killed"}
                /\ pc' \in {"set_promisc", "fopen", "exited", "undefined", "cleanup"}
             \/ pc = "while" /\ pc' = "recvfrom"
             \/ pc = "recvfrom" /\ pc' = "while"
      PROVE  FileInv'
  <2>1. written' = written /\ (Broken' <=> Broken) /\ (CutOff' <=> CutOff)
        /\ \A f : OnDisk(f)' <=> OnDisk(f)
    BY <1>3 DEF written, Broken, CutOff, OnDisk
  <2>2. NumbersBounded'
    BY <1>1, <1>2, <1>3, <2>1 DEF FileInv, NumbersBounded
  <2>3. Aligned'
    BY <1>1, <1>3, <2>1 DEF FileInv, Aligned
  <2>4. Progress'
    BY <1>1, <1>3, <2>1 DEF FileInv, Progress
  <2>5. CapturedIsOnDisk'
    <3> SUFFICES ASSUME NEW f \in (opened + 1)..n,
                        f < n \/ pc' \notin {"header", "packet", "flush", "killed"}
                 PROVE  OnDisk(f)
      BY <1>3, <2>1 DEF CapturedIsOnDisk
    <3> QED  BY <1>1, <1>3 DEF FileInv, CapturedIsOnDisk
  <2> QED  BY <1>1, <2>1, <2>2, <2>3, <2>4, <2>5 DEF FileInv
<1>4. CASE socket \/ if_nameindex_fails \/ set_promisc_ends \/ recvfrom_fails \/ Crash
           \/ set_promisc \/ unset_promisc \/ signal_handler \/ Clock
           \/ \E f \in Ifaces : Frame(f) \/ Unplug(f)
  BY <1>3, <1>4 DEF socket, if_nameindex_fails, set_promisc_ends, recvfrom_fails, Crash, set_promisc,
     unset_promisc, signal_handler, Clock, Frame, Unplug, stdio
<1>5. ASSUME NEW from \in {"fopen", "reopen"}, fopen(from) PROVE FileInv'
  <2>1. CASE pc' = "while"
    <3>1. n' = n /\ opened' = n /\ fwrite(<<>>, <<Phdr>>)
      BY <1>5, <2>1 DEF fopen
    <3>2. /\ <<>> \in Seq(Item) /\ <<Phdr>> \in Seq(Item) /\ <<>> \o <<Phdr>> = <<Phdr>>
          /\ Len(<<Phdr>>) = 1 /\ DOMAIN <<Phdr>> = {1} /\ <<Phdr>>[1] = Phdr
          /\ Phdr.kind = "pcap_header" /\ Phdr.n = 0
      BY <1>1 DEF Phdr, Item
    <3>3. PcapPrefix(<<Phdr>>)
      BY <3>2 DEF PcapPrefix
    <3>4. \A k \in DOMAIN <<Phdr>> : <<Phdr>>[k].n <= n
      BY <1>1, <3>2
    <3>5. /\ PcapPrefix(written') /\ \A k \in DOMAIN written' : written'[k].n <= n
          /\ written' = <<Phdr>> \/ Broken'
      <4> DEFINE d == <<>>
                 all == <<Phdr>>
      <4>1. /\ d \in Seq(Item) /\ all \in Seq(Item) /\ d \o all = all /\ PcapPrefix(all)
            /\ fwrite(d, all) /\ \A k \in DOMAIN all : all[k].n <= n
        BY <3>1, <3>2, <3>3, <3>4
      <4> HIDE DEF d, all
      <4>2. /\ PcapPrefix(written') /\ \A k \in DOMAIN written' : written'[k].n <= n
            /\ written' = all \/ Broken'
        BY <1>1, <4>1, WriteKeeps
      <4> QED  BY <4>2 DEF all
    <3>6. Aligned'
      <4>1. CASE Broken'
        BY <4>1 DEF Aligned
      <4>2. CASE written' = <<Phdr>>
        <5>1. Len(written') = 1 /\ 1 % 2 = 1
          BY <3>2, <4>2
        <5> QED  BY <2>1, <5>1 DEF Aligned
      <4> QED  BY <3>5, <4>1, <4>2
    <3>7. NumbersBounded' /\ Progress'
      BY <2>1, <3>1, <3>5 DEF NumbersBounded, Progress
    <3>8. CapturedIsOnDisk'
      BY <1>1, <3>1 DEF CapturedIsOnDisk
    <3> QED  BY <3>5, <3>6, <3>7, <3>8 DEF FileInv
  <2>2. CASE pc' = "cleanup"
    BY <1>3, <1>5, <2>2 DEF fopen, stdio
  <2> QED  BY <1>5, <2>1, <2>2 DEF fopen
<1>6. CASE while
  <2>1. pc = "while" /\ n' = n
    BY <1>6 DEF while
  <2>2. CASE fclose /\ pc' = "reopen"
    BY <2>1, <2>2, FlushStep DEF fclose
  <2>3. CASE UNCHANGED stdio /\ pc' \in {"cleanup", "recvfrom"}
    BY <1>3, <2>1, <2>3 DEF stdio
  <2> QED  BY <1>6, <2>2, <2>3 DEF while
<1>7. CASE recvfrom
  <2>1. UNCHANGED <<disk, buf, opened>> /\ written' = written /\ pc = "recvfrom"
    BY <1>7 DEF recvfrom, stdio, written
  <2>2. CASE pc' = "while" /\ n' = n
    BY <1>3, <2>1, <2>2
  <2>3. CASE pc' = "header" /\ n' = n + 1
    <3>1. NumbersBounded'
      BY <1>1, <1>2, <2>1, <2>3 DEF FileInv, NumbersBounded
    <3>2. Aligned' /\ Progress'
      BY <1>1, <2>1, <2>3 DEF FileInv, Aligned, Broken, Progress
    <3>3. CapturedIsOnDisk'
      <4> SUFFICES ASSUME NEW f \in (opened + 1)..(n + 1), f < n + 1 PROVE OnDisk(f)'
        BY <2>1, <2>3 DEF CapturedIsOnDisk
      <4>1. f \in (opened + 1)..n
        BY <1>1 DEF TypeOK
      <4>2. OnDisk(f)
        BY <1>1, <2>1, <4>1 DEF FileInv, CapturedIsOnDisk
      <4> QED  BY <2>1, <4>2 DEF OnDisk
    <3> QED  BY <1>1, <2>1, <3>1, <3>2, <3>3 DEF FileInv
  <2> QED  BY <1>7, <2>2, <2>3 DEF recvfrom
<1>8. CASE fflush
  BY <1>8, FlushStep DEF fflush
<1>9. CASE cleanup_ends
  <2>1. pc = "cleanup" /\ pc' = "exited" /\ n' = n
    BY <1>9 DEF cleanup_ends
  <2>2. CASE fclose
    BY <2>1, <2>2, FlushStep DEF fclose
  <2>3. CASE UNCHANGED stdio
    BY <1>3, <2>1, <2>3 DEF stdio
  <2> QED  BY <1>9, <2>2, <2>3 DEF cleanup_ends
<1> QED
  BY <1>4, <1>5, <1>6, <1>7, <1>8, <1>9, WriteStep DEF Next, Main

-----------------------------------------------------------------------------
(* The inductive invariant, for every instance.                            *)
THEOREM Invariance == Spec => []IInv
<1>1. IInv /\ [Next]_vars => IInv'
  <2> SUFFICES ASSUME IInv, [Next]_vars PROVE IInv'  OBVIOUS
  <2>1. CASE Next
    BY <2>1, TypeStep, PromiscStep, FileStep DEF IInv
  <2>2. CASE UNCHANGED vars
    <3>1. TypeOK' /\ PromiscKept'
      BY <2>2 DEF vars, stdio, flags, IInv, TypeOK, PromiscKept, KeptFrom
    <3>2. FileInv'
      BY <2>2 DEF vars, stdio, IInv, FileInv, NumbersBounded, Aligned, Broken, Progress, CutOff,
         CapturedIsOnDisk, OnDisk, written
    <3> QED  BY <3>1, <3>2 DEF IInv
  <2> QED  BY <2>1, <2>2
<1> QED  BY InitIInv, <1>1, PTL DEF Spec

(* Whenever the program stops, captures.pcap is a pcap file up to its last *)
(* record or to the first write that failed: fwrite() may pass on any part *)
(* of what stdio holds, and any write may fail.                            *)
THEOREM FileAlwaysPcap == Spec => []FileIsPcap
<1>1. IInv => FileIsPcap
  BY DiskIsPrefix DEF IInv, TypeOK, FileInv, FileIsPcap, written
<1> QED  BY Invariance, <1>1, PTL

(* Every frame captured since the last rotation is on disk whole, except   *)
(* the one being written and those whose own write failed.                 *)
THEOREM CapturesOnDisk == Spec => []CapturedIsOnDisk
<1>1. IInv => CapturedIsOnDisk
  BY DEF IInv, FileInv
<1> QED  BY Invariance, <1>1, PTL

(* When main returns, the only interfaces still promiscuous are those the  *)
(* kernel refused to reset.                                                *)
THEOREM NoPromiscLeft == Spec => []PromiscRestored
<1>1. IInv => PromiscRestored
  BY DEF IInv, PromiscKept, PromiscRestored
<1> QED  BY Invariance, <1>1, PTL
=============================================================================
