-------------------------- MODULE PortScannerProofs --------------------------
(***************************************************************************)
(* port-scanner's packets pass the receiver's checksum test, it reports    *)
(* only open ports and, if its sleeps are long enough, all of them: for    *)
(* every range, both addresses, every random number and every network.     *)
(***************************************************************************)
EXTENDS PortScanner, SequenceTheorems, TLAPS

-----------------------------------------------------------------------------
(* The checksum.                                                           *)

(* A sum and its checksum add up to a multiple of 65535, which is what the *)
(* receiver tests, for every sum that the 32 bits of the variable hold.    *)
THEOREM ChecksumCancels ==
  ASSUME NEW sum \in Nat, sum < 65536 * 65536
  PROVE  /\ Fold(sum) \in Nat /\ Fold(sum) < 65536
         /\ (sum + Fold(sum)) % 65535 = 0
<1> DEFINE hi == sum \div 65536
           lo == sum % 65536
           once == hi + lo
           twice == once + (once \div 65536)
<1>1. /\ sum = 65536 * hi + lo
      /\ hi \in Int /\ 0 <= hi /\ hi < 65536
      /\ lo \in Int /\ 0 <= lo /\ lo < 65536
  BY SMT
<1>2. Fold(sum) = 65535 - (twice % 65536)
  BY SMT DEF Fold
<1> HIDE DEF hi, lo
<1>3. once \in Int /\ 0 <= once /\ once < 131071
  BY <1>1, SMT
<1>4. once < 65536 => twice % 65536 = once
  BY <1>3, SMT
<1>5. once >= 65536 => twice % 65536 = once - 65535
  BY <1>3, SMT
<1>6. Fold(sum) \in Nat /\ Fold(sum) < 65536
  BY <1>2, <1>3, <1>4, <1>5, SMT
<1>7. (sum + Fold(sum)) % 65535 = 0
  <2>1. CASE once < 65536
    <3>1. sum + Fold(sum) = 65535 * (hi + 1)
      BY <1>1, <1>2, <1>4, <2>1, SMT
    <3> QED  BY <1>1, <3>1, SMT
  <2>2. CASE once >= 65536
    <3>1. sum + Fold(sum) = 65535 * (hi + 2)
      BY <1>1, <1>2, <1>5, <2>2, SMT
    <3> QED  BY <1>1, <3>1, SMT
  <2> QED  BY <1>3, <2>1, <2>2, SMT
<1> QED  BY <1>6, <1>7, SMT

(* A word is a number of 16 bits.                                          *)
LEMMA IntervalMember ==
  \A m \in Int : \A x : x \in 0..m <=> x \in Int /\ 0 <= x /\ x <= m
OBVIOUS

LEMMA WordMember ==
  \A x : x \in Word <=> x \in Int /\ 0 <= x /\ x <= 65535
<1>1. PICK m \in Int : m = 65535
  BY SMT
<1>2. Word = 0..m
  BY <1>1, SMT DEF Word
<1>3. \A x : x \in Word <=> x \in Int /\ 0 <= x /\ x <= m
  BY <1>2, IntervalMember, Zenon
<1> QED  BY <1>1, <1>3, SMT

(* ntohs() undoes htons().                                                 *)
LEMMA HtonsTwice ==
  ASSUME NEW w \in Word
  PROVE  htons(w) \in Word /\ htons(htons(w)) = w
<1> DEFINE q == w \div 256
           r == w % 256
<1>0. w \in Int /\ 0 <= w /\ w <= 65535
  BY WordMember
<1>1. /\ w = 256 * q + r /\ q \in Int /\ 0 <= q /\ q < 256
      /\ r \in Int /\ 0 <= r /\ r < 256
  BY <1>0, SMT
<1>2. htons(w) = r * 256 + q
  BY DEF htons
<1> HIDE DEF q, r
<1>3. (r * 256 + q) % 256 = q /\ (r * 256 + q) \div 256 = r
  BY <1>1
<1>4. htons(htons(w)) = q * 256 + r
  BY <1>2, <1>3 DEF htons
<1>5. r * 256 + q \in Int /\ 0 <= r * 256 + q /\ r * 256 + q <= 65535 /\ q * 256 + r = w
  BY <1>1, SMT
<1>6. htons(w) \in Int /\ 0 <= htons(w) /\ htons(w) <= 65535
  BY <1>2, <1>5
<1>7. htons(w) \in Word
  BY <1>6, WordMember
<1>8. q * 256 + r = w
  BY <1>5
<1> QED  BY <1>4, <1>7, <1>8, Zenon

(* The sum over sixteen words, the pseudo header's and the header's: the   *)
(* recursive function that Sum defines exists and unrolls to it.           *)
LEMMA SumOfSixteen ==
  ASSUME NEW ws, Len(ws) = 16, \A k \in 1..16 : ws[k] \in Nat
  PROVE  Sum(ws) = ws[1] + ws[2] + ws[3] + ws[4] + ws[5] + ws[6] + ws[7] + ws[8] + ws[9] + ws[10]
                     + ws[11] + ws[12] + ws[13] + ws[14] + ws[15] + ws[16]
<1> DEFINE p1 == ws[1]       p2 == p1 + ws[2]     p3 == p2 + ws[3]     p4 == p3 + ws[4]
           p5 == p4 + ws[5]  p6 == p5 + ws[6]     p7 == p6 + ws[7]     p8 == p7 + ws[8]
           p9 == p8 + ws[9]  p10 == p9 + ws[10]   p11 == p10 + ws[11]  p12 == p11 + ws[12]
           p13 == p12 + ws[13]  p14 == p13 + ws[14]  p15 == p14 + ws[15]  p16 == p15 + ws[16]
           g == [k \in 0..16 |->
                   CASE k = 0 -> 0 [] k = 1 -> p1 [] k = 2 -> p2 [] k = 3 -> p3 [] k = 4 -> p4
                     [] k = 5 -> p5 [] k = 6 -> p6 [] k = 7 -> p7 [] k = 8 -> p8 [] k = 9 -> p9
                     [] k = 10 -> p10 [] k = 11 -> p11 [] k = 12 -> p12 [] k = 13 -> p13
                     [] k = 14 -> p14 [] k = 15 -> p15 [] OTHER -> p16]
           R(s) == s = [k \in 0..16 |-> IF k = 0 THEN 0 ELSE s[k - 1] + ws[k]]
           s == CHOOSE h : R(h)
<1>1. R(g)
  OBVIOUS
<1>2. R(s)
  BY <1>1
<1>3. Sum(ws) = s[16]
  BY DEF Sum
<1>4. s = [k \in 0..16 |-> IF k = 0 THEN 0 ELSE s[k - 1] + ws[k]]
  BY <1>2
<1> HIDE DEF s, g, R
<1>5. /\ s[0] = 0 /\ s[1] = s[0] + ws[1] /\ s[2] = s[1] + ws[2] /\ s[3] = s[2] + ws[3]
      /\ s[4] = s[3] + ws[4] /\ s[5] = s[4] + ws[5] /\ s[6] = s[5] + ws[6]
      /\ s[7] = s[6] + ws[7] /\ s[8] = s[7] + ws[8] /\ s[9] = s[8] + ws[9]
      /\ s[10] = s[9] + ws[10] /\ s[11] = s[10] + ws[11] /\ s[12] = s[11] + ws[12]
      /\ s[13] = s[12] + ws[13] /\ s[14] = s[13] + ws[14] /\ s[15] = s[14] + ws[15]
      /\ s[16] = s[15] + ws[16]
  BY <1>4
<1>6. s[4] = ws[1] + ws[2] + ws[3] + ws[4] /\ s[4] \in Nat
  BY <1>5
<1>7. s[8] = s[4] + ws[5] + ws[6] + ws[7] + ws[8] /\ s[8] \in Nat
  BY <1>5, <1>6
<1>8. s[12] = s[8] + ws[9] + ws[10] + ws[11] + ws[12] /\ s[12] \in Nat
  BY <1>5, <1>7
<1>9. s[16] = s[12] + ws[13] + ws[14] + ws[15] + ws[16]
  BY <1>5, <1>8
<1> QED  BY <1>3, <1>6, <1>7, <1>8, <1>9

(* The sixteen words of pseudo header and header, one after the other.     *)
LEMMA SixteenWords ==
  ASSUME NEW s1, NEW s2, NEW d1, NEW d2, NEW p5, NEW p6, NEW h1, NEW h2, NEW r1, NEW r2,
         NEW h5, NEW h6, NEW h7, NEW h8, NEW h9, NEW h10,
         NEW ws, ws = (<<s1, s2>> \o <<d1, d2>> \o <<p5, p6>>)
                        \o (<<h1, h2>> \o <<r1, r2>> \o <<h5, h6, h7, h8, h9, h10>>)
  PROVE  /\ Len(ws) = 16
         /\ ws[1] = s1 /\ ws[2] = s2 /\ ws[3] = d1 /\ ws[4] = d2 /\ ws[5] = p5 /\ ws[6] = p6
         /\ ws[7] = h1 /\ ws[8] = h2 /\ ws[9] = r1 /\ ws[10] = r2 /\ ws[11] = h5 /\ ws[12] = h6
         /\ ws[13] = h7 /\ ws[14] = h8 /\ ws[15] = h9 /\ ws[16] = h10
<1> DEFINE A == <<s1, s2>> \o <<d1, d2>> \o <<p5, p6>>
           B == <<h1, h2>> \o <<r1, r2>> \o <<h5, h6, h7, h8, h9, h10>>
           S == {s1, s2, d1, d2, p5, p6, h1, h2, r1, r2, h5, h6, h7, h8, h9, h10}
<1>1. /\ A \in Seq(S) /\ Len(A) = 6 /\ A[1] = s1 /\ A[2] = s2 /\ A[3] = d1 /\ A[4] = d2
      /\ A[5] = p5 /\ A[6] = p6
  OBVIOUS
<1>2. /\ B \in Seq(S) /\ Len(B) = 10 /\ B[1] = h1 /\ B[2] = h2 /\ B[3] = r1 /\ B[4] = r2
      /\ B[5] = h5 /\ B[6] = h6 /\ B[7] = h7 /\ B[8] = h8 /\ B[9] = h9 /\ B[10] = h10
  OBVIOUS
<1>3. ws = A \o B
  OBVIOUS
<1> HIDE DEF A, B, S
<1>4. /\ Len(ws) = 16
      /\ \A k \in 1..16 : ws[k] = IF k <= 6 THEN A[k] ELSE B[k - 6]
  BY <1>1, <1>2, <1>3, ConcatProperties
<1> QED  BY <1>1, <1>2, <1>4

(* The header's own words.                                                 *)
LEMMA HeaderWords ==
  ASSUME NEW h1, NEW h2, NEW r1, NEW r2, NEW h5, NEW h6, NEW h7, NEW h8, NEW h9, NEW h10,
         NEW ws, ws = <<h1, h2>> \o <<r1, r2>> \o <<h5, h6, h7, h8, h9, h10>>
  PROVE  Len(ws) = 10 /\ ws[1] = h1 /\ ws[2] = h2
OBVIOUS

(* The sum of pseudo header and header is that of the other words plus the *)
(* check field, and far from the limit of 32 bits.                         *)
LEMMA HeaderSum ==
  ASSUME NEW port \in Word, NEW r1 \in Word, NEW r2 \in Word
  PROVE  \E rest \in Nat :
           /\ 0 < rest /\ rest < 65536 * 65536
           /\ \A check \in Word :
                Sum(pseudo_header \o tcphdr(port, <<r1, r2>>, check)) = rest + check
<1>1. PICK s1 \in Word, s2 \in Word, d1 \in Word, d2 \in Word :
        src_addr = <<s1, s2>> /\ dst_addr = <<d1, d2>>
  BY ConstantsAssumption
<1>2. PICK p6 \in Word, h1 \in Word, h2 \in Word, h8 \in Word :
        p6 = htons(20) /\ h1 = htons(SOURCE_PORT) /\ h2 = htons(port) /\ h8 = htons(65535)
  <2>1. 20 \in Word /\ SOURCE_PORT \in Word /\ 65535 \in Word
    BY WordMember, SMT DEF SOURCE_PORT
  <2> QED  BY <2>1, HtonsTwice, SMT
<1>3. PICK p5 \in Int, h7 \in Int : p5 = 256 * 6 /\ h7 = 80 + 256 * 2 /\ p5 = 1536 /\ h7 = 592
  BY SMT
<1> DEFINE rest == s1 + s2 + d1 + d2 + p5 + p6 + h1 + h2 + r1 + r2 + h7 + h8
<1>4. ASSUME NEW check \in Word
      PROVE  Sum(pseudo_header \o tcphdr(port, <<r1, r2>>, check)) = rest + check
  <2> DEFINE ws == (<<s1, s2>> \o <<d1, d2>> \o <<p5, p6>>)
                     \o (<<h1, h2>> \o <<r1, r2>> \o <<0, 0, h7, h8, check, 0>>)
  <2>1. pseudo_header \o tcphdr(port, <<r1, r2>>, check) = ws
    BY <1>1, <1>2, <1>3 DEF pseudo_header, tcphdr
  <2>2. /\ Len(ws) = 16
        /\ ws[1] = s1 /\ ws[2] = s2 /\ ws[3] = d1 /\ ws[4] = d2 /\ ws[5] = p5 /\ ws[6] = p6
        /\ ws[7] = h1 /\ ws[8] = h2 /\ ws[9] = r1 /\ ws[10] = r2 /\ ws[11] = 0 /\ ws[12] = 0
        /\ ws[13] = h7 /\ ws[14] = h8 /\ ws[15] = check /\ ws[16] = 0
    BY SixteenWords
  <2> HIDE DEF ws
  <2>3. /\ s1 \in Nat /\ s2 \in Nat /\ d1 \in Nat /\ d2 \in Nat /\ p5 \in Nat /\ p6 \in Nat
        /\ h1 \in Nat /\ h2 \in Nat /\ r1 \in Nat /\ r2 \in Nat /\ h7 \in Nat /\ h8 \in Nat
        /\ check \in Nat
    BY <1>3, WordMember, SMT
  <2>4. \A k \in 1..16 : ws[k] \in Nat
    BY <2>2, <2>3, SMT
  <2>5. Sum(ws) = ws[1] + ws[2] + ws[3] + ws[4] + ws[5] + ws[6] + ws[7] + ws[8] + ws[9] + ws[10]
                    + ws[11] + ws[12] + ws[13] + ws[14] + ws[15] + ws[16]
    BY <2>2, <2>4, SumOfSixteen
  <2>6. Sum(ws) = s1 + s2 + d1 + d2 + p5 + p6 + h1 + h2 + r1 + r2 + 0 + 0 + h7 + h8 + check + 0
    BY <2>2, <2>5, SMT
  <2>7. Sum(ws) = rest + check
    BY <2>3, <2>6, SMT
  <2> QED  BY <2>1, <2>7
<1>5. rest \in Nat /\ 0 < rest /\ rest < 65536 * 65536
  BY <1>3, WordMember, SMT
<1> QED  BY <1>4, <1>5

(* What build_tcph makes is accepted by the receiver and carries its ports. *)
LEMMA BuiltHeader ==
  ASSUME NEW port \in Word, NEW r1 \in Word, NEW r2 \in Word,
         NEW h, h = build_tcph(port, <<r1, r2>>)
  PROVE  /\ Verifies(pseudo_header \o h)
         /\ ntohs(h[1]) = SOURCE_PORT /\ ntohs(h[2]) = port /\ h[1] \in Word /\ h[2] \in Word
<1>1. PICK rest \in Nat :
        /\ 0 < rest /\ rest < 65536 * 65536
        /\ \A check \in Word :
             Sum(pseudo_header \o tcphdr(port, <<r1, r2>>, check)) = rest + check
  BY HeaderSum
<1>2. PICK check : check = tcp_checksum(tcphdr(port, <<r1, r2>>, 0))
  OBVIOUS
<1>3. check = Fold(rest)
  <2>1. 0 \in Word
    BY WordMember, SMT
  <2>2. check = Fold(rest + 0)
    BY <1>1, <1>2, <2>1, SMT DEF tcp_checksum, checksum
  <2> QED  BY <2>2, SMT
<1>4. check \in Word /\ (rest + check) % 65535 = 0
  <2>1. check \in Nat /\ check < 65536 /\ (rest + check) % 65535 = 0
    BY <1>1, <1>3, ChecksumCancels, SMT
  <2> QED  BY <2>1, WordMember, SMT
<1>5. h = tcphdr(port, <<r1, r2>>, check)
  BY <1>2 DEF build_tcph
<1>6. Sum(pseudo_header \o h) = rest + check
  BY <1>1, <1>4, <1>5
<1>7. Verifies(pseudo_header \o h)
  <2>1. check \in Nat
    BY <1>4, WordMember, SMT
  <2> QED  BY <1>1, <1>4, <1>6, <2>1, SMT DEF Verifies
<1>8. h[1] = htons(SOURCE_PORT) /\ h[2] = htons(port)
  BY <1>5, HeaderWords DEF tcphdr
<1>9. SOURCE_PORT \in Word
  BY WordMember, SMT DEF SOURCE_PORT
<1> QED  BY <1>7, <1>8, <1>9, HtonsTwice DEF ntohs

-----------------------------------------------------------------------------
(* The scan.                                                               *)

(* The range is that of the arguments, checked.                            *)
RangeValid ==
  /\ start \in Int /\ end \in Int /\ i \in Int
  /\ pc \notin {"main", "exited"} => 1 <= start /\ end <= 65535
  /\ pc = "syn_scan" => start <= i

(* Nothing is sent before the scan, and nothing heard before the thread.   *)
QuietBefore ==
  /\ pc \in {"main", "local_ipget", "pthread_create", "exited"} =>
       listener = "none" /\ rx = {} /\ printed = {}
  /\ pc \in {"main", "local_ipget", "pthread_create", "usleep", "exited"} =>
       syns = {} /\ replies = {}

(* Every SYN under way is one build_tcph made for a port of the range.     *)
SynsBuilt ==
  \A h \in syns : \E port, r1, r2 \in Word :
    port \in start..end /\ h = build_tcph(port, <<r1, r2>>)

(* A SYN-ACK of the target comes from an open port.                        *)
SynAck(q) == q.full /\ q.from = "target" /\ {"SYN", "ACK"} \subseteq q.flags
AnswersTrue == \A q \in replies \cup rx : SynAck(q) => ntohs(q.source) \in Open

IInv == RangeValid /\ QuietBefore /\ SynsBuilt /\ AnswersTrue /\ OnlyOpenReported

(* With sleeps that are long enough the listener is there during the scan, *)
(* and nothing is under way any more when main returns.                    *)
ListenerReady ==
  /\ pc = "usleep" => listener \in {"socket", "read", "failed"}
  /\ pc \in {"syn_scan", "sleep"} => listener \in {"read", "failed"}
  /\ pc \in {"sleep", "finished"} => i > end
  /\ pc = "finished" => /\ listener \in {"ended", "failed"} /\ rx = {}
                        /\ syns = {} /\ replies = {}

(* An open port whose SYN was sent is printed or lost, or its SYN or its   *)
(* answer is under way.                                                    *)
Answer(q, p) == SynAck(q) /\ ntohs(q.dest) = SOURCE_PORT /\ ntohs(q.source) = p
Accounted(p) ==
  \/ p \in printed \cup lost
  \/ \E h \in syns : ntohs(h[2]) = p
  \/ \E q \in replies \cup rx : Answer(q, p)
SentAccounted ==
  pc \in {"syn_scan", "sleep", "finished"} /\ listener # "failed" =>
    \A p \in Open \cap start..end : p < i => Accounted(p)

PInv == ListenerReady /\ SentAccounted

-----------------------------------------------------------------------------
(* Ports are words.                                                        *)
LEMMA PortIsWord == Port \subseteq Word
<1>1. PICK m \in Int : m = 65535
  BY SMT
<1>2. Port = 1..m
  BY <1>1, SMT DEF Port
<1>3. \A x \in 1..m : x \in Int /\ 0 <= x /\ x <= m
  OBVIOUS
<1>4. \A x \in Port : x \in Int /\ 0 <= x /\ x <= m
  BY <1>2, <1>3, Zenon
<1>5. ASSUME NEW x \in Port PROVE x \in Word
  <2>1. x \in Int /\ 0 <= x /\ x <= 65535
    BY <1>1, <1>4, SMT
  <2> QED  BY <2>1, WordMember, SMT
<1> QED  BY <1>5

(* The invariant holds when main starts.                                   *)
LEMMA InitIInv == Init => IInv
BY DEF Init, IInv, RangeValid, QuietBefore, SynsBuilt, AnswersTrue, OnlyOpenReported

LEMMA RangeStep ==
  ASSUME IInv, Next PROVE RangeValid' /\ QuietBefore'
<1>1. RangeValid /\ QuietBefore /\ Args \subseteq Int
  BY ConstantsAssumption DEF IInv
<1>2. CASE main
  <2>1. PICK a \in Args, b \in Args :
          /\ start' = a /\ end' = b
          /\ pc' = IF Valid(a, b) THEN "local_ipget" ELSE "exited"
    BY <1>2 DEF main
  <2>2. UNCHANGED <<i, listener, syns, replies, rx, printed>> /\ pc = "main"
    BY <1>2 DEF main, netVars
  <2>3. a \in Int /\ b \in Int
    BY <1>1
  <2> QED  BY <1>1, <2>1, <2>2, <2>3, SMT DEF RangeValid, QuietBefore, Valid
<1>3. CASE local_ipget \/ pthread_create
  BY <1>1, <1>3, SMT DEF local_ipget, pthread_create, netVars, RangeValid, QuietBefore
<1>4. CASE usleep \/ syn_scan_ends \/ sleep
  BY <1>1, <1>4, SMT DEF usleep, syn_scan_ends, sleep, netVars, RangeValid, QuietBefore
<1>5. CASE syn_scan
  <2>1. UNCHANGED <<pc, start, end, listener, replies, rx, printed>> /\ i' = i + 1 /\ pc = "syn_scan"
    BY <1>5 DEF syn_scan
  <2> QED  BY <1>1, <2>1, SMT DEF RangeValid, QuietBefore
<1>6. CASE syn_scan_fails
  BY <1>1, <1>6, SMT DEF syn_scan_fails, RangeValid, QuietBefore
<1>7. CASE Listener
  <2>1. UNCHANGED <<pc, start, end, i, syns, replies>> /\ listener \in {"socket", "read"}
    BY <1>7 DEF Listener, listen_synacks, process, read_fails, mainVars, netVars
  <2> QED  BY <1>1, <2>1, SMT DEF RangeValid, QuietBefore
<1>8. CASE SynArrives \/ SynLost \/ ReplyArrives \/ ReplyLost
  <2>1. UNCHANGED <<pc, start, end, i, listener, printed>> /\ (syns # {} \/ replies # {})
    BY <1>8 DEF SynArrives, SynLost, ReplyArrives, ReplyLost, mainVars
  <2> QED  BY <1>1, <2>1, SMT DEF RangeValid, QuietBefore
<1>9. CASE Noise
  <2>1. UNCHANGED <<pc, start, end, i, listener, syns, replies, printed>> /\ listener = "read"
    BY <1>9 DEF Noise, mainVars, netVars
  <2> QED  BY <1>1, <2>1, SMT DEF RangeValid, QuietBefore
<1> QED
  BY <1>2, <1>3, <1>4, <1>5, <1>6, <1>7, <1>8, <1>9 DEF Next, Main, Network

LEMMA SynsStep ==
  ASSUME IInv, Next PROVE SynsBuilt'
<1>1. RangeValid /\ QuietBefore /\ SynsBuilt /\ Rands \subseteq Word
  BY ConstantsAssumption DEF IInv
<1>2. CASE main
  BY <1>1, <1>2 DEF main, netVars, QuietBefore, SynsBuilt
<1>3. CASE syn_scan
  <2>1. PICK r1 \in Rands, r2 \in Rands : syns' = syns \cup {build_tcph(i, <<r1, r2>>)}
    BY <1>3 DEF syn_scan
  <2>2. i \in Word /\ i \in start..end
    <3>1. i \in Int /\ start \in Int /\ end \in Int /\ 1 <= start /\ end <= 65535 /\ start <= i /\ i <= end
      BY <1>1, <1>3 DEF RangeValid, syn_scan
    <3> QED  BY <3>1, WordMember, SMT
  <2>3. UNCHANGED <<start, end>> /\ r1 \in Word /\ r2 \in Word
    BY <1>1, <1>3 DEF syn_scan
  <2> SUFFICES ASSUME NEW h \in syns'
               PROVE  \E port, q1, q2 \in Word :
                        port \in start..end /\ h = build_tcph(port, <<q1, q2>>)
    BY <2>3 DEF SynsBuilt
  <2>4. CASE h \in syns
    BY <1>1, <2>4 DEF SynsBuilt
  <2>5. CASE h = build_tcph(i, <<r1, r2>>)
    BY <2>2, <2>3, <2>5
  <2> QED  BY <2>1, <2>4, <2>5
<1>4. CASE syns' \subseteq syns /\ UNCHANGED <<start, end>>
  BY <1>1, <1>4, ZenonT(30) DEF SynsBuilt
<1>5. CASE SynArrives \/ SynLost
  <2>1. syns' \subseteq syns /\ UNCHANGED <<start, end>>
    BY <1>5 DEF SynArrives, SynLost, mainVars
  <2> QED  BY <1>4, <2>1
<1>6. CASE \/ local_ipget \/ pthread_create \/ usleep \/ syn_scan_fails \/ syn_scan_ends \/ sleep
           \/ Listener \/ ReplyArrives \/ ReplyLost \/ Noise
  <2>1. UNCHANGED <<syns, start, end>>
    BY <1>6 DEF local_ipget, pthread_create, usleep, syn_scan_fails, syn_scan_ends, sleep, Listener,
       listen_synacks, process, read_fails, ReplyArrives, ReplyLost, Noise, mainVars, netVars
  <2> QED  BY <1>4, <2>1
<1> QED
  BY <1>2, <1>3, <1>5, <1>6 DEF Next, Main, Network

(* What the target answers to a SYN of the scan.                           *)
LEMMA AnswerToSyn ==
  ASSUME SynsBuilt, NEW h \in syns
  PROVE  /\ Verifies(pseudo_header \o h) /\ ntohs(h[1]) = SOURCE_PORT /\ ntohs(h[2]) \in start..end
         /\ ntohs(h[2]) \in Word
<1>1. PICK port \in Word, r1 \in Word, r2 \in Word :
        port \in start..end /\ h = build_tcph(port, <<r1, r2>>)
  BY DEF SynsBuilt
<1> QED  BY <1>1, BuiltHeader

LEMMA AnswersStep ==
  ASSUME IInv, Next PROVE AnswersTrue'
<1>1. AnswersTrue /\ SynsBuilt
  BY DEF IInv
<1>2. CASE replies' \cup rx' \subseteq replies \cup rx
  BY <1>1, <1>2 DEF AnswersTrue
<1>3. CASE SynArrives
  <2>1. rx' = rx
    BY <1>3 DEF SynArrives
  <2>2. PICK h \in syns :
          replies' = replies \cup
            IF Verifies(pseudo_header \o h)
            THEN {[from |-> "target", full |-> TRUE, source |-> h[2], dest |-> h[1],
                   flags |-> IF ntohs(h[2]) \in Open THEN {"SYN", "ACK"} ELSE {"RST", "ACK"}]}
            ELSE {}
    BY <1>3 DEF SynArrives
  <2> DEFINE r == [from |-> "target", full |-> TRUE, source |-> h[2], dest |-> h[1],
                   flags |-> IF ntohs(h[2]) \in Open THEN {"SYN", "ACK"} ELSE {"RST", "ACK"}]
  <2>3. replies' \subseteq replies \cup {r}
    BY <2>2
  <2>4. SynAck(r) => ntohs(r.source) \in Open
    BY DEF SynAck
  <2> HIDE DEF r
  <2> QED  BY <1>1, <2>1, <2>3, <2>4 DEF AnswersTrue
<1>4. CASE Noise
  <2>1. PICK a \in Args, d \in {SOURCE_PORT, SOURCE_PORT - 1},
             f \in {{"SYN", "ACK"}, {"ACK"}, {"SYN"}}, from \in {"target", "other"},
             full \in BOOLEAN :
          /\ a \in Port
          /\ from = "target" /\ full /\ f = {"SYN", "ACK"} => a \in Open
          /\ rx' = rx \cup {[from |-> from, full |-> full, source |-> htons(a),
                             dest |-> htons(d), flags |-> f]}
    BY <1>4, Zenon DEF Noise
  <2> DEFINE r == [from |-> from, full |-> full, source |-> htons(a), dest |-> htons(d), flags |-> f]
  <2>2. a \in Word
    BY <2>1, PortIsWord, SMT
  <2>3. ntohs(htons(a)) = a
    BY <2>2, HtonsTwice DEF ntohs
  <2>4. ASSUME SynAck(r) PROVE ntohs(r.source) \in Open
    <3>1. full /\ from = "target" /\ {"SYN", "ACK"} \subseteq f
      BY <2>4 DEF SynAck
    <3>2. f = {"SYN", "ACK"}
      BY <3>1
    <3> QED  BY <2>1, <2>3, <3>1, <3>2, SMT
  <2>5. rx' = rx \cup {r} /\ replies' = replies
    BY <1>4, <2>1, SMT DEF Noise, netVars
  <2> HIDE DEF r
  <2> QED  BY <1>1, <2>4, <2>5 DEF AnswersTrue
<1>5. CASE Main \/ Listener \/ SynLost \/ ReplyArrives \/ ReplyLost
  <2>1. replies' \cup rx' \subseteq replies \cup rx
    BY <1>5 DEF Main, main, local_ipget, pthread_create, usleep, syn_scan, syn_scan_fails,
       syn_scan_ends, sleep, Listener, listen_synacks, process, read_fails, SynLost, ReplyArrives,
       ReplyLost, netVars
  <2> QED  BY <1>2, <2>1
<1> QED
  BY <1>3, <1>4, <1>5 DEF Next, Network

LEMMA PrintedStep ==
  ASSUME IInv, Next PROVE OnlyOpenReported'
<1>1. OnlyOpenReported /\ AnswersTrue /\ QuietBefore
  BY DEF IInv
<1>2. CASE main
  BY <1>1, <1>2 DEF main, QuietBefore, OnlyOpenReported
<1>3. CASE process
  <2>1. PICK p \in rx : printed' = printed \cup (IF Reports(p) THEN {ntohs(p.source)} ELSE {})
    BY <1>3 DEF process
  <2>2. Reports(p) => ntohs(p.source) \in Open \cap start..end
    BY <1>1 DEF Reports, AnswersTrue, SynAck
  <2>3. UNCHANGED <<start, end>>
    BY <1>3 DEF process, mainVars
  <2> QED  BY <1>1, <2>1, <2>2, <2>3 DEF OnlyOpenReported
<1>4. CASE \/ local_ipget \/ pthread_create \/ usleep \/ syn_scan \/ syn_scan_fails \/ syn_scan_ends
           \/ sleep \/ listen_synacks \/ read_fails \/ Network
  <2>1. UNCHANGED <<printed, start, end>>
    BY <1>4 DEF local_ipget, pthread_create, usleep, syn_scan, syn_scan_fails, syn_scan_ends, sleep,
       listen_synacks, read_fails, Network, SynArrives, SynLost, ReplyArrives, ReplyLost, Noise,
       mainVars
  <2> QED  BY <1>1, <2>1 DEF OnlyOpenReported
<1> QED
  BY <1>2, <1>3, <1>4 DEF Next, Main, Listener

(* The inductive invariant, for every instance.                            *)
THEOREM Invariance == Spec => []IInv
<1>1. IInv /\ [Next]_vars => IInv'
  <2> SUFFICES ASSUME IInv, [Next]_vars PROVE IInv'  OBVIOUS
  <2>1. CASE Next
    BY <2>1, RangeStep, SynsStep, AnswersStep, PrintedStep DEF IInv
  <2>2. CASE UNCHANGED vars
    <3>1. UNCHANGED <<pc, start, end, i, listener, syns, replies, rx, printed>>
      BY <2>2 DEF vars, mainVars, netVars
    <3>2. RangeValid' /\ QuietBefore'
      BY <3>1, SMT DEF IInv, RangeValid, QuietBefore
    <3>3. SynsBuilt' /\ AnswersTrue' /\ OnlyOpenReported'
      BY <3>1, SMT DEF IInv, SynsBuilt, AnswersTrue, OnlyOpenReported
    <3> QED  BY <3>2, <3>3 DEF IInv
  <2> QED  BY <2>1, <2>2
<1> QED  BY InitIInv, <1>1, PTL DEF Spec

(* listen_synacks prints only open ports of the range, whatever else       *)
(* arrives on the raw socket.                                              *)
THEOREM NoFalseReport == Spec => []OnlyOpenReported
<1>1. IInv => OnlyOpenReported
  BY DEF IInv
<1> QED  BY Invariance, <1>1, PTL

(* Every header under way passes the receiver's checksum test, whatever    *)
(* the addresses, the ports and the random sequence numbers.               *)
THEOREM HeadersValid == Spec => []SynsValid
<1>1. IInv => SynsValid
  BY AnswerToSyn DEF IInv, SynsValid
<1> QED  BY Invariance, <1>1, PTL

-----------------------------------------------------------------------------
(* The sleeps bound what is under way.                                     *)
LEMMA ReadyStep ==
  ASSUME Patient, IInv, ListenerReady, Next PROVE ListenerReady'
<1>1. RangeValid /\ QuietBefore
  BY DEF IInv
<1>2. CASE main \/ local_ipget \/ pthread_create
  <2>1. \/ pc' \in {"local_ipget", "pthread_create", "exited"}
        \/ pc' = "usleep" /\ listener' = "socket"
    BY <1>2 DEF main, local_ipget, pthread_create
  <2> QED  BY <2>1 DEF ListenerReady
<1>3. CASE usleep
  <2>1. pc = "usleep" /\ pc' = "syn_scan" /\ listener' = listener /\ listener # "socket"
    BY <1>3 DEF usleep
  <2> QED  BY <2>1 DEF ListenerReady
<1>4. CASE syn_scan \/ syn_scan_fails
  <2>1. UNCHANGED <<pc, listener>> /\ pc = "syn_scan"
    BY <1>4 DEF syn_scan, syn_scan_fails
  <2> QED  BY <2>1 DEF ListenerReady
<1>5. CASE syn_scan_ends
  <2>1. UNCHANGED <<listener, i, end>> /\ pc = "syn_scan" /\ pc' = "sleep" /\ i > end
    BY <1>5 DEF syn_scan_ends
  <2> QED  BY <2>1 DEF ListenerReady
<1>6. CASE sleep
  <2>1. /\ UNCHANGED <<i, end, syns, replies>> /\ pc = "sleep" /\ pc' = "finished" /\ rx' = {}
        /\ listener' \in {"failed", "ended"} /\ syns = {} /\ replies = {}
    BY <1>6 DEF sleep, netVars, Quiet
  <2> QED  BY <2>1 DEF ListenerReady
<1>7. CASE listen_synacks \/ process \/ read_fails
  <2>1. /\ UNCHANGED <<pc, i, end, syns, replies>> /\ listener \in {"socket", "read"}
        /\ listener' \in {"read", "failed"}
    BY <1>7 DEF listen_synacks, process, read_fails, mainVars, netVars
  <2> QED  BY <2>1 DEF ListenerReady
<1>8. CASE SynArrives \/ SynLost \/ ReplyArrives \/ ReplyLost
  <2>1. UNCHANGED <<pc, i, end, listener>> /\ (syns # {} \/ replies # {})
    BY <1>8 DEF SynArrives, SynLost, ReplyArrives, ReplyLost, mainVars
  <2> QED  BY <2>1 DEF ListenerReady
<1>9. CASE Noise
  <2>1. UNCHANGED <<pc, i, end, listener>> /\ listener = "read"
    BY <1>9 DEF Noise, mainVars
  <2> QED  BY <2>1 DEF ListenerReady
<1> QED
  BY <1>2, <1>3, <1>4, <1>5, <1>6, <1>7, <1>8, <1>9 DEF Next, Main, Listener, Network

(* No answer gets lost without being counted as lost.                      *)
LEMMA AccountedStep ==
  ASSUME Patient, IInv, PInv, Next PROVE SentAccounted'
<1> SUFFICES ASSUME pc' \in {"syn_scan", "sleep", "finished"}, listener' # "failed",
                    NEW p \in Open \cap start'..end', p < i'
             PROVE  Accounted(p)'
  BY DEF SentAccounted
<1>1. /\ RangeValid /\ SynsBuilt /\ ListenerReady /\ SentAccounted
      /\ start \in Int /\ end \in Int /\ i \in Int /\ Rands \subseteq Word
  BY ConstantsAssumption DEF IInv, PInv, RangeValid
<1>2. CASE main \/ local_ipget \/ pthread_create
  BY <1>2 DEF main, local_ipget, pthread_create
<1>3. CASE usleep
  <2>1. start' = start /\ end' = end /\ i' = start
    BY <1>3 DEF usleep
  <2> QED  BY <1>1, <2>1
<1>4. ASSUME UNCHANGED <<start, end, i>>, pc \in {"syn_scan", "sleep", "finished"},
             listener # "failed"
      PROVE  Accounted(p)
  BY <1>1, <1>4 DEF SentAccounted
<1>5. ASSUME Accounted(p), printed \cup lost \subseteq printed' \cup lost', syns \subseteq syns',
             replies \cup rx \subseteq replies' \cup rx'
      PROVE  Accounted(p)'
  BY <1>5 DEF Accounted
<1>6. CASE syn_scan
  <2>1. /\ UNCHANGED <<pc, start, end, listener, replies, rx, printed, lost>>
        /\ i' = i + 1 /\ pc = "syn_scan" /\ i <= end
    BY <1>6 DEF syn_scan
  <2>2. PICK r1 \in Rands, r2 \in Rands : syns' = syns \cup {build_tcph(i, <<r1, r2>>)}
    BY <1>6 DEF syn_scan
  <2>3. CASE p < i
    <3>1. Accounted(p)
      BY <1>1, <2>1, <2>3 DEF SentAccounted
    <3> QED  BY <1>5, <2>1, <2>2, <3>1
  <2>4. CASE p = i
    <3> DEFINE h == build_tcph(i, <<r1, r2>>)
    <3>1. i \in Word
      <4>1. 1 <= start /\ end <= 65535 /\ start <= i
        BY <1>1, <2>1 DEF RangeValid
      <4>2. i \in Int /\ 0 <= i /\ i <= 65535
        BY <1>1, <2>1, <4>1, SMT
      <4> QED  BY <4>2, WordMember, SMT
    <3>2. ntohs(h[2]) = i
      BY <1>1, <3>1, BuiltHeader
    <3>3. h \in syns'
      BY <2>2
    <3> QED  BY <2>4, <3>2, <3>3 DEF Accounted
  <2> QED
    <3>1. p \in Int
      BY <1>1, <2>1
    <3> QED  BY <1>1, <2>1, <2>3, <2>4, <3>1
<1>7. CASE syn_scan_fails
  <2>1. /\ UNCHANGED <<pc, start, end, listener, syns, replies, rx, printed>>
        /\ i' = i + 1 /\ pc = "syn_scan" /\ lost' = lost \cup {i}
    BY <1>7 DEF syn_scan_fails
  <2>2. CASE p < i
    <3>1. Accounted(p)
      BY <1>1, <2>1, <2>2 DEF SentAccounted
    <3> QED  BY <1>5, <2>1, <3>1
  <2>3. CASE p = i
    BY <2>1, <2>3 DEF Accounted
  <2> QED
    <3>1. p \in Int
      BY <1>1, <2>1
    <3> QED  BY <1>1, <2>1, <2>2, <2>3, <3>1
<1>8. CASE syn_scan_ends
  <2>1. UNCHANGED <<start, end, i, listener, syns, replies, rx, printed, lost>> /\ pc = "syn_scan"
    BY <1>8 DEF syn_scan_ends, netVars
  <2>2. Accounted(p)
    BY <1>4, <2>1
  <2> QED  BY <1>5, <2>1, <2>2
<1>9. CASE sleep
  <2>1. /\ UNCHANGED <<start, end, i, printed, lost>> /\ pc = "sleep" /\ listener # "failed"
        /\ Quiet
    BY <1>9 DEF sleep, netVars
  <2>2. syns = {} /\ replies = {} /\ rx = {}
    BY <1>1, <2>1 DEF Quiet, ListenerReady
  <2>3. Accounted(p)
    BY <1>4, <2>1
  <2>4. p \in printed' \cup lost'
    BY <2>1, <2>2, <2>3 DEF Accounted
  <2> QED  BY <2>4 DEF Accounted
<1>10. CASE listen_synacks \/ read_fails
  <2>1. listen_synacks /\ listener = "socket" /\ pc' = pc
    BY <1>10 DEF listen_synacks, read_fails, mainVars
  <2> QED  BY <1>1, <2>1 DEF ListenerReady
<1>11. CASE process
  <2>1. /\ UNCHANGED <<pc, start, end, i, listener, syns, replies, lost>> /\ listener = "read"
    BY <1>11 DEF process, mainVars, netVars
  <2>2. PICK q \in rx : /\ rx' = rx \ {q}
                        /\ printed' = printed \cup (IF Reports(q) THEN {ntohs(q.source)} ELSE {})
    BY <1>11 DEF process
  <2>3. Accounted(p)
    BY <1>4, <2>1
  <2>4. CASE Answer(q, p)
    <3>1. Reports(q) /\ ntohs(q.source) = p
      BY <2>1, <2>4 DEF Answer, SynAck, Reports
    <3> QED  BY <2>2, <3>1 DEF Accounted
  <2>5. CASE ~Answer(q, p)
    <3>1. printed \subseteq printed'
      BY <2>2
    <3> QED  BY <2>1, <2>2, <2>3, <2>5, <3>1 DEF Accounted
  <2> QED  BY <2>4, <2>5
<1>12. CASE SynArrives
  <2>1. /\ UNCHANGED <<pc, start, end, i, listener, lost, rx, printed>>
    BY <1>12 DEF SynArrives, mainVars
  <2>2. PICK h \in syns :
          /\ syns' \in {syns \ {h}} \cup {g \in {syns} : "repeat" \in Faults}
          /\ replies' = replies \cup
               IF Verifies(pseudo_header \o h)
               THEN {[from |-> "target", full |-> TRUE, source |-> h[2], dest |-> h[1],
                      flags |-> IF ntohs(h[2]) \in Open THEN {"SYN", "ACK"} ELSE {"RST", "ACK"}]}
               ELSE {}
    BY <1>12 DEF SynArrives
  <2>3. Accounted(p)
    BY <1>4, <2>1
  <2>4. replies \subseteq replies' /\ \A g \in syns : g # h => g \in syns'
    BY <2>2
  <2>5. CASE ntohs(h[2]) = p
    <3> DEFINE r == [from |-> "target", full |-> TRUE, source |-> h[2], dest |-> h[1],
                     flags |-> IF ntohs(h[2]) \in Open THEN {"SYN", "ACK"} ELSE {"RST", "ACK"}]
    <3>1. Verifies(pseudo_header \o h) /\ ntohs(h[1]) = SOURCE_PORT
      BY <1>1, AnswerToSyn
    <3>2. r \in replies'
      BY <2>2, <3>1
    <3>3. Answer(r, p)
      <4>1. r.flags = {"SYN", "ACK"}
        BY <2>5
      <4> QED  BY <2>5, <3>1, <4>1 DEF Answer, SynAck
    <3> HIDE DEF r
    <3> QED  BY <3>2, <3>3 DEF Accounted
  <2>6. CASE ntohs(h[2]) # p
    BY <2>1, <2>3, <2>4, <2>6 DEF Accounted
  <2> QED  BY <2>5, <2>6
<1>13. CASE SynLost
  <2>1. UNCHANGED <<pc, start, end, i, listener, replies, rx, printed>>
    BY <1>13 DEF SynLost, mainVars
  <2>2. PICK h \in syns : syns' = syns \ {h} /\ lost' = lost \cup {ntohs(h[2])}
    BY <1>13 DEF SynLost
  <2>3. Accounted(p)
    BY <1>4, <2>1
  <2> QED  BY <2>1, <2>2, <2>3 DEF Accounted
<1>14. CASE ReplyArrives
  <2>1. UNCHANGED <<pc, start, end, i, listener, syns, lost, printed>>
    BY <1>14 DEF ReplyArrives, mainVars
  <2>2. PICK q \in replies : replies' = replies \ {q} /\ rx' = IF listener = "read" THEN rx \cup {q} ELSE rx
    BY <1>14 DEF ReplyArrives
  <2>3. listener = "read"
    BY <1>1, <2>1, <2>2 DEF ListenerReady
  <2>4. Accounted(p)
    BY <1>4, <2>1
  <2> QED  BY <1>5, <2>1, <2>2, <2>3, <2>4
<1>15. CASE ReplyLost
  <2>1. UNCHANGED <<pc, start, end, i, listener, syns, rx, printed>>
    BY <1>15 DEF ReplyLost, mainVars
  <2>2. PICK q \in replies : replies' = replies \ {q} /\ lost' = lost \cup {ntohs(q.source)}
    BY <1>15 DEF ReplyLost
  <2>3. Accounted(p)
    BY <1>4, <2>1
  <2> QED  BY <2>1, <2>2, <2>3 DEF Accounted, Answer
<1>16. CASE Noise
  <2>1. UNCHANGED <<pc, start, end, i, listener, syns, replies, lost, printed>> /\ rx \subseteq rx'
    BY <1>16 DEF Noise, mainVars, netVars
  <2>2. Accounted(p)
    BY <1>4, <2>1
  <2> QED  BY <1>5, <2>1, <2>2
<1> QED
  BY <1>2, <1>3, <1>6, <1>7, <1>8, <1>9, <1>10, <1>11, <1>12, <1>13, <1>14, <1>15, <1>16
     DEF Next, Main, Listener, Network

(* When main prints "Finished", every open port of the range has been      *)
(* printed unless one of its packets was lost, if both sleeps are long     *)
(* enough: 0.1 s for the thread to open its socket, 2 s for the answers.   *)
THEOREM ScanFindsAll ==
  ASSUME Patient
  PROVE  Spec => []ScanComplete
<1>1. Init => PInv
  BY DEF Init, PInv, ListenerReady, SentAccounted
<1>2. IInv /\ IInv' /\ PInv /\ [Next]_vars => PInv'
  <2> SUFFICES ASSUME IInv, PInv, [Next]_vars PROVE PInv'  OBVIOUS
  <2>1. CASE Next
    BY <2>1, ReadyStep, AccountedStep DEF PInv
  <2>2. CASE UNCHANGED vars
    <3>1. UNCHANGED <<pc, start, end, i, listener, syns, replies, rx, printed, lost>>
      BY <2>2 DEF vars, mainVars, netVars
    <3> QED  BY <3>1 DEF PInv, ListenerReady, SentAccounted, Accounted
  <2> QED  BY <2>1, <2>2
<1>3. IInv /\ PInv => ScanComplete
  <2> SUFFICES ASSUME IInv, PInv, pc = "finished", listener # "failed",
                      NEW p \in Open \cap start..end
               PROVE  p \in printed \cup lost
    BY DEF ScanComplete
  <2>1. start \in Int /\ end \in Int /\ i \in Int /\ i > end /\ syns = {} /\ replies = {} /\ rx = {}
    BY DEF IInv, RangeValid, PInv, ListenerReady
  <2>2. p < i
    BY <2>1
  <2>3. Accounted(p)
    BY <2>2 DEF PInv, SentAccounted
  <2> QED  BY <2>1, <2>3 DEF Accounted
<1> QED  BY Invariance, <1>1, <1>2, <1>3, PTL DEF Spec
=============================================================================
