----------------------------- MODULE ToolsProofs -----------------------------
(***************************************************************************)
(* The sequential programs, each for every input and every value of its    *)
(* constants: udp-messenger, text-readability, hexdump, greyscale-filter,  *)
(* and http-server's reading of a path.                                    *)
(***************************************************************************)
EXTENDS Hexdump, Greyscale, Readability, UdpMessenger, HttpUrl, FiniteSetTheorems, SequenceTheorems,
        WellFoundedInduction, TLAPS

(* udp-messenger: the turns of the loop count what was sent.               *)
UdpInv ==
  /\ udpPc \in {"main", "message", "newline", "returned"} /\ turn \in Nat /\ sent \in Nat
  /\ udpPc = "main" => turn = 0 /\ sent = 0
  /\ udpPc = "message" => sent = turn
  /\ udpPc = "newline" => sent = turn + 1
  /\ AllSentOrTold

(* A silent end of udp-messenger means that every message was handed to    *)
(* the network, for every NUMBER and however the ICMP errors fall.         *)
THEOREM UdpSendsAll == UdpSpec => []AllSentOrTold
<1>1. UdpInit => UdpInv
  BY DEF UdpInit, UdpInv, AllSentOrTold
<1>2. ASSUME UdpInv, [UdpNext]_udpVars PROVE UdpInv'
  <2> USE DEF UdpInv, AllSentOrTold
  <2>1. CASE connectf
    BY <1>2, <2>1 DEF connectf
  <2>2. CASE sendf_message
    BY <1>2, <2>2 DEF sendf_message
  <2>3. CASE sendf_newline
    BY <1>2, <2>3 DEF sendf_newline
  <2>4. CASE sendf_returns
    BY <1>2, <2>4 DEF sendf_returns
  <2>5. CASE icmp
    BY <1>2, <2>5 DEF icmp
  <2>6. CASE UNCHANGED udpVars
    BY <1>2, <2>6 DEF udpVars
  <2> QED  BY <1>2, <2>1, <2>2, <2>3, <2>4, <2>5, <2>6 DEF UdpNext
<1>3. UdpInv => AllSentOrTold
  BY DEF UdpInv
<1> QED  BY <1>1, <1>2, <1>3, PTL DEF UdpSpec

-----------------------------------------------------------------------------
(* The smaller of two numbers.                                             *)
LEMMA MinOfTwo ==
  ASSUME NEW x \in Int, NEW y \in Int
  PROVE  Min({x, y}) = IF x <= y THEN x ELSE y
<1> DEFINE Least(m) == \A z \in {x, y} : m <= z
<1>1. \E m \in {x, y} : Least(m)
  OBVIOUS
<1>2. Min({x, y}) = CHOOSE m \in {x, y} : Least(m)
  BY DEF Min
<1> HIDE DEF Least
<1>3. Min({x, y}) \in {x, y} /\ Least(Min({x, y}))
  BY <1>1, <1>2
<1> QED  BY <1>3 DEF Least

(* text-readability: behind the first character the parser's state says    *)
(* what the last character was.                                            *)
ReadInv ==
  /\ k \in Nat /\ words \in Nat
  /\ k = 0 => words = 1
  /\ readPc = "fopen" => k = 0
  /\ readPc = "parser" => IF k = 0 THEN state = stack ELSE state = "OUT_WORD" <=> IsSpace(buffer[k])
  /\ WordsCounted

(* The places among the first m at which a word begins.                    *)
Begins(a) == ~IsSpace(buffer[a]) /\ (a = 1 \/ IsSpace(buffer[a - 1]))
Beginnings(m) == {a \in 1..m : Begins(a)}

(* The words of the first n characters, one character at a time.           *)
LEMMA OneMoreWord ==
  ASSUME NEW n \in Nat
  PROVE  /\ Cardinality(Beginnings(n)) \in Nat
         /\ (Cardinality(Beginnings(n)) = 0 <=> Beginnings(n) = {})
         /\ Cardinality(Beginnings(n + 1)) = Cardinality(Beginnings(n)) + IF Begins(n + 1) THEN 1 ELSE 0
<1>1. IsFiniteSet(Beginnings(n))
  <2>1. IsFiniteSet(1..n)
    BY FS_Interval
  <2>2. Beginnings(n) \in SUBSET (1..n)
    BY DEF Beginnings
  <2> QED  BY <2>1, <2>2, FS_Subset
<1>2. Cardinality(Beginnings(n)) \in Nat /\ (Cardinality(Beginnings(n)) = 0 <=> Beginnings(n) = {})
  BY <1>1, FS_CardinalityType, FS_EmptySet
<1>3. CASE Begins(n + 1)
  <2>1. Beginnings(n + 1) = Beginnings(n) \cup {n + 1} /\ n + 1 \notin Beginnings(n)
    BY <1>3 DEF Beginnings
  <2> QED  BY <1>1, <1>2, <1>3, <2>1, FS_AddElement
<1>4. CASE ~Begins(n + 1)
  <2>1. Beginnings(n + 1) = Beginnings(n)
    BY <1>4 DEF Beginnings
  <2> QED  BY <1>2, <1>4, <2>1
<1> QED  BY <1>3, <1>4

(* Before the first character there is no word.                            *)
LEMMA NoWordYet == (k = 0 => Words = 0) /\ (k' = 0 => Words' = 0)
<1>1. ASSUME k = 0 PROVE Words = 0
  BY <1>1, FS_EmptySet DEF Words
<1>2. ASSUME k' = 0 PROVE Words' = 0
  BY <1>2, FS_EmptySet DEF Words
<1> QED  BY <1>1, <1>2

(* One character of the text.                                              *)
LEMMA ParserCounts ==
  ASSUME ReadInv, parser PROVE ReadInv'
<1>1. k \in Nat /\ k' = k + 1 /\ words \in Nat /\ UNCHANGED <<readPc, buffer, stack>> /\ readPc = "parser"
  BY DEF ReadInv, parser
<1> DEFINE c == buffer[k + 1]
           extra == IF Words = 0 \/ IsSpace(buffer[1]) \/ stack = "OUT_WORD" THEN 1 ELSE 0
<1>2. CountWord(c)
  BY DEF parser
<1>3. /\ Words = Cardinality(Beginnings(k)) /\ Words' = Cardinality(Beginnings(k + 1))
  BY <1>1, Zenon DEF Words, Beginnings, Begins
<1>4. /\ Words \in Nat /\ (Words = 0 <=> Beginnings(k) = {})
      /\ Words' = Words + IF Begins(k + 1) THEN 1 ELSE 0
  BY <1>1, <1>3, OneMoreWord
<1>0. FloatMax \in Nat \ {0}
  BY ReadAssumption
<1>5. words = IF FloatMax <= Words + extra THEN FloatMax ELSE Words + extra
  <2>1. FloatMax \in Int /\ Words + extra \in Int
    BY <1>0, <1>4
  <2>2. words = Min({FloatMax, Words + extra})
    BY DEF ReadInv, WordsCounted
  <2> HIDE DEF extra
  <2> QED  BY <2>1, <2>2, MinOfTwo
<1>6. words' \in Nat /\ (state' = "OUT_WORD" <=> IsSpace(c))
  BY <1>1, <1>2 DEF CountWord, Incr
<1>7. WordsCounted'
  <2> DEFINE all == Words' + IF Words' = 0 \/ IsSpace(buffer[1]) \/ stack = "OUT_WORD" THEN 1 ELSE 0
  <2>1. SUFFICES words' = IF FloatMax <= all THEN FloatMax ELSE all
    <3>1. FloatMax \in Int /\ all \in Int
      BY <1>0, <1>4
    <3>2. WordsCounted' <=> words' = Min({FloatMax, all})
      BY <1>1 DEF WordsCounted
    <3> HIDE DEF all
    <3> QED  BY <2>1, <3>1, <3>2, MinOfTwo
  <2>2. CASE k = 0
    <3>1. Words = 0 /\ words = 1 /\ state = stack
      BY <1>1, <2>2, NoWordYet DEF ReadInv
    <3>2. (Begins(k + 1) <=> ~IsSpace(c)) /\ c = buffer[1]
      BY <2>2 DEF Begins
    <3>3. words' = IF ~IsSpace(c) /\ stack = "OUT_WORD" THEN Incr(1) ELSE 1
      BY <1>2, <3>1 DEF CountWord
    <3> QED  BY <1>0, <1>4, <3>1, <3>2, <3>3 DEF Incr
  <2>3. CASE k # 0
    <3>1. state = "OUT_WORD" <=> IsSpace(buffer[k])
      BY <1>1, <2>3 DEF ReadInv
    <3>2. Begins(k + 1) <=> ~IsSpace(c) /\ IsSpace(buffer[k])
      BY <1>1, <2>3 DEF Begins
    <3>3. Words = 0 => IsSpace(buffer[1])
      BY <1>1, <1>4, <2>3 DEF Beginnings, Begins
    <3>4. words' = IF Begins(k + 1) THEN Incr(words) ELSE words
      BY <1>1, <1>2, <3>1, <3>2 DEF CountWord
    <3>5. all = Words + extra + IF Begins(k + 1) THEN 1 ELSE 0
      BY <1>4, <3>3
    <3>6. Words + extra \in Nat
      BY <1>4
    <3> HIDE DEF all, extra
    <3> QED  BY <1>0, <1>5, <3>4, <3>5, <3>6 DEF Incr
  <2> QED  BY <2>2, <2>3
<1> QED  BY <1>1, <1>6, <1>7 DEF ReadInv

(* The word count of text-readability is right up to the one that the      *)
(* parser's start adds and up to the number a float can count to, for      *)
(* every text and every value the uninitialised state may have.            *)
THEOREM WordsAlwaysCounted == ReadSpec => []WordsCounted
<1>0. Min({FloatMax, 0 + 1}) = 1
  <2>1. FloatMax \in Nat \ {0} /\ FloatMax \in Int /\ 0 + 1 \in Int
    BY ReadAssumption
  <2>2. Min({FloatMax, 0 + 1}) = IF FloatMax <= 0 + 1 THEN FloatMax ELSE 0 + 1
    BY <2>1, MinOfTwo, Zenon
  <2> QED  BY <2>1, <2>2
<1>1. ASSUME ReadInit PROVE ReadInv
  BY <1>0, <1>1, NoWordYet DEF ReadInit, ReadInv, WordsCounted
<1>2. ASSUME ReadInv, [ReadNext]_readVars PROVE ReadInv'
  <2>1. CASE read_text
    <3>1. k' = 0 /\ words' = 1 /\ readPc' # "fopen"
      BY <1>2, <2>1 DEF read_text, ReadInv
    <3>2. WordsCounted'
      BY <1>0, <3>1, NoWordYet DEF WordsCounted
    <3>3. readPc' = "parser" => state' = stack'
      BY <2>1 DEF read_text
    <3> QED  BY <3>1, <3>2, <3>3 DEF ReadInv
  <2>2. CASE parser
    BY <1>2, <2>2, ParserCounts
  <2>3. CASE read_ends \/ UNCHANGED readVars
    <3>1. UNCHANGED <<k, words, buffer, stack, state>> /\ readPc' \in {readPc, "returned"}
      BY <2>3 DEF read_ends, readVars
    <3>2. Words' = Words
      BY <3>1 DEF Words
    <3> QED  BY <1>2, <3>1, <3>2 DEF ReadInv, WordsCounted
  <2> QED  BY <1>2, <2>1, <2>2, <2>3 DEF ReadNext
<1>3. ReadInv => WordsCounted
  BY DEF ReadInv
<1> QED  BY <1>1, <1>2, <1>3, PTL DEF ReadSpec
-----------------------------------------------------------------------------
(* hexdump: the column at which the ASCII part of the line at o begins.    *)
Column(o) ==
  IF opts.show_ascii THEN print_offset(o) + opts.width * opts.cell + Separators(0..opts.width - 1) ELSE -1

Row == [offset : Int, bytes : Seq(Nat), ascii_at : Int]

HexType ==
  /\ hexPc \in {"parse_arguments", "hexdump", "returned", "exited"}
  /\ opts \in [width : Int, grouping : Int, base : {10, 16}, cell : {2, 8}, show_ascii : BOOLEAN, show_offset : BOOLEAN,
               output : {"stdout", "another file", "the input file"}]
  /\ hexPc # "exited" => opts.width > 0
  /\ in \in Seq(Nat) /\ size \in Nat /\ offset \in Nat /\ lines \in Seq(Row)

(* Line a as it has to be printed.                                         *)
RightLine(a) ==
  LET at == opts.width * (a - 1)
  IN  /\ at < size /\ lines[a].bytes = [b \in 1..Min({opts.width, size - at}) |-> at + b]
      /\ opts.show_offset => lines[a].offset = at

(* What has been read is on the lines, what is in the file comes next; the *)
(* offset is a multiple of the width until the last line.                  *)
DumpedSoFar ==
  /\ in = [b \in 1..size - offset |-> offset + b] /\ offset <= size
  /\ offset = opts.width * Len(lines) \/ (offset = size /\ size <= opts.width * Len(lines))
  /\ \A a \in DOMAIN lines : RightLine(a)

HexProgress ==
  /\ hexPc = "parse_arguments" => lines = <<>> /\ offset = 0
  /\ hexPc \in {"hexdump", "returned"} =>
       IF opts.output = "the input file" THEN in = <<>> /\ lines = <<>> ELSE DumpedSoFar
  /\ hexPc = "returned" => in = <<>>

HexInv == HexType /\ HexProgress /\ \A a \in DOMAIN lines : lines[a].ascii_at = Column(lines[a].offset)

(* A separator stands before the same positions whether bytes or padding   *)
(* fill them, so the data column is as wide for n bytes as for a full line. *)
LEMMA DataWidth ==
  ASSUME opts.width \in Nat, opts.cell \in {2, 8}, NEW n \in 0..opts.width
  PROVE  print_data(n) = opts.width * opts.cell + Separators(0..opts.width - 1)
<1> DEFINE w == opts.width
           Sep(S) == {a \in S : a > 0 /\ a % opts.grouping = 0}
           A == Sep(0..n - 1)
           B == Sep({n + a : a \in 0..w - n - 1})
           C == Sep(0..w - 1)
<1>1. C = A \cup B /\ A \cap B = {}
  <2>1. {n + a : a \in 0..w - n - 1} = n..w - 1
    <3>1. ASSUME NEW x \in n..w - 1 PROVE \E a \in 0..w - n - 1 : x = n + a
      <4>1. x - n \in 0..w - n - 1 /\ x = n + (x - n)
        OBVIOUS
      <4> QED  BY <4>1
    <3> QED  BY <3>1
  <2> QED  BY <2>1
<1>2. IsFiniteSet(A) /\ IsFiniteSet(B) /\ IsFiniteSet(C)
  <2>1. IsFiniteSet(0..w - 1)
    BY FS_Interval, SMTT(30)
  <2>2. A \in SUBSET (0..w - 1) /\ B \in SUBSET (0..w - 1) /\ C \in SUBSET (0..w - 1)
    OBVIOUS
  <2> HIDE DEF A, B, C
  <2> QED  BY <2>1, <2>2, FS_Subset
<1>3. /\ Separators(0..n - 1) = 2 * Cardinality(A)
      /\ Separators({n + a : a \in 0..w - n - 1}) = 2 * Cardinality(B)
      /\ Separators(0..w - 1) = 2 * Cardinality(C)
  BY DEF Separators
<1>4. Cardinality(A) \in Nat /\ Cardinality(B) \in Nat /\ Cardinality(C) = Cardinality(A) + Cardinality(B)
  <2> HIDE DEF A, B, C
  <2>1. Cardinality(A \cap B) = 0
    BY <1>1, FS_EmptySet
  <2>2. Cardinality(A) \in Nat /\ Cardinality(B) \in Nat
    BY <1>2, FS_CardinalityType
  <2>3. Cardinality(A \cup B) = Cardinality(A) + Cardinality(B) - Cardinality(A \cap B)
    BY <1>2, FS_Union, Zenon
  <2>4. Cardinality(C) = Cardinality(A) + Cardinality(B) - 0
    BY <1>1, <2>1, <2>3, Zenon
  <2> QED  BY <2>2, <2>4
<1>5. n * opts.cell + (w - n) * opts.cell = w * opts.cell
  OBVIOUS
<1>6. n * opts.cell \in Int /\ (w - n) * opts.cell \in Int /\ w * opts.cell \in Int
  OBVIOUS
<1>7. print_data(n) = n * opts.cell + Separators(0..n - 1) + (w - n) * opts.cell
                        + Separators({n + a : a \in 0..w - n - 1})
  BY DEF print_data
<1> HIDE DEF A, B, C, w
<1> DEFINE p == n * opts.cell
           q == (w - n) * opts.cell
           r == w * opts.cell
<1>8. p \in Int /\ q \in Int /\ r \in Int /\ p + q = r
  BY <1>5, <1>6
<1>9. print_data(n) = p + 2 * Cardinality(A) + q + 2 * Cardinality(B)
  BY <1>3, <1>7
<1> HIDE DEF p, q, r
<1>10. print_data(n) = r + 2 * Cardinality(C)
  BY <1>4, <1>8, <1>9
<1> QED  BY <1>3, <1>10 DEF r, w

(* The options, and the two fopen() calls.                                 *)
LEMMA OptionsKeep ==
  ASSUME HexInv, parse_arguments \/ open_files PROVE HexInv'
<1>1. lines = <<>> /\ lines' = lines /\ offset' = offset /\ offset = 0 /\ hexPc = "parse_arguments"
  BY DEF HexInv, HexProgress, parse_arguments, open_files
<1>2. \A a \in DOMAIN lines' : FALSE
  BY <1>1
<1>3. lines' \in Seq(Row) /\ Len(lines') = 0
  BY <1>1 DEF HexInv, HexType
<1>4. CASE parse_arguments
  <2>1. hexPc' \in {"parse_arguments", "exited"} /\ UNCHANGED <<in, size, offset>>
    BY <1>1, <1>4 DEF parse_arguments, Set
  <2>2. /\ opts' \in [width : Int, grouping : Int, base : {10, 16}, cell : {2, 8}, show_ascii : BOOLEAN, show_offset : BOOLEAN,
                      output : {"stdout", "another file", "the input file"}]
        /\ hexPc' # "exited" => opts'.width > 0
    <3> DEFINE O == [width : Int, grouping : Int, base : {10, 16}, cell : {2, 8}, show_ascii : BOOLEAN, show_offset : BOOLEAN,
                     output : {"stdout", "another file", "the input file"}]
    <3>1. opts \in O /\ opts.width > 0
      BY <1>1 DEF HexInv, HexType
    <3>2. ASSUME NEW w \in WidthArgs, Set("width", w, w \in 1..255)
          PROVE  opts' \in O /\ (hexPc' # "exited" => opts'.width > 0)
      <4>1. opts' = [opts EXCEPT !["width"] = w] /\ (hexPc' # "exited" => w \in 1..255)
        BY <3>2, Zenon DEF Set
      <4>2. w \in Int /\ (w \in 1..255 => w > 0)
        BY HexAssumption, SMT
      <4>3. opts' \in O /\ opts'.width = w
        BY <3>1, <4>1, <4>2
      <4> QED  BY <4>1, <4>2, <4>3, Zenon
    <3>3. ASSUME NEW g \in GroupArgs, Set("grouping", g, g \in {1, 2, 4, 8})
          PROVE  opts' \in O /\ opts'.width > 0
      BY <3>1, <3>3, HexAssumption DEF Set
    <3>4. ASSUME Set("show_ascii", FALSE, TRUE) \/ Set("show_offset", FALSE, TRUE)
          PROVE  opts' \in O /\ opts'.width > 0
      BY <3>1, <3>4 DEF Set
    <3>5. ASSUME Set("cell", 8, TRUE) \/ Set("base", 10, TRUE)
          PROVE  opts' \in O /\ opts'.width > 0
      BY <3>1, <3>5 DEF Set
    <3>6. ASSUME NEW to \in {"another file", "the input file"}, Set("output", to, TRUE)
          PROVE  opts' \in O /\ opts'.width > 0
      BY <3>1, <3>6 DEF Set
    <3>7. ASSUME UNCHANGED opts
          PROVE  opts' \in O /\ opts'.width > 0
      BY <3>1, <3>7
    <3> HIDE DEF O
    <3>8. opts' \in O /\ (hexPc' # "exited" => opts'.width > 0)
      BY <1>4, <3>2, <3>3, <3>4, <3>5, <3>6, <3>7, Zenon DEF parse_arguments
    <3> QED  BY <3>8 DEF O
  <2>3. HexType'
    BY <1>3, <2>1, <2>2 DEF HexInv, HexType
  <2>4. HexProgress'
    BY <1>1, <2>1 DEF HexProgress
  <2> QED  BY <1>2, <2>3, <2>4 DEF HexInv
<1>5. CASE open_files
  <2>1. CASE hexPc' = "exited" /\ UNCHANGED <<opts, in, size>>
    BY <1>1, <1>2, <2>1 DEF HexInv, HexType, HexProgress
  <2>2. CASE /\ hexPc' = "hexdump" /\ size' \in 0..MaxBytes /\ opts' = opts
             /\ in' = IF opts.output = "the input file" THEN <<>> ELSE [a \in 1..size' |-> a]
    <3>1. size' \in Nat
      <4>1. MaxBytes \in Nat
        BY HexAssumption
      <4>2. size' \in 0..MaxBytes
        BY <2>2
      <4> QED  BY <4>1, <4>2
    <3>2. in' \in Seq(Nat)
      <4>1. \A n \in Nat : [a \in 1..n |-> a] \in Seq(Nat)
        OBVIOUS
      <4>2. <<>> \in Seq(Nat)
        OBVIOUS
      <4> QED  BY <2>2, <3>1, <4>1, <4>2, Zenon
    <3>3. HexType'
      BY <1>1, <1>3, <2>2, <3>1, <3>2 DEF HexInv, HexType
    <3>4. ASSUME opts.output # "the input file"
          PROVE  in' = [b \in 1..size' - offset' |-> offset' + b]
      <4>1. in' = [a \in 1..size' |-> a] /\ offset' = 0
        BY <1>1, <2>2, <3>4
      <4> QED  BY <3>1, <4>1
    <3>5. opts'.width * Len(lines') = 0 /\ offset' = 0 /\ offset' <= size'
      <4>1. opts'.width \in Int
        BY <3>3 DEF HexType
      <4> QED  BY <1>1, <1>3, <3>1, <4>1
    <3>6. HexProgress'
      <4>1. hexPc' = "hexdump" /\ opts' = opts
        BY <2>2
      <4>2. opts.output = "the input file" => in' = <<>> /\ lines' = <<>>
        BY <1>1, <2>2
      <4>3. \A a \in DOMAIN lines' : RightLine(a)'
        BY <1>2
      <4>4. opts.output # "the input file" => DumpedSoFar'
        BY <3>4, <3>5, <4>3, Zenon DEF DumpedSoFar
      <4> QED  BY <4>1, <4>2, <4>4 DEF HexProgress
    <3> QED  BY <1>2, <3>3, <3>6 DEF HexInv
  <2> QED  BY <1>5, <2>1, <2>2 DEF open_files
<1> QED  BY <1>4, <1>5

(* What is left of a sequence behind its first m elements.                 *)
LEMMA RestOfSeq ==
  ASSUME NEW s \in Seq(Nat), NEW m \in 0..Len(s)
  PROVE  /\ SubSeq(s, m + 1, Len(s)) \in Seq(Nat) /\ Len(SubSeq(s, m + 1, Len(s))) = Len(s) - m
         /\ \A b \in 1..Len(s) - m : SubSeq(s, m + 1, Len(s))[b] = s[m + b]
<1>1. Len(s) \in Nat /\ s \in [1..Len(s) -> Nat]
  BY LenProperties
<1>2. SubSeq(s, m + 1, Len(s)) = [b \in 1..Len(s) - m |-> s[m + b]]
  BY <1>1
<1>3. [b \in 1..Len(s) - m |-> s[m + b]] \in Seq(Nat)
  BY <1>1
<1>4. Len([b \in 1..Len(s) - m |-> s[m + b]]) = Len(s) - m
  BY <1>1
<1> QED  BY <1>2, <1>3, <1>4, Zenon

(* The digits of an offset are a number.                                   *)
LEMMA DigitsType == \A o : Digits(o) \in Int
<1> SUFFICES ASSUME NEW o PROVE Digits(o) \in Int
  OBVIOUS
<1> DEFINE S == {d \in 1..SizeDigits - 1 : opts.base ^ d <= o}
<1>1. IsFiniteSet(1..SizeDigits - 1)
  BY HexAssumption, FS_Interval
<1>2. S \in SUBSET (1..SizeDigits - 1)
  OBVIOUS
<1>3. Digits(o) = 1 + Cardinality(S)
  BY DEF Digits
<1> HIDE DEF S
<1>4. Cardinality(S) \in Nat
  BY <1>1, <1>2, FS_Subset, FS_CardinalityType
<1> QED  BY <1>3, <1>4

(* One line of output.                                                     *)
LEMMA LineKeeps ==
  ASSUME HexInv, hexdump PROVE HexInv'
<1> DEFINE w == opts.width
           l == Len(in)
           n == Min({Len(in), opts.width})
           new == Line(SubSeq(in, 1, n))
<1>1. /\ w \in Nat \ {0} /\ opts.cell \in {2, 8} /\ in \in Seq(Nat) /\ l \in Nat \ {0}
      /\ size \in Nat /\ offset \in Nat /\ lines \in Seq(Row) /\ hexPc = "hexdump"
  <2>1. HexType /\ hexPc = "hexdump" /\ in # <<>>
    BY DEF HexInv, hexdump
  <2>2. w \in Int /\ w > 0 /\ opts.cell \in {2, 8}
    BY <2>1 DEF HexType
  <2>3. in \in Seq(Nat) /\ size \in Nat /\ offset \in Nat /\ lines \in Seq(Row)
    BY <2>1 DEF HexType
  <2>4. l \in Nat \ {0}
    BY <2>1, <2>3, EmptySeq
  <2> QED  BY <2>1, <2>2, <2>3, <2>4
<1>2. n = (IF l <= w THEN l ELSE w) /\ n \in 1..w /\ n \in 1..l
  <2>1. l \in Int /\ w \in Int
    BY <1>1
  <2>2. n = IF l <= w THEN l ELSE w
    BY <2>1, MinOfTwo, Zenon
  <2> HIDE DEF n, l, w
  <2> QED  BY <1>1, <2>2
<1>3. UNCHANGED <<hexPc, opts, size>>
  BY DEF hexdump
<1>4. lines' = Append(lines, new) /\ in' = SubSeq(in, n + 1, l) /\ offset' = offset + n
  BY DEF hexdump
<1> HIDE DEF n, w
<1>5. /\ SubSeq(in, 1, n) \in Seq(Nat) /\ Len(SubSeq(in, 1, n)) = n
      /\ \A b \in 1..n : SubSeq(in, 1, n)[b] = in[b]
  BY <1>1, <1>2
<1>6. /\ in' \in Seq(Nat) /\ Len(in') = l - n
      /\ \A b \in 1..l - n : in'[b] = in[n + b]
  <2>1. n \in 0..l
    BY <1>1, <1>2
  <2> QED  BY <1>1, <1>4, <2>1, RestOfSeq, Zenon
<1>7. new.ascii_at = Column(new.offset) /\ Column(new.offset) \in Int
  <2>1. print_data(n) = w * opts.cell + Separators(0..w - 1)
    <3>1. opts.width \in Nat /\ n \in 0..opts.width
      BY <1>1, <1>2 DEF w
    <3> QED  BY <1>1, <3>1, DataWidth DEF w
  <2>2. Separators(0..w - 1) \in Int
    <3> DEFINE S == {a \in 0..w - 1 : a > 0 /\ a % opts.grouping = 0}
    <3>0. w - 1 \in Int
      BY <1>1
    <3>1. IsFiniteSet(0..w - 1) /\ S \in SUBSET (0..w - 1)
      <4>1. \A b \in Int : IsFiniteSet(0..b)
        BY FS_Interval
      <4> QED  BY <3>0, <4>1, Zenon
    <3>2. Separators(0..w - 1) = 2 * Cardinality(S)
      BY DEF Separators
    <3> HIDE DEF S
    <3>3. Cardinality(S) \in Nat
      BY <3>1, FS_Subset, FS_CardinalityType
    <3> QED  BY <3>2, <3>3
  <2>3. print_offset(offset) \in Int /\ w * opts.cell \in Int
    <3>1. Digits(offset) \in Int /\ OffsetDigits \in Int
      BY DigitsType, HexAssumption
    <3> QED  BY <1>1, <3>1 DEF print_offset
  <2>4. new.ascii_at = IF opts.show_ascii THEN print_offset(offset) + print_data(n) ELSE -1
    BY <1>5 DEF Line
  <2>7. print_offset(new.offset) = print_offset(offset)
    BY DEF Line, print_offset
  <2> DEFINE p == w * opts.cell
             q == Separators(0..w - 1)
  <2>5. Column(new.offset) = IF opts.show_ascii THEN print_offset(offset) + p + q ELSE -1
    BY <2>7 DEF Column, w
  <2>6. p \in Int /\ q \in Int /\ print_data(n) = p + q
    BY <2>1, <2>2, <2>3
  <2> HIDE DEF p, q
  <2> QED  BY <2>3, <2>4, <2>5, <2>6
<1>8. new \in Row
  <2>1. new.offset \in Int
    BY <1>1 DEF Line
  <2> QED  BY <1>5, <1>7, <2>1 DEF Line, Row
<1>9. new.bytes = SubSeq(in, 1, n) /\ (opts.show_offset => new.offset = offset)
  BY DEF Line
<1> HIDE DEF new
<1>10. /\ lines' \in Seq(Row) /\ Len(lines') = Len(lines) + 1 /\ DOMAIN lines' = 1..Len(lines) + 1
       /\ DOMAIN lines = 1..Len(lines) /\ Len(lines) \in Nat
       /\ lines'[Len(lines) + 1] = new
       /\ \A a \in 1..Len(lines) : lines'[a] = lines[a]
  BY <1>1, <1>4, <1>8
<1>11. HexType'
  <2>1. offset' \in Nat /\ size' \in Nat /\ in' \in Seq(Nat) /\ lines' \in Seq(Row)
    <3>1. offset' \in Nat
      BY <1>1, <1>2, <1>4
    <3> QED  BY <1>1, <1>3, <1>6, <1>10, <3>1
  <2> QED  BY <1>3, <2>1, Zenon DEF HexInv, HexType
<1>12. (\A a \in DOMAIN lines : lines[a].ascii_at = Column(lines[a].offset))'
  <2>1. ASSUME NEW a \in DOMAIN lines' PROVE lines'[a].ascii_at = Column(lines'[a].offset)
    BY <1>7, <1>10 DEF HexInv
  <2> QED  BY <1>3, <2>1 DEF Column, print_offset, Fits, Digits, Separators
<1>13. opts.output # "the input file" /\ DumpedSoFar
  <2>1. in # <<>> /\ hexPc \in {"hexdump", "returned"}
    BY DEF hexdump
  <2> QED  BY <2>1, Zenon DEF HexInv, HexProgress
<1>14. DumpedSoFar'
  <2> DEFINE at == w * Len(lines)
  <2>1. in = [b \in 1..size - offset |-> offset + b] /\ offset <= size
    BY <1>13 DEF DumpedSoFar
  <2>2. l = size - offset /\ offset < size
    BY <1>1, <2>1
  <2>3. offset = at
    <3>1. offset = at \/ offset = size
      BY <1>13, Zenon DEF DumpedSoFar, w
    <3> QED  BY <1>1, <2>2, <3>1
  <2>4. in' = [b \in 1..size' - offset' |-> offset' + b]
    <3>1. size' - offset' = l - n /\ offset' = offset + n
      BY <1>1, <1>2, <1>3, <1>4, <2>2
    <3>2. ASSUME NEW b \in 1..l - n PROVE in'[b] = offset' + b
      <4>1. n + b \in 1..size - offset
        BY <1>1, <1>2, <2>2
      <4>2. in'[b] = offset + (n + b)
        BY <1>6, <2>1, <4>1
      <4> QED  BY <1>1, <1>2, <3>1, <4>1, <4>2
    <3>3. in' = [b \in 1..l - n |-> in'[b]]
      BY <1>6
    <3> QED  BY <3>1, <3>2, <3>3
  <2>5. offset' <= size'
    BY <1>1, <1>2, <1>3, <1>4, <2>2
  <2>6. w * Len(lines') = at + w /\ at \in Int
    BY <1>1, <1>10
  <2>7. offset' = w * Len(lines') \/ (offset' = size' /\ size' <= w * Len(lines'))
    <3> HIDE DEF at
    <3>1. n = l \/ n = w
      BY <1>2
    <3>2. CASE n = w
      BY <1>4, <2>3, <2>6, <3>2
    <3>3. CASE n = l
      <4>1. offset' = size'
        BY <1>1, <1>3, <1>4, <2>2, <3>3
      <4>2. offset' <= at + w
        BY <1>1, <1>2, <1>4, <2>3, <2>6
      <4> QED  BY <2>6, <4>1, <4>2
    <3> QED  BY <3>1, <3>2, <3>3
  <2>8. \A a \in 1..Len(lines) : RightLine(a)'
    BY <1>3, <1>10, <1>13, ZenonT(30) DEF DumpedSoFar, RightLine
  <2>9. ASSUME NEW c, c = Len(lines) + 1 PROVE RightLine(c)'
    <3>1. w * (c - 1) = offset
      BY <1>10, <2>3, <2>9
    <3>2. Min({w, size - offset}) = n
      BY <1>1, <1>2, <2>2, MinOfTwo, SMTT(30)
    <3>3. SubSeq(in, 1, n) = [b \in 1..n |-> offset + b]
      <4>1. ASSUME NEW b \in 1..n PROVE SubSeq(in, 1, n)[b] = offset + b
        BY <1>1, <1>2, <1>5, <2>1, <2>2
      <4>2. SubSeq(in, 1, n) = [b \in 1..n |-> SubSeq(in, 1, n)[b]]
        BY <1>5
      <4> QED  BY <4>1, <4>2
    <3> HIDE DEF w
    <3>4. /\ offset < size /\ lines'[c].bytes = [b \in 1..Min({w, size - offset}) |-> offset + b]
          /\ opts.show_offset => lines'[c].offset = offset
      BY <1>9, <1>10, <2>2, <2>9, <3>2, <3>3
    <3>5. opts'.width = w /\ size' = size /\ opts' = opts
      BY <1>3 DEF w
    <3> QED  BY <3>1, <3>4, <3>5, Zenon DEF RightLine
  <2>10. \A a \in DOMAIN lines' : RightLine(a)'
    <3>1. \A a \in DOMAIN lines' : a \in 1..Len(lines) \/ a = Len(lines) + 1
      BY <1>10
    <3> QED  BY <2>8, <2>9, <3>1, Zenon
  <2>11. w = opts'.width
    BY <1>3 DEF w
  <2> QED  BY <2>4, <2>5, <2>7, <2>10, <2>11 DEF DumpedSoFar
<1>15. HexProgress'
  BY <1>1, <1>3, <1>13, <1>14 DEF HexProgress
<1> QED  BY <1>11, <1>12, <1>15 DEF HexInv

(* The invariant of hexdump, by the steps above.                           *)
THEOREM HexInvariance == HexSpec => []HexInv
<1>1. ASSUME HexInit PROVE HexInv
  <2>1. \A a \in DOMAIN lines : FALSE
    BY <1>1 DEF HexInit
  <2>2. HexType
    BY <1>1 DEF HexInit, HexType
  <2>3. HexProgress
    BY <1>1 DEF HexInit, HexProgress
  <2> QED  BY <2>1, <2>2, <2>3 DEF HexInv
<1>2. ASSUME HexInv, [HexNext]_hexVars PROVE HexInv'
  <2>1. CASE hexdump_ends
    <3>1. hexPc = "hexdump" /\ hexPc' = "returned" /\ in = <<>> /\ UNCHANGED <<opts, in, size, offset, lines>>
      BY <2>1 DEF hexdump_ends
    <3>2. (\A o : Column(o)' = Column(o)) /\ DumpedSoFar' = DumpedSoFar
      BY <3>1 DEF Column, print_offset, Fits, Digits, Separators, DumpedSoFar, RightLine
    <3> QED  BY <1>2, <3>1, <3>2 DEF HexInv, HexType, HexProgress
  <2>2. CASE UNCHANGED hexVars
    <3>1. (\A o : Column(o)' = Column(o)) /\ DumpedSoFar' = DumpedSoFar
      BY <2>2 DEF hexVars, Column, print_offset, Fits, Digits, Separators, DumpedSoFar, RightLine
    <3> QED  BY <1>2, <2>2, <3>1 DEF hexVars, HexInv, HexType, HexProgress
  <2> QED  BY <1>2, <2>1, <2>2, OptionsKeep, LineKeeps DEF HexNext
<1> QED  BY <1>1, <1>2, PTL DEF HexSpec

(* The ASCII columns stand below one another for every width, grouping and *)
(* format, and for every length of the file, as far as the offsets fit     *)
(* into their field.                                                       *)
THEOREM AlwaysAligned == HexSpec => []HexAligned
<1>1. HexInv => HexAligned
  <2> SUFFICES ASSUME HexInv, NEW a \in DOMAIN lines, NEW b \in DOMAIN lines,
                      Fits(lines[a].offset), Fits(lines[b].offset)
               PROVE  lines[a].ascii_at = lines[b].ascii_at
    BY DEF HexAligned
  <2>1. print_offset(lines[a].offset) = print_offset(lines[b].offset)
    BY DEF print_offset
  <2> QED  BY <2>1 DEF HexInv, Column
<1> QED  BY HexInvariance, <1>1, PTL

(* hexdump prints every byte of a file once, in order and at its offset,   *)
(* however long the file and whatever the options.                         *)
THEOREM DumpIsComplete == HexSpec => []HexComplete
<1>1. ASSUME HexInv PROVE HexComplete
  <2>1. SUFFICES ASSUME hexPc = "returned", opts.output # "the input file"
                 PROVE  /\ size <= opts.width * Len(lines)
                        /\ \A a \in DOMAIN lines : RightLine(a)
    BY Zenon DEF HexComplete, RightLine
  <2>2. DumpedSoFar /\ in = <<>> /\ size \in Nat /\ offset \in Nat
    BY <1>1, <2>1 DEF HexInv, HexType, HexProgress
  <2>3. in = [b \in 1..size - offset |-> offset + b] /\ offset <= size
    BY <2>2 DEF DumpedSoFar
  <2>4. offset = size
    BY <2>2, <2>3
  <2> QED  BY <2>2, <2>4 DEF DumpedSoFar
<1> QED  BY HexInvariance, <1>1, PTL

-----------------------------------------------------------------------------
(* greyscale-filter: row r of the input file.                              *)
InputRow(r) == [a \in 1..3 * info.width |-> Byte(info.bfOffBits + r * Stride(info.width) + a - 1)]

Sized == info.width \in Nat \ {0} /\ info.height \in Nat /\ info.bfOffBits \in Nat

(* While the rows are read the position is where the next one begins.      *)
RowsRead ==
  /\ fileSize = info.bfOffBits + info.height * Stride(info.width)
  /\ pos = info.bfOffBits + Len(pixels) * Stride(info.width)
  /\ pixels \in Seq([1..3 * info.width -> Int]) /\ Len(pixels) <= info.height
  /\ \A r \in 1..Len(pixels) : pixels[r] = InputRow(r - 1)
  /\ written = <<>>

(* While they are written, those gone from memory are in the new file.     *)
Done == info.height - Len(pixels)
RowsWritten ==
  /\ pixels \in Seq([1..3 * info.width -> Int]) /\ Len(pixels) <= info.height
  /\ \A r \in 1..Len(pixels) : pixels[r] = Filtered(InputRow(Done + r - 1))
  /\ written \in Seq(Int) /\ Len(written) = Done * Stride(info.width)
  /\ \A r \in 0..Done - 1, a \in 1..3 * info.width :
       written[r * Stride(info.width) + a] = Filtered(InputRow(r))[a]

GreyInv ==
  /\ greyPc = "start" => pixels = <<>> /\ written = <<>>
  /\ greyPc \in {"read", "write", "returned"} /\ info.whole =>
       Sized /\ IF greyPc = "read" THEN RowsRead ELSE RowsWritten
  /\ greyPc = "returned" => pixels = <<>>

(* A row of pixels and its padding fill a stride.                          *)
LEMMA RowsFillStrides ==
  ASSUME NEW w \in Nat
  PROVE  /\ Stride(w) \in Nat /\ Padding(w) \in 0..3
         /\ 3 * w + Padding(w) = Stride(w) /\ 3 * w <= Stride(w)
BY DEF Stride, Padding

(* Where rows begin, as multiples of the stride.                           *)
LEMMA Multiples ==
  ASSUME NEW s \in Nat, NEW m \in Nat, NEW n \in Nat
  PROVE  /\ m * s \in Nat /\ (m + 1) * s = m * s + s
         /\ n < m => n * s + s <= m * s
<1>1. m * s \in Nat /\ (m + 1) * s = m * s + s
  OBVIOUS
<1>2. ASSUME n < m PROVE n * s + s <= m * s
  <2> DEFINE d == m - n - 1
  <2>1. d \in Nat /\ m = n + 1 + d
    BY <1>2
  <2> HIDE DEF d
  <2>2. m * s = n * s + s + d * s
    BY <2>1
  <2>3. d * s \in Nat /\ n * s \in Nat
    BY <2>1
  <2> QED  BY <2>2, <2>3
<1> QED  BY <1>1, <1>2

(* A byte of the file is not the mark of unwritten memory.                 *)
LEMMA Bytes == \A p \in Nat : Byte(p) \in Nat /\ Byte(p) # Heap
<1>1. ASSUME NEW x \in Nat PROVE x % 256 \in Nat
  OBVIOUS
<1>2. ASSUME NEW p \in Nat PROVE p * p * 37 + p + 11 \in Nat
  <2>1. p * p \in Nat
    OBVIOUS
  <2> QED  BY <2>1
<1>3. ASSUME NEW p \in Nat PROVE Byte(p) \in Nat
  BY <1>1, <1>2, Zenon DEF Byte
<1> QED  BY <1>3 DEF Heap

(* The filter puts the average of a pixel in each of its three bytes.      *)
LEMMA FilteredPixel ==
  ASSUME Sized, NEW r \in Nat, NEW j \in 0..info.width - 1, NEW c \in 1..3
  PROVE  LET at == info.bfOffBits + r * Stride(info.width) + 3 * j
         IN  Filtered(InputRow(r))[3 * j + c] = (Byte(at) + Byte(at + 1) + Byte(at + 2)) \div 3
<1> DEFINE w == info.width
           s == info.bfOffBits + r * Stride(w)
           at == s + 3 * j
           row == InputRow(r)
<1>1. w \in Nat /\ s \in Nat /\ at \in Nat
  <2>1. w \in Nat /\ info.bfOffBits \in Nat
    BY DEF Sized
  <2>2. Stride(w) \in Nat
    BY <2>1, RowsFillStrides
  <2>3. r * Stride(w) \in Nat
    BY <2>2, Multiples
  <2> QED  BY <2>1, <2>2, <2>3
<1>2. row = [a \in 1..3 * w |-> Byte(s + a - 1)]
  BY DEF InputRow
<1> HIDE DEF w, s, row
<1>3. 3 * ((3 * j + c - 1) \div 3) = 3 * j /\ 3 * j + c \in 1..3 * w
  BY <1>1 DEF w
<1>4. \A d \in 1..3 : row[3 * j + d] = Byte(s + 3 * j + d - 1)
  <2>1. \A d \in 1..3 : 3 * j + d \in 1..3 * w /\ s + (3 * j + d) - 1 = s + 3 * j + d - 1
    BY <1>1 DEF w
  <2> QED  BY <1>2, <2>1
<1>5. row[3 * j + 1] = Byte(at) /\ row[3 * j + 2] = Byte(at + 1) /\ row[3 * j + 3] = Byte(at + 2)
  <2>1. s + 3 * j + 1 - 1 = at /\ s + 3 * j + 2 - 1 = at + 1 /\ s + 3 * j + 3 - 1 = at + 2
    BY <1>1
  <2> QED  BY <1>4, <2>1
<1>6. DOMAIN row = 1..3 * w
  BY <1>2
<1> HIDE DEF at
<1>7. Filtered(row)[3 * j + c] = avg([d \in 1..3 |-> row[3 * j + d]])
  BY <1>3, <1>6 DEF Filtered
<1>8. Byte(at) # Heap /\ Byte(at + 1) # Heap /\ Byte(at + 2) # Heap
  BY <1>1, Bytes
<1>9. avg([d \in 1..3 |-> row[3 * j + d]]) = (row[3 * j + 1] + row[3 * j + 2] + row[3 * j + 3]) \div 3
  BY <1>5, <1>8 DEF avg
<1> QED  BY <1>5, <1>7, <1>9 DEF at, s, w, row

(* A filtered row is a row of numbers.                                     *)
LEMMA RowTypes ==
  ASSUME Sized, NEW r \in Nat
  PROVE  InputRow(r) \in [1..3 * info.width -> Int] /\ Filtered(InputRow(r)) \in [1..3 * info.width -> Int]
<1> DEFINE w == info.width
           s == info.bfOffBits + r * Stride(w)
<1>1. w \in Nat /\ s \in Nat
  <2>1. w \in Nat /\ info.bfOffBits \in Nat
    BY DEF Sized
  <2>2. Stride(w) \in Nat
    BY <2>1, RowsFillStrides
  <2>3. r * Stride(w) \in Nat
    BY <2>2, Multiples
  <2> QED  BY <2>1, <2>2, <2>3
<1>2. InputRow(r) = [a \in 1..3 * w |-> Byte(s + a - 1)]
  BY DEF InputRow
<1> HIDE DEF w, s
<1>3. \A a \in 1..3 * w : s + a - 1 \in Nat
  BY <1>1
<1>4. InputRow(r) \in [1..3 * w -> Int]
  BY <1>2, <1>3, Bytes
<1>5. ASSUME NEW a \in 1..3 * w
      PROVE  Filtered(InputRow(r))[a] \in Int
  <2> DEFINE j == (a - 1) \div 3
             c == a - 3 * j
  <2>1. j \in 0..w - 1 /\ c \in 1..3 /\ a = 3 * j + c
    BY <1>1
  <2> HIDE DEF j, c
  <2>2. PICK q \in Nat : Filtered(InputRow(r))[3 * j + c] = (Byte(q) + Byte(q + 1) + Byte(q + 2)) \div 3
    <3>1. s + 3 * j \in Nat
      BY <1>1, <2>1
    <3>2. Filtered(InputRow(r))[3 * j + c] = (Byte(s + 3 * j) + Byte(s + 3 * j + 1) + Byte(s + 3 * j + 2)) \div 3
      BY <2>1, FilteredPixel DEF w, s
    <3> QED  BY <3>1, <3>2
  <2>3. Byte(q) \in Int /\ Byte(q + 1) \in Int /\ Byte(q + 2) \in Int
    BY Bytes
  <2>4. (Byte(q) + Byte(q + 1) + Byte(q + 2)) \div 3 \in Int
    BY <2>3
  <2> QED  BY <2>1, <2>2, <2>4
<1>6. Filtered(InputRow(r)) = [a \in 1..3 * w |-> Filtered(InputRow(r))[a]]
  BY <1>4 DEF Filtered
<1> QED  BY <1>4, <1>5, <1>6 DEF w

(* The sizes of a picture whose rows are all in the file.                  *)
LEMMA Sizes ==
  ASSUME Sized
  PROVE  /\ Stride(info.width) \in Nat /\ info.width \in Nat /\ info.height \in Nat
         /\ 3 * info.width <= Stride(info.width)
         /\ 3 * info.width + Padding(info.width) = Stride(info.width) /\ Padding(info.width) \in 0..3
BY RowsFillStrides DEF Sized

(* The headers: when no row is missing the file ends with the last one.    *)
LEMMA HeadersKeep ==
  ASSUME GreyInv, read_headers PROVE GreyInv'
<1>1. pixels' = <<>> /\ written' = <<>>
  BY DEF GreyInv, read_headers
<1>2. PICK w \in Widths, h \in Heights, off \in OffBits, missing \in {0, 1} :
        /\ info' = [width |-> w, height |-> h, bfOffBits |-> off, whole |-> missing = 0]
        /\ fileSize' = off + Stride(w) * Max({h, 0}) - missing
        /\ pos' = off
        /\ greyPc' \in {"exited"} \cup (IF h >= 0 THEN {"read"} ELSE {})
  BY DEF read_headers
<1>3. greyPc' \in {"exited", "read"} /\ (greyPc' = "read" => h >= 0)
  BY <1>2
<1>4. w \in Nat \ {0} /\ h \in Int /\ off \in Nat
  BY GreyAssumption
<1>5. info'.width = w /\ info'.height = h /\ info'.bfOffBits = off /\ (info'.whole => missing = 0)
  BY <1>2
<1>6. ASSUME greyPc' = "read", info'.whole PROVE Sized' /\ RowsRead'
  <2>1. h \in Nat /\ missing = 0
    BY <1>3, <1>4, <1>5, <1>6
  <2>2. Stride(w) \in Nat
    BY <1>4, RowsFillStrides
  <2>3. Max({h, 0}) = h
    <3> DEFINE Most(m) == \A z \in {h, 0} : m >= z
    <3>1. Max({h, 0}) = CHOOSE m \in {h, 0} : Most(m)
      BY DEF Max
    <3>2. \E m \in {h, 0} : Most(m)
      BY <2>1
    <3> HIDE DEF Most
    <3>3. Max({h, 0}) \in {h, 0} /\ Most(Max({h, 0}))
      BY <3>1, <3>2
    <3> QED  BY <2>1, <3>3 DEF Most
  <2>4. fileSize' = off + h * Stride(w)
    <3>1. fileSize' = off + Stride(w) * h - 0
      BY <1>2, <2>1, <2>3
    <3>2. Stride(w) * h = h * Stride(w) /\ h * Stride(w) \in Nat
      BY <2>1, <2>2
    <3> QED  BY <1>4, <3>1, <3>2
  <2>5. pos' = off + 0 * Stride(w)
    BY <1>2, <1>4, <2>2
  <2>6. /\ pixels' \in Seq([1..3 * w -> Int]) /\ Len(pixels') = 0
        /\ \A r \in 1..Len(pixels') : FALSE
    BY <1>1
  <2>7. Sized'
    BY <1>4, <1>5, <2>1 DEF Sized
  <2>8. RowsRead'
    BY <1>1, <1>5, <2>1, <2>4, <2>5, <2>6 DEF RowsRead
  <2> QED  BY <2>7, <2>8
<1> QED  BY <1>1, <1>3, <1>6 DEF GreyInv

(* One row of the input: all of its bytes are in the file.                 *)
LEMMA ReadRowKeeps ==
  ASSUME GreyInv, read_row PROVE GreyInv'
<1>1. greyPc = "read" /\ UNCHANGED <<greyPc, info, fileSize, written>> /\ Len(pixels) < info.height
  BY DEF read_row
<1>2. SUFFICES ASSUME info.whole PROVE Sized' /\ RowsRead'
  BY <1>1 DEF GreyInv
<1>3. Sized /\ RowsRead
  BY <1>1, <1>2 DEF GreyInv
<1> DEFINE w == info.width
           s == Stride(info.width)
           off == info.bfOffBits
           l == Len(pixels)
           new == [a \in 1..3 * w |-> IF pos + a - 1 < fileSize THEN Byte(pos + a - 1) ELSE Heap]
<1>4. pixels' = Append(pixels, new) /\ pos' = pos + 3 * w + Padding(w)
  BY DEF read_row
<1>5. /\ w \in Nat /\ s \in Nat /\ off \in Nat /\ 3 * w <= s /\ 3 * w + Padding(w) = s /\ Padding(w) \in Nat
      /\ info.height \in Nat
  BY <1>3, Sizes DEF Sized
<1>6. pixels \in Seq([1..3 * w -> Int]) /\ l \in Nat
  BY <1>3 DEF RowsRead
<1>7. pos = off + l * s /\ fileSize = off + info.height * s
  BY <1>3 DEF RowsRead
<1>8. l * s \in Nat /\ (l + 1) * s = l * s + s /\ l * s + s <= info.height * s /\ info.height * s \in Nat
  BY <1>1, <1>5, <1>6, Multiples
<1> DEFINE ls == l * s
           hs == info.height * s
<1>9. pos = off + ls /\ fileSize = off + hs /\ ls \in Nat /\ hs \in Nat /\ ls + s <= hs
  BY <1>7, <1>8
<1>10. InputRow(l) = [a \in 1..3 * w |-> Byte(off + ls + a - 1)]
  BY DEF InputRow
<1> HIDE DEF w, s, off, l, ls, hs
<1>11. \A a \in 1..3 * w : pos + a - 1 < fileSize /\ pos + a - 1 = off + ls + a - 1
  BY <1>5, <1>9
<1>12. new = InputRow(l)
  BY <1>10, <1>11
<1>13. new \in [1..3 * w -> Int]
  BY <1>3, <1>6, <1>12, RowTypes DEF w
<1> HIDE DEF new
<1>14. /\ pixels' \in Seq([1..3 * w -> Int]) /\ Len(pixels') = l + 1
       /\ pixels'[l + 1] = new /\ \A r \in 1..l : pixels'[r] = pixels[r]
  BY <1>4, <1>6, <1>13 DEF l
<1>15. pos' = off + (l + 1) * s
  <2>1. pos' = off + (ls + s)
    <3>1. pos' = (off + ls) + 3 * w + Padding(w)
      BY <1>4, <1>9, Zenon
    <3>2. \A x, y \in Int : 3 * w + y = s => x + 3 * w + y = x + s
      BY <1>5
    <3>3. off + ls \in Int /\ (off + ls) + s = off + (ls + s) /\ Padding(w) \in Int
      BY <1>5, <1>9
    <3> QED  BY <1>5, <3>1, <3>2, <3>3, Zenon
  <2> QED  BY <1>8, <2>1 DEF ls
<1>16. \A r : InputRow(r)' = InputRow(r)
  BY <1>1 DEF InputRow
<1>17. \A r \in 1..l + 1 : pixels'[r] = InputRow(r - 1)
  <2>1. \A r \in 1..l : pixels[r] = InputRow(r - 1)
    BY <1>3 DEF RowsRead, l
  <2>2. (l + 1) - 1 = l
    BY <1>6
  <2>3. \A r \in 1..l + 1 : r \in 1..l \/ r = l + 1
    BY <1>6
  <2> QED  BY <1>12, <1>14, <2>1, <2>2, <2>3
<1>18. Sized'
  BY <1>1, <1>3 DEF Sized
<1>19. l + 1 <= info.height
  BY <1>1, <1>5, <1>6 DEF l
<1>20. RowsRead'
  <2>1. info' = info /\ fileSize' = fileSize /\ written' = written
    BY <1>1
  <2>2. fileSize = info.bfOffBits + info.height * Stride(info.width) /\ written = <<>>
    BY <1>3 DEF RowsRead
  <2>3. pos' = info'.bfOffBits + Len(pixels') * Stride(info'.width)
    BY <1>14, <1>15, <2>1 DEF off, s
  <2>4. pixels' \in Seq([1..3 * info'.width -> Int]) /\ Len(pixels') <= info'.height
    BY <1>14, <1>19, <2>1 DEF w
  <2>5. \A r \in 1..Len(pixels') : pixels'[r] = InputRow(r - 1)'
    BY <1>14, <1>16, <1>17
  <2> QED  BY <2>1, <2>2, <2>3, <2>4, <2>5 DEF RowsRead
<1> QED  BY <1>18, <1>20

(* A row of the input stays what it is while the headers do.               *)
LEMMA RowLater ==
  ASSUME info' = info, NEW r
  PROVE  InputRow(Done + r - 1)' = InputRow(Done' + r - 1) /\ InputRow(r)' = InputRow(r)
BY DEF InputRow

(* The filter: nothing is written yet.                                     *)
LEMMA FilterKeeps ==
  ASSUME GreyInv, filter PROVE GreyInv'
<1>1. /\ greyPc = "read" /\ greyPc' \in {"write", "undefined"} /\ UNCHANGED <<info, pos, written>>
      /\ Len(pixels) = info.height
  BY DEF filter
<1>2. SUFFICES ASSUME info.whole PROVE Sized' /\ RowsWritten'
  BY <1>1 DEF GreyInv
<1>3. Sized /\ RowsRead
  BY <1>1, <1>2 DEF GreyInv
<1> DEFINE w == info.width
           l == Len(pixels)
<1>4. pixels \in Seq([1..3 * w -> Int]) /\ l \in Nat /\ DOMAIN pixels = 1..l
  BY <1>3 DEF RowsRead
<1>5. pixels' = [r \in 1..l |-> Filtered(pixels[r])]
  BY <1>4 DEF filter
<1>6. \A r \in 1..l : pixels[r] = InputRow(r - 1) /\ r - 1 \in Nat
  BY <1>3, <1>4 DEF RowsRead
<1>7. \A r \in 1..l : pixels'[r] = Filtered(InputRow(r - 1)) /\ pixels'[r] \in [1..3 * w -> Int]
  BY <1>3, <1>5, <1>6, RowTypes
<1>8. pixels' \in Seq([1..3 * w -> Int]) /\ Len(pixels') = l
  BY <1>4, <1>5, <1>7
<1>9. Sized'
  BY <1>1, <1>3 DEF Sized
<1>10. Done' = 0
  BY <1>1, <1>4, <1>8 DEF Done
<1>12. \A r \in 1..l : 0 + r - 1 = r - 1
  BY <1>4
<1>13. written' = <<>> /\ info' = info
  BY <1>1, <1>3 DEF RowsRead
<1>14. Stride(w) \in Nat
  BY <1>3, Sizes
<1>15. written' \in Seq(Int) /\ Len(written') = 0 * Stride(w)
  BY <1>13, <1>14
<1> HIDE DEF l
<1>16. RowsWritten'
  <2>1. pixels' \in Seq([1..3 * info'.width -> Int]) /\ Len(pixels') <= info'.height
    BY <1>1, <1>4, <1>8, <1>13 DEF l
  <2>2. \A r \in 1..Len(pixels') : pixels'[r] = Filtered(InputRow(Done' + r - 1))
    BY <1>7, <1>8, <1>10, <1>12
  <2>3. written' \in Seq(Int) /\ Len(written') = Done' * Stride(info'.width)
    BY <1>10, <1>13, <1>15
  <2>4. \A r \in 0..Done' - 1 : FALSE
    BY <1>10
  <2>5. \A r \in 1..Len(pixels') : pixels'[r] = Filtered(InputRow(Done + r - 1))'
    BY <1>13, <2>2, RowLater
  <2> QED  BY <2>1, <2>3, <2>4, <2>5 DEF RowsWritten
<1> QED  BY <1>9, <1>16

(* One row of the output: it takes up a stride behind the rows before it.  *)
LEMMA WriteRowKeeps ==
  ASSUME GreyInv, write_row PROVE GreyInv'
<1>1. greyPc = "write" /\ UNCHANGED <<greyPc, info, fileSize, pos>> /\ pixels # <<>>
  BY DEF write_row
<1>2. SUFFICES ASSUME info.whole PROVE Sized' /\ RowsWritten'
  BY <1>1 DEF GreyInv
<1>3. Sized /\ RowsWritten
  BY <1>1, <1>2 DEF GreyInv
<1> DEFINE w == info.width
           s == Stride(info.width)
           h == info.height
           l == Len(pixels)
           d == Done
           row == Head(pixels)
           pad == [p \in 1..Padding(info.width) |-> 0]
<1>4. pixels' = Tail(pixels) /\ written' = written \o row \o pad
  BY DEF write_row
<1>5. /\ w \in Nat /\ s \in Nat /\ h \in Nat /\ 3 * w <= s /\ 3 * w + Padding(w) = s /\ Padding(w) \in Nat
  BY <1>3, Sizes
<1>6. pixels \in Seq([1..3 * w -> Int]) /\ written \in Seq(Int) /\ Len(written) = d * s
  BY <1>3 DEF RowsWritten
<1>7. l \in Nat \ {0} /\ l <= h
  BY <1>1, <1>3, <1>6, EmptySeq DEF RowsWritten
<1>8. /\ pixels' \in Seq([1..3 * w -> Int]) /\ Len(pixels') = l - 1
      /\ \A r \in 1..l - 1 : pixels'[r] = pixels[r + 1]
  BY <1>1, <1>4, <1>6, <1>7, HeadTailProperties
<1>9. d = h - l /\ d \in Nat /\ Done' = d + 1
  BY <1>1, <1>5, <1>7, <1>8, SMTT(30) DEF Done
<1>10. \A r \in 1..l : pixels[r] = Filtered(InputRow(d + r - 1))
  BY <1>3 DEF RowsWritten
<1>11. row = Filtered(InputRow(d)) /\ row \in [1..3 * w -> Int]
  <2>1. row = pixels[1] /\ 1 \in 1..l
    BY <1>1, <1>6, <1>7
  <2>2. d + 1 - 1 = d
    BY <1>9
  <2>3. row = Filtered(InputRow(d))
    BY <1>10, <2>1, <2>2
  <2> QED  BY <1>3, <1>9, <2>3, RowTypes
<1>12. pad \in Seq(Int) /\ Len(pad) = Padding(w)
  BY <1>5
<1>13. row \in Seq(Int) /\ Len(row) = 3 * w
  <2>1. \A m \in Nat : \A x \in [1..m -> Int] : x \in Seq(Int) /\ Len(x) = m
    OBVIOUS
  <2>2. 3 * w \in Nat
    BY <1>5
  <2> QED  BY <1>11, <2>1, <2>2, Zenon
<1> HIDE DEF w, s, h, l, d, row, pad
<1> DEFINE old == Len(written)
<1>14. /\ written' \in Seq(Int) /\ Len(written') = old + 3 * w + Padding(w)
       /\ \A b \in 1..old : written'[b] = written[b]
       /\ \A b \in 1..3 * w : written'[old + b] = row[b]
  <2>1. written \o row \in Seq(Int) /\ Len(written \o row) = old + 3 * w
    BY <1>6, <1>13, ConcatProperties
  <2>2. /\ \A b \in 1..old : (written \o row)[b] = written[b]
        /\ \A b \in 1..3 * w : (written \o row)[old + b] = row[b]
    <3>1. \A x, y \in Seq(Int) :
            /\ \A b \in 1..Len(x) : (x \o y)[b] = x[b]
            /\ \A b \in 1..Len(y) : (x \o y)[Len(x) + b] = y[b]
      OBVIOUS
    <3> QED  BY <1>6, <1>13, <3>1, ZenonT(30)
  <2> DEFINE wr == written \o row
  <2>3. wr \in Seq(Int) /\ Len(wr) = old + 3 * w /\ written' = wr \o pad /\ old \in Nat
    BY <1>4, <1>6, <2>1
  <2>4. /\ \A b \in 1..old : wr[b] = written[b]
        /\ \A b \in 1..3 * w : wr[old + b] = row[b]
    BY <2>2
  <2> HIDE DEF wr
  <2>5. written' \in Seq(Int) /\ Len(written') = (old + 3 * w) + Padding(w)
    BY <1>12, <2>3, ConcatProperties
  <2>6. \A b \in 1..old + 3 * w : written'[b] = wr[b]
    BY <1>12, <2>3, ConcatProperties
  <2>7. /\ \A b \in 1..old : b \in 1..old + 3 * w
        /\ \A b \in 1..3 * w : old + b \in 1..old + 3 * w
    BY <1>5, <2>3
  <2> HIDE DEF old
  <2> QED  BY <2>4, <2>5, <2>6, <2>7
<1>15. d * s \in Nat /\ (d + 1) * s = d * s + s
  BY <1>5, <1>9, Multiples
<1>16. Len(written') = (d + 1) * s
  <2> DEFINE ds == d * s
  <2>1. ds \in Nat /\ (d + 1) * s = ds + s /\ Len(written') = ds + 3 * w + Padding(w)
    BY <1>6, <1>14, <1>15
  <2> HIDE DEF ds
  <2> QED  BY <1>5, <2>1
<1>17. ASSUME NEW r \in 0..d, NEW a \in 1..3 * w
       PROVE  written'[r * s + a] = Filtered(InputRow(r))[a]
  <2>1. CASE r = d
    BY <1>6, <1>11, <1>14, <2>1
  <2>2. CASE r # d
    <3>1. r \in Nat /\ r < d /\ r \in 0..d - 1
      BY <1>9, <2>2
    <3>2. r * s \in Nat /\ r * s + s <= d * s
      BY <1>5, <1>9, <3>1, Multiples
    <3>3. r * s + a \in 1..old
      <4> DEFINE rs == r * s
                 ds == d * s
      <4>1. rs \in Nat /\ rs + s <= ds /\ ds = old /\ ds \in Nat
        BY <1>6, <1>15, <3>2
      <4> HIDE DEF rs, ds, old
      <4>2. rs + a \in 1..old
        BY <1>5, <4>1
      <4> QED  BY <4>2 DEF rs
    <3>4. written[r * s + a] = Filtered(InputRow(r))[a]
      BY <1>3, <3>1 DEF RowsWritten, d, s, w
    <3> QED  BY <1>14, <3>3, <3>4
  <2> QED  BY <2>1, <2>2
<1>18. Sized'
  BY <1>1, <1>3 DEF Sized
<1>19. RowsWritten'
  <2>1. info' = info
    BY <1>1
  <2>2. pixels' \in Seq([1..3 * info'.width -> Int]) /\ Len(pixels') <= info'.height
    BY <1>5, <1>7, <1>8, <2>1 DEF w, h
  <2>3. \A r \in 1..Len(pixels') : pixels'[r] = Filtered(InputRow(Done' + r - 1))
    <3>1. ASSUME NEW r \in 1..l - 1 PROVE pixels'[r] = Filtered(InputRow(Done' + r - 1))
      <4>1. r + 1 \in 1..l /\ d + (r + 1) - 1 = Done' + r - 1
        BY <1>7, <1>9
      <4> QED  BY <1>8, <1>10, <4>1
    <3> QED  BY <1>8, <3>1
  <2>4. \A r \in 1..Len(pixels') : pixels'[r] = Filtered(InputRow(Done + r - 1))'
    BY <2>1, <2>3, RowLater
  <2>5. written' \in Seq(Int) /\ Len(written') = Done' * Stride(info'.width)
    BY <1>9, <1>14, <1>16, <2>1 DEF s
  <2>6. Done' - 1 = d
    BY <1>9
  <2>7. \A r \in 0..Done' - 1, a \in 1..3 * info'.width :
          written'[r * Stride(info'.width) + a] = Filtered(InputRow(r))'[a]
    <3>1. \A r : Filtered(InputRow(r))' = Filtered(InputRow(r))
      BY <2>1, RowLater
    <3> QED  BY <1>17, <2>1, <2>6, <3>1 DEF s, w
  <2> QED  BY <2>2, <2>4, <2>5, <2>7 DEF RowsWritten
<1> QED  BY <1>18, <1>19

(* The invariant of greyscale-filter, by the steps above.                  *)
THEOREM GreyInvariance == GreySpec => []GreyInv
<1>1. ASSUME GreyInit PROVE GreyInv
  BY <1>1 DEF GreyInit, GreyInv
<1>2. ASSUME GreyInv, [GreyNext]_greyVars PROVE GreyInv'
  <2>1. CASE main_returns
    <3>1. greyPc = "write" /\ greyPc' = "returned" /\ pixels = <<>> /\ UNCHANGED <<info, fileSize, pos, pixels, written>>
      BY <2>1 DEF main_returns
    <3>2. Sized' = Sized /\ RowsWritten' = RowsWritten
      BY <3>1 DEF Sized, RowsWritten, Done, InputRow
    <3> QED  BY <1>2, <3>1, <3>2 DEF GreyInv
  <2>2. CASE UNCHANGED greyVars
    <3>1. Sized' = Sized /\ RowsWritten' = RowsWritten /\ RowsRead' = RowsRead
      BY <2>2 DEF greyVars, Sized, RowsWritten, RowsRead, Done, InputRow
    <3> QED  BY <1>2, <2>2, <3>1 DEF greyVars, GreyInv
  <2> QED  BY <1>2, <2>1, <2>2, HeadersKeep, ReadRowKeeps, FilterKeeps, WriteRowKeeps DEF GreyNext
<1> QED  BY <1>1, <1>2, PTL DEF GreySpec

(* greyscale.bmp is the input in grey, for every width and height: every   *)
(* pixel stands where the headers put it.                                  *)
THEOREM AlwaysGrey == GreySpec => []GreyImage
<1>1. ASSUME GreyInv PROVE GreyImage
  <2>1. SUFFICES ASSUME greyPc = "returned", info.whole, info.bfOffBits = Headers
        PROVE  /\ Len(written) = Stride(info.width) * info.height
               /\ \A r \in 0..info.height - 1, j \in 0..info.width - 1 :
                    LET at == r * Stride(info.width) + 3 * j
                        of == [c \in 1..3 |-> Byte(info.bfOffBits + at + c - 1)]
                    IN  \A c \in 1..3 :
                          written[info.bfOffBits - Headers + at + c] = (of[1] + of[2] + of[3]) \div 3
    BY DEF GreyImage
  <2>2. Sized /\ RowsWritten /\ pixels = <<>>
    BY <1>1, <2>1 DEF GreyInv
  <2> DEFINE w == info.width
             h == info.height
             s == Stride(info.width)
             off == info.bfOffBits
  <2>3. w \in Nat /\ h \in Nat /\ s \in Nat /\ off \in Nat
    BY <2>2, Sizes DEF Sized
  <2>4. Done = h
    BY <2>2, <2>3 DEF Done
  <2>5. Len(written) = s * h
    BY <2>2, <2>3, <2>4 DEF RowsWritten
  <2>6. ASSUME NEW r \in 0..h - 1, NEW j \in 0..w - 1, NEW c \in 1..3
        PROVE  LET at == r * s + 3 * j
                   of == [e \in 1..3 |-> Byte(off + at + e - 1)]
               IN  written[off - Headers + at + c] = (of[1] + of[2] + of[3]) \div 3
    <3> DEFINE is == r * s
               at == is + 3 * j
               base == off + is + 3 * j
               of == [e \in 1..3 |-> Byte(off + at + e - 1)]
    <3>1. r \in Nat /\ is \in Nat
      BY <2>3, Multiples
    <3>2. Filtered(InputRow(r))[3 * j + c] = (Byte(base) + Byte(base + 1) + Byte(base + 2)) \div 3
      BY <2>2, <3>1, FilteredPixel
    <3>3. 3 * j + c \in 1..3 * w
      BY <2>3
    <3>4. written[is + (3 * j + c)] = Filtered(InputRow(r))[3 * j + c]
      BY <2>2, <2>4, <3>3 DEF RowsWritten
    <3> HIDE DEF is, w, h, s
    <3>5. off - Headers + at + c = is + (3 * j + c)
      BY <2>1, <2>3, <3>1 DEF Headers
    <3>6. off + at + 1 - 1 = base /\ off + at + 2 - 1 = base + 1 /\ off + at + 3 - 1 = base + 2
      BY <2>3, <3>1
    <3>7. of[1] = Byte(base) /\ of[2] = Byte(base + 1) /\ of[3] = Byte(base + 2)
      BY <3>6
    <3> HIDE DEF of, base, at
    <3>8. written[off - Headers + at + c] = (of[1] + of[2] + of[3]) \div 3
      BY <3>2, <3>4, <3>5, <3>7
    <3> QED  BY <3>8 DEF of, at, is, s
  <2> QED  BY <2>5, <2>6
<1> QED  BY GreyInvariance, <1>1, PTL

-----------------------------------------------------------------------------
(* http-server's paths: byte a of the name stands from place p to before   *)
(* place q of the path, plain or as an escape of that value.               *)
Coded(a, p, q) ==
  /\ a <= p /\ p < q /\ q <= Len(url_file) + 1
  /\ IF url_file[p] = Percent
     THEN q = p + 3 /\ Hex(url_file[p + 1], url_file[p + 2]) = name[a]
     ELSE q = p + 1 /\ url_file[p] = name[a]

(* The path is the name, byte for byte, with no gap.                       *)
PathIsName ==
  /\ Len(places) = Len(name) + 1 /\ places[Len(name) + 1] = Len(url_file) + 1
  /\ \A a \in 1..Len(name) : Coded(a, places[a], places[a + 1])

(* get_filename has come to the end of a byte's code.                      *)
DecodedSoFar ==
  /\ Len(result) <= Len(name) /\ i = places[Len(result) + 1]
  /\ \A a \in 1..Len(result) : result[a] = name[a]

UrlInv ==
  /\ urlPc \in {"recv", "get_filename", "build_http"}
  /\ name \in Seq(1..255) /\ url_file \in Seq(1..255) /\ places \in Seq(Nat) /\ result \in Seq(Int)
  /\ i \in Nat /\ Len(result) < i /\ i <= Len(url_file) + 1
  /\ urlPc = "recv" => i = 1 /\ result = <<>>
  /\ urlPc = "build_http" => i > Len(url_file) /\ extension = get_extension(url_file)
  /\ named => PathIsName /\ places[1] = 1 /\ DecodedSoFar

(* Every nonempty set of naturals has a least element.                     *)
LEMMA LeastNatural ==
  ASSUME NEW T \in SUBSET Nat, T # {}
  PROVE  \E x \in T : \A y \in T : x <= y
<1>1. PICK R : R = {ss \in Nat \X Nat : ss[1] < ss[2]}
  OBVIOUS
<1>2. IsWellFoundedOn(R, Nat)
  BY <1>1, NatLessThanWellFounded DEF OpToRel
<1>3. PICK x \in T : \A y \in T : ~(<<y, x>> \in R)
  BY <1>2, WFMin
<1>4. ASSUME NEW y \in T PROVE x <= y
  <2>1. ~(<<y, x>> \in {ss \in Nat \X Nat : ss[1] < ss[2]})
    BY <1>1, <1>3, Zenon
  <2>2. ~(y < x)
    BY <2>1
  <2> QED  BY <2>2
<1> QED  BY <1>4

(* A bounded one has a greatest, which is its Max.                         *)
LEMMA MaxOfBounded ==
  ASSUME NEW n \in Nat, NEW T \in SUBSET (1..n), T # {}
  PROVE  Max(T) \in T /\ \A y \in T : y <= Max(T)
<1> DEFINE Above == {m \in Nat : \A t \in T : t <= m}
           Greatest(x) == \A y \in T : x >= y
<1>1. n \in Above
  OBVIOUS
<1>2. PICK x \in Above : \A y \in Above : x <= y
  <2>1. Above \in SUBSET Nat /\ Above # {}
    BY <1>1
  <2> HIDE DEF Above
  <2> QED  BY <2>1, LeastNatural
<1>3. x \in T
  <2>1. SUFFICES ASSUME x \notin T PROVE FALSE
    OBVIOUS
  <2>2. PICK t \in T : TRUE
    OBVIOUS
  <2>3. x - 1 \in Nat /\ \A y \in T : y <= x - 1
    BY <1>2, <2>1, <2>2
  <2> QED  BY <1>2, <2>3
<1>4. \E y \in T : Greatest(y)
  BY <1>2, <1>3
<1>5. Max(T) = CHOOSE y \in T : Greatest(y)
  BY DEF Max
<1> HIDE DEF Greatest
<1>6. Max(T) \in T /\ Greatest(Max(T))
  BY <1>4, <1>5
<1>7. PICK x1 \in T : x1 = Max(T)
  BY <1>6
<1>8. \A y \in T : y <= x1
  BY <1>6, <1>7 DEF Greatest
<1> QED  BY <1>7, <1>8

(* strrchr: the place of the last point, 0 without one.                    *)
LastPoint(path) == SelectLastInSeq(path, LAMBDA c : c = Point)

LEMMA LastPointFound ==
  ASSUME NEW path \in Seq(Int)
  PROVE  /\ LastPoint(path) \in 0..Len(path)
         /\ LastPoint(path) > 0 => path[LastPoint(path)] = Point
         /\ \A b \in 1..Len(path) : path[b] = Point => b <= LastPoint(path)
<1> DEFINE points == {b \in 1..Len(path) : path[b] = Point}
<1>1. LastPoint(path) = IF points # {} THEN Max(points) ELSE 0
  BY DEF LastPoint, SelectLastInSeq
<1>2. Len(path) \in Nat /\ points \in SUBSET (1..Len(path))
  OBVIOUS
<1>3. points # {} => Max(points) \in points /\ \A y \in points : y <= Max(points)
  <2> HIDE DEF points
  <2> QED  BY <1>2, MaxOfBounded
<1>4. CASE points = {}
  BY <1>1, <1>2, <1>4
<1>5. CASE points # {}
  BY <1>1, <1>2, <1>3, <1>5
<1> QED  BY <1>4, <1>5

(* A path that ends in a point and the extension of a name, and is no      *)
(* shorter than the name, has the same extension.                          *)
LEMMA SameExtension ==
  ASSUME NEW n \in Seq(Int), NEW u \in Seq(Int), Len(n) <= Len(u),
         IsSuffix(<<Point>> \o get_extension(n), u)
  PROVE  get_extension(u) = get_extension(n)
<1> DEFINE e == get_extension(n)
           p == LastPoint(n)
           q == LastPoint(u)
           s == <<Point>> \o e
<1>1. e = (IF p < 2 THEN <<>> ELSE SubSeq(n, p + 1, Len(n)))
  BY DEF get_extension, LastPoint
<1>2. get_extension(u) = (IF q < 2 THEN <<>> ELSE SubSeq(u, q + 1, Len(u)))
  BY DEF get_extension, LastPoint
<1>3. /\ p \in 0..Len(n) /\ q \in 0..Len(u) /\ Len(n) \in Nat /\ Len(u) \in Nat
      /\ \A b \in 1..Len(n) : n[b] = Point => b <= p
      /\ \A b \in 1..Len(u) : u[b] = Point => b <= q
      /\ q > 0 => u[q] = Point
  BY LastPointFound
<1>4. /\ e \in Seq(Int) /\ Len(e) = (IF p < 2 THEN 0 ELSE Len(n) - p)
      /\ \A b \in 1..Len(e) : e[b] # Point
  <2>1. CASE p < 2
    BY <1>1, <2>1
  <2>2. CASE p >= 2
    <3> HIDE DEF p, e
    <3>0. p \in Nat /\ p <= Len(n) /\ ~(p < 2)
      BY <1>3, <2>2
    <3>1. e = SubSeq(n, p + 1, Len(n)) /\ \A b \in p + 1..Len(n) : n[b] \in Int
      BY <1>1, <1>3, <3>0, SMTT(30)
    <3>2. /\ e \in Seq(Int) /\ Len(e) = (IF p + 1 <= Len(n) THEN Len(n) - (p + 1) + 1 ELSE 0)
          /\ \A b \in 1..Len(n) - (p + 1) + 1 : e[b] = n[(p + 1) + b - 1]
      <4>1. p + 1 \in Int /\ Len(n) \in Int
        BY <1>3, <3>0
      <4> QED  BY <3>1, <4>1, SubSeqProperties
    <3>3. Len(e) = Len(n) - p
      BY <1>3, <3>0, <3>2
    <3>4. ASSUME NEW b \in 1..Len(e) PROVE e[b] # Point
      <4>1. /\ b \in 1..Len(n) - (p + 1) + 1 /\ (p + 1) + b - 1 = p + b
            /\ p + b \in 1..Len(n) /\ ~(p + b <= p)
        BY <1>3, <3>0, <3>3
      <4>2. e[b] = n[p + b]
        BY <3>2, <4>1
      <4> QED  BY <1>3, <4>1, <4>2
    <3> QED  BY <3>0, <3>2, <3>3, <3>4
  <2> QED  BY <1>3, <2>1, <2>2
<1> DEFINE m == Len(u) - Len(e)
<1> HIDE DEF e, p, q
<1>5. s \in Seq(Int) /\ Len(s) = Len(e) + 1 /\ s[1] = Point /\ \A b \in 1..Len(e) : s[b + 1] = e[b]
  BY <1>4 DEF Point
<1> HIDE DEF s
<1>6. Len(s) <= Len(u) /\ \A b \in 1..Len(s) : s[b] = u[Len(u) - Len(s) + b]
  <2>1. IsSuffix(s, u)
    BY DEF s, e
  <2>2. /\ Reverse(s) = [b \in 1..Len(s) |-> s[(Len(s) - b) + 1]]
        /\ Reverse(u) = [b \in 1..Len(u) |-> u[(Len(u) - b) + 1]]
    BY DEF Reverse
  <2>3. /\ Reverse(s) \in Seq(Int) /\ Len(Reverse(s)) = Len(s)
        /\ Reverse(u) \in Seq(Int) /\ Len(Reverse(u)) = Len(u)
    BY <1>3, <1>5, <2>2
  <2>4. /\ Len(s) <= Len(u)
        /\ SubSeq(Reverse(s), 1, Len(s)) = SubSeq(Reverse(u), 1, Len(s))
    BY <2>1, <2>3 DEF IsSuffix, IsPrefix
  <2>5. ASSUME NEW b \in 1..Len(s) PROVE Reverse(s)[b] = Reverse(u)[b]
    <3>1. SubSeq(Reverse(s), 1, Len(s))[b] = Reverse(s)[b]
      BY <1>5, <2>3
    <3>2. SubSeq(Reverse(u), 1, Len(s))[b] = Reverse(u)[b]
      BY <1>5, <2>3, <2>4
    <3> QED  BY <2>4, <3>1, <3>2
  <2>6. ASSUME NEW b \in 1..Len(s) PROVE s[b] = u[Len(u) - Len(s) + b]
    <3> DEFINE c == Len(s) - b + 1
    <3>1. c \in 1..Len(s) /\ c \in 1..Len(u) /\ (Len(s) - c) + 1 = b
          /\ (Len(u) - c) + 1 = Len(u) - Len(s) + b
      BY <1>3, <1>5, <2>4, SMTT(30)
    <3> HIDE DEF c
    <3>2. Reverse(s)[c] = s[(Len(s) - c) + 1] /\ Reverse(u)[c] = u[(Len(u) - c) + 1]
      BY <2>2, <3>1
    <3> QED  BY <2>5, <3>1, <3>2
  <2> QED  BY <2>4, <2>6
<1>7. m \in 1..Len(u) /\ u[m] = Point /\ \A b \in 1..Len(e) : u[m + b] = e[b]
  <2>1. Len(e) \in Nat /\ m \in 1..Len(u) /\ Len(u) - Len(s) + 1 = m /\ 1 \in 1..Len(s)
    BY <1>3, <1>4, <1>5, <1>6
  <2>2. u[m] = Point
    BY <1>5, <1>6, <2>1
  <2>3. ASSUME NEW b \in 1..Len(e) PROVE u[m + b] = e[b]
    <3>1. b + 1 \in 1..Len(s) /\ Len(u) - Len(s) + (b + 1) = m + b
      BY <1>3, <1>4, <1>5
    <3>2. s[b + 1] = u[Len(u) - Len(s) + (b + 1)]
      BY <1>6, <3>1
    <3> QED  BY <1>5, <3>1, <3>2
  <2> QED  BY <2>1, <2>2, <2>3
<1>8. q = m
  <2>1. m <= q
    BY <1>3, <1>7
  <2>2. ASSUME m < q PROVE FALSE
    <3>0. /\ Len(e) \in Nat /\ q \in Nat /\ q <= Len(u) /\ Len(u) \in Nat
          /\ m = Len(u) - Len(e) /\ m \in Nat
      BY <1>3, <1>4, <1>7
    <3> HIDE DEF m
    <3>1. q - m \in 1..Len(e) /\ m + (q - m) = q /\ q > 0
      BY <2>2, <3>0
    <3>2. u[q] = e[q - m]
      BY <1>7, <3>1
    <3> QED  BY <1>3, <1>4, <3>1, <3>2
  <2> QED  BY <1>3, <1>7, <2>1, <2>2
<1>9. CASE q < 2
  <2>1. Len(u) = Len(e) + 1
    BY <1>3, <1>4, <1>7, <1>8, <1>9
  <2>2. p < 2
    BY <1>3, <1>4, <2>1
  <2> QED  BY <1>1, <1>2, <1>9, <2>2 DEF e
<1>10. CASE q >= 2
  <2>1. get_extension(u) = SubSeq(u, q + 1, Len(u)) /\ \A b \in q + 1..Len(u) : u[b] \in Int
    BY <1>2, <1>3, <1>10, SMTT(30)
  <2> DEFINE x == SubSeq(u, q + 1, Len(u))
  <2>2. /\ x \in Seq(Int) /\ Len(x) = (IF q + 1 <= Len(u) THEN Len(u) - (q + 1) + 1 ELSE 0)
        /\ \A b \in 1..Len(u) - (q + 1) + 1 : x[b] = u[(q + 1) + b - 1]
    <3>1. q + 1 \in Int /\ Len(u) \in Int
      BY <1>3
    <3> QED  BY <2>1, <3>1, SubSeqProperties
  <2> HIDE DEF x
  <2>3. Len(x) = Len(e)
    BY <1>3, <1>4, <1>7, <1>8, <2>2
  <2>4. ASSUME NEW b \in 1..Len(x) PROVE x[b] = e[b]
    <3>1. b \in 1..Len(u) - (q + 1) + 1 /\ (q + 1) + b - 1 = m + b /\ b \in 1..Len(e)
      BY <1>3, <1>4, <1>7, <1>8, <2>3
    <3> QED  BY <1>7, <2>2, <3>1
  <2>5. x = e
    BY <1>4, <2>2, <2>3, <2>4, SeqEqual
  <2> QED  BY <2>1, <2>5 DEF x, e
<1> QED  BY <1>3, <1>9, <1>10

(* A hex digit a client writes is read back as what it stands for.         *)
LEMMA DigitRead ==
  ASSUME NEW d \in 0..15, NEW lower \in BOOLEAN
  PROVE  LET c == HexDigit(d, lower)
         IN  c \in 1..255 /\ IsDigit(c) /\ Digit(c) = d /\ c \notin {88, 120}
<1>1. CASE d < 10
  BY <1>1 DEF HexDigit, IsDigit, Digit
<1>2. CASE d >= 10 /\ lower
  BY <1>2 DEF HexDigit, IsDigit, Digit
<1>3. CASE d >= 10 /\ ~lower
  BY <1>3 DEF HexDigit, IsDigit, Digit
<1> QED  BY <1>1, <1>2, <1>3

(* Every way to write a byte is read back as that byte.                    *)
LEMMA CodeRead ==
  ASSUME NEW b \in 1..255, NEW code \in Codes(b)
  PROVE  /\ code \in Seq(1..255)
         /\ IF code[1] = Percent THEN Len(code) = 3 /\ Hex(code[2], code[3]) = b
                                 ELSE Len(code) = 1 /\ code[1] = b
<1>1. CASE \E lower \in BOOLEAN : code = <<Percent, HexDigit(b \div 16, lower), HexDigit(b % 16, lower)>>
  <2>1. PICK lower \in BOOLEAN : code = <<Percent, HexDigit(b \div 16, lower), HexDigit(b % 16, lower)>>
    BY <1>1
  <2>2. PICK h \in 0..15, l \in 0..15 : h = b \div 16 /\ l = b % 16 /\ 16 * h + l = b
    BY Z3
  <2> DEFINE c == HexDigit(h, lower)
             d == HexDigit(l, lower)
  <2>3. /\ c \in 1..255 /\ IsDigit(c) /\ Digit(c) = h
        /\ d \in 1..255 /\ IsDigit(d) /\ Digit(d) = l /\ d \notin {88, 120}
    BY DigitRead
  <2>4. code = <<Percent, c, d>>
    BY <2>1, <2>2
  <2> HIDE DEF c, d
  <2>5. Hex(c, d) = b
    BY <2>2, <2>3 DEF Hex
  <2> QED  BY <2>3, <2>4, <2>5 DEF Percent
<1>2. CASE code \in {<<c>> : c \in {b} \ {Percent, Space}}
  <2>1. code = <<b>> /\ b # Percent
    BY <1>2
  <2> QED  BY <2>1
<1> QED  BY <1>1, <1>2 DEF Codes

(* A byte the client writes keeps the codes of the earlier ones.           *)
LEMMA WriteKeeps ==
  ASSUME UrlInv, client_writes PROVE UrlInv'
<1> DEFINE n == Len(name)
           l == Len(url_file)
<1>0. PICK b \in NameBytes : \E code \in Codes(b) :
        /\ name' = Append(name, b) /\ url_file' = url_file \o code
        /\ places' = Append(places, Len(url_file') + 1)
  BY DEF client_writes
<1>1. PICK code \in Codes(b) :
        /\ name' = Append(name, b) /\ url_file' = url_file \o code
        /\ places' = Append(places, Len(url_file') + 1)
  BY <1>0
<1>2. /\ urlPc = "recv" /\ named /\ UNCHANGED <<urlPc, named, i, result, extension>>
      /\ i = 1 /\ result = <<>> /\ PathIsName /\ places[1] = 1
  BY DEF client_writes, UrlInv
<1>3. name \in Seq(1..255) /\ url_file \in Seq(1..255) /\ places \in Seq(Nat) /\ b \in 1..255
  BY UrlAssumption DEF UrlInv
<1>4. /\ code \in Seq(1..255) /\ Len(code) \in Nat
      /\ IF code[1] = Percent THEN Len(code) = 3 /\ Hex(code[2], code[3]) = b
                              ELSE Len(code) = 1 /\ code[1] = b
  <2>1. /\ code \in Seq(1..255)
        /\ IF code[1] = Percent THEN Len(code) = 3 /\ Hex(code[2], code[3]) = b
                                ELSE Len(code) = 1 /\ code[1] = b
    BY <1>3, CodeRead, Zenon
  <2> QED  BY <2>1
<1>5. n \in Nat /\ l \in Nat /\ Len(places) = n + 1 /\ places[n + 1] = l + 1
  BY <1>2, <1>3 DEF PathIsName
<1>6. /\ name' \in Seq(1..255) /\ Len(name') = n + 1 /\ name'[n + 1] = b
      /\ \A a \in 1..n : name'[a] = name[a]
  BY <1>1, <1>3
<1>7. /\ url_file' \in Seq(1..255) /\ Len(url_file') = l + Len(code)
      /\ \A a \in 1..l : url_file'[a] = url_file[a]
      /\ \A a \in 1..Len(code) : url_file'[l + a] = code[a]
  <2>1. /\ url_file' \in Seq(1..255) /\ Len(url_file') = l + Len(code)
        /\ \A a \in 1..l + Len(code) : url_file'[a] = IF a <= l THEN url_file[a] ELSE code[a - l]
    BY <1>1, <1>3, <1>4, ConcatProperties
  <2>2. ASSUME NEW a \in 1..l PROVE url_file'[a] = url_file[a]
    BY <1>4, <1>5, <2>1
  <2>3. ASSUME NEW a \in 1..Len(code) PROVE url_file'[l + a] = code[a]
    <3>1. l + a \in 1..l + Len(code) /\ ~(l + a <= l) /\ (l + a) - l = a
      BY <1>4, <1>5
    <3> QED  BY <2>1, <3>1
  <2> QED  BY <2>1, <2>2, <2>3
<1>8. /\ places' \in Seq(Nat) /\ Len(places') = n + 2 /\ places'[n + 2] = Len(url_file') + 1
      /\ \A a \in 1..n + 1 : places'[a] = places[a]
  <2>1. Len(url_file') + 1 \in Nat
    BY <1>4, <1>5, <1>7
  <2> HIDE DEF n, l
  <2> QED  BY <1>1, <1>3, <1>5, <2>1
<1> HIDE DEF n, l
<1>9. ASSUME NEW a \in 1..n PROVE Coded(a, places[a], places[a + 1])'
  <2> DEFINE p == places[a]
             q == places[a + 1]
  <2>1. Coded(a, p, q)
    BY <1>2 DEF PathIsName, n
  <2>2. p \in Nat /\ q \in Nat /\ a \in Nat /\ places'[a] = p /\ places'[a + 1] = q /\ name'[a] = name[a]
    <3>1. a \in 1..n + 1 /\ a + 1 \in 1..n + 1
      BY <1>5
    <3> QED  BY <1>3, <1>5, <1>6, <1>8, <3>1, SMTT(30)
  <2> HIDE DEF p, q
  <2>3. a <= p /\ p < q /\ q <= l + 1
    BY <2>1 DEF Coded, l
  <2>4. p \in 1..l /\ url_file'[p] = url_file[p] /\ q <= Len(url_file') + 1
    BY <1>4, <1>5, <1>7, <2>2, <2>3
  <2>5. CASE url_file[p] = Percent
    <3>1. q = p + 3 /\ Hex(url_file[p + 1], url_file[p + 2]) = name[a]
      BY <2>1, <2>5 DEF Coded
    <3>2. p + 1 \in 1..l /\ p + 2 \in 1..l
      BY <1>5, <2>2, <2>3, <3>1
    <3>3. url_file'[p + 1] = url_file[p + 1] /\ url_file'[p + 2] = url_file[p + 2]
      BY <1>7, <3>2
    <3> QED  BY <2>2, <2>3, <2>4, <2>5, <3>1, <3>3, Zenon DEF Coded
  <2>6. CASE url_file[p] # Percent
    <3>1. q = p + 1 /\ url_file[p] = name[a]
      BY <2>1, <2>6 DEF Coded
    <3> QED  BY <2>2, <2>3, <2>4, <2>6, <3>1, Zenon DEF Coded
  <2> QED  BY <2>5, <2>6
<1>10. ASSUME NEW c, NEW d, c = n + 1, d = n + 2 PROVE Coded(c, places[c], places[d])'
  <2>2. places'[c] = l + 1 /\ places'[d] = Len(url_file') + 1
    BY <1>5, <1>8, <1>10
  <2>3. n <= l
    <3>1. CASE n = 0
      BY <1>5, <3>1
    <3>2. CASE n > 0
      <4>1. n \in 1..n
        BY <1>5, <3>2
      <4>2. Coded(n, places[n], places[n + 1]) /\ places[n] \in Nat
        BY <1>2, <1>3, <1>5, <4>1 DEF PathIsName, n
      <4> QED  BY <1>5, <4>2 DEF Coded
    <3> QED  BY <1>5, <3>1, <3>2
  <2>4. ASSUME code[1] = Percent
        PROVE  /\ url_file'[l + 1] = Percent /\ Len(url_file') + 1 = (l + 1) + 3
               /\ Hex(url_file'[(l + 1) + 1], url_file'[(l + 1) + 2]) = b
    <3>1. Len(code) = 3 /\ Hex(code[2], code[3]) = b
      BY <1>4, <2>4
    <3>2. (l + 1) + 1 = l + 2 /\ (l + 1) + 2 = l + 3 /\ Len(url_file') + 1 = (l + 1) + 3
      BY <1>5, <1>7, <3>1
    <3>3. url_file'[l + 1] = code[1] /\ url_file'[l + 2] = code[2] /\ url_file'[l + 3] = code[3]
      BY <1>7, <3>1
    <3> QED  BY <2>4, <3>1, <3>2, <3>3
  <2>5. ASSUME code[1] # Percent
        PROVE  /\ url_file'[l + 1] # Percent /\ Len(url_file') + 1 = (l + 1) + 1
               /\ url_file'[l + 1] = b
    <3>1. Len(code) = 1 /\ code[1] = b
      BY <1>4, <2>5
    <3>2. url_file'[l + 1] = code[1]
      BY <1>7, <3>1
    <3> QED  BY <1>5, <1>7, <2>5, <3>1, <3>2
  <2>6. c <= l + 1 /\ l + 1 < Len(url_file') + 1 /\ Len(url_file') + 1 <= Len(url_file') + 1
    BY <1>4, <1>5, <1>7, <1>10, <2>3
  <2>7. name'[c] = b
    BY <1>6, <1>10
  <2> QED  BY <2>2, <2>4, <2>5, <2>6, <2>7, Zenon DEF Coded
<1>11. PathIsName'
  <2>1. ASSUME NEW a \in 1..n + 1 PROVE Coded(a, places[a], places[a + 1])'
    <3>1. a \in 1..n \/ (a = n + 1 /\ a + 1 = n + 2)
      BY <1>5
    <3> QED  BY <1>9, <1>10, <3>1
  <2>2. (n + 1) + 1 = n + 2
    BY <1>5
  <2> QED  BY <1>6, <1>8, <2>1, <2>2 DEF PathIsName
<1>12. places'[1] = 1 /\ Len(result') = 0 /\ DecodedSoFar'
  <2>1. places'[1] = 1
    BY <1>2, <1>5, <1>8
  <2>2. Len(result') = 0 /\ 0 <= Len(name') /\ i' = 1
    BY <1>2, <1>5, <1>6
  <2> QED  BY <2>1, <2>2 DEF DecodedSoFar
<1>13. i' <= Len(url_file') + 1 /\ Len(result') < i'
  BY <1>2, <1>4, <1>5, <1>7, <1>12
<1> QED  BY <1>2, <1>6, <1>7, <1>8, <1>11, <1>12, <1>13 DEF UrlInv

(* An arbitrary byte makes the path nobody's name.                         *)
LEMMA WriteAnyKeeps ==
  ASSUME UrlInv, client_writes_any PROVE UrlInv'
<1>1. PICK b \in NameBytes \ {Space} : url_file' = Append(url_file, b)
  BY DEF client_writes_any
<1>2. /\ urlPc = "recv" /\ ~named' /\ UNCHANGED <<urlPc, name, places, i, result, extension>>
      /\ b \in 1..255 /\ url_file \in Seq(1..255)
  BY UrlAssumption DEF client_writes_any, UrlInv
<1>3. url_file' \in Seq(1..255) /\ Len(url_file') = Len(url_file) + 1 /\ Len(url_file) \in Nat
  BY <1>1, <1>2
<1>4. i' \in Nat /\ Len(result') < i' /\ i' <= Len(url_file') + 1
  BY <1>2, <1>3 DEF UrlInv
<1> QED  BY <1>2, <1>3, <1>4, Zenon DEF UrlInv

(* What sscanf reads is a number, whatever the characters are.             *)
LEMMA HexIsNumber ==
  ASSUME NEW c \in Int, NEW d \in Int PROVE Hex(c, d) \in Int
BY DEF Hex, Digit, IsDigit, Unknown

(* A turn of the loop that starts where a byte's code begins decodes that  *)
(* byte and ends where the next one's begins.                              *)
LEMMA TurnDecodes ==
  ASSUME UrlInv, named, get_filename
  PROVE  /\ result' = Append(result, name[Len(result) + 1]) /\ Len(result) < Len(name)
         /\ i' = places[Len(result) + 2]
<1> DEFINE r == Len(result)
           n == Len(name)
<1>1. /\ PathIsName /\ DecodedSoFar /\ i \in Nat /\ i <= Len(url_file)
      /\ IF Escape(i) THEN result' = Append(result, Hex(url_file[i + 1], url_file[i + 2])) /\ i' = i + 3
         ELSE result' = Append(result, url_file[i]) /\ i' = i + 1
  BY DEF UrlInv, get_filename
<1>2. r \in Nat /\ n \in Nat /\ Len(url_file) \in Nat
  BY DEF UrlInv
<1>3. r <= n /\ i = places[r + 1] /\ places[n + 1] = Len(url_file) + 1
  BY <1>1 DEF PathIsName, DecodedSoFar
<1>4. r < n
  <2>1. r # n
    BY <1>1, <1>2, <1>3
  <2> QED  BY <1>2, <1>3, <2>1
<1>5. r + 1 \in 1..n /\ (r + 1) + 1 = r + 2
  BY <1>2, <1>4
<1> DEFINE q == places[r + 2]
<1>6. Coded(r + 1, i, q)
  BY <1>1, <1>3, <1>5 DEF PathIsName
<1> HIDE DEF r, n, q
<1>7. CASE url_file[i] = Percent
  <2>1. q = i + 3 /\ q <= Len(url_file) + 1 /\ Hex(url_file[i + 1], url_file[i + 2]) = name[r + 1]
    BY <1>6, <1>7 DEF Coded
  <2>2. Escape(i)
    BY <1>1, <1>2, <1>7, <2>1 DEF Escape
  <2> QED  BY <1>1, <1>4, <2>1, <2>2 DEF r, n, q
<1>8. CASE url_file[i] # Percent
  <2>1. q = i + 1 /\ url_file[i] = name[r + 1]
    BY <1>6, <1>8 DEF Coded
  <2>2. ~Escape(i)
    BY <1>8 DEF Escape
  <2> QED  BY <1>1, <1>4, <2>1, <2>2 DEF r, n, q
<1> QED  BY <1>7, <1>8

(* A turn of the loop, on any path.                                        *)
LEMMA TurnKeeps ==
  ASSUME UrlInv, get_filename PROVE UrlInv'
<1>1. /\ urlPc = "get_filename" /\ i \in Nat /\ i <= Len(url_file) /\ Len(result) < i
      /\ url_file \in Seq(1..255) /\ result \in Seq(Int) /\ Len(url_file) \in Nat
      /\ UNCHANGED <<urlPc, name, named, url_file, places, extension>>
  BY DEF UrlInv, get_filename, request
<1>2. i \in 1..Len(url_file) /\ \A a \in 1..Len(url_file) : url_file[a] \in Int
  <2>1. ASSUME NEW a \in 1..Len(url_file) PROVE url_file[a] \in Int
    <3>1. url_file[a] \in 1..255
      BY <1>1, ElementOfSeq
    <3>2. 1..255 \subseteq Int
      OBVIOUS
    <3> QED  BY <3>1, <3>2, Zenon
  <2> QED  BY <1>1, <2>1
<1>3. \E b \in Int : result' = Append(result, b) /\ i' \in Nat /\ i' > i /\ i' <= Len(url_file) + 1
  <2>1. CASE Escape(i)
    <3>1. i + 1 \in 1..Len(url_file) /\ i + 2 \in 1..Len(url_file)
      BY <1>1, <1>2, <2>1 DEF Escape
    <3>2. url_file[i + 1] \in Int /\ url_file[i + 2] \in Int
      BY <1>2, <3>1
    <3>3. result' = Append(result, Hex(url_file[i + 1], url_file[i + 2])) /\ i' = i + 3
      BY <2>1 DEF get_filename
    <3>4. i' \in Nat /\ i' > i /\ i' <= Len(url_file) + 1
      BY <1>1, <3>1, <3>3
    <3> QED  BY <3>2, <3>3, <3>4, HexIsNumber
  <2>2. CASE ~Escape(i)
    <3>1. url_file[i] \in Int /\ result' = Append(result, url_file[i]) /\ i' = i + 1
      BY <1>2, <2>2 DEF get_filename
    <3> QED  BY <1>1, <3>1
  <2> QED  BY <2>1, <2>2
<1>4. PICK b \in Int : result' = Append(result, b) /\ i' \in Nat /\ i' > i /\ i' <= Len(url_file) + 1
  BY <1>3
<1>5. /\ result' \in Seq(Int) /\ Len(result') = Len(result) + 1 /\ Len(result) \in Nat
      /\ result'[Len(result) + 1] = b
      /\ \A a \in 1..Len(result) : result'[a] = result[a]
  BY <1>1, <1>4
<1>6. Len(result') < i' /\ i' <= Len(url_file') + 1
  BY <1>1, <1>4, <1>5
<1>7. ASSUME named PROVE PathIsName' /\ places'[1] = 1 /\ DecodedSoFar'
  <2>1. PathIsName' /\ places'[1] = 1
    BY <1>1, <1>7 DEF UrlInv, PathIsName, Coded
  <2>2. /\ result' = Append(result, name[Len(result) + 1]) /\ Len(result) < Len(name)
        /\ i' = places[Len(result) + 2]
    BY <1>7, TurnDecodes
  <2>3. /\ Len(name) \in Nat /\ name' = name /\ places' = places
        /\ \A a \in 1..Len(result) : result[a] = name[a]
    BY <1>1, <1>7 DEF UrlInv, DecodedSoFar
  <2>4. result'[Len(result) + 1] = name[Len(result) + 1]
    BY <1>1, <1>5, <2>2
  <2>5. ASSUME NEW a \in 1..Len(result') PROVE result'[a] = name'[a]
    <3>1. a \in 1..Len(result) \/ a = Len(result) + 1
      BY <1>5
    <3> QED  BY <1>5, <2>3, <2>4, <3>1
  <2>6. Len(result') <= Len(name') /\ i' = places'[Len(result') + 1]
    <3>1. (Len(result) + 1) + 1 = Len(result) + 2 /\ Len(result) + 1 <= Len(name)
      BY <1>5, <2>2, <2>3
    <3> QED  BY <1>5, <2>2, <2>3, <3>1
  <2> QED  BY <2>1, <2>5, <2>6 DEF DecodedSoFar
<1>8. urlPc' = "get_filename" /\ name' \in Seq(1..255) /\ url_file' \in Seq(1..255) /\ places' \in Seq(Nat)
  BY <1>1 DEF UrlInv
<1> QED  BY <1>1, <1>4, <1>5, <1>6, <1>7, <1>8, Zenon DEF UrlInv

(* UrlInv is kept for names of any length over any bytes but 0.            *)
THEOREM UrlInvariance == UrlSpec => []UrlInv
<1>1. ASSUME UrlInit PROVE UrlInv
  <2>1. /\ name = <<>> /\ url_file = <<>> /\ result = <<>> /\ places = <<1>> /\ i = 1 /\ urlPc = "recv"
    BY <1>1 DEF UrlInit
  <2>2. Len(name) = 0 /\ Len(url_file) = 0 /\ Len(result) = 0 /\ Len(places) = 1 /\ places[1] = 1
    BY <2>1
  <2>3. PathIsName /\ DecodedSoFar
    BY <2>1, <2>2 DEF PathIsName, DecodedSoFar
  <2>4. name \in Seq(1..255) /\ url_file \in Seq(1..255) /\ places \in Seq(Nat) /\ result \in Seq(Int)
    BY <2>1
  <2> QED  BY <2>1, <2>2, <2>3, <2>4 DEF UrlInv
<1>2. ASSUME UrlInv, [UrlNext]_urlVars PROVE UrlInv'
  <2>1. CASE client_writes
    BY <1>2, <2>1, WriteKeeps
  <2>2. CASE client_writes_any
    BY <1>2, <2>2, WriteAnyKeeps
  <2>3. CASE handler_recv
    <3>1. /\ urlPc' = "get_filename"
          /\ UNCHANGED <<name, named, url_file, places, i, result, extension>>
      BY <2>3 DEF handler_recv, request
    <3> QED  BY <1>2, <3>1 DEF UrlInv, PathIsName, DecodedSoFar, Coded
  <2>4. CASE get_filename
    BY <1>2, <2>4, TurnKeeps
  <2>5. CASE handler_extension
    <3>1. /\ urlPc' = "build_http" /\ i > Len(url_file) /\ extension' = get_extension(url_file)
          /\ UNCHANGED <<name, named, url_file, places, i, result>>
      BY <2>5 DEF handler_extension, request
    <3>2. extension' = get_extension(url_file')
      BY <3>1
    <3> QED  BY <1>2, <3>1, <3>2, Zenon DEF UrlInv, PathIsName, DecodedSoFar, Coded
  <2>6. CASE UNCHANGED urlVars
    <3>1. UNCHANGED <<urlPc, name, named, url_file, places, i, result, extension>>
      BY <2>6 DEF urlVars, request
    <3>2. extension' = extension /\ get_extension(url_file') = get_extension(url_file)
      BY <3>1
    <3> QED  BY <1>2, <3>1, <3>2, Zenon DEF UrlInv, PathIsName, DecodedSoFar, Coded
  <2> QED  BY <1>2, <2>1, <2>2, <2>3, <2>4, <2>5, <2>6 DEF UrlNext
<1> QED  BY <1>1, <1>2, PTL DEF UrlSpec

(* get_filename opens the file the client named, however long the name     *)
(* and however it was escaped, inside the buffer it allocated; and the     *)
(* extension of a path that ends in the name's is the name's.              *)
THEOREM NamesAlwaysDecoded == UrlSpec => []UrlDecoded
<1>1. ASSUME UrlInv PROVE UrlDecoded
  <2>1. /\ name \in Seq(1..255) /\ url_file \in Seq(1..255) /\ result \in Seq(Int) /\ i \in Nat
        /\ Len(name) \in Nat /\ Len(url_file) \in Nat /\ Len(result) \in Nat
        /\ Len(result) < i /\ i <= Len(url_file) + 1
    BY <1>1 DEF UrlInv
  <2>2. Len(result) <= Len(url_file)
    BY <2>1
  <2>3. ASSUME urlPc = "build_http", named
        PROVE  /\ result = name
               /\ IsSuffix(<<Point>> \o get_extension(name), url_file) => extension = get_extension(name)
    <3>1. /\ PathIsName /\ DecodedSoFar /\ i > Len(url_file) /\ extension = get_extension(url_file)
      BY <1>1, <2>3 DEF UrlInv
    <3>2. name \in Seq(Int) /\ url_file \in Seq(Int)
      <4>1. 1..255 \subseteq Int
        OBVIOUS
      <4> QED  BY <2>1, <4>1, SeqMonotonic
    <3>3. Len(result) = Len(name)
      <4>1. SUFFICES ASSUME Len(result) # Len(name) PROVE FALSE
        OBVIOUS
      <4>2. Len(result) + 1 \in 1..Len(name) /\ i = places[Len(result) + 1]
        BY <2>1, <3>1, <4>1 DEF DecodedSoFar
      <4>3. Coded(Len(result) + 1, i, places[(Len(result) + 1) + 1])
        BY <3>1, <4>2 DEF PathIsName
      <4>4. places[(Len(result) + 1) + 1] \in Nat
        <5>1. places \in Seq(Nat) /\ Len(places) = Len(name) + 1
          BY <1>1, <3>1 DEF UrlInv, PathIsName
        <5>2. (Len(result) + 1) + 1 \in 1..Len(places)
          BY <2>1, <4>2, <5>1
        <5> QED  BY <5>1, <5>2, ElementOfSeq
      <4> QED  BY <2>1, <3>1, <4>3, <4>4 DEF Coded
    <3>4. result = name
      BY <2>1, <3>1, <3>2, <3>3, SeqEqual DEF DecodedSoFar
    <3>5. Len(name) <= Len(url_file)
      BY <2>2, <3>3
    <3> QED  BY <3>1, <3>2, <3>4, <3>5, SameExtension
  <2> QED  BY <2>2, <2>3 DEF UrlDecoded
<1> QED  BY <1>1, UrlInvariance, PTL

=============================================================================
