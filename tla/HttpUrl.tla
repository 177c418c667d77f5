------------------------------- MODULE HttpUrl -------------------------------
(***************************************************************************)
(* projects/networking/http-server: what the path of a request means.      *)
(* get_filename decodes its percent escapes, get_extension takes what      *)
(* stands behind the last point.  Characters are bytes.                    *)
(***************************************************************************)
EXTENDS Integers, Sequences, SequencesExt

CONSTANTS
  NameBytes,  \* bytes file names are made of
  MaxName     \* bound: bytes in a file name, or in an arbitrary path

ASSUME UrlAssumption == NameBytes \subseteq 1..255 /\ MaxName \in Nat

Space == 32
Percent == 37
Point == 46
Digit(c) == IF c \in 48..57 THEN c - 48 ELSE IF c \in 65..70 THEN c - 55 ELSE c - 87
IsDigit(c) == c \in 48..57 \cup 65..70 \cup 97..102
Unknown == -1  \* a byte that was never written, or whatever sscanf made of it

VARIABLES
  urlPc,     \* where handler is
  name,      \* the file the client means
  named,     \* the path is made from that name; otherwise it is arbitrary
  url_file,  \* the path of its request
  places,    \* history: where each byte of name begins in it, and where it ends
  i,         \* get_filename's place in url_file
  result,    \* what it has decoded
  extension  \* what get_extension returns

request == <<name, named, url_file, places>>
urlVars == <<urlPc, request, i, result, extension>>

UrlInit ==
  /\ urlPc = "recv" /\ name = <<>> /\ named = TRUE /\ url_file = <<>> /\ places = <<1>>
  /\ i = 1 /\ result = <<>> /\ extension = <<>>

HexDigit(d, lower) == IF d < 10 THEN 48 + d ELSE IF lower THEN 87 + d ELSE 55 + d

(* How a client may write byte b: in hex, or plain if a path may hold it.  *)
Codes(b) ==
  {<<Percent, HexDigit(b \div 16, lower), HexDigit(b % 16, lower)>> : lower \in BOOLEAN}
    \cup {<<c>> : c \in {b} \ {Percent, Space}}

client_writes ==
  /\ urlPc = "recv" /\ named /\ Len(name) < MaxName
  /\ \E b \in NameBytes : \E code \in Codes(b) :
       /\ name' = Append(name, b) /\ url_file' = url_file \o code
       /\ places' = Append(places, Len(url_file') + 1)
  /\ UNCHANGED <<urlPc, named, i, result, extension>>

(* A client that writes what it likes; a space would end the path.         *)
client_writes_any ==
  /\ urlPc = "recv" /\ name = <<>> /\ Len(url_file) < MaxName
  /\ \E b \in NameBytes \ {Space} : url_file' = Append(url_file, b)
  /\ named' = FALSE
  /\ UNCHANGED <<urlPc, name, places, i, result, extension>>

(* The request has arrived and matches the expression.                     *)
handler_recv ==
  /\ urlPc = "recv" /\ urlPc' = "get_filename"
  /\ UNCHANGED <<request, i, result, extension>>

(* sscanf("%2x"): no digit leaves hex unset; white space, a sign or 0x in  *)
(* front of the digits is read in ways left open here.                     *)
Hex(c, d) ==
  IF ~IsDigit(c) \/ (c = 48 /\ d \in {88, 120}) THEN Unknown
  ELSE IF IsDigit(d) THEN 16 * Digit(c) + Digit(d) ELSE Digit(c)

(* Mutant: one bound too many, and the last escape of a path is kept.      *)
Escape_short(a) == url_file[a] = Percent /\ a + 2 < Len(url_file)

(* An escape at place a, with both its digits inside the path.             *)
Escape(a) == url_file[a] = Percent /\ a + 2 <= Len(url_file)

(* One turn of the loop.                                                   *)
get_filename ==
  /\ urlPc = "get_filename" /\ i <= Len(url_file)
  /\ IF Escape(i) THEN result' = Append(result, Hex(url_file[i + 1], url_file[i + 2])) /\ i' = i + 3
     ELSE result' = Append(result, url_file[i]) /\ i' = i + 1
  /\ UNCHANGED <<urlPc, request, extension>>

(* Behind the last point, unless that is the first character.              *)
get_extension(path) ==
  LET p == SelectLastInSeq(path, LAMBDA c : c = Point)
  IN  IF p < 2 THEN <<>> ELSE SubSeq(path, p + 1, Len(path))

(* The handler takes the extension from the path as it was sent.           *)
handler_extension ==
  /\ urlPc = "get_filename" /\ i > Len(url_file)
  /\ urlPc' = "build_http" /\ extension' = get_extension(url_file)
  /\ UNCHANGED <<request, i, result>>

UrlNext == client_writes \/ client_writes_any \/ handler_recv \/ get_filename \/ handler_extension
UrlSpec == UrlInit /\ [][UrlNext]_urlVars

-----------------------------------------------------------------------------
(* The server opens the very file the client named, whichever characters   *)
(* the client chose to escape and wherever they stand, and never decodes   *)
(* more bytes than the Len(url_file) + 1 it allocated.  Its content type   *)
(* follows from the name too, as long as the extension was sent plain.     *)
UrlDecoded ==
  /\ Len(result) <= Len(url_file)
  /\ urlPc = "build_http" /\ named =>
       /\ result = name
       /\ IsSuffix(<<Point>> \o get_extension(name), url_file) => extension = get_extension(name)
=============================================================================
