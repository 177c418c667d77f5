------------------------------ MODULE Greyscale ------------------------------
(***************************************************************************)
(* projects/graphics/greyscale-filter: a 24-bit bitmap is read row by row, *)
(* averaged pixel by pixel, and written as greyscale.bmp.                  *)
(***************************************************************************)
EXTENDS Integers, Sequences, FiniteSetsExt

CONSTANTS
  Widths, Heights,  \* biWidth and biHeight tried
  OffBits           \* bfOffBits tried

ASSUME GreyAssumption == Widths \subseteq Nat \ {0} /\ Heights \subseteq Int /\ OffBits \subseteq Nat

Headers == 54  \* bytes of the two headers
Heap == -1     \* a byte of memory that was allocated and never written

VARIABLES
  greyPc,   \* where main is
  info,     \* the headers and whether the file has all the rows they announce
  fileSize, \* bytes of the input file
  pos,      \* position in the input file
  pixels,   \* the rows in memory, three bytes for each pixel
  written   \* bytes of greyscale.bmp behind its headers

greyVars == <<greyPc, info, fileSize, pos, pixels, written>>

GreyInit ==
  /\ greyPc = "start" /\ info = [width |-> 0, height |-> 0, bfOffBits |-> 0, whole |-> FALSE]
  /\ fileSize = 0 /\ pos = 0 /\ pixels = <<>> /\ written = <<>>

(* The byte of the input file at a position: no two pixels are alike.      *)
Byte(p) == (p * p * 37 + p + 11) % 256

(* The rows of a bitmap begin at multiples of four bytes.                  *)
Stride(w) == 4 * ((3 * w + 3) \div 4)

(* Mutant: the remainder itself is taken for the padding.                  *)
Padding_remainder(w) == (w * 3) % 4

Padding(w) == (4 - ((w * 3) % 4)) % 4

(* fopen() and the headers; main returns 1 on a wrong format and when      *)
(* malloc() fails, as it does for a negative height, huge as a size.       *)
read_headers ==
  /\ greyPc = "start"
  /\ \E w \in Widths, h \in Heights, off \in OffBits, missing \in {0, 1} :
       /\ info' = [width |-> w, height |-> h, bfOffBits |-> off, whole |-> missing = 0]
       /\ fileSize' = off + Stride(w) * Max({h, 0}) - missing
       /\ pos' = off
       /\ greyPc' \in {"exited"} \cup (IF h >= 0 THEN {"read"} ELSE {})
  /\ UNCHANGED <<pixels, written>>

(* At the end of the file fread() stops and the memory keeps what malloc() *)
(* left in it; fseek() goes on.                                            *)
read_row ==
  /\ greyPc = "read" /\ Len(pixels) < info.height
  /\ pixels' = Append(pixels, [a \in 1..3 * info.width |->
                                 IF pos + a - 1 < fileSize THEN Byte(pos + a - 1) ELSE Heap])
  /\ pos' = pos + 3 * info.width + Padding(info.width)
  /\ UNCHANGED <<greyPc, info, fileSize, written>>

avg(bytes) ==
  IF Heap \in {bytes[c] : c \in 1..3} THEN Heap ELSE (bytes[1] + bytes[2] + bytes[3]) \div 3

Filtered(row) ==
  [a \in DOMAIN row |-> LET j == 3 * ((a - 1) \div 3) IN avg([c \in 1..3 |-> row[j + c]])]

(* The filter, then fopen() of greyscale.bmp, which empties the input file *)
(* when it is that file.  When fopen() fails main calls fclose(NULL).      *)
filter ==
  /\ greyPc = "read" /\ Len(pixels) = info.height
  /\ pixels' = [i \in DOMAIN pixels |-> Filtered(pixels[i])]
  /\ \/ greyPc' = "write" /\ fileSize' \in {fileSize, 0}
     \/ greyPc' = "undefined" /\ UNCHANGED fileSize
  /\ UNCHANGED <<info, pos, written>>

write_row ==
  /\ greyPc = "write" /\ pixels # <<>>
  /\ written' = written \o Head(pixels) \o [p \in 1..Padding(info.width) |-> 0]
  /\ pixels' = Tail(pixels)
  /\ UNCHANGED <<greyPc, info, fileSize, pos>>

main_returns ==
  /\ greyPc = "write" /\ pixels = <<>>
  /\ greyPc' = "returned" /\ UNCHANGED <<info, fileSize, pos, pixels, written>>

GreyNext == read_headers \/ read_row \/ filter \/ write_row \/ main_returns
GreySpec == GreyInit /\ [][GreyNext]_greyVars

-----------------------------------------------------------------------------
(* In a reader's eyes greyscale.bmp holds, at every row and column, the    *)
(* average of the input's pixel there, even when it replaces the input:    *)
(* rows stand a stride apart from where the headers say they begin.        *)
(* Excepted are inputs that end early and inputs whose pixels do not begin *)
(* right behind the headers: main copies bfOffBits and not the gap.        *)
GreyImage ==
  greyPc = "returned" /\ info.whole /\ info.bfOffBits = Headers =>
    /\ Len(written) = Stride(info.width) * info.height
    /\ \A i \in 0..info.height - 1, j \in 0..info.width - 1 :
         LET at == i * Stride(info.width) + 3 * j
             of == [c \in 1..3 |-> Byte(info.bfOffBits + at + c - 1)]
         IN  \A c \in 1..3 : written[info.bfOffBits - Headers + at + c] = (of[1] + of[2] + of[3]) \div 3
=============================================================================
