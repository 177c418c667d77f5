------------------------------- MODULE Hexdump -------------------------------
(***************************************************************************)
(* tools/hexdump: options, then one line of output for every opts.width    *)
(* bytes of the file: offset, data column, ASCII column.  A byte is known  *)
(* by its position in the file, a column by its width in characters.       *)
(***************************************************************************)
EXTENDS Integers, Sequences, FiniteSets, SequencesExt

CONSTANTS
  WidthArgs,     \* arguments of -w tried
  GroupArgs,     \* arguments of -g tried
  OffsetDigits,  \* digits an offset is filled up to, 8 in the program
  SizeDigits,    \* digits of the largest size_t, at most 20
  MaxBytes       \* bound: bytes in the file

ASSUME HexAssumption ==
  /\ WidthArgs \subseteq Int /\ GroupArgs \subseteq Int
  /\ OffsetDigits \in Nat /\ SizeDigits \in Nat /\ MaxBytes \in Nat

VARIABLES
  hexPc,   \* where main is
  opts,    \* hexdump_options; base: that of offset_format,
           \* cell: characters of a byte in data_format
  in,      \* what is left to read of the input file
  size,    \* bytes the input file had when hexdump was started
  offset,  \* offset of the next line
  lines    \* the output

hexVars == <<hexPc, opts, in, size, offset, lines>>

HexInit ==
  /\ hexPc = "parse_arguments"
  /\ opts = [width |-> 16, grouping |-> 1, base |-> 16, cell |-> 2, show_ascii |-> TRUE,
             show_offset |-> TRUE, output |-> "stdout"]
  /\ in = <<>> /\ size = 0 /\ offset = 0 /\ lines = <<>>

(* An option's value is stored; an invalid one ends the program.           *)
Set(field, value, valid) ==
  /\ opts' = [opts EXCEPT ![field] = value]
  /\ hexPc' = IF valid THEN hexPc ELSE "exited"

(* One option of the command line; a negative width is huge as unsigned.   *)
parse_arguments ==
  /\ hexPc = "parse_arguments"
  /\ \/ \E w \in WidthArgs : Set("width", w, w \in 1..255)
     \/ \E g \in GroupArgs : Set("grouping", g, g \in {1, 2, 4, 8})
     \/ Set("show_ascii", FALSE, TRUE)
     \/ Set("show_offset", FALSE, TRUE)
     \/ Set("base", 10, TRUE)
     \/ Set("cell", 8, TRUE)
     \/ \E name \in {"another file", "the input file"} : Set("output", name, TRUE)
     \/ hexPc' = "exited" /\ UNCHANGED opts        \* -h, or an unknown option
  /\ UNCHANGED <<in, size, offset, lines>>

(* The options end: no file name, a file that cannot be opened, or the two *)
(* fopen() calls in their order, the second of which empties its file.     *)
open_files ==
  /\ hexPc = "parse_arguments"
  /\ \/ hexPc' = "exited" /\ UNCHANGED <<in, size>>
     \/ /\ hexPc' = "hexdump" /\ size' \in 0..MaxBytes
        /\ in' = IF opts.output = "the input file" THEN <<>> ELSE [a \in 1..size' |-> a]
  /\ UNCHANGED <<opts, offset, lines>>

(* "%08zX:  " or "%08zu:  ": eight digits, or more for an offset that has  *)
(* more.                                                                   *)
Digits(o) == 1 + Cardinality({d \in 1..SizeDigits - 1 : opts.base ^ d <= o})
Fits(o) == o < opts.base ^ OffsetDigits
print_offset(o) ==
  IF opts.show_offset THEN (IF Fits(o) THEN OffsetDigits ELSE Digits(o)) + 3 ELSE 0

Separators(S) == 2 * Cardinality({a \in S : a > 0 /\ a % opts.grouping = 0})

(* Mutant: the padding of a short line begins its groups anew.             *)
print_data_regrouped(n) ==
  opts.width * opts.cell + Separators(0..n - 1) + Separators(0..opts.width - n - 1)

(* Width of the data column for n bytes: the bytes, then the padding, each *)
(* position behind a separator when it begins a group.                     *)
print_data(n) ==
  n * opts.cell + Separators(0..n - 1)
    + (opts.width - n) * opts.cell + Separators({n + a : a \in 0..opts.width - n - 1})

Line(bytes) ==
  [offset |-> IF opts.show_offset THEN offset ELSE -1, bytes |-> bytes,
   ascii_at |-> IF opts.show_ascii THEN print_offset(offset) + print_data(Len(bytes)) ELSE -1]

(* Mutant: a short last line is left out.                                  *)
hexdump_full_lines ==
  /\ hexPc = "hexdump" /\ in # <<>>
  /\ IF Len(in) < opts.width THEN in' = <<>> /\ UNCHANGED lines
     ELSE /\ lines' = Append(lines, Line(SubSeq(in, 1, opts.width)))
          /\ in' = SubSeq(in, opts.width + 1, Len(in))
  /\ offset' = offset + opts.width
  /\ UNCHANGED <<hexPc, opts, size>>

(* fread() of up to width bytes, and a line when it read any.              *)
hexdump ==
  /\ hexPc = "hexdump" /\ in # <<>>
  /\ LET n == Min({Len(in), opts.width}) IN
     /\ lines' = Append(lines, Line(SubSeq(in, 1, n)))
     /\ in' = SubSeq(in, n + 1, Len(in))
     /\ offset' = offset + n
  /\ UNCHANGED <<hexPc, opts, size>>

hexdump_ends ==
  /\ hexPc = "hexdump" /\ in = <<>>
  /\ hexPc' = "returned" /\ UNCHANGED <<opts, in, size, offset, lines>>

HexNext == parse_arguments \/ open_files \/ hexdump \/ hexdump_ends
HexSpec == HexInit /\ [][HexNext]_hexVars

-----------------------------------------------------------------------------
(* print_data pads a short line so that its ASCII column begins where that *)
(* of every other line does, whatever the width, grouping and format, as   *)
(* far as the offsets fit into the eight digits they are filled up to.     *)
HexAligned ==
  \A a, b \in DOMAIN lines :
    Fits(lines[a].offset) /\ Fits(lines[b].offset) => lines[a].ascii_at = lines[b].ascii_at

(* When hexdump() returns every byte of the file has been printed, once    *)
(* and in order: line a holds the next width bytes behind those of the     *)
(* lines before it, or what is left of them, with the offset of the first. *)
(* Dumping into the input file itself is the exception: fopen() has        *)
(* emptied it.                                                             *)
HexComplete ==
  hexPc = "returned" /\ opts.output # "the input file" =>
    /\ size <= opts.width * Len(lines)
    /\ \A a \in DOMAIN lines :
         LET at == opts.width * (a - 1)
         IN  /\ at < size /\ lines[a].bytes = [b \in 1..Min({opts.width, size - at}) |-> at + b]
             /\ opts.show_offset => lines[a].offset = at
=============================================================================
