------------------------------- MODULE Checksum -------------------------------
(***************************************************************************)
(* The Internet checksum as projects/networking/port-scanner computes it:  *)
(* a 32-bit sum of 16-bit words, folded twice and complemented.  The words *)
(* are those checksum() loads from memory.                                 *)
(***************************************************************************)
EXTENDS Integers, Sequences

Word == 0..65535

(* The sum of the words.  Sixteen of them stay below 2^20, so the 32 bits  *)
(* of sum never wrap; the buffer's length is even, so no byte is left.     *)
Sum(ws) ==
  LET s[k \in 0..Len(ws)] == IF k = 0 THEN 0 ELSE s[k - 1] + ws[k]
  IN  s[Len(ws)]

(* Mutant: the carry of the first fold is lost.                            *)
Fold_once(sum) == 65535 - (((sum \div 65536) + (sum % 65536)) % 65536)

(* checksum() once the words are summed.                                   *)
Fold(sum) ==
  LET once == (sum \div 65536) + (sum % 65536)
      twice == once + (once \div 65536)
  IN  65535 - (twice % 65536)

checksum(ws) == Fold(Sum(ws))

(* What the receiver computes (RFC 793): the one's complement sum of all   *)
(* words, the checksum among them, is all ones, that is, minus zero.       *)
Verifies(ws) == Sum(ws) > 0 /\ Sum(ws) % 65535 = 0

(* htons() and ntohs() on a little-endian machine.                         *)
htons(x) == (x % 256) * 256 + x \div 256
=============================================================================
