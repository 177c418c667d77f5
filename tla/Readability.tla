----------------------------- MODULE Readability -----------------------------
(***************************************************************************)
(* tools/text-readability: main loads a text, parser counts its letters,   *)
(* words and sentences in one pass, and the Coleman-Liau index follows.    *)
(***************************************************************************)
EXTENDS Integers, Sequences, FiniteSets, FiniteSetsExt

CONSTANTS
  FloatMax,    \* where a float that is counted up stops: 2^24 in the program
  MaxText,     \* bound: characters in the file
  ReadFaults   \* calls that may fail

ASSUME ReadAssumption ==
  FloatMax \in Nat \ {0} /\ MaxText \in Nat /\ ReadFaults \subseteq {"fopen", "malloc", "ftell"}

VARIABLES
  readPc,      \* where main is
  buffer,      \* the text
  k,           \* characters parsed, parser's i
  state,       \* parser's state
  stack,       \* what the uninitialised state held when parser began
  letters, words, sentences, grade

readVars == <<readPc, buffer, k, state, stack, letters, words, sentences, grade>>

(* Characters by what parser distinguishes.                                *)
Stops == {"!", "?", "."}
Char == {"alpha", "blank", "newline", "NUL", "other"} \cup Stops
IsSpace(c) == c \in {"blank", "newline"}

ReadInit ==
  /\ readPc = "fopen" /\ buffer = <<>> /\ k = 0 /\ state = "other" /\ stack = "other"
  /\ letters = 0 /\ words = 1 /\ sentences = 0 /\ grade = "none"

(* The trailing newlines are cut off, then strlen() stops at a NUL.        *)
Text(file) ==
  LET n == Max({0} \cup {a \in DOMAIN file : file[a] # "newline"})
      nul == {a \in 1..n : file[a] = "NUL"}
  IN  SubSeq(file, 1, IF nul = {} THEN n ELSE Min(nul) - 1)

(* The file is read in one piece; ftell() fails on what cannot be sought,  *)
(* and its -1 becomes the size of the read.                                *)
read_text ==
  /\ readPc = "fopen"
  /\ \/ /\ readPc' = "parser"
        /\ \E n \in 0..MaxText : \E file \in [1..n -> Char] : buffer' = Text(file)
        /\ stack' \in {"IN_WORD", "OUT_WORD", "other"} /\ state' = stack'
     \/ /\ ReadFaults \cap {"fopen", "malloc"} # {} /\ readPc' = "exited"
        /\ UNCHANGED <<buffer, state, stack>>
     \/ /\ "ftell" \in ReadFaults /\ readPc' = "undefined"
        /\ UNCHANGED <<buffer, state, stack>>
  /\ UNCHANGED <<k, letters, words, sentences, grade>>

(* ++ on a float: the next number is rounded back once it has no place.    *)
Incr(x) == IF x < FloatMax THEN x + 1 ELSE x

(* Mutant: a newline is no space.                                          *)
CountWord_blanks(c) ==
  IF c = "blank" THEN state' = "OUT_WORD" /\ UNCHANGED words
  ELSE IF state = "OUT_WORD" THEN state' = "IN_WORD" /\ words' = Incr(words)
  ELSE UNCHANGED <<state, words>>

CountWord(c) ==
  IF IsSpace(c) THEN state' = "OUT_WORD" /\ UNCHANGED words
  ELSE IF state = "OUT_WORD" THEN state' = "IN_WORD" /\ words' = Incr(words)
  ELSE UNCHANGED <<state, words>>

(* One character.                                                          *)
parser ==
  /\ readPc = "parser" /\ k < Len(buffer)
  /\ k' = k + 1
  /\ LET c == buffer[k + 1] IN
     /\ letters' = IF c = "alpha" THEN Incr(letters) ELSE letters
     /\ CountWord(c)
     /\ sentences' = IF k > 0 /\ c \in Stops /\ buffer[k] # c THEN Incr(sentences) ELSE sentences
  /\ UNCHANGED <<readPc, buffer, stack, grade>>

(* round(n / d) for d > 0: halves go away from zero.                       *)
round(n, d) == IF n >= 0 THEN (2 * n + d) \div (2 * d) ELSE -((d - 2 * n) \div (2 * d))

(* The formula with its decimals over the common denominator 100 * words.  *)
index == round(588 * letters - 2960 * sentences - 1580 * words, 100 * words)

print(ix) ==
  CASE ix < 1 -> "kindergarten" [] ix \in 1..6 -> "primary" [] ix \in 7..12 -> "grades[]"
    [] ix \in 13..15 -> "th grade" [] OTHER -> "16+"

read_ends ==
  /\ readPc = "parser" /\ k = Len(buffer)
  /\ readPc' = "returned" /\ grade' = print(index)
  /\ UNCHANGED <<buffer, k, state, stack, letters, words, sentences>>

ReadNext == read_text \/ parser \/ read_ends
ReadSpec == ReadInit /\ [][ReadNext]_readVars

-----------------------------------------------------------------------------
(* The words of what was parsed: maximal runs without spaces.              *)
Words == Cardinality({a \in 1..k : ~IsSpace(buffer[a]) /\ (a = 1 \/ IsSpace(buffer[a - 1]))})

(* parser counts every word once whatever surrounds it.  The 1 it starts   *)
(* from stands for a first word that its state machine does not see begin, *)
(* so the count is one too high exactly when there is no word yet, when    *)
(* the text begins with a space, or when the variable state happens to     *)
(* hold OUT_WORD at the start; and a float counts no further than 2^24.    *)
WordsCounted ==
  words = Min({FloatMax,
               Words + (IF Words = 0 \/ IsSpace(buffer[1]) \/ stack = "OUT_WORD" THEN 1 ELSE 0)})
=============================================================================
