------------------------------- MODULE CText -------------------------------
(***************************************************************************)
(* Text as the C library and the functions that                            *)
(* src/generator/module/core emits see it: what the runtime calls a string *)
(* has a length, what it hands to the C library ends at the first zero     *)
(* byte, and fgets returns a piece of a line when the line is longer than  *)
(* the buffer.                                                             *)
(***************************************************************************)
EXTENDS Naturals, Sequences, SequencesExt

CONSTANTS
  NL, NUL,     (* a line feed and a zero byte                              *)
  Letters,     (* all other characters                                     *)
  Zeros,       (* bound: {NUL} if texts with zero bytes are considered     *)
  MaxText,     (* bound: the characters of a text                          *)
  BufferSize,  (* of the buffers, which are 4096 characters in the code    *)
  Fallible     (* the functions of the C library that may fail             *)

ASSUME TextAssumption ==
  /\ NL # NUL /\ Letters \cap {NL, NUL} = {} /\ Zeros \subseteq {NUL}
  /\ MaxText \in Nat /\ BufferSize \in Nat \ {0, 1}
  /\ Fallible \subseteq {"fopen", "fseek", "fread", "fwrite", "fclose", "tmpfile", "popen"}

Chars == Letters \cup {NL} \cup Zeros
Texts == UNION {[1 .. n -> Chars] : n \in 0 .. MaxText}

Shorter(m, n) == IF m < n THEN m ELSE n

(* The first place with one of these characters. *)
FirstIn(text, chars, otherwise) ==
  IF \E i \in DOMAIN text : text[i] \in chars
  THEN CHOOSE i \in DOMAIN text : text[i] \in chars /\ \A j \in 1 .. i - 1 : text[j] \notin chars
  ELSE otherwise

(* What strlen, and who counts with it, takes a buffer for. *)
CString(text) == SubSeq(text, 1, FirstIn(text, {NUL}, Len(text) + 1) - 1)

(* fgets: up to the end of the line, or what fits next to the terminator. *)
fgets(text) == SubSeq(text, 1, Shorter(FirstIn(text, {NL}, Len(text)), BufferSize - 1))

(* A text without its first n characters. *)
After(text, n) == SubSeq(text, n + 1, Len(text))

(* A line without the line feed at its end. *)
Stripped(line) == IF line # << >> /\ Last(line) = NL THEN Front(line) ELSE line

(* Lines put together again, each with a line feed behind it. *)
Unlines(lines) == FlattenSeq([i \in DOMAIN lines |-> Append(lines[i], NL)])

(* Are these the lines of the text?  None has a line feed in it, and
   together they are the text, whose last line feed may be missing. *)
AreLinesOf(lines, text) ==
  /\ \A i \in DOMAIN lines : NL \notin {lines[i][j] : j \in DOMAIN lines[i]}
  /\ Unlines(lines) = IF text = << >> \/ Last(text) = NL THEN text ELSE Append(text, NL)
=============================================================================
