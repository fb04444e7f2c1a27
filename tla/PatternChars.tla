----------------------------- MODULE PatternChars -----------------------------
(***************************************************************************)
(* Characters of patterns and subjects, for pm (PatternSyntax and          *)
(* PatternMachine) and for the definition it is compared with (LuaPattern). *)
(* A character is a one-letter string; positions are offsets 0 .. Len(s).  *)
(***************************************************************************)
EXTENDS Integers, Sequences

\* What reading past the end gives.
Eos == "eos"

Letters == {"a", "b"}
Digits == {"1"}
Repeats == {"*", "+", "-", "?"}

\* The rank of a character in the order of the character codes (0 is below all).
Ordered == <<"$", "%", "(", ")", "*", "+", "-", ".", "0", "1", "2", "?", "[", "]", "^", "a", "b">>
Ord(ch) == CHOOSE n \in 1 .. Len(Ordered) : Ordered[n] = ch

\* The character at an offset, or Eos past the end.
At(s, i) == IF i < Len(s) THEN s[i + 1] ELSE Eos

\* Does ch belong to the class %code?  (pm.matchCharClass; letters and digits
\* stand for the ten classes, any other code stands for itself.)
InClass(code, ch) ==
    CASE code = "a" -> ch \in Letters
      [] code = "A" -> ch \notin Letters
      [] code = "d" -> ch \in Digits
      [] code = "D" -> ch \notin Digits
      [] OTHER -> ch = code
=============================================================================
