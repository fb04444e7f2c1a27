------------------------------- MODULE LuaPattern -------------------------------
(***************************************************************************)
(* What a Lua pattern matches, as the Lua manual and its reference          *)
(* matcher define it: directly over the characters of the pattern, with no  *)
(* syntax tree and no program.  pm (PatternMatch) parses the pattern,       *)
(* compiles it and runs a backtracking machine; the two are compared.       *)
(*                                                                         *)
(* Positions are offsets 0 .. Len(src), as in pm.go.  A result is           *)
(*   [kind |-> "match", end |-> e, caps |-> captures]                       *)
(*   [kind |-> "fail", ...]       no match from here                        *)
(*   [kind |-> "undefined", ...]  Lua raises an error, or gives the pattern *)
(*                                no meaning (a reference to a position     *)
(*                                capture)                                  *)
(* A capture is [from, to]; to is Open until it is closed and Position for  *)
(* an empty pair of parentheses.                                            *)
(***************************************************************************)
EXTENDS PatternChars

Open == -1
Position == -2
Malformed == -1

Result(kind, e, caps) == [kind |-> kind, end |-> e, caps |-> caps]
Fail == Result("fail", 0, <<>>)
Undefined == Result("undefined", 0, <<>>)

(***************************************************************************)
(* One character class of the pattern: where it ends and what it matches.   *)
(***************************************************************************)
RECURSIVE BracketEnd(_, _)
BracketEnd(p, j) ==
    LET k == IF At(p, j) = "%" THEN j + 2 ELSE j + 1
    IN IF k >= Len(p) THEN Malformed
       ELSE IF At(p, k) = "]" THEN k + 1
       ELSE BracketEnd(p, k)

FirstItem(p, i) == IF At(p, i + 1) = "^" THEN i + 2 ELSE i + 1

\* The offset after the class that starts at i.
ClassEnd(p, i) ==
    CASE At(p, i) = "%" -> IF i + 1 < Len(p) THEN i + 2 ELSE Malformed
      [] At(p, i) = "[" -> BracketEnd(p, FirstItem(p, i))
      [] OTHER -> i + 1

RECURSIVE ItemMatches(_, _, _, _)
ItemMatches(p, j, close, ch) ==
    /\ j < close
    /\ IF At(p, j) = "%"
       THEN InClass(At(p, j + 1), ch) \/ ItemMatches(p, j + 2, close, ch)
       ELSE IF At(p, j + 1) = "-" /\ j + 2 < close
       THEN \/ Ord(At(p, j)) <= Ord(ch) /\ Ord(ch) <= Ord(At(p, j + 2))
            \/ ItemMatches(p, j + 3, close, ch)
       ELSE At(p, j) = ch \/ ItemMatches(p, j + 1, close, ch)

SingleMatches(p, i, e, ch) ==
    /\ ch # Eos
    /\ CASE At(p, i) = "." -> TRUE
         [] At(p, i) = "%" -> InClass(At(p, i + 1), ch)
         [] At(p, i) = "[" ->
              IF At(p, i + 1) = "^" THEN ~ItemMatches(p, i + 2, e - 1, ch)
              ELSE ItemMatches(p, i + 1, e - 1, ch)
         [] OTHER -> At(p, i) = ch

(***************************************************************************)
(* Matching the pattern from offset i against the subject from offset s.    *)
(***************************************************************************)
\* The end of the shortest balanced run that starts at s, or Malformed.
Balanced(src, s, open, close) ==
    LET depth[k \in s .. Len(src)] ==
            IF k = s THEN 0
            ELSE LET ch == At(src, k - 1) IN
                 IF k - 1 > s /\ ch = close THEN depth[k - 1] - 1
                 ELSE IF ch = open THEN depth[k - 1] + 1 ELSE depth[k - 1]
        ends == {k \in s + 1 .. Len(src) : depth[k] = 0}
    IN IF At(src, s) # open \/ ends = {} THEN Malformed
       ELSE CHOOSE k \in ends : \A l \in ends : k <= l

\* How many characters from s on the class p[i .. e) takes.
RECURSIVE Run(_, _, _, _, _)
Run(src, s, p, i, e) ==
    IF SingleMatches(p, i, e, At(src, s)) THEN 1 + Run(src, s + 1, p, i, e) ELSE 0

RECURSIVE Match(_, _, _, _, _), Longest(_, _, _, _, _, _, _), Shortest(_, _, _, _, _, _, _)

\* The longest repetition of low .. high characters that the rest accepts.
Longest(src, s, p, rest, caps, low, high) ==
    IF high < low THEN Fail
    ELSE LET r == Match(src, s + high, p, rest, caps)
         IN IF r.kind = "fail" THEN Longest(src, s, p, rest, caps, low, high - 1) ELSE r

\* The shortest one.
Shortest(src, s, p, rest, caps, low, high) ==
    IF high < low THEN Fail
    ELSE LET r == Match(src, s + low, p, rest, caps)
         IN IF r.kind = "fail" THEN Shortest(src, s, p, rest, caps, low + 1, high) ELSE r

Match(src, s, p, i, caps) ==
    LET open == {k \in 1 .. Len(caps) : caps[k].to = Open}
        last == CHOOSE k \in open : \A l \in open : l <= k
        e == ClassEnd(p, i)
    IN
    IF i >= Len(p) THEN IF open = {} THEN Result("match", s, caps) ELSE Undefined
    ELSE IF At(p, i) = "(" /\ At(p, i + 1) = ")"
    THEN Match(src, s, p, i + 2, Append(caps, [from |-> s, to |-> Position]))
    ELSE IF At(p, i) = "("
    THEN Match(src, s, p, i + 1, Append(caps, [from |-> s, to |-> Open]))
    ELSE IF At(p, i) = ")"
    THEN IF open = {} THEN Undefined
         ELSE Match(src, s, p, i + 1, [caps EXCEPT ![last].to = s])
    ELSE IF At(p, i) = "%" /\ At(p, i + 1) = "b"
    THEN IF i + 3 >= Len(p) THEN Undefined
         ELSE LET k == Balanced(src, s, At(p, i + 2), At(p, i + 3))
              IN IF k = Malformed THEN Fail ELSE Match(src, k, p, i + 4, caps)
    ELSE IF At(p, i) = "%" /\ At(p, i + 1) \in {"1", "2"}
    THEN LET n == IF At(p, i + 1) = "1" THEN 1 ELSE 2
         IN IF n > Len(caps) \/ n \in open THEN Undefined
            ELSE IF caps[n].to = Position THEN Undefined
            ELSE LET taken == SubSeq(src, caps[n].from + 1, caps[n].to)
                     k == s + Len(taken)
                 IN IF k <= Len(src) /\ SubSeq(src, s + 1, k) = taken
                    THEN Match(src, k, p, i + 2, caps) ELSE Fail
    ELSE IF At(p, i) = "$" /\ i + 1 = Len(p)
    THEN IF s = Len(src) THEN Match(src, s, p, i + 1, caps) ELSE Fail
    ELSE IF e = Malformed THEN Undefined
    ELSE LET n == Run(src, s, p, i, e)
             one == IF n > 0 THEN 1 ELSE 0
         IN CASE At(p, e) = "*" -> Longest(src, s, p, e + 1, caps, 0, n)
              [] At(p, e) = "+" -> Longest(src, s, p, e + 1, caps, 1, n)
              [] At(p, e) = "?" -> Longest(src, s, p, e + 1, caps, 0, one)
              [] At(p, e) = "-" -> Shortest(src, s, p, e + 1, caps, 0, n)
              [] OTHER -> IF n > 0 THEN Match(src, s + 1, p, e, caps) ELSE Fail

Anchored(p) == At(p, 0) = "^"

\* The match from the start offset s.
MatchFrom(src, s, p) == Match(src, s, p, IF Anchored(p) THEN 1 ELSE 0, <<>>)

(***************************************************************************)
(* The successive matches of a search: each starts where the one before     *)
(* ended, or one further when that was empty.                               *)
(***************************************************************************)
RECURSIVE Search(_, _, _, _)
Search(src, s, p, limit) ==
    IF s > Len(src) \/ limit = 0 THEN <<>>
    ELSE LET r == MatchFrom(src, s, p)
             next == IF r.kind = "match" /\ r.end > s THEN r.end ELSE s + 1
             found == IF r.kind = "match"
                      THEN << [start |-> s, end |-> r.end, caps |-> r.caps] >> ELSE <<>>
         IN IF Anchored(p) THEN found
            ELSE found \o Search(src, next, p, limit - Len(found))
=================================================================================
