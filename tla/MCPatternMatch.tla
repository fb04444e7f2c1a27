----------------------------- MODULE MCPatternMatch -----------------------------
(***************************************************************************)
(* Patterns are put together from pieces, so that most of them mean         *)
(* something; the raw ones exercise the parser's corners.                   *)
(***************************************************************************)
EXTENDS PatternMatch

Pieces == {<<"a">>, <<"b", "?">>, <<".", "*">>, <<"a", "-">>, <<".", "+">>, <<"[", "^", "a", "]">>,
           <<"[", "]", "-", "b", "]">>, <<"%", "A">>, <<"(">>, <<")">>, <<"(", ")">>,
           <<"(", ".", "-", ")">>, <<"%", "1">>, <<"%", "b", "a", "b">>, <<"$">>}
Raw == {"a", "*", "-", "^", "$", "(", ")", "%", "[", "]", "0"}
MCPatterns ==
    {<<>>, <<"(", "(", "a", ")", "%", "1", ")">>} \cup Pieces
    \cup {x \o y : x, y \in Pieces}
    \cup {x \o y \o z : x, y, z \in Pieces}
    \cup {<<"^">> \o x \o y : x, y \in Pieces}
    \cup {<<x, y>> : x, y \in Raw}
PiecesCompiled == [p \in Pieces |-> getCompiledPattern(p)]
MCCompiled == [p \in MCPatterns |-> getCompiledPattern(p)]
MCLimits == {-1, 1}
MCSubjects == {<<>>, <<"b", "a", "a">>, <<"a", "b", "a", "b">>}
=================================================================================
