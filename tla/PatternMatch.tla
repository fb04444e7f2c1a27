----------------------------- MODULE PatternMatch -----------------------------
(***************************************************************************)
(* Lua pattern matching, put together: a pattern is parsed and compiled    *)
(* (PatternSyntax) and run (PatternMachine), and what Find answers is      *)
(* compared with what Lua defines (LuaPattern).                            *)
(***************************************************************************)
EXTENDS PatternSyntax, PatternMachine, LuaPattern

\* The captures the reference finds, as the values the callers push.
ReferenceValues(r) ==
    IF r.caps = <<>> THEN <<[string |-> Slice(r.start, r.end)]>>
    ELSE [k \in 1 .. Len(r.caps) |->
            IF r.caps[k].to = Position THEN [position |-> r.caps[k].from + 1]
            ELSE [string |-> Slice(r.caps[k].from, r.caps[k].to)]]

Same(md, r) ==
    /\ Capture(md, 0) = r.start
    /\ Capture(md, 1) = r.end
    /\ Values(md) = ReferenceValues(r)

Reference == [s \in find0 .. Len(src) |-> MatchFrom(src, s, pattern)]

\* Find answers exactly the successive matches Lua defines, with Lua's choice
\* among the possible repetitions and Lua's captures, for every pattern Lua gives
\* a meaning on this subject and as long as no run was given up.
FindAgrees ==
    status = "done" /\ ~gaveUp /\ (\A s \in DOMAIN Reference : Reference[s].kind # "undefined")
    => LET expected == Search(src, find0, pattern, limit)
       IN /\ Len(matches) = Len(expected)
          /\ \A k \in 1 .. Len(expected) : Same(matches[k], expected[k])

\* A run that is given up only loses matches: whatever Find reports is the match
\* Lua finds from the same start, also after a budget was spent (MaxBacktracks).
NeverInventsMatch ==
    status = "done" =>
        \A k \in 1 .. Len(matches) :
            LET s == Capture(matches[k], 0)
                r == MatchFrom(src, s, pattern)
            IN /\ s \in Offsets
               /\ r.kind # "fail"
               /\ r.kind = "match" => Same(matches[k], [start |-> s, end |-> r.end, caps |-> r.caps])

\* A pattern the parser refuses has no match in Lua either: parsing up front does
\* not reject what the reference matcher, which reads the pattern as it goes,
\* would have matched.
RefusalIsRight ==
    status = "error" => \A s \in DOMAIN Reference : Reference[s].kind # "match"
=============================================================================
