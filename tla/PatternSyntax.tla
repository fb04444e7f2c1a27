----------------------------- MODULE PatternSyntax -----------------------------
(***************************************************************************)
(* The parser and the compiler of pm (pm/pm.go): a pattern is parsed into  *)
(* nodes and compiled to the instructions of PatternMachine.  The nesting  *)
(* limit of 200 is left out.                                               *)
(***************************************************************************)
EXTENDS PatternChars, SequencesExt

(***************************************************************************)
(* The parser.  An operator takes the offset of the next character and      *)
(* answers the offset after what it consumed; Refused is its error.         *)
(***************************************************************************)
Refused == [ok |-> FALSE]
Literal(ch) == [class |-> "literal", char |-> ch]
Single(cls) == [node |-> "single", class |-> cls]

\* The offset after one more character; the scanner stays at the end.
After(p, i) == IF i < Len(p) THEN i + 1 ELSE i

Bound(cls) == IF cls.class = "literal" THEN Ord(cls.char) ELSE 0

\* A class inside a set: '.' and '[' are literals there.
SetItem(p, i) ==
    IF At(p, i) = "%" THEN [class |-> "single", char |-> At(p, i + 1)] ELSE Literal(At(p, i))

RECURSIVE ParseItems(_, _, _, _)
ParseItems(p, i, classes, pending) ==
    LET ch == At(p, i)
        cls == SetItem(p, i)
        next == IF ch = "%" THEN After(p, i + 1) ELSE i + 1
    IN IF ch = "]" /\ classes # <<>>
       THEN [ok |-> TRUE, next |-> i + 1,
             classes |-> IF pending THEN Append(classes, Literal("-")) ELSE classes]
       ELSE IF ch = Eos THEN Refused
       ELSE IF ch = "-" /\ classes # <<>> /\ ~pending THEN ParseItems(p, i + 1, classes, TRUE)
       ELSE IF pending
       THEN ParseItems(p, next,
                       Append(Front(classes),
                              [class |-> "range", begin |-> Bound(Last(classes)), end |-> Bound(cls)]),
                       FALSE)
       ELSE ParseItems(p, next, Append(classes, cls), FALSE)

parseClassSet(p, i) ==
    LET negated == At(p, i) = "^"
        set == ParseItems(p, IF negated THEN i + 1 ELSE i, <<>>, FALSE)
    IN IF ~set.ok THEN Refused
       ELSE [ok |-> TRUE, next |-> set.next,
             class |-> [class |-> "set", negated |-> negated, classes |-> set.classes]]

parseClass(p, i) ==
    CASE At(p, i) = "%" ->
           [ok |-> TRUE, next |-> After(p, i + 1), class |-> [class |-> "single", char |-> At(p, i + 1)]]
      [] At(p, i) = "." -> [ok |-> TRUE, next |-> i + 1, class |-> [class |-> "dot"]]
      [] At(p, i) = "[" -> parseClassSet(p, i + 1)
      [] OTHER -> [ok |-> TRUE, next |-> i + 1, class |-> Literal(At(p, i))]

SingleNode(c) ==
    IF c.ok THEN [ok |-> TRUE, next |-> c.next, node |-> Single(c.class)] ELSE Refused

parseEscape(p, i) ==
    LET ch == At(p, i + 1)
    IN CASE ch = "0" -> Refused
         [] ch \in {"1", "2"} ->
              [ok |-> TRUE, next |-> i + 2,
               node |-> [node |-> "number", index |-> IF ch = "1" THEN 1 ELSE 2]]
         [] ch = "b" ->
              [ok |-> TRUE, next |-> After(p, After(p, i + 2)),
               node |-> [node |-> "brace", begin |-> At(p, i + 2), end |-> At(p, i + 3)]]
         [] OTHER -> SingleNode(parseClass(p, i))

\* A repetition sign repeats a single class and stands for itself elsewhere.
parseRepeat(nodes, ch) ==
    IF nodes # <<>> /\ Last(nodes).node = "single"
    THEN Append(Front(nodes), [node |-> "repeat", kind |-> ch, class |-> Last(nodes).class])
    ELSE Append(nodes, Single(Literal(ch)))

RECURSIVE ParseNodes(_, _, _, _)

\* A mutant of parseCapture: ')' is looked for one character late.
MutantParseCapture(p, i) ==
    LET inner == ParseNodes(p, i + 1, FALSE, <<>>)
    IN IF At(p, i + 1) = ")" THEN [ok |-> TRUE, next |-> i + 2, node |-> [node |-> "posCap"]]
       ELSE IF ~inner.ok \/ At(p, inner.next + 1) # ")" THEN Refused
       ELSE [ok |-> TRUE, next |-> inner.next + 1, node |-> [node |-> "cap", inner |-> inner.nodes]]

\* A capture, or a position capture, whose '(' is at i.
parseCapture(p, i) ==
    LET inner == ParseNodes(p, i + 1, FALSE, <<>>)
    IN IF At(p, i + 1) = ")" THEN [ok |-> TRUE, next |-> i + 2, node |-> [node |-> "posCap"]]
       ELSE IF ~inner.ok \/ At(p, inner.next) # ")" THEN Refused
       ELSE [ok |-> TRUE, next |-> inner.next + 1, node |-> [node |-> "cap", inner |-> inner.nodes]]

ParseNodes(p, i, topLevel, nodes) ==
    LET ch == At(p, i)
        Add(r) == IF r.ok THEN ParseNodes(p, r.next, topLevel, Append(nodes, r.node)) ELSE Refused
        Parsed(mustTail, next) ==
            [ok |-> TRUE, next |-> next, nodes |-> nodes, mustTail |-> mustTail]
        literal == [ok |-> TRUE, next |-> i + 1, node |-> Single(Literal(ch))]
    IN CASE ch = "%" -> Add(parseEscape(p, i))
         [] ch \in {".", "[", "]"} -> Add(SingleNode(parseClass(p, i)))
         [] ch = ")" -> IF topLevel THEN Refused ELSE Parsed(FALSE, i)
         [] ch = "(" -> Add(parseCapture(p, i))
         [] ch \in Repeats -> ParseNodes(p, i + 1, topLevel, parseRepeat(nodes, ch))
         [] ch = "$" -> IF topLevel /\ i + 1 = Len(p) THEN Parsed(TRUE, i + 1) ELSE Add(literal)
         [] ch = Eos -> Parsed(FALSE, i)
         [] OTHER -> Add(literal)

parsePattern(p) == ParseNodes(p, IF At(p, 0) = "^" THEN 1 ELSE 0, TRUE, <<>>)

(***************************************************************************)
(* The compiler.  Instructions are numbered from 0.                         *)
(***************************************************************************)
Inst(op, x, y) == [op |-> op, x |-> x, y |-> y, class |-> [class |-> "dot"]]
Char(cls) == [op |-> "char", x |-> -1, y |-> -1, class |-> cls]

\* A mutant of compileRepeat: '*' wants one character, as '+' does.
MutantCompileRepeat(idx, pat) ==
    CASE pat.kind \in {"*", "+"} -> <<Char(pat.class), Inst("split", idx, idx + 2)>>
      [] pat.kind = "-" ->
           <<Inst("split", idx + 3, idx + 1), Char(pat.class), Inst("jmp", idx, -1)>>
      [] pat.kind = "?" -> <<Inst("split", idx + 1, idx + 2), Char(pat.class)>>

compileRepeat(idx, pat) ==
    CASE pat.kind = "*" ->
           <<Inst("split", idx + 1, idx + 3), Char(pat.class), Inst("jmp", idx, -1)>>
      [] pat.kind = "+" -> <<Char(pat.class), Inst("split", idx, idx + 2)>>
      [] pat.kind = "-" ->
           <<Inst("split", idx + 3, idx + 1), Char(pat.class), Inst("jmp", idx, -1)>>
      [] pat.kind = "?" -> <<Inst("split", idx + 1, idx + 2), Char(pat.class)>>

\* The builder after some more instructions and capture slots.
Emit(builder, code, slots) ==
    [insts |-> builder.insts \o code, slot |-> builder.slot + slots]

RECURSIVE CompileNodes(_, _)
compileNode(builder, pat) ==
    LET slot == builder.slot
    IN CASE pat.node = "single" -> Emit(builder, <<Char(pat.class)>>, 0)
         [] pat.node = "repeat" -> Emit(builder, compileRepeat(Len(builder.insts), pat), 0)
         [] pat.node = "posCap" -> Emit(builder, <<Inst("psave", slot, -1)>>, 2)
         [] pat.node = "cap" ->
              Emit(CompileNodes(Emit(builder, <<Inst("save", slot, -1)>>, 2), pat.inner),
                   <<Inst("save", slot + 1, -1)>>, 0)
         [] pat.node = "brace" -> Emit(builder, <<Inst("brace", pat.begin, pat.end)>>, 0)
         [] pat.node = "number" -> Emit(builder, <<Inst("number", pat.index, -1)>>, 0)

CompileNodes(builder, nodes) ==
    IF nodes = <<>> THEN builder ELSE CompileNodes(compileNode(builder, Head(nodes)), Tail(nodes))

compilePattern(pat) ==
    CompileNodes([insts |-> <<Inst("save", 0, -1)>>, slot |-> 2], pat.nodes).insts
    \o <<Inst("save", 1, -1), Inst(IF pat.mustTail THEN "tailMatch" ELSE "match", -1, -1)>>

\* What Find runs for the pattern p.
getCompiledPattern(p) ==
    LET pat == parsePattern(p)
    IN IF pat.ok THEN [ok |-> TRUE, insts |-> compilePattern(pat)] ELSE Refused
=============================================================================
