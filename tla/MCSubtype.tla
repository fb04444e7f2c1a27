----------------------------- MODULE MCSubtype -----------------------------
(***************************************************************************)
(* Types with two recursive names, their greatest fixpoint, and the runs   *)
(* of the rules for every pair that a query can lead to.                   *)
(***************************************************************************)
EXTENDS Subtype, SubtypeRules

Ro(name, t) == [name |-> name, type |-> t, optional |-> FALSE, readonly |-> TRUE]
Mutable(name, t) == [name |-> name, type |-> t, optional |-> FALSE, readonly |-> FALSE]
Record(fields) == <<"record", [fields |-> fields, open |-> FALSE, complete |-> TRUE,
                               map |-> <<>>]>>
RecA == <<"rec", "A">>
RecB == <<"rec", "B">>

\* The bodies of a recursive type: it leads back to X and has a tag.
BodiesOf(X, tag) ==
    { Record(<<Ro("x", Record(<<Ro("x", X)>>)), Ro("y", tag)>>),
      Record(<<Mutable("x", <<"opt", X>>), Mutable("y", <<"lit", "integer">>)>>),
      <<"fn", <<X>>, <<X>>>>,
      <<"inter", <<Record(<<Ro("x", X)>>), Record(<<Ro("y", tag)>>)>>>>,
      <<"union", <<Nil, Record(<<Ro("x", X)>>), <<"tuple", <<X, X>>>>>>>>,
      <<"map", Integer, X>> }

\* A leads to itself; B to itself, or to A with another tag.
MCGraphs == {[A |-> a, B |-> b] : a \in BodiesOf(RecA, Integer),
                                  b \in BodiesOf(RecB, Str) \cup BodiesOf(RecA, Number)}

\* A type inside t.
Inner(t) == CASE Kind(t) = "record" -> t[2].fields[1].type
              [] Kind(t) \in {"inter", "union"} -> t[2][2]
              [] OTHER -> t
MCQueries(g) == {RecA, RecB, Inner(g.A), <<"opt", RecA>>} \X
                {RecA, RecB, Inner(g.B), <<"union", <<RecA, RecB>>>>}

MCFast(p) == p[1] = p[2]
MCGuarded(p) == needsCycleGuard(p[1]) /\ needsCycleGuard(p[2])

\* The runs of the rules for the pairs that queries lead to: a table that grows
\* by the goals of its last rows.
RulesFor(g, S) == [p \in S |-> RunsOf(deriveStructural(g, p[1], p[2]))]
Goals(rows) == UNION {{run.steps[i].pair : i \in DOMAIN run.steps} :
                      run \in UNION {rows[p] : p \in DOMAIN rows}}
RECURSIVE Grown(_, _, _)
Grown(g, table, rows) ==
    LET next == Goals(rows) \ (DOMAIN table \cup DOMAIN rows)
    IN  IF next = {} THEN rows @@ table ELSE Grown(g, rows @@ table, RulesFor(g, next))
RunTable == [g \in MCGraphs |-> Grown(g, <<>>, RulesFor(g, MCQueries(g)))]

\* The greatest fixpoint of the rules, from above: first of the unguarded pairs.
RECURSIVE GreatestFrom(_, _)
GreatestFrom(table, S) ==
    LET known == {p \in S : ~MCGuarded(p)}
        T == {p \in S : \/ MCFast(p)
                        \/ \E run \in table[p] :
                               /\ run.holds /\ Yes(run.steps) \subseteq S
                               /\ MCGuarded(p) => No(run.steps) \cap known = {}}
    IN  IF T = S THEN S ELSE GreatestFrom(table, T)
Greatest(table) ==
    LET unguarded == {p \in DOMAIN table : ~MCGuarded(p)}
    IN  GreatestFrom(table, GreatestFrom(table, unguarded) \cup (DOMAIN table \ unguarded))

\* Both, for every graph; all pairs of the tables.
Known(tables) == [runs |-> tables, pairs |-> UNION {DOMAIN tables[g] : g \in DOMAIN tables},
                  truth |-> [g \in DOMAIN tables |-> Greatest(tables[g])]]
Facts == Known(RunTable)

Row(table, p) == IF p \in DOMAIN table THEN table[p] ELSE {}
MCPairs == Facts.pairs
MCRuns(g, p) == Row(Facts.runs[g], p)
TruthOf(facts, g) == facts.truth[g] \cup {p \in facts.pairs : MCFast(p)}
TruthTable == [g \in MCGraphs |-> TruthOf(Facts, g)]
MCTruth(g) == TruthTable[g]

\* A field of type nil, or one that has to be there, inside n records.
RECURSIVE Nested(_, _)
Nested(n, t) == Record(<<Ro("x", IF n = 0 THEN t ELSE Nested(n - 1, t))>>)
NilGraphs == {[A |-> Nil, B |-> Nil]}
NilQueries(g) == {<<Nested(n, Nil), Nested(n, t)>> : n \in 0 .. 3, t \in {Nil, Integer}}
NilTable == [g \in NilGraphs |-> Grown(g, <<>>, RulesFor(g, NilQueries(g)))]
NilFacts == Known(NilTable)
NilPairs == NilFacts.pairs
NilRuns(g, p) == Row(NilFacts.runs[g], p)
NilTruth(g) == TruthOf(NilFacts, g)
=============================================================================
