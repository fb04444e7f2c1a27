------------------------------- MODULE Subtype -------------------------------
(***************************************************************************)
(* How the type checker decides sub <: super on recursive types            *)
(* (types/subtype/subtype.go, checker): the greatest fixpoint of the       *)
(* subtype rules, by a depth-first derivation that assumes every pair it   *)
(* enters.  A derivation that fails withdraws the assumptions made inside  *)
(* it; the pairs that stay on the trail serve as a memo of successes, and  *)
(* refuted pairs are remembered for good, unless the depth limit had a     *)
(* part in the refutation.  A Session keeps one checker for many queries.  *)
(*                                                                         *)
(* The rules themselves are a parameter: Runs(g, p) are the ways in which  *)
(* the code for pair p can go through its goals, see SubtypeRules.         *)
(***************************************************************************)
EXTENDS Naturals, Sequences

CONSTANTS Graphs,        \* the bodies of recursive types
          Pairs,         \* what may be asked: <<sub, super>>
          Queries(_),    \* of these, what callers ask of a graph's types
          Runs(_, _),    \* runs of the rules for a pair, complete ones
          Fast(_),       \* pairs that hold before the rules are looked at
          Guarded(_),    \* needsCycleGuard of both types
          MaxDepth,      \* typ.DefaultRecursionDepth
          MaxQueries,    \* bound: queries of one session
          Truth(_)       \* a reading of <: that is a fixpoint of the rules

Step == [pair : Pairs, holds : BOOLEAN]

Yes(steps) == {steps[i].pair : i \in {j \in DOMAIN steps : steps[j].holds}}
No(steps) == {steps[i].pair : i \in {j \in DOMAIN steps : ~steps[j].holds}}

\* The rules derive p from S.  A record's rule also uses that nil is not in a
\* type, an unguarded goal that fails: it has to be false.
Follows(g, p, S) ==
    \E run \in Runs(g, p) :
        /\ run.holds
        /\ Yes(run.steps) \subseteq S
        /\ Guarded(p) => \A q \in No(run.steps) : Guarded(q) \/ q \notin Truth(g)

ASSUME LimitAssumption == MaxDepth \in Nat /\ MaxQueries \in Nat
ASSUME RunsAssumption ==
    \A g \in Graphs : \A p \in Pairs : \A run \in Runs(g, p) :
        /\ run.steps \in Seq(Step) /\ run.holds \in BOOLEAN
        /\ run.deeper \in Seq(Nat) /\ Len(run.deeper) = Len(run.steps)
\* The rules are monotone: a run fails where another succeeds only if a goal
\* failed that the other has shown, or an unguarded one the other way round.
ASSUME MonotoneAssumption ==
    \A g \in Graphs : \A p \in Pairs : \A r1, r2 \in Runs(g, p) :
        r1.holds /\ ~r2.holds =>
            \/ Yes(r1.steps) \cap No(r2.steps) # {}
            \/ Guarded(p) /\ \E q \in No(r1.steps) \cap Yes(r2.steps) : ~Guarded(q)
\* The goals of an unguarded pair are unguarded: one of the types is a
\* primitive one and stays.
ASSUME UnguardedAssumption ==
    \A g \in Graphs : \A p \in Pairs : ~Guarded(p) =>
        \A run \in Runs(g, p) : \A q \in Yes(run.steps) : ~Guarded(q)
ASSUME QueriesAssumption == \A g \in Graphs : Queries(g) \subseteq Pairs
ASSUME TruthAssumption ==
    \A g \in Graphs :
        Truth(g) = {p \in Pairs : Fast(p) \/ Follows(g, p, Truth(g))}

VARIABLES graph,    \* the types in question
          stack,    \* activations of check, oldest first
          trail,    \* the assumptions, in the order they were made
          refuted,  \* the pairs refuted for good
          cutoffs,  \* derivations stopped by the depth limit
          queries,  \* queries made
          answer    \* what the last query returned

vars == <<graph, stack, trail, refuted, cutoffs, queries, answer>>

-----------------------------------------------------------------------------
\* An activation of check: what it was asked at which depth, the trail's
\* length and cutoffs when it began, and the goals answered so far.
Frame == [pair : Pairs, depth : Nat, mark : Nat, cutoffs : Nat, steps : Seq(Step)]
NoAnswer == [pair |-> <<>>, holds |-> FALSE, sure |-> FALSE]

assumed == {trail[i] : i \in DOMAIN trail}
Top == stack[Len(stack)]
Below == SubSeq(stack, 1, Len(stack) - 1)

Init ==
    /\ graph \in Graphs
    /\ stack = <<>>
    /\ trail = <<>>
    /\ refuted = {}
    /\ cutoffs = 0
    /\ queries = 0
    /\ answer = NoAnswer

\* check(p) returns to the activations below it, or to the caller.
Return(below, p, holds, sure) ==
    IF below = <<>>
    THEN stack' = <<>> /\ answer' = [pair |-> p, holds |-> holds, sure |-> sure]
    ELSE /\ stack' = [below EXCEPT ![Len(below)].steps =
                         Append(@, [pair |-> p, holds |-> holds])]
         /\ UNCHANGED answer

\* derive, before the rules: the depth limit, reflexivity, the memos.
cutOff(below, p, depth) ==
    /\ depth > MaxDepth
    /\ cutoffs' = cutoffs + 1
    /\ Return(below, p, FALSE, FALSE)
    /\ UNCHANGED <<trail, refuted>>

settled(below, p, depth) ==
    /\ depth <= MaxDepth
    /\ \/ Fast(p) /\ Return(below, p, TRUE, TRUE)
       \/ ~Fast(p) /\ Guarded(p) /\ p \in refuted /\ Return(below, p, FALSE, TRUE)
       \/ /\ ~Fast(p) /\ Guarded(p) /\ p \notin refuted /\ p \in assumed
          /\ Return(below, p, TRUE, TRUE)
    /\ UNCHANGED <<trail, refuted, cutoffs>>

\* Mutant: a pair already on the trail is assumed again.
begunAgain(below, p, depth) ==
    /\ depth <= MaxDepth /\ ~Fast(p)
    /\ stack' = Append(below, [pair |-> p, depth |-> depth, mark |-> Len(trail),
                               cutoffs |-> cutoffs, steps |-> <<>>])
    /\ trail' = IF Guarded(p) THEN Append(trail, p) ELSE trail
    /\ UNCHANGED <<refuted, cutoffs, answer>>

\* The rules begin; a guarded pair is assumed.
begun(below, p, depth) ==
    /\ depth <= MaxDepth /\ ~Fast(p)
    /\ Guarded(p) => p \notin refuted /\ p \notin assumed
    /\ stack' = Append(below, [pair |-> p, depth |-> depth, mark |-> Len(trail),
                               cutoffs |-> cutoffs, steps |-> <<>>])
    /\ trail' = IF Guarded(p) THEN Append(trail, p) ELSE trail
    /\ UNCHANGED <<refuted, cutoffs, answer>>

check(below, p, depth) ==
    cutOff(below, p, depth) \/ settled(below, p, depth) \/ begun(below, p, depth)

\* Session.IsSubtype; IsSubtype is a session of one query.
Query(p) ==
    /\ stack = <<>>
    /\ queries < MaxQueries
    /\ queries' = queries + 1
    /\ check(<<>>, p, 0)
    /\ UNCHANGED graph

\* The rules ask for their next goal.
Goal ==
    /\ stack # <<>>
    /\ \E run \in Runs(graph, Top.pair) :
           LET i == Len(Top.steps) + 1 IN
           /\ i <= Len(run.steps)
           /\ SubSeq(run.steps, 1, i - 1) = Top.steps
           /\ check(stack, run.steps[i].pair, Top.depth + run.deeper[i])
    /\ UNCHANGED <<graph, queries>>

\* Mutant: a failed derivation keeps the successes derived inside it.
withdrawOwn(f) == SelectSeq(trail, LAMBDA p : p # f.pair)
withdraw(f) == SubSeq(trail, 1, f.mark)

\* Mutant: refutations count whether or not the depth limit was met.
refutesAlways(f) == IF Guarded(f.pair) THEN {f.pair} ELSE {}
refutes(f) == IF Guarded(f.pair) /\ f.cutoffs = cutoffs THEN {f.pair} ELSE {}

\* The rules are through.
Conclude ==
    /\ stack # <<>>
    /\ \E run \in Runs(graph, Top.pair) :
           /\ run.steps = Top.steps
           /\ trail' = IF run.holds THEN trail ELSE withdraw(Top)
           /\ refuted' = IF run.holds THEN refuted ELSE refuted \cup refutes(Top)
           /\ Return(Below, Top.pair, run.holds, Top.cutoffs = cutoffs)
    /\ UNCHANGED <<graph, cutoffs, queries>>

Next == (\E p \in Queries(graph) : Query(p)) \/ Goal \/ Conclude

Spec == Init /\ [][Next]_vars

-----------------------------------------------------------------------------
(* Properties.                                                             *)

\* Every variable has its type, and no pair is assumed twice: withdraw removes
\* the pairs behind its mark from the set of assumptions.
TypeOK ==
    /\ graph \in Graphs
    /\ stack \in Seq(Frame)
    /\ trail \in Seq(Pairs)
    /\ \A i, j \in DOMAIN trail : trail[i] = trail[j] => i = j
    /\ refuted \subseteq Pairs
    /\ cutoffs \in Nat
    /\ queries \in 0 .. MaxQueries
    /\ answer \in [pair : Pairs, holds : BOOLEAN, sure : BOOLEAN] \cup {NoAnswer}

\* What a session takes for shown, in this or an earlier query, follows by the
\* rules from what it takes for shown and from what is true: no success
\* outlives the refutation of an assumption it was derived under.  Violated
\* by a field of type nil nested to the depth limit (SubtypeNil.cfg): there
\* checkNil is cut short for both sides, and the field passes for a required one.
Proved == assumed \cup (IF answer.holds THEN {answer.pair} ELSE {})
ProvedIsConsistent ==
    stack = <<>> =>
        \A p \in Proved : Fast(p) \/ Follows(graph, p, Proved \cup Truth(graph))

\* What a session takes for refuted is not true, although it was refuted under
\* assumptions; and so is a query it denies without having met the limit.
Refused == refuted \cup (IF answer.sure /\ ~answer.holds THEN {answer.pair} ELSE {})
RefutedIsReal == Refused \cap Truth(graph) = {}

=============================================================================
