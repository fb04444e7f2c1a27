------------------------------ MODULE Fixpoint ------------------------------
(***************************************************************************)
(* The interprocedural fixpoint of the type checker: the driver of         *)
(* compiler/check/pipeline/driver.go and the session store of              *)
(* compiler/check/store/store.go.                                          *)
(*                                                                         *)
(* A chunk is a tree of function graphs.  Each round visits every graph,   *)
(* a parent before the functions nested in it.  A visit infers the return  *)
(* summaries of the graph's local functions, then analyses the graph or    *)
(* takes its result of an earlier round, and writes what the result says   *)
(* into the snapshot under construction.  The analysis reads only the      *)
(* stable snapshot and the literal signatures its parent wrote this round. *)
(* At the end of the round the two snapshots are merged, and the driver    *)
(* stops when no channel changed or the round budget is spent.             *)
(*                                                                         *)
(* What the worklist schedule rests on is modelled in full: every snapshot *)
(* entry has a version, an analysis records the versions of the entries it *)
(* read, and a result is taken again when none of them has another version.*)
(*                                                                         *)
(* The analysis itself is an unknown function of the entries it reads.     *)
(* analysis holds what is known of it so far: a visit that applies it to   *)
(* inputs seen before gets the same answer, any other answer is possible   *)
(* for new inputs.  Types stand for themselves, a fact is a set of types   *)
(* and widening is union.  Of the channels of a graph's bundle two are     *)
(* kept, callables (written upwards) and captured types (written           *)
(* downwards): the others are written, widened and versioned as they are.  *)
(***************************************************************************)
EXTENDS Integers, Sequences, FiniteSets

CONSTANTS
    Graphs,        \* the function graphs of the chunk
    Root,          \* the chunk itself
    Parent,        \* the enclosing graph of every other graph
    Order,         \* the visiting order: parents before their nested functions
    Callees,       \* the graphs whose refinement the analysis of a graph reads
    Refines,       \* the functions whose analysis may infer a refinement
    Types,         \* the types facts are made of
    Refinements,   \* the refinements a function may have
    None,          \* no refinement, no result
    Rounds         \* the round budget (budget.go)

ASSUME FixpointAssumption ==
    /\ Root \in Graphs
    /\ Parent \in [Graphs \ {Root} -> Graphs]
    /\ Order \in Seq(Graphs)
    /\ \A g \in Graphs : \E i \in 1 .. Len(Order) : Order[i] = g
    /\ \A i, j \in 1 .. Len(Order) : i # j => Order[i] # Order[j]
    /\ \A i \in 1 .. Len(Order) :
          Order[i] # Root =>
             \E j \in 1 .. i - 1 : Order[j] = Parent[Order[i]]
    /\ Callees \in [Graphs -> SUBSET Graphs]
    /\ Refines \subseteq Graphs \ {Root}
    /\ None \notin Refinements
    /\ Rounds \in Nat \ {0}

VARIABLES
    prev,          \* InterprocPrev: the stable snapshot the round reads
    next,          \* InterprocNext: what the round has written so far
    scratch,       \* Scratch.SigsByGraphID: literal signatures of this round
    observed,      \* scratchObserved: the scratch the versions speak of
    version,       \* factVersions
    nextVersion,   \* nextFactVersion
    cached,        \* Driver.results: last analysis of each graph, with its reads
    results,       \* Session.Results: the results the chunk is left with
    round, pos,    \* the round, and the next graph of Order to visit
    status,        \* the loop is running, converged or out of rounds
    analysis,      \* the unknown analysis, as far as it has been applied
    inference      \* the unknown return inference, as far as it has been applied

vars == <<prev, next, scratch, observed, version, nextVersion, cached, results,
          round, pos, status, analysis, inference>>

-----------------------------------------------------------------------------
(* Snapshots, entries and their versions.                                  *)

Facts == [Graphs -> SUBSET Types]

NewInterprocState ==
    [callables   |-> [g \in Graphs |-> {}],
     captured    |-> [g \in Graphs |-> {}],
     refinements |-> [g \in Graphs |-> None]]

Snapshots == [callables : Facts, captured : Facts,
              refinements : [Graphs -> Refinements \cup {None}]]

SnapshotKeys == {"callables", "captured", "refinements"} \X Graphs

FactKeys == SnapshotKeys \cup ({"scratch"} \X Graphs)

\* The entry key stands for in snapshot s with the literal signatures sigs.
Entry(s, sigs, key) ==
    IF key[1] = "scratch" THEN sigs[key[2]] ELSE s[key[1]][key[2]]

\* The entries the analysis of g reads: its own bundle, its parent's callables
\* and literal signatures, and the refinements of what it calls.
Reads(g) ==
    ({"callables", "captured"} \X {g})
        \cup ({"refinements"} \X Callees[g])
        \cup (IF g = Root THEN {} ELSE {"callables", "scratch"} \X {Parent[g]})

\* Mutant: the view of refinements does not record what is read through it.
MutantRecorded(g) == Reads(g) \ ({"refinements"} \X Graphs)

\* recordFactRead: the entries whose versions the analysis of g leaves in its
\* read set.  Every accessor records what it returns.
Recorded(g) == Reads(g)

Inputs(g) == [key \in Reads(g) |-> Entry(prev, scratch, key)]

\* What an analysis says: the function's own returns (for its parent's
\* callables), the signatures of its literals, the types its nested functions
\* capture, its refinement.
Outputs == [ret : SUBSET Types, sigs : SUBSET Types, cap : SUBSET Types,
            ref : Refinements \cup {None}]

Nested(g) == {c \in Graphs \ {Root} : Parent[c] = g}

\* The outputs an analysis of g can have at all: the chunk returns to nobody,
\* a function without nested ones has no literals and nothing they capture.
OutputsOf(g) ==
    {o \in Outputs :
        /\ g = Root => o.ret = {}
        /\ Nested(g) = {} => o.sigs = {} /\ o.cap = {}
        /\ g \notin Refines => o.ref = None}

\* The answers the unknown function may give to an argument.
Answers(function, argument, range) ==
    LET known == {a \in function : a[1] = argument}
    IN  IF known = {} THEN range ELSE {a[2] : a \in known}

-----------------------------------------------------------------------------
(* refreshScratchVersion: the literal signatures are versioned when they   *)
(* are looked at, by comparison with what was seen last.                   *)

Stale(g) == g # Root /\ scratch[Parent[g]] # observed[Parent[g]]

RefreshedObserved(g) ==
    IF Stale(g) THEN [observed EXCEPT ![Parent[g]] = scratch[Parent[g]]]
                ELSE observed

RefreshedNextVersion(g) == IF Stale(g) THEN nextVersion + 1 ELSE nextVersion

RefreshedVersion(g) ==
    IF Stale(g) THEN [version EXCEPT ![<<"scratch", Parent[g]>>] = nextVersion + 1]
                ELSE version

\* The graph has a result, and no entry it read has another version now.
FactsUnchanged(g) ==
    /\ cached[g] # None
    /\ \A key \in Recorded(g) : RefreshedVersion(g)[key] = cached[g].reads[key]

-----------------------------------------------------------------------------
(* One visit: checkFunctionFixpoint up to the nested functions, which are  *)
(* the next graphs of Order.                                               *)

\* What a visit adds to the snapshot under construction: the return summaries
\* of g's local functions, then what its result says.
Published(g, summary, out) ==
    [callables |->
        [h \in Graphs |->
            next.callables[h]
                \cup (IF h = g THEN summary \cup out.sigs ELSE {})
                \cup (IF g # Root /\ h = Parent[g] THEN out.ret ELSE {})],
     captured |->
        [h \in Graphs |->
            next.captured[h] \cup (IF h \in Nested(g) THEN out.cap ELSE {})],
     refinements |->
        IF out.ref # None THEN [next.refinements EXCEPT ![g] = out.ref]
                          ELSE next.refinements]

\* runReturnInference: what it can say of g's local functions depends on the
\* stable callables and on g's own result, which is still the one of the
\* previous round.
ReturnArgument(g) ==
    <<g, prev.callables[g],
      IF results[g] = None THEN {} ELSE results[g].out.cap>>

Summaries(g) ==
    IF Nested(g) = {} THEN {{}} ELSE Answers(inference, ReturnArgument(g), SUBSET Types)

Visiting(g) == status = "running" /\ pos <= Len(Order) /\ Order[pos] = g

\* recordFunctionResult, storeFunctionRefinement, StoreFactsFromResult and the
\* captured types processNestedFunctions persists.
Publish(g, summary, result) ==
    /\ results' = [results EXCEPT ![g] = result]
    /\ next' = Published(g, summary, result.out)
    /\ scratch' = [scratch EXCEPT ![g] = result.out.sigs]
    /\ pos' = pos + 1
    /\ UNCHANGED <<prev, round, status>>

Refresh(g) ==
    /\ observed' = RefreshedObserved(g)
    /\ version' = RefreshedVersion(g)
    /\ nextVersion' = RefreshedNextVersion(g)

\* The result of an earlier round is taken again.
Reuse(g) ==
    /\ Visiting(g)
    /\ FactsUnchanged(g)
    /\ \E summary \in Summaries(g) :
          /\ Publish(g, summary, cached[g].result)
          /\ inference' = inference \cup {<<ReturnArgument(g), summary>>}
    /\ Refresh(g)
    /\ UNCHANGED <<cached, analysis>>

\* The graph is analysed; the memo of analyses was cleared when the round began.
Analyse(g) ==
    /\ Visiting(g)
    /\ ~FactsUnchanged(g)
    /\ \E summary \in Summaries(g),
           out \in Answers(analysis, <<g, Inputs(g)>>, OutputsOf(g)) :
          LET result == [in |-> Inputs(g), out |-> out]
          IN  /\ Publish(g, summary, result)
              /\ inference' = inference \cup {<<ReturnArgument(g), summary>>}
              /\ analysis' = analysis \cup {<<<<g, Inputs(g)>>, out>>}
              /\ cached' = [cached EXCEPT ![g] =
                    [result |-> result,
                     reads  |-> [key \in Recorded(g) |-> RefreshedVersion(g)[key]]]]
    /\ Refresh(g)

-----------------------------------------------------------------------------
(* The end of a round: FixpointSwap and advanceFixpoint.                   *)

\* Mutant: the refinements channel accumulates like the facts.
MutantMerged ==
    [callables   |-> [g \in Graphs |-> prev.callables[g] \cup next.callables[g]],
     captured    |-> [g \in Graphs |-> prev.captured[g] \cup next.captured[g]],
     refinements |-> [g \in Graphs |->
        IF next.refinements[g] = None THEN prev.refinements[g] ELSE next.refinements[g]]]

\* Facts widen, refinements are replaced.
Merged ==
    [callables   |-> [g \in Graphs |-> prev.callables[g] \cup next.callables[g]],
     captured    |-> [g \in Graphs |-> prev.captured[g] \cup next.captured[g]],
     refinements |-> next.refinements]

\* Mutant: an entry that is gone from the new snapshot keeps its version.
MutantChangedKeys ==
    {key \in SnapshotKeys :
        /\ Entry(prev, scratch, key) # Entry(Merged, scratch, key)
        /\ Entry(Merged, scratch, key) # None}

\* versionChangedFacts: the entries that get a new version.
ChangedKeys ==
    {key \in SnapshotKeys : Entry(prev, scratch, key) # Entry(Merged, scratch, key)}

BudgetSpent == round >= Rounds

RoundOver == status = "running" /\ pos > Len(Order)

\* The fixpoint is reached when the merge changed no channel.  The entries a
\* swap changes get one new version between them: versions are only compared
\* per entry.
FixpointSwap ==
    /\ RoundOver
    /\ prev' = Merged
    /\ next' = NewInterprocState
    /\ scratch' = [g \in Graphs |-> {}]
    /\ version' = [key \in FactKeys |->
                      IF key \in ChangedKeys THEN nextVersion + 1 ELSE version[key]]
    /\ nextVersion' = nextVersion + 1
    /\ status' = IF Merged = prev THEN "converged"
                 ELSE IF BudgetSpent THEN "exhausted" ELSE "running"
    /\ IF status' = "running"
          THEN round' = round + 1 /\ pos' = 1
          ELSE UNCHANGED <<round, pos>>
    /\ UNCHANGED <<observed, cached, results, analysis, inference>>

-----------------------------------------------------------------------------
\* SeedFunctionRefinements writes into the snapshot the first round reads.
Init ==
    /\ \E seeds \in [Refines -> Refinements \cup {None}] :
          prev = [NewInterprocState EXCEPT !.refinements =
                     [g \in Graphs |-> IF g \in Refines THEN seeds[g] ELSE None]]
    /\ next = NewInterprocState
    /\ scratch = [g \in Graphs |-> {}]
    /\ observed = [g \in Graphs |-> {}]
    /\ version = [key \in FactKeys |-> 0]
    /\ nextVersion = 0
    /\ cached = [g \in Graphs |-> None]
    /\ results = [g \in Graphs |-> None]
    /\ round = 1
    /\ pos = 1
    /\ status = "running"
    /\ analysis = {}
    /\ inference = {}

Next == (\E g \in Graphs : Reuse(g) \/ Analyse(g)) \/ FixpointSwap

Spec == Init /\ [][Next]_vars

-----------------------------------------------------------------------------
Results(g) == [in : [Reads(g) -> SUBSET Types \cup Refinements \cup {None}],
               out : Outputs]

\* The store and the driver's bookkeeping have the shapes their code declares.
TypeOK ==
    /\ prev \in Snapshots
    /\ next \in Snapshots
    /\ scratch \in Facts
    /\ observed \in Facts
    /\ version \in [FactKeys -> Nat]
    /\ nextVersion \in Nat
    /\ round \in 1 .. Rounds
    /\ pos \in 1 .. Len(Order) + 1
    /\ status \in {"running", "converged", "exhausted"}

Visited(g) == \E i \in 1 .. pos - 1 : i <= Len(Order) /\ Order[i] = g

\* Every result the round holds, taken again or not, is the analysis of what
\* the round's snapshot and the parent's literal signatures now say: skipping
\* an analysis (driver.go:208) never shows.
ResultsAreCurrent ==
    status = "running" => \A g \in Graphs : Visited(g) => results[g].in = Inputs(g)

\* When the loop stops for convergence, the results it leaves are a fixpoint:
\* each was computed from the final snapshot, and the snapshot already holds
\* everything they say.
ConvergedIsFixpoint ==
    status = "converged" =>
        \A g \in Graphs :
           LET out == results[g].out
           IN  /\ \A key \in Reads(g) :
                     results[g].in[key] =
                        Entry(prev, [h \in Graphs |-> results[h].out.sigs], key)
               /\ out.sigs \subseteq prev.callables[g]
               /\ g # Root => out.ret \subseteq prev.callables[Parent[g]]
               /\ \A c \in Nested(g) : out.cap \subseteq prev.captured[c]
               /\ prev.refinements[g] = out.ref
=============================================================================
